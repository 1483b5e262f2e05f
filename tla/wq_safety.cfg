\* The queue with the channels and the parent of a state in place: every
\* interleaving of two transactions, two subscribers and Close.
SPECIFICATION Spec
CONSTANTS
  t1 = t1  t2 = t2  s1 = s1  s2 = s2
  Tx = {t1, t2}
  Sub = {s1, s2}
  NoTx = NoTx
  Cap = 1
  Made = {"newSub", "delSub", "newSatus", "w"}
  Cancellable = {t1, t2}
  Closing = {s1, s2}
SYMMETRY Symmetry
CHECK_DEADLOCK FALSE
INVARIANTS
  TypeOK
  NoChannelPanic
  OneAtATime
  RanIffPromised
  StreamOrdered
  NoOrphanedReader
  UncancelledSaysWhy
  NilStateOnlyByCancel
PROPERTIES
  ImplementsLifecycle
  RunsInIdOrder
