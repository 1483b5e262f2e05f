\* Cancelling may happen at any time and a client may stop reading: what still comes to an end.
SPECIFICATION FairSpec
CONSTANTS
  t1 = t1  t2 = t2
  s1 = s1
  Tx = {t1, t2}
  Sub = {s1}
  NoTx = NoTx
  Cap = 1
  Made = {"newSub", "delSub", "newSatus", "w"}
  Cancellable = {t1}
  Closing = {}
CHECK_DEADLOCK FALSE
PROPERTIES
  AcceptedRunsUndisturbed
  CancelReleasesWorker
