\* The worker reads w.states while Publish writes it.
SPECIFICATION Spec
CONSTANTS
  t1 = t1  t2 = t2  t3 = t3  s1 = s1  s2 = s2
  Tx = {t1, t2}
  Sub = {s1}
  NoTx = NoTx
  Cap = 1
  Made = {}
  Cancellable = {}
  Closing = {}
CHECK_DEADLOCK FALSE
INVARIANT NoMapRace
