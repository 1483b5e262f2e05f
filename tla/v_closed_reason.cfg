\* A cancelled transaction closes its subscribers without telling them why.
SPECIFICATION Spec
CONSTANTS
  t1 = t1  t2 = t2  t3 = t3  s1 = s1  s2 = s2
  Tx = {t1}
  Sub = {s1, s2}
  NoTx = NoTx
  Cap = 1
  Made = {"newSub", "delSub", "newSatus", "w"}
  Cancellable = {t1}
  Closing = {}
CHECK_DEADLOCK FALSE
INVARIANT ClosedSaysWhy
