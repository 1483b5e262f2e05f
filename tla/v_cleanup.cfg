\* A Subscribe call that meets the end of its transaction keeps statesMu from the cleanup.
SPECIFICATION FairSpec
CONSTANTS
  t1 = t1  t2 = t2  t3 = t3  s1 = s1  s2 = s2
  Tx = {t1}
  Sub = {s1}
  NoTx = NoTx
  Cap = 1
  Made = {"newSub", "delSub", "newSatus", "w"}
  Cancellable = {}
  Closing = {}
CHECK_DEADLOCK FALSE
PROPERTY CleanupHappens
