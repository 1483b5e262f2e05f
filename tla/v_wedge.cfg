\* Cancelling one transaction between the look-up and the first status stops the worker for every other.
SPECIFICATION FairSpec
CONSTANTS
  t1 = t1  t2 = t2  t3 = t3  s1 = s1  s2 = s2
  Tx = {t1, t2}
  Sub = {}
  NoTx = NoTx
  Cap = 1
  Made = {"newSub", "delSub", "newSatus", "w"}
  Cancellable = {t1}
  Closing = {}
CHECK_DEADLOCK FALSE
PROPERTY AcceptedRuns
