\* The state Publish builds has no parent: cancelling a transaction panics in its goroutine.
SPECIFICATION Spec
CONSTANTS
  t1 = t1  t2 = t2  t3 = t3  s1 = s1  s2 = s2
  Tx = {t1}
  Sub = {s1}
  NoTx = NoTx
  Cap = 1
  Made = {}
  Cancellable = {t1}
  Closing = {}
CHECK_DEADLOCK FALSE
INVARIANT CancelIsSafe
