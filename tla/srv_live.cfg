\* Close and the contexts of the transactions come to an end.
SPECIFICATION FairSpec
CONSTANTS
  p1 = p1  p2 = p2  d1 = d1  d2 = d2  w1 = w1
  Push = {p1, p2}
  Delete = {d1}
  Watch = {}
  Owner = Owner
  MapMade = TRUE
CHECK_DEADLOCK FALSE
PROPERTIES
  CloseReturns
  ContextsReleased
