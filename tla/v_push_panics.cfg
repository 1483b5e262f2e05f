\* NewServer makes no map: every push panics after it has published.
SPECIFICATION Spec
CONSTANTS
  p1 = p1  p2 = p2  d1 = d1  d2 = d2  w1 = w1
  Push = {p1}
  Delete = {}
  Watch = {}
  Owner = Owner
  MapMade = FALSE
CHECK_DEADLOCK FALSE
INVARIANT PushReturns
