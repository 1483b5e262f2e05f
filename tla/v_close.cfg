\* A second Close returns at once and a timed-out Close leaves the queue open.
SPECIFICATION Spec
CONSTANTS
  p1 = p1  p2 = p2  d1 = d1  d2 = d2  w1 = w1
  Push = {p1}
  Delete = {}
  Watch = {}
  Owner = Owner
  MapMade = TRUE
CHECK_DEADLOCK FALSE
INVARIANT CloseMeansClosed
