\* DELETE does not find a transaction between its publication and its entry in the map.
SPECIFICATION Spec
CONSTANTS
  p1 = p1  p2 = p2  d1 = d1  d2 = d2  w1 = w1
  Push = {p1}
  Delete = {d1}
  Watch = {}
  Owner = Owner
  MapMade = TRUE
CHECK_DEADLOCK FALSE
PROPERTY NotFoundMeansUnknown
