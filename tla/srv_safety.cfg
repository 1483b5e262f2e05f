\* A push, two deletes, one websocket and the owner of the server, in every order.
SPECIFICATION Spec
CONSTANTS
  p1 = p1  p2 = p2  d1 = d1  d2 = d2  w1 = w1
  Push = {p1}
  Delete = {d1, d2}
  Watch = {w1}
  Owner = Owner
  MapMade = TRUE
SYMMETRY Symmetry
CHECK_DEADLOCK FALSE
INVARIANTS
  TypeOK
  QueueClosedLast
  PopulatedId
  OneCancel
  LiveIsCancellable
