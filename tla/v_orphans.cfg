\* A delete on a connection without the pragma leaves the subjects behind.
SPECIFICATION Spec
CONSTANTS
  maths = maths  art = art  latin = latin
  f1 = f1  d1 = d1  r1 = r1
  N = 1
  Known <- MCKnown
  Lists <- MCLists
  Find = {f1}
  Delete = {d1}
  Refresh = {r1}
  Purge = {r1}
  Fallback = TRUE
  Written = {"findStudents", "subjects", "statements"}
  DsnKeys = FALSE
  Cancellable = {}
CHECK_DEADLOCK FALSE
INVARIANT NoOrphanedTakes
