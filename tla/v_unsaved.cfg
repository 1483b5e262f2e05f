\* A student that could not be saved is returned as if it was.
SPECIFICATION Spec
CONSTANTS
  maths = maths  art = art  latin = latin
  f1 = f1  d1 = d1  r1 = r1
  N = 1
  Known <- MCKnown
  Lists <- MCLists
  Find = {f1}
  Delete = {d1}
  Refresh = {r1}
  Purge = {r1}
  Fallback = TRUE
  Written = {"findStudents", "subjects", "statements"}
  DsnKeys = TRUE
  Cancellable = {}
CHECK_DEADLOCK FALSE
PROPERTY SavedBeforeReturned
