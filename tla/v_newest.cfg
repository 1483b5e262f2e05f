\* A student whose subjects changed, but not their number, keeps the old ones.
SPECIFICATION Spec
CONSTANTS
  maths = maths  art = art  latin = latin
  f1 = f1  d1 = d1  r1 = r1
  N = 1
  Known <- MCKnown
  Lists <- MCLists
  Find = {}
  Delete = {}
  Refresh = {r1}
  Purge = {r1}
  Fallback = TRUE
  Written = {"findStudents", "subjects", "statements"}
  DsnKeys = TRUE
  Cancellable = {}
CHECK_DEADLOCK FALSE
INVARIANT NewestData
