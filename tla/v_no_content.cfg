\* A DELETE whose transaction never began answers 204.
SPECIFICATION ApiSpec
CONSTANTS
  maths = maths  art = art
  f1 = f1  d1 = d1  r1 = r1
  N = 1
  Known <- MCKnown
  Lists <- MCLists
  Find = {}
  Delete = {d1}
  Refresh = {}
  Purge = {}
  Fallback = TRUE
  Written = {"findStudents", "subjects", "statements"}
  DsnKeys = TRUE
  Refused = {"unauthorized", "conflict"}
  Cancellable = {}
CHECK_DEADLOCK FALSE
INVARIANT NoContentMeansDeleted
