\* Every call returns: a find and a refresh racing for the write lock, contexts that may be cancelled.
SPECIFICATION FairSpec
CONSTANTS
  maths = maths  art = art  latin = latin
  f1 = f1  r1 = r1
  N = 2
  Known <- MCKnown
  Lists <- MCLists
  Find = {f1}
  Delete = {}
  Refresh = {r1}
  Purge = {}
  Fallback = TRUE
  Written = {"findStudents", "subjects", "statements"}
  DsnKeys = TRUE
  Cancellable = {f1, r1}
CHECK_DEADLOCK FALSE
INVARIANTS
  StudentRefreshed
PROPERTIES
  CallsReturn
