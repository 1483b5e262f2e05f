\* A find, a delete and a refresh over two students, with the pragma on one connection only.
SPECIFICATION Spec
CONSTANTS
  maths = maths  art = art  latin = latin
  f1 = f1  d1 = d1  r1 = r1
  N = 2
  Known <- MCKnown
  Lists <- MCLists
  Find = {f1}
  Delete = {d1}
  Refresh = {r1}
  Purge = {r1}
  Fallback = TRUE
  Written = {"findStudents", "subjects", "statements"}
  DsnKeys = FALSE
  Cancellable = {}
CHECK_DEADLOCK FALSE
INVARIANTS
  TypeOK
  StudentRefreshed
PROPERTIES
  ImplementsStore
  NoStaleSave
