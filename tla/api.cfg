\* A GET, a DELETE and a refresh of one student; their clients may leave.
SPECIFICATION ApiFairSpec
CONSTANTS
  maths = maths  art = art
  f1 = f1  d1 = d1  r1 = r1
  N = 1
  Known <- MCKnown
  Lists <- MCLists
  Find = {f1}
  Delete = {d1}
  Refresh = {r1}
  Purge = {r1}
  Fallback = TRUE
  Written = {"findStudents", "subjects", "statements"}
  DsnKeys = TRUE
  Refused = {"unauthorized", "conflict"}
  Cancellable = {f1, d1}
CHECK_DEADLOCK FALSE
INVARIANTS
  ApiTypeOK
  BegunDeleteDeletes
  NotFoundMeansMissing
PROPERTIES
  Answered
