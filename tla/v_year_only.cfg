\* The marks of a year: the nil term is dereferenced.
SPECIFICATION Spec
CONSTANTS
  f1 = f1  d1 = d1  r1 = r1
  Subjects = {"maths", "art"}
  Sheets <- MCSheets
  Ranges <- MCRanges
  Asked <- MCAsked
  Ids = {1}
  Find = {f1}
  Delete = {}
  Refresh = {}
  Fallback = TRUE
  Written = {"findMarks", "sheet", "owner", "statements"}
  Cancellable = {}
CHECK_DEADLOCK FALSE
INVARIANTS
  LocalDataProvided
