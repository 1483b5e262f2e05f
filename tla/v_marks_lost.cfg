\* A refresh that added marks returns nil and has no Commit.
SPECIFICATION Spec
CONSTANTS
  f1 = f1  d1 = d1  r1 = r1
  Subjects = {"maths", "art"}
  Sheets <- MCSheets
  Ranges <- MCRanges
  Asked <- MCAsked
  Ids = {1}
  Find = {}
  Delete = {}
  Refresh = {r1}
  Fallback = TRUE
  Written = {"findMarks", "sheet", "owner", "statements"}
  Cancellable = {}
CHECK_DEADLOCK FALSE
PROPERTIES
  RefreshTakesEffect
