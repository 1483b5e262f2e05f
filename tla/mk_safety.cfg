\* A find, a delete and a refresh, all at once.
SPECIFICATION FairSpec
CONSTANTS
  f1 = f1  d1 = d1  r1 = r1
  Subjects = {"maths", "art"}
  Sheets <- MCSheets
  Ranges <- MCRanges
  Asked <- MCAsked
  Ids = {1}
  Find = {f1}
  Delete = {d1}
  Refresh = {r1}
  Fallback = TRUE
  Written = {"findMarks", "sheet", "owner", "statements"}
  Cancellable = {r1}
CHECK_DEADLOCK FALSE
INVARIANTS
  TypeOK
  MarkForEachNewRow
PROPERTIES
  DeletedByTheCall
  MarksOfSomebody
  CallsReturn
