\* Both exchanges, over everything engage may answer.
SPECIFICATION Spec
CONSTANTS
  CurrentAcademicYear = 2022
  YearLists <- MCYearLists
  Sheets <- MCSheets
  Statuses = {401, 403, 404, 500}
CHECK_DEADLOCK FALSE
INVARIANTS
  TypeOK
  YearsAsListed
  StudentAsOnSheet
  ParsersReturn
