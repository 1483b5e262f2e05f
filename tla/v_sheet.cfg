\* A sheet that has a mark, read to its end: the mark is not returned.
SPECIFICATION Spec
CONSTANTS
  CurrentAcademicYear = 2022
  YearLists <- MCYearLists
  Sheets <- MCSheets
  Statuses = {401, 403, 404, 500}
CHECK_DEADLOCK FALSE
INVARIANTS
  MarksRead
