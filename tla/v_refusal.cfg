\* The marksheet is refused, the mark service answers that there is none.
SPECIFICATION Spec
CONSTANTS
  CurrentAcademicYear = 2022
  YearLists <- MCYearLists
  Sheets <- MCSheets
  Statuses = {401, 403, 404, 500}
CHECK_DEADLOCK FALSE
PROPERTIES
  RefusalReported
