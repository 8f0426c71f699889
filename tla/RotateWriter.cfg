CONSTANTS
  Hours = 2
  MaxAgeDays = 2
  MaxTime = 9
SPECIFICATION Spec
INVARIANTS
  RecentLinesKept
  LinkNamesOpenFile
  LinesInTheirDay
