SPECIFICATION Spec
CONSTANTS
  LastPeriod = 2
  Pipelines = {p1}
  Snapshots <- Good
  CollegeOf <- MCCollegeOf
  YearLevels = {1, 2, 3, 4, 5, 6}
  MaxRefreshes = 1
  MaxStarts = 2
  MaxReloads = 0
  MaxCrashes = 0
  MaxModels = 1
INVARIANTS
  ReferencesKeepMeaning
CHECK_DEADLOCK FALSE
