SPECIFICATION Spec
CONSTANTS
  LastPeriod = 2
  Pipelines = {p1, p2}
  Snapshots <- MCSnapshots
  CollegeOf <- MCCollegeOf
  YearLevels = {1, 2, 3, 4, 5, 6}
  MaxRefreshes = 2
  MaxStarts = 2
  MaxReloads = 1
  MaxCrashes = 1
  MaxModels = 1
INVARIANTS
  TypeOK
  VersionsTileTime
PROPERTIES
  LoadsOneBuild
  LoadsWholeStar
  LoadsWhatFits
CHECK_DEADLOCK FALSE
