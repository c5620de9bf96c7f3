SPECIFICATION Spec
CONSTANTS
  Batches <- MCBatches
  Years = {2021}
  BufferYears = 2
  MaxRefreshes = 2
  MaxRuns = 3
  MaxLoads = 1
  MaxCrashes = 1
INVARIANTS
  TypeOK
  RerunSettles
  NothingLostOnFirstRun
CHECK_DEADLOCK FALSE
