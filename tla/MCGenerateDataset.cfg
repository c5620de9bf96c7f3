SPECIFICATION Spec
CONSTANTS
  Programs = {"draft", "arch", "it"}
  CollegeOf <- MCCollegeOf
  Duration <- MCDuration
  ExtraYears = 2
  BufferYears = 2
  Cohorts = {0, 1}
  Plans <- MCPlans
  ExpectedYears = {0}
  ExpectedLabels = {1}
  MaxCrashes = 1
  MaxNoise = 1
INVARIANTS
  TypeOK
  RecordsTellOneStory
  CleanRowsPassSilver
  DiskHoldsTheRun
  PassedManifestIsSound
CHECK_DEADLOCK FALSE
