SPECIFICATION Spec
CONSTANTS
  Pipelines = {p1}
  NumUnits = 4
  EntityOf <- MCEntityOf
  Files <- MCFiles
  Raw <- MCRaw
  LastSemester = 2
  MaxIngests = 5
  MaxStarts = 2
  MaxResumes = 1
  MaxCrashes = 1
INVARIANTS
  TypeOK
  GoldReadsValidated
  LatestIngestedWins
  NothingDroppedOnFullRuns
  FailClosedOnFullRuns
CHECK_DEADLOCK FALSE
