SPECIFICATION Spec
CONSTANTS
  NumUnits = 2
  SemesterScoped = {2}
  Contents <- MCContents
  Suspect <- MCSuspect
  Backends = {"local", "minio"}
  MaxRuns = 3
  MaxChanges = 1
  MaxLosses = 1
  MaxFaults = 1
INVARIANTS
  TypeOK
  OneSuccessPerUnit
  ReportedUnitsStored
PROPERTIES
  SucceededAssetIsComplete
  RerunAddsNothing
  ImplementsStore
CHECK_DEADLOCK FALSE
