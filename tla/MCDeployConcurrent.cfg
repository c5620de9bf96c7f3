SPECIFICATION Spec
CONSTANTS
  Runs = {r1, r2}
  NumSeries = 1
  Programs = {1}
  ProgramOf <- MCOneProgram
  GraduationSeries = {1}
  Histories <- MCHistories
  Maes = {1, 4}
  MaxRebuilds = 1
  MaxReadFaults = 1
  MaxWriteFaults = 1
  MaxAborts = 1
INVARIANTS
  TypeOK
  OneChampionPerSeries
  ForecastsMatchRegistry
  TrainedSeriesHaveChampion
PROPERTIES
  RegistryIsHistory
  ImplementsBoard
SYMMETRY MCSymmetry
