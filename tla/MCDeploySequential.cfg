SPECIFICATION FairSpec
CONSTANTS
  Runs = {r1}
  NumSeries = 2
  Programs = {1, 2}
  ProgramOf <- MCOwnProgram
  GraduationSeries = {2}
  Histories <- MCLongHistories
  Maes = {1, 2, 4}
  MaxRebuilds = 2
  MaxReadFaults = 0
  MaxWriteFaults = 1
  MaxAborts = 0
INVARIANTS
  RetrainedWhenDue
PROPERTIES
  ChampionNeverRegresses
  StopsOnlyAtDiscontinued
  EvaluableSeriesGetForecast
