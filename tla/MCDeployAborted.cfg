SPECIFICATION FairSpec
CONSTANTS
  Runs = {r1}
  NumSeries = 1
  Programs = {1}
  ProgramOf <- MCOneProgram
  GraduationSeries = {}
  Histories <- MCHistories
  Maes = {1, 4}
  MaxRebuilds = 1
  MaxReadFaults = 0
  MaxWriteFaults = 0
  MaxAborts = 1
PROPERTIES
  ChampionEventuallyPublished
