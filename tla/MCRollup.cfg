SPECIFICATION FairSpec
CONSTANTS
  Programs = {2, 3}
  Colleges = {"ccs", "cba"}
  CollegeOf <- MCCollegeOf
  Campus = "campus"
  Periods = {3, 4}
  Rollups = {r1, r2}
  Overlapping = TRUE
  MaxModels = 3
  MaxAborts = 1
INVARIANTS
  TypeOK
  NoProgramCountedTwice
PROPERTIES
  TotalsBecomeCurrent
