SPECIFICATION Spec
CONSTANTS
  j1 = j1
  j2 = j2
  Jobs = {j1, j2}
  Stages <- MCStages
  Needs <- MCNeeds
  Once <- MCOnce
  MaxBuilds = 2
  MaxErrors = 1
  MaxCrashes = 1
  MaxDrops = 1
SYMMETRY MCSymmetry
CHECK_DEADLOCK FALSE
INVARIANTS
  TypeOK
  FeaturesAreWhatTheLogSays
  ReturnMeansRebuilt
