SPECIFICATION FairSpec
CONSTANTS
  State = {1, 2, 3, 4}
  NextCount = 3
  Models <- AllModels
INVARIANTS
  FindsReachable LevelsExact
PROPERTIES
  SearchEnds
CHECK_DEADLOCK FALSE
