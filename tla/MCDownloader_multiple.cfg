SPECIFICATION FairSpec
CONSTANTS
  NU = 1
  NP = 3
  K = 1
  L = 0
  MaxRuns = 1
  Holdings <- AllSeeds
  Slow <- NoUploader
  UploaderFaults = FALSE
  ProcessFaults = FALSE
PROPERTIES
  RequestAnswered
CHECK_DEADLOCK FALSE
