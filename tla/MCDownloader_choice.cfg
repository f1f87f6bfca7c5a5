SPECIFICATION Spec
CONSTANTS
  NU = 2
  NP = 2
  K = 1
  L = 1
  MaxRuns = 1
  Holdings <- AnyHoldings
  Slow <- NoUploader
  UploaderFaults = FALSE
  ProcessFaults = FALSE
INVARIANTS
  ChosenHolds
CHECK_DEADLOCK FALSE
