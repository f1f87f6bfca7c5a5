SPECIFICATION Spec
CONSTANTS
  NU = 2
  NP = 3
  K = 2
  L = 1
  MaxRuns = 2
  Holdings <- MixedHoldings
  Slow <- LastUploader
  UploaderFaults = TRUE
  ProcessFaults = TRUE
INVARIANTS
  TypeOK
  OneExchange
  InOrderAppend
  FreshDownloadRight
PROPERTIES
  DonePieceKept
CHECK_DEADLOCK FALSE
