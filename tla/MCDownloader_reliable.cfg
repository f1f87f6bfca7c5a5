SPECIFICATION FairSpec
CONSTANTS
  NU = 2
  NP = 4
  K = 2
  L = 1
  MaxRuns = 2
  Holdings <- AllSeeds
  Slow <- NoUploader
  UploaderFaults = FALSE
  ProcessFaults = FALSE

  
PROPERTIES
  Completes
  ImplementsTransfer
