SPECIFICATION Spec
CONSTANTS
  BLOCK = 3
  IntRange = 8
  LinesPerRead = 4
  Largest = 18
  Sizes <- UpToLargest
INVARIANTS
  ExpectedIsServed
  WholeFile
  SidesAgree
  DigestsInPlace
