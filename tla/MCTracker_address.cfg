SPECIFICATION Spec
CONSTANTS
  u1 = u1
  u2 = u2
  Users = {u1, u2}
  Names = {n}
  Size = 1
  MaxCmds <- TwoEach
  Menu <- TwoPublishers
  Careless = FALSE
  Faults = FALSE
INVARIANTS
  OwnAddress
CHECK_DEADLOCK FALSE
