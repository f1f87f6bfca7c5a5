SPECIFICATION Spec
CONSTANTS
  u1 = u1
  u2 = u2
  Users = {u1, u2}
  Names = {n}
  Size = 2
  MaxCmds <- OneAndThree
  Menu <- TwoPublishers
  Careless = TRUE
  Faults = TRUE
INVARIANTS
  TypeOK
  ReplyForMe
  HoldersListed
  
PROPERTIES
  PeersFiled
  Answered
CHECK_DEADLOCK FALSE
