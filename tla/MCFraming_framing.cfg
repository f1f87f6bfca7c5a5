SPECIFICATION Spec
CONSTANTS
  Characters <- Alphabet
  Contents <- Three
  MAXBUF = 20
  Junk <- Leftovers
INVARIANTS
  FirstUnderstood
  NothingInvented
  ReplyUnderstood
CHECK_DEADLOCK FALSE
