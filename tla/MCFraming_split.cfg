SPECIFICATION Spec
CONSTANTS
  Characters <- Alphabet
  Contents <- One
  MAXBUF = 20
  Junk <- Leftovers
INVARIANTS
  PiecesPutTogether
CHECK_DEADLOCK FALSE
