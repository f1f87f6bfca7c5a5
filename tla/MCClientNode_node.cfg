SPECIFICATION FairSpec
CONSTANTS
  c1 = c1
  c2 = c2
  a = a
  b = b
  o = o
  Peers = {c1, c2}
  Own = {o}
  Fetched = {a, b}
  NP = 2
  MayBeStale = {a}
  PeerFaults = TRUE
  Casts <- Some
  MaxFetches = 1
  MaxDownloads = 2
INVARIANTS
  TypeOK
  ReplyToAsker
  
  

  
CHECK_DEADLOCK FALSE
