SPECIFICATION Spec
CONSTANTS
  c1 = c1
  c2 = c2
  a = a
  b = b
  o = o
  Peers = {c1}
  Own = {}
  Fetched = {a}
  NP = 2
  MayBeStale = {}
  PeerFaults = FALSE
  Casts <- Single
  MaxFetches = 1
  MaxDownloads = 1
INVARIANTS
  AnnouncedServed
CHECK_DEADLOCK FALSE
