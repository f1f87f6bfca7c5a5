SPECIFICATION FairSpec
CONSTANTS
  CLIENT_NUMBER = 3
  PIECES_NUMBER = 6
  UP_SLOT_FRIEND_SIZE = 1
  UP_SLOT_PASSBY_SIZE = 1
INVARIANTS
  TypeOK
  GodKnows
  NamedOnce
  RarestExists
  Friendship
  LedgersAgree
  FetchedOnce
PROPERTIES
  OwnedForEver
  EveryoneGetsAll
