CONSTANTS
  Bytes = 9
  HeaderSize = 1
  Modulus = 16
  Requests = {0, 2, 3, 15}
  MaxOvercounts = 1
SPECIFICATION MCSpec
INVARIANTS
  TypeOK
  ClashesExplained
  PiecesApart
  NothingLost
  Coalesced
CHECK_DEADLOCK FALSE
