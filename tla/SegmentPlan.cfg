CONSTANTS
  Total = 5
  EOF = 7
  Ids = {1, 2, 3}
  MinPiece = 2
  TailMinPiece = 1
  TailThreshold = 3
  MaxPiece = 4
  Alignment = 2
  Overlap = 1
  PeerSlots = 2
  Solo = FALSE
  Ceiling = 3
  MaxAttempts = 2
SPECIFICATION Spec
INVARIANTS TypeOK DisjointOwners ClaimAccounting OneStream
PROPERTIES CompletedGrows OnlyTailIsStolen
