SPECIFICATION Spec
CONSTANTS
  Tasks = {1, 2}
  PieceLen = 3
  Overlap = 1
  MaxFrame = 2
  MemLimit = 5
  Reserve = 0
  MaxBuffered = 2
  Ops = 2
  ByteUnits = 2
  MaxUpsets = 1
INVARIANTS BackpressureTypeOK MemoryExact CreditsExact InOrderAndKept
PROPERTY EndsOrStuck
CHECK_DEADLOCK FALSE
