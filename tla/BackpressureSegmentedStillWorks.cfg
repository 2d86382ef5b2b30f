SPECIFICATION Spec
CONSTANTS
  Tasks = {1, 2}
  PieceLen = 3
  Overlap = 1
  MaxFrame = 2
  MemLimit = 10
  Reserve = 0
  MaxBuffered = 6
  Ops = 2
  ByteUnits = 4
  MaxUpsets = 0
INVARIANT SegmentedStillWorks
CHECK_DEADLOCK FALSE
