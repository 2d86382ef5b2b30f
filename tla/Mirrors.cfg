CONSTANTS
  NumSources = 2
  NumPieces = 3
  SampleLen = 1
  MaxTasks = 2
  Streams = 2
  MaxTries = 1
  MaxFaults = 1
SPECIFICATION Spec
INVARIANTS MirrorsTypeOK AgreeUnlessBlind Bookkept
PROPERTY EndsOrRound
CHECK_DEADLOCK FALSE
