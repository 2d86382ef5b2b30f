CONSTANTS
  Total = 3
  EOF = 5
  Ids = {1, 2}
  MinPiece = 1
  TailMinPiece = 1
  TailThreshold = 1
  MaxPiece = 2
  Alignment = 1
  Overlap = 1
  PeerSlots = 2
  Solo = FALSE
  Ceiling = 2
  MaxAttempts = 1
  Streams = 2
  MailboxCap = 8
  MaxFailures = 2
  MaxPlans = 2
SPECIFICATION FairTransferSpec
INVARIANTS TransferTypeOK CreditedIsWritten NoOrphanClaim SlotsExact QuietFirstPlan
PROPERTY Ends
CHECK_DEADLOCK FALSE
