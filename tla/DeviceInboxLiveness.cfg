\* Items without receipts are all acknowledged.
CONSTANTS
  MaxItems = 3
  MaxUnacked = 2
  BatchLimit = 2
  MaxAttempts = 2
  MaxEpoch = 8
  MaxIncarnation = 2
  MaxFaults = 3
  Orphans = FALSE
  Receipted = {}
  Fragile = {}
  RejectCodes = {}
  Retryable = {}
  NoCall = NoCall
SPECIFICATION FairSpec
PROPERTY Drained
CHECK_DEADLOCK FALSE
