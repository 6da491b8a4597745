\* A receipted item whose acknowledgement was lost.
CONSTANTS
  MaxItems = 2
  MaxUnacked = 2
  BatchLimit = 2
  MaxAttempts = 2
  MaxEpoch = 6
  MaxIncarnation = 1
  MaxFaults = 1
  Orphans = TRUE
  Receipted = {1, 2}
  Fragile = {}
  RejectCodes = {}
  Retryable = {}
  NoCall = NoCall
SPECIFICATION FairSpec
PROPERTY AckResent
CHECK_DEADLOCK FALSE
