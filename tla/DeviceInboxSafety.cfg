\* One device: crashes, lost and late requests, receipts, rejections and rotten payloads.
CONSTANTS
  MaxItems = 3
  MaxUnacked = 2
  BatchLimit = 2
  MaxAttempts = 2
  MaxEpoch = 6
  MaxIncarnation = 2
  MaxFaults = 2
  Orphans = TRUE
  Receipted = {1, 2, 3}
  Fragile = {1, 2}
  RejectCodes = {"retry_later", "unsupported"}
  Retryable = {"retry_later"}
  NoCall = NoCall
SPECIFICATION Spec
INVARIANTS AckedIsConsumed ConsumedInOrder CursorLead AckedPrefix OutcomeFromHolder
PROPERTY LaneAdvances
CHECK_DEADLOCK FALSE
