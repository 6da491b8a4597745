\* One lane of two frames and one dispatcher: settlement under fairness, and the
\* refinement of FederationChannel.
CONSTANTS
  f1 = f1
  f2 = f2
  f3 = f3
  f4 = f4
  w1 = w1
  w2 = w2
  Frames = {f1, f2}
  Workers = {w1}
  Station <- LaneStation
  Source <- LaneSource
  FrameID <- LaneID
  IdempotencyKey <- LaneKey
  Lane <- LaneLane
  Seqno <- LaneSeqno
  ExpiresAt <- LaneExpiresAt
  Corrupt = {}
  LeaseDuration = 1
  Delay <- LaneDelay
  BatchSize = 2
  MaxAttempt = 2
  MaxGeneration = 2
  MaxLag = 1
  MaxSkew = 1
  MaxTime = 4
  NoClaim = NoClaim
SPECIFICATION FairSpec
PROPERTIES EventuallySettled ImplementsChannel
CHECK_DEADLOCK FALSE
