\* Two dispatchers of one Station and one ordered lane of two frames.
CONSTANTS
  f1 = f1
  f2 = f2
  f3 = f3
  f4 = f4
  w1 = w1
  w2 = w2
  Frames = {f1, f2}
  Workers = {w1, w2}
  Station <- LaneStation
  Source <- LaneSource
  FrameID <- LaneID
  IdempotencyKey <- LaneKey
  Lane <- LaneLane
  Seqno <- LaneSeqno
  ExpiresAt <- LaneExpiresAt
  Corrupt = {}
  LeaseDuration = 1
  Delay <- LaneDelay
  BatchSize = 2
  MaxAttempt = 2
  MaxGeneration = 4
  MaxLag = 1
  MaxSkew = 1
  MaxTime = 3
  NoClaim = NoClaim
SPECIFICATION Spec
INVARIANTS EffectAtMostOnce LaneGate LateOnlyIfGivenUp LeaseExclusive
PROPERTY SettledForever
SYMMETRY Symmetry
CHECK_DEADLOCK FALSE
