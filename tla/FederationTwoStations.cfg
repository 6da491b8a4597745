\* Two Stations send to one receiver: conflicting identities, a corrupt row, a batch of two.
CONSTANTS
  f1 = f1
  f2 = f2
  f3 = f3
  f4 = f4
  w1 = w1
  w2 = w2
  Frames = {f1, f3, f4}
  Workers = {w1, w2}
  Station <- TwoStation
  Source <- TwoSource
  FrameID <- TwoID
  IdempotencyKey <- TwoKey
  Lane <- TwoLane
  Seqno <- TwoSeqno
  ExpiresAt <- TwoExpiresAt
  Corrupt = {f3}
  LeaseDuration = 1
  Delay <- LaneDelay
  BatchSize = 2
  MaxAttempt = 2
  MaxGeneration = 5
  MaxLag = 0
  MaxSkew = 0
  MaxTime = 3
  NoClaim = NoClaim
SPECIFICATION Spec
INVARIANTS DeliveredIsCommitted EffectOncePerIdentity
CHECK_DEADLOCK FALSE
