\* Four session epochs of two accounts, with up to four installers running.
SPECIFICATION FairSpec
CONSTANTS
  Actors = {alice, bob}
  NoActor = NoActor
  Critical <- MCCritical
  Idle <- MCIdle
  Deferred <- MCDeferred
  Early <- MCEarly
  Social = "social"
  MaxEpochs = 4
  MaxLoops = 4
  Faults = FALSE
INVARIANTS SingleFlight IdleReadyIsBootstrapped
PROPERTIES StaleResultDiscarded PipelineSettles
CHECK_DEADLOCK FALSE
