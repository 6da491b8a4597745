\* Two applets, one of which fits the LRU, a clock of three instants and two
\* capability sessions.
SPECIFICATION Spec
CONSTANTS
    Applets = {a1, a2}
    NoApplet = NoApplet
    LruSize = 1
    MaxSuspended = 1
    HiddenWarmTtl = 1
    PausedTtl = 0
    SuspendedTtl = 0
    MaxNow = 2
    MaxSession = 2
    MaxWaiting = 1
    MaxUnloads = 1
    PressureLevels = {"moderate", "critical"}
SYMMETRY AppletPermutations
INVARIANTS
    SurfaceAgrees
    NoOrphanSession
    SweepChooses
    SweepSettles
PROPERTIES
    StaleSuspendRejected
CHECK_DEADLOCK FALSE
