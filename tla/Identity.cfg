\* One window with two accounts: two events of the user, of the server or of
\* another window, two operations in flight, failing native commands.
SPECIFICATION FairSpec
CONSTANTS
  Actors = {a, b}
  NoActor = nobody
  MaxTasks = 2
  MaxFlows = 2
  MaxUserFlows = 1
  MaxRevokes = 1
  MaxRemote = 1
  MaxEvents = 2
  Faults = TRUE
INVARIANTS LateProfileDropped
PROPERTIES StaleFenceStaysStale InBetweenEnds
CHECK_DEADLOCK FALSE
