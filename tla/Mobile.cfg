\* The session and messaging, which depends on it: three generations, two
\* module graphs, one readiness update.
SPECIFICATION FairSpec
CONSTANTS
  Order <- MCPair
  Deps <- MCPairDeps
  Critical = {"session"}
  MaxGen = 3
  MaxGraphs = 2
  MaxUpdates = 1
  MaxUpdateGen = 1
INVARIANTS
  ReplacedIsTornDown
  LiveNeedsDependencies
  ScopeMutationFenced
PROPERTIES
  StaleUpdateRejected
  FailedCleanupOutsideShell
  OperationEnds
CHECK_DEADLOCK FALSE
