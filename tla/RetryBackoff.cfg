\* Durations of five bits and more attempts than any of them has doublings.
CONSTANTS
  MaxDuration = 15
  MaxAttempt = 9
SPECIFICATION Spec
INVARIANTS DelayInRange MatchesReference WorkIsBounded
CHECK_DEADLOCK FALSE
