---------------------------- MODULE RetryBackoff ----------------------------
(* The delay before a retry: RetryBackoff.Delay of the federation dispatcher  *)
(* ("frame") and retryDelay of the Device Inbox ("item"), loop by loop.       *)
(*                                                                            *)
(* Durations are signed integers of a fixed width that wrap around, and the   *)
(* attempt number comes from a column that nothing bounds for a frame. Each   *)
(* behaviour is one call: Init chooses what the constructors accept.          *)
EXTENDS Integers

CONSTANTS
  MaxDuration,     \* largest value of time.Duration
  MaxAttempt       \* bound: attempt numbers tried

ASSUME WidthAssumption ==
  /\ MaxDuration \in Nat \ {0}
  /\ MaxAttempt \in Nat

VARIABLES
  kind,      \* which of the two functions is called
  initial,   \* RetryBackoff.Initial, BaseRetryDelay
  maximum,   \* RetryBackoff.Maximum, MaxRetryDelay
  attempt,   \* the argument
  count,     \* the loop counter
  delay,     \* the local variable
  done       \* the function has returned delay

vars == <<kind, initial, maximum, attempt, count, delay, done>>

Durations == -(MaxDuration + 1)..MaxDuration

\* The product of a positive duration and two, in that width.
Doubled(d) == IF 2 * d > MaxDuration THEN 2 * d - 2 * (MaxDuration + 1) ELSE 2 * d

\* NewDispatcher and NewService refuse every other configuration.
Init ==
  /\ kind \in {"frame", "item"}
  /\ maximum \in 1..MaxDuration
  /\ initial \in 1..maximum
  /\ attempt \in 0..MaxAttempt
  /\ count = 1
  /\ delay = initial
  /\ done = FALSE

\* Mutation: the delay is compared with the maximum, not with half of it.
SaturatedLate == delay >= maximum

\* Mutation: both functions round as retryDelay does.
SaturatedAlike == delay >= maximum \div 2

\* The loop returns the maximum rather than double the delay.
Saturated ==
  IF kind = "frame"
  THEN delay >= maximum \/ delay > maximum \div 2
  ELSE delay >= maximum \div 2

Return(d) ==
  /\ delay' = d
  /\ done' = TRUE
  /\ UNCHANGED <<kind, initial, maximum, attempt, count>>

\* The loop ends; retryDelay caps what it has.
Finish ==
  /\ ~done /\ count >= attempt
  /\ Return(IF kind = "item" /\ delay > maximum THEN maximum ELSE delay)

\* Mutation: the loop goes on at the maximum for as long as there are attempts.
SaturateGoOn ==
  /\ ~done /\ count < attempt
  /\ Saturated
  /\ delay' = maximum
  /\ count' = count + 1
  /\ UNCHANGED <<kind, initial, maximum, attempt, done>>

Saturate ==
  /\ ~done /\ count < attempt
  /\ Saturated
  /\ Return(maximum)

Double ==
  /\ ~done /\ count < attempt
  /\ ~Saturated
  /\ delay' = Doubled(delay)
  /\ count' = count + 1
  /\ UNCHANGED <<kind, initial, maximum, attempt, done>>

Next == Finish \/ Saturate \/ Double

Spec == Init /\ [][Next]_vars

-----------------------------------------------------------------------------
(* Properties *)

\* The delay stays between the configured bounds at every iteration: doubling
\* never wraps around, so no retry is scheduled in the past or past the cap.
DelayInRange ==
  /\ maximum \in 1..MaxDuration /\ initial \in 1..maximum
  /\ attempt \in 0..MaxAttempt /\ count \in 1..MaxAttempt + 1
  /\ delay \in initial..maximum

\* The delay of the one-based attempt n, without a width.
Exponential(n) == initial * 2 ^ (IF n = 0 THEN 0 ELSE n - 1)

\* A frame waits exactly the capped exponential delay. An item does too, but
\* that retryDelay jumps to an odd maximum from one below it.
MatchesReference ==
  done =>
    LET e == Exponential(attempt)
        reference == IF e < maximum THEN e ELSE maximum IN
    \/ delay = reference
    \/ kind = "item" /\ delay = maximum /\ reference = maximum - 1

\* The number of iterations depends on the configured bounds alone, never on
\* the attempt number, which grows for as long as a peer is away.
WorkIsBounded == initial * 2 ^ (count - 1) <= maximum
=============================================================================
