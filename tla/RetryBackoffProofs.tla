------------------------- MODULE RetryBackoffProofs -------------------------
(* Neither backoff function overflows, both return the capped exponential    *)
(* delay and their loops are bounded, for every width and configuration.     *)
EXTENDS RetryBackoff, FiniteSetTheorems, TLAPS

\* What the loop keeps: the counter has not passed the attempt it counts to.
LoopInv ==
  /\ DelayInRange
  /\ kind \in {"frame", "item"}
  /\ count = 1 \/ count <= attempt

\* A delay that is not saturated can be doubled without passing the maximum.
LEMMA DoubledInRange ==
  ASSUME LoopInv, ~Saturated
  PROVE  Doubled(delay) = 2 * delay /\ 2 * delay \in delay..maximum
  <1>1. /\ maximum \in Nat /\ initial \in Nat /\ delay \in Nat /\ MaxDuration \in Nat
        /\ maximum <= MaxDuration /\ 0 < initial /\ initial <= delay /\ delay <= maximum
    BY WidthAssumption DEF LoopInv, DelayInRange
  <1>2. maximum \div 2 \in Nat /\ 2 * (maximum \div 2) <= maximum
    BY <1>1
  <1>3. delay <= maximum \div 2
    BY <1>1, <1>2 DEF Saturated, LoopInv
  <1>4. 2 * delay <= maximum
    BY <1>1, <1>2, <1>3
  <1> QED
    BY <1>1, <1>4 DEF Doubled

\* Every step keeps the loop invariant.
LEMMA NextLoopInv == LoopInv /\ [Next]_vars => LoopInv'
  <1> SUFFICES ASSUME LoopInv, [Next]_vars PROVE LoopInv'
    OBVIOUS
  <1>1. CASE Finish
    BY <1>1 DEF Finish, Return, LoopInv, DelayInRange
  <1>2. CASE Saturate
    BY <1>2, WidthAssumption DEF Saturate, Return, LoopInv, DelayInRange
  <1>3. CASE Double
    <2>1. /\ delay' = 2 * delay /\ 2 * delay \in delay..maximum /\ count' = count + 1
          /\ count < attempt /\ UNCHANGED <<kind, initial, maximum, attempt>>
      BY <1>3, DoubledInRange DEF Double
    <2> QED
      BY <2>1, WidthAssumption DEF LoopInv, DelayInRange
  <1>4. CASE UNCHANGED vars
    BY <1>4 DEF vars, LoopInv, DelayInRange
  <1> QED
    BY <1>1, <1>2, <1>3, <1>4 DEF Next

\* The delay of a retry never overflows and stays within the configured bounds,
\* whatever the width of a duration, the bounds and the attempt number.
THEOREM DelayNeverOverflows == Spec => []DelayInRange
  <1>1. Init => LoopInv
    BY WidthAssumption DEF Init, LoopInv, DelayInRange
  <1>2. LoopInv => DelayInRange
    BY DEF LoopInv
  <1> QED
    BY <1>1, <1>2, NextLoopInv, PTL DEF Spec

-----------------------------------------------------------------------------
(* Powers of two.  The provers know no arithmetic of ^; the library's theorem *)
(* on the number of subsets gives what the loops need.                        *)

\* 2^n counts the subsets of an interval of n numbers.
LEMMA PowerCounts ==
  ASSUME NEW n \in Nat
  PROVE  /\ IsFiniteSet(SUBSET (1..n))
         /\ Cardinality(SUBSET (1..n)) = 2 ^ n
         /\ 2 ^ n \in Nat
  <1>1. IsFiniteSet(1..n) /\ Cardinality(1..n) = n
    BY FS_Interval
  <1>2. IsFiniteSet(SUBSET (1..n)) /\ Cardinality(SUBSET (1..n)) = 2 ^ Cardinality(1..n)
    BY <1>1, FS_SUBSET
  <1> QED
    BY <1>1, <1>2, FS_CardinalityType

\* Nothing is doubled before the first iteration.
LEMMA PowerZero == 2 ^ 0 = 1
  <1>1. SUBSET (1..0) = {{}}
    OBVIOUS
  <1> QED
    BY <1>1, PowerCounts, FS_Singleton

\* One more iteration doubles: the subsets of 1..(n + 1) are those of 1..n and
\* as many that hold n + 1.
LEMMA PowerDoubles ==
  ASSUME NEW n \in Nat
  PROVE  2 ^ (n + 1) = 2 * 2 ^ n
  <1> DEFINE A == SUBSET (1..n)
             B == {T \cup {n + 1} : T \in A}
             f == [T \in A |-> T \cup {n + 1}]
  <1>1. SUBSET (1..(n + 1)) = A \cup B
    <2>1. ASSUME NEW T \in SUBSET (1..(n + 1)), n + 1 \in T PROVE T \in B
      <3>1. T \ {n + 1} \in A /\ T = (T \ {n + 1}) \cup {n + 1}
        BY <2>1
      <3> QED
        BY <3>1
    <2>2. ASSUME NEW T \in SUBSET (1..(n + 1)), n + 1 \notin T PROVE T \in A
      BY <2>2
    <2>3. ASSUME NEW T \in A
          PROVE  T \in SUBSET (1..(n + 1)) /\ T \cup {n + 1} \in SUBSET (1..(n + 1))
      BY <2>3
    <2>4. \A T \in SUBSET (1..(n + 1)) : T \in A \cup B
      <3> HIDE DEF A, B
      <3> QED
        BY <2>1, <2>2
    <2>5. \A T \in A \cup B : T \in SUBSET (1..(n + 1))
      BY <2>3
    <2> QED
      BY <2>4, <2>5
  <1>2. A \cap B = {}
    BY DEF A, B
  <1>3. f \in Bijection(A, B)
    <2>1. f \in [A -> B]
      OBVIOUS
    <2>2. ASSUME NEW S \in A, NEW T \in A, f[S] = f[T] PROVE S = T
      <3>1. n + 1 \notin S /\ n + 1 \notin T /\ S \cup {n + 1} = T \cup {n + 1}
        BY <2>2
      <3> QED
        BY <3>1
    <2>3. \A U \in B : \E T \in A : f[T] = U
      OBVIOUS
    <2> HIDE DEF A, B, f
    <2>4. f \in Injection(A, B)
      BY <2>1, <2>2 DEF Injection, IsInjective
    <2>5. f \in Surjection(A, B)
      BY <2>1, <2>3 DEF Surjection
    <2> QED
      BY <2>4, <2>5 DEF Bijection
  <1>4. IsFiniteSet(A) /\ Cardinality(A) = 2 ^ n /\ 2 ^ n \in Nat
    BY PowerCounts
  <1>5. IsFiniteSet(B) /\ Cardinality(B) = Cardinality(A)
    <2> HIDE DEF A, B, f
    <2> QED
      BY <1>3, <1>4, FS_Bijection DEF ExistsBijection
  <1>6. Cardinality(A \cup B) = Cardinality(A) + Cardinality(B)
    <2> HIDE DEF A, B
    <2>1. Cardinality(A \cup B) = Cardinality(A) + Cardinality(B) - Cardinality(A \cap B)
      BY <1>4, <1>5, FS_Union
    <2> QED
      BY <2>1, <1>2, <1>4, <1>5, FS_EmptySet
  <1>7. Cardinality(SUBSET (1..(n + 1))) = 2 ^ (n + 1)
    BY PowerCounts
  <1> HIDE DEF A, B
  <1>8. 2 ^ (n + 1) = 2 ^ n + 2 ^ n
    BY <1>1, <1>4, <1>5, <1>6, <1>7
  <1> QED
    BY <1>4, <1>8

\* More iterations never give less.
LEMMA PowerGrows ==
  ASSUME NEW m \in Nat, NEW n \in Nat, m <= n
  PROVE  2 ^ m <= 2 ^ n
  <1>1. SUBSET (1..m) \in SUBSET (SUBSET (1..n))
    OBVIOUS
  <1>2. Cardinality(SUBSET (1..m)) <= Cardinality(SUBSET (1..n))
    BY <1>1, PowerCounts, FS_Subset
  <1> QED
    BY <1>2, PowerCounts

-----------------------------------------------------------------------------
(* What the loops compute.                                                   *)

\* The loop has doubled once per iteration: until the function returns, its
\* delay is the exponential one of the count it has reached.
ExactInv ==
  /\ LoopInv
  /\ done \in BOOLEAN
  /\ ~done => delay = initial * 2 ^ (count - 1)
  /\ WorkIsBounded
  /\ MatchesReference

\* One iteration more doubles the exponential delay.
LEMMA NextPower ==
  ASSUME NEW i \in Nat, NEW c \in Nat \ {0}
  PROVE  /\ 2 ^ (c - 1) \in Nat /\ 2 ^ c \in Nat
         /\ i * 2 ^ c = 2 * (i * 2 ^ (c - 1))
  <1>1. c - 1 \in Nat /\ (c - 1) + 1 = c
    OBVIOUS
  <1>2. 2 ^ (c - 1) \in Nat /\ 2 ^ c \in Nat
    BY <1>1, PowerCounts
  <1>3. 2 ^ c = 2 * 2 ^ (c - 1)
    BY <1>1, PowerDoubles
  <1> QED
    BY <1>2, <1>3

\* A later attempt never waits less: the exponential delay is monotone.
LEMMA ExponentialGrows ==
  ASSUME NEW i \in Nat, NEW m \in Nat, NEW n \in Nat, m <= n
  PROVE  i * 2 ^ m <= i * 2 ^ n
  <1>1. 2 ^ m \in Nat /\ 2 ^ n \in Nat /\ 2 ^ m <= 2 ^ n
    BY PowerCounts, PowerGrows
  <1> QED
    BY <1>1

\* A delay that is saturated and would be doubled at least once more would pass
\* the maximum, or stop one below it when the halving of retryDelay rounds.
LEMMA SaturatedPasses ==
  ASSUME ExactInv, ~done, Saturated, count < attempt
  PROVE  /\ Exponential(attempt) \in Nat
         /\ Exponential(attempt) >= maximum
              \/ (kind = "item" /\ Exponential(attempt) = maximum - 1)
  <1>1. /\ maximum \in Nat /\ initial \in Nat /\ delay \in Nat /\ attempt \in Nat
        /\ count \in Nat \ {0} /\ kind \in {"frame", "item"} /\ delay <= maximum
        /\ delay = initial * 2 ^ (count - 1)
    BY WidthAssumption DEF ExactInv, LoopInv, DelayInRange
  <1>2. initial * 2 ^ count = 2 * delay
    BY <1>1, NextPower
  <1>3. attempt - 1 \in Nat /\ count <= attempt - 1
    BY <1>1
  <1>4. initial * 2 ^ count <= initial * 2 ^ (attempt - 1)
    BY <1>1, <1>3, ExponentialGrows
  <1>5. Exponential(attempt) = initial * 2 ^ (attempt - 1)
    BY <1>1 DEF Exponential
  <1>6. initial * 2 ^ (attempt - 1) \in Nat
    <2>1. 2 ^ (attempt - 1) \in Nat
      BY <1>3, PowerCounts
    <2> QED
      BY <2>1, <1>1
  <1>7. 2 * delay <= Exponential(attempt)
    BY <1>2, <1>4, <1>5
  <1>8. maximum \div 2 \in Nat /\ maximum <= 2 * (maximum \div 2) + 1
    BY <1>1
  <1>9. CASE kind = "frame"
    <2>1. delay >= maximum \/ delay > maximum \div 2
      BY <1>9 DEF Saturated
    <2>2. 2 * delay >= maximum
      BY <2>1, <1>1, <1>8
    <2> QED
      BY <2>2, <1>1, <1>5, <1>6, <1>7
  <1>10. CASE kind = "item"
    <2>1. delay >= maximum \div 2
      BY <1>10 DEF Saturated
    <2>2. 2 * delay >= maximum - 1
      BY <2>1, <1>1, <1>8
    <2>3. Exponential(attempt) \in Nat /\ Exponential(attempt) >= maximum - 1
      BY <2>2, <1>1, <1>5, <1>6, <1>7
    <2> QED
      BY <2>3, <1>1, <1>10
  <1> QED
    BY <1>1, <1>9, <1>10

\* A loop that runs out of attempts has computed the exponential delay.
LEMMA FinishedIsExact ==
  ASSUME ExactInv, ~done, count >= attempt
  PROVE  delay = Exponential(attempt) /\ delay <= maximum
  <1>1. /\ maximum \in Nat /\ initial \in Nat /\ delay \in Nat /\ attempt \in Nat
        /\ count \in Nat \ {0} /\ delay <= maximum /\ (count = 1 \/ count <= attempt)
        /\ delay = initial * 2 ^ (count - 1)
    BY WidthAssumption DEF ExactInv, LoopInv, DelayInRange
  <1>2. CASE attempt = 0
    <2>1. count - 1 = 0
      BY <1>1, <1>2
    <2>2. Exponential(attempt) = initial * 2 ^ 0
      BY <1>2 DEF Exponential
    <2> QED
      BY <2>1, <2>2, <1>1
  <1>3. CASE attempt # 0
    <2>1. attempt = count
      BY <1>1, <1>3
    <2> QED
      BY <2>1, <1>1, <1>3 DEF Exponential
  <1> QED
    BY <1>2, <1>3

\* Every step keeps it.
LEMMA NextExactInv == ExactInv /\ [Next]_vars => ExactInv'
  <1> SUFFICES ASSUME ExactInv, [Next]_vars PROVE ExactInv'
    OBVIOUS
  <1>1. LoopInv'
    BY NextLoopInv DEF ExactInv
  <1>2. /\ maximum \in Nat /\ initial \in Nat /\ delay \in Nat /\ attempt \in Nat
        /\ count \in Nat \ {0} /\ delay <= maximum
    BY WidthAssumption DEF ExactInv, LoopInv, DelayInRange
  <1>3. CASE Finish
    <2>1. /\ delay' = delay /\ done' = TRUE /\ UNCHANGED <<kind, initial, maximum, attempt, count>>
      BY <1>2, <1>3 DEF Finish, Return
    <2>2. delay = Exponential(attempt)
      BY <1>3, FinishedIsExact DEF Finish
    <2>3. Exponential(attempt)' = Exponential(attempt)
      BY <2>1 DEF Exponential
    <2>4. MatchesReference'
      BY <2>1, <2>2, <2>3, <1>2 DEF MatchesReference
    <2> QED
      BY <2>1, <2>4, <1>1 DEF ExactInv, WorkIsBounded
  <1>4. CASE Saturate
    <2>1. /\ delay' = maximum /\ done' = TRUE /\ UNCHANGED <<kind, initial, maximum, attempt, count>>
          /\ ~done /\ Saturated /\ count < attempt
      BY <1>4 DEF Saturate, Return
    <2>2. Exponential(attempt)' = Exponential(attempt)
      BY <2>1 DEF Exponential
    <2>3. MatchesReference'
      BY <2>1, <2>2, <1>2, SaturatedPasses DEF MatchesReference
    <2> QED
      BY <2>1, <2>3, <1>1 DEF ExactInv, WorkIsBounded
  <1>5. CASE Double
    <2>1. /\ delay' = 2 * delay /\ 2 * delay <= maximum /\ count' = count + 1
          /\ done' = done /\ ~done /\ UNCHANGED <<kind, initial, maximum, attempt>>
      BY <1>2, <1>5, DoubledInRange DEF Double, ExactInv
    <2>2. initial * 2 ^ count = 2 * delay
      BY <1>2, <2>1, NextPower DEF ExactInv
    <2>3. count' - 1 = count
      BY <2>1, <1>2
    <2> QED
      <3>1. (~done => delay = initial * 2 ^ (count - 1))' /\ WorkIsBounded'
        BY <2>1, <2>2, <2>3 DEF WorkIsBounded
      <3> QED
        BY <2>1, <3>1, <1>1 DEF ExactInv, MatchesReference
  <1>6. CASE UNCHANGED vars
    BY <1>6, <1>1 DEF vars, ExactInv, WorkIsBounded, MatchesReference, Exponential
  <1> QED
    BY <1>3, <1>4, <1>5, <1>6 DEF Next

\* A call starts with the delay of the first attempt.
LEMMA InitExactInv == Init => ExactInv
  <1> SUFFICES ASSUME Init PROVE ExactInv
    OBVIOUS
  <1>1. LoopInv /\ initial \in Nat /\ initial <= maximum
    BY WidthAssumption DEF Init, LoopInv, DelayInRange
  <1>2. initial * 2 ^ (count - 1) = initial
    BY <1>1, PowerZero DEF Init
  <1> QED
    BY <1>1, <1>2 DEF Init, ExactInv, WorkIsBounded, MatchesReference

\* What a call returns is the capped exponential delay, for a frame exactly and
\* for an item but for the rounding at an odd maximum.
THEOREM DelayMatchesReference == Spec => []MatchesReference
  <1>1. ExactInv => MatchesReference
    BY DEF ExactInv
  <1> QED
    BY <1>1, InitExactInv, NextExactInv, PTL DEF Spec

\* The loops run for as long as the exponential delay fits below the maximum and
\* no longer, however many attempts a peer that is away has cost.
THEOREM LoopIsBounded == Spec => []WorkIsBounded
  <1>1. ExactInv => WorkIsBounded
    BY DEF ExactInv
  <1> QED
    BY <1>1, InitExactInv, NextExactInv, PTL DEF Spec
=============================================================================
