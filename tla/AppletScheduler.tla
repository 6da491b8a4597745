-------------------------- MODULE AppletScheduler --------------------------
(***************************************************************************)
(* The pure part of the applet kernel: the lifecycle state machine frozen  *)
(* in packages/applet-contract/src/lifecycle.ts and the decisions of       *)
(* packages/applet-kernel/src/resource-scheduler.ts.                       *)
(*                                                                         *)
(* A registry is a function from applets to instance records; an applet    *)
(* whose record is in state "cold" has no record (the orchestrator reports *)
(* an absent record the same way).  `order' is the insertion order of the  *)
(* registry's Map, a set of pairs: <<a, b>> is in it when a was inserted   *)
(* before b.  A stable sort leaves instances touched at the same time so.  *)
(***************************************************************************)
EXTENDS Integers, FiniteSets, Sequences

CONSTANTS
    Applets,         \* applet ids; an applet has one page, so one instance
    LruSize,         \* ResourcePolicy.lruSize
    MaxSuspended,    \* ResourcePolicy.maxSuspended
    HiddenWarmTtl,   \* ResourcePolicy.hiddenWarmTtlMs
    PausedTtl,       \* ResourcePolicy.pausedTtlMs
    SuspendedTtl     \* ResourcePolicy.suspendedTtlMs

ASSUME PolicyAssumption ==
    /\ IsFiniteSet(Applets)
    /\ LruSize \in Nat
    /\ MaxSuspended \in Nat
    /\ HiddenWarmTtl \in Nat
    /\ PausedTtl \in Nat
    /\ SuspendedTtl \in Nat

LifecycleStates ==
    {"cold", "materializing", "visible", "hidden-warm", "paused", "suspended"}

---------------------------------------------------------------------------
(* The transition table. *)

TransitionRules ==
    [launch  |-> [from |-> {"cold"}, to |-> "materializing"],
     ready   |-> [from |-> {"materializing"}, to |-> "visible"],
     show    |-> [from |-> {"hidden-warm", "paused", "suspended"}, to |-> "visible"],
     hide    |-> [from |-> {"visible"}, to |-> "hidden-warm"],
     pause   |-> [from |-> {"visible", "hidden-warm"}, to |-> "paused"],
     suspend |-> [from |-> {"hidden-warm", "paused"}, to |-> "suspended"],
     restore |-> [from |-> {"suspended"}, to |-> "visible"]]

\* Context-sensitive: the orchestrator always resumes to visible.
ResumeRule == [from |-> {"paused"}, to |-> "visible"]

RuleOf(event) == IF event = "resume" THEN ResumeRule ELSE TransitionRules[event]

\* Mutation: suspend is accepted from every state.
IsValidTransitionLoose(from, event) == event = "suspend" \/ from \in RuleOf(event).from

IsValidTransition(from, event) == from \in RuleOf(event).from

NextState(event) == RuleOf(event).to

---------------------------------------------------------------------------
(* Resource decisions. *)

IsWarmState(state) == state \in {"visible", "hidden-warm", "paused"}

\* The members of S from the first to the last, `before' being a strict total
\* order on them: the k-th has k - 1 members before it.
InOrder(S, before(_, _)) ==
    [k \in 1..Cardinality(S) |->
        CHOOSE a \in S : Cardinality({b \in S : before(b, a)}) = k - 1]

\* Mutation: youngest first.
OlderReversed(reg, order, a, b) ==
    \/ reg[a].lastTouchedAt > reg[b].lastTouchedAt
    \/ /\ reg[a].lastTouchedAt = reg[b].lastTouchedAt
       /\ <<a, b>> \in order

\* Array.prototype.sort with byLastTouchedAsc is stable.
Older(reg, order, a, b) ==
    \/ reg[a].lastTouchedAt < reg[b].lastTouchedAt
    \/ /\ reg[a].lastTouchedAt = reg[b].lastTouchedAt
       /\ <<a, b>> \in order

\* The n oldest members of S: sort(byLastTouchedAsc).slice(0, n).
Oldest(reg, order, S, n) ==
    {a \in S : Cardinality({b \in S : Older(reg, order, b, a)}) < n}

TtlSuspend(reg, now) ==
    {a \in Applets :
        \/ reg[a].state = "hidden-warm" /\ now - reg[a].lastHiddenAt > HiddenWarmTtl
        \/ reg[a].state = "paused" /\ now - reg[a].lastTouchedAt > PausedTtl}

TtlDestroy(reg, now) ==
    {a \in Applets : reg[a].state = "suspended" /\ now - reg[a].lastTouchedAt > SuspendedTtl}

\* Warm instances the TTL pass left alone.
Warm(reg, now) == {a \in Applets : IsWarmState(reg[a].state)} \ TtlSuspend(reg, now)

\* Mutation: one too few.
LruEvictShort(reg, order, now) ==
    Oldest(reg, order,
           {a \in Warm(reg, now) : reg[a].state # "visible"},
           Cardinality(Warm(reg, now)) - LruSize - 1)

LruEvict(reg, order, now) ==
    Oldest(reg, order,
           {a \in Warm(reg, now) : reg[a].state # "visible"},
           Cardinality(Warm(reg, now)) - LruSize)

\* Suspended instances that survive the TTL pass.
OldSuspended(reg, now) ==
    {a \in Applets : reg[a].state = "suspended"} \ TtlDestroy(reg, now)

SweepSuspend(reg, order, now) == TtlSuspend(reg, now) \cup LruEvict(reg, order, now)

SuspendedOverflow(reg, order, now) ==
    Oldest(reg, order, OldSuspended(reg, now),
           Cardinality(OldSuspended(reg, now) \cup SweepSuspend(reg, order, now))
               - MaxSuspended)

SweepDestroy(reg, order, now) ==
    TtlDestroy(reg, now) \cup SuspendedOverflow(reg, order, now)

Event(type, a, at) == [type |-> type, applet |-> a, at |-> at]

EventsInOrder(type, S, order, at) ==
    LET members == InOrder(S, LAMBDA a, b : <<a, b>> \in order)
    IN  [k \in 1..Len(members) |-> Event(type, members[k], at)]

EventsByAge(type, S, reg, order, at) ==
    LET members == InOrder(S, LAMBDA a, b : Older(reg, order, a, b))
    IN  [k \in 1..Len(members) |-> Event(type, members[k], at)]

\* The TTL pass walks the registry once, so its two kinds of events mix.
TtlEvents(reg, order, now) ==
    LET members == InOrder(TtlSuspend(reg, now) \cup TtlDestroy(reg, now),
                           LAMBDA a, b : <<a, b>> \in order)
    IN  [k \in 1..Len(members) |->
            Event(IF members[k] \in TtlDestroy(reg, now) THEN "destroy" ELSE "suspend",
                  members[k], now)]

Sweep(reg, order, now) ==
    TtlEvents(reg, order, now)
        \o EventsByAge("suspend", LruEvict(reg, order, now), reg, order, now)
        \o EventsByAge("destroy", SuspendedOverflow(reg, order, now), reg, order, now)

MemoryPressureLevels == {"low", "moderate", "critical"}

OnMemoryPressure(level, reg, order, now) ==
    CASE level = "low" -> <<>>
      [] level = "moderate" ->
            EventsByAge("destroy",
                        Oldest(reg, order, {a \in Applets : reg[a].state = "suspended"}, 1),
                        reg, order, now)
      [] level = "critical" ->
            EventsInOrder("destroy", {a \in Applets : reg[a].state \notin {"cold", "visible"}},
                          order, now)
============================================================================
