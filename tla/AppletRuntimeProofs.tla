------------------------ MODULE AppletRuntimeProofs ------------------------
(***************************************************************************)
(* Theorems about AppletRuntime, for every set of applets, every resource  *)
(* policy and every number of loads, unloads and sessions in flight.       *)
(***************************************************************************)
EXTENDS AppletRuntime, FiniteSetTheorems, WellFoundedInduction, TLAPS

-----------------------------------------------------------------------------
(* Types, and the insertion order of the registry.                           *)

Instances ==
    [state : LifecycleStates, session : Nat, lastHiddenAt : Nat, lastTouchedAt : Nat]

Surfaces == [host : Nat, visible : BOOLEAN, detached : BOOLEAN]

KernelEvents == [type : {"suspend", "destroy"}, applet : Applets, at : Nat]

Typed ==
    /\ registry \in [Applets -> Instances]
    /\ order \in SUBSET (Applets \X Applets)
    /\ surface \in [Applets -> Surfaces]
    /\ manager \in [Applets -> Nat]
    /\ load \in [Applets -> {"idle", "verify", "create"}]
    /\ waiting \in [Applets -> Nat]
    /\ unloading \in [Applets -> [Origins -> Nat]]
    /\ lease \in SUBSET Applets
    /\ foreground \in Applets \cup {NoApplet}
    /\ batch \in [Timers -> Seq(KernelEvents)]
    /\ now \in Nat
    /\ minted \in Nat

\* The insertion order is a strict total order of the registered applets.
Ordered(ord, S) ==
    /\ \A e \in ord : e[1] \in S /\ e[2] \in S
    /\ \A x \in S : <<x, x>> \notin ord
    /\ \A x, y \in S : x # y => <<x, y>> \in ord \/ <<y, x>> \in ord
    /\ \A x, y, z \in S : <<x, y>> \in ord /\ <<y, z>> \in ord => <<x, z>> \in ord

RegisteredApplets == {a \in Applets : Registered(a)}

TypeInv == Typed /\ Ordered(order, RegisteredApplets)

-----------------------------------------------------------------------------
(* Rank in a finite strict total order.                                      *)

StrictTotalOrder(R, S) ==
    /\ \A x \in S : <<x, x>> \notin R
    /\ \A x, y \in S : x # y => <<x, y>> \in R \/ <<y, x>> \in R
    /\ \A x, y, z \in S : <<x, y>> \in R /\ <<y, z>> \in R => <<x, z>> \in R

Before(R, S, x) == {y \in S : <<y, x>> \in R}

\* What is before something is a part of it with one member less at least.
LEMMA RankGrows ==
    ASSUME NEW S, IsFiniteSet(S), NEW R, StrictTotalOrder(R, S),
           NEW x \in S, NEW y \in S, <<x, y>> \in R
    PROVE  /\ Cardinality(Before(R, S, x)) \in Nat
           /\ Cardinality(Before(R, S, y)) \in Nat
           /\ Cardinality(Before(R, S, x)) < Cardinality(Before(R, S, y))
<1>1. Before(R, S, x) \subseteq Before(R, S, y)
  BY DEF Before, StrictTotalOrder
<1>2. x \in Before(R, S, y) /\ x \notin Before(R, S, x)
  BY DEF Before, StrictTotalOrder
<1>3. IsFiniteSet(Before(R, S, x)) /\ IsFiniteSet(Before(R, S, y))
  <2>1. Before(R, S, x) \in SUBSET S /\ Before(R, S, y) \in SUBSET S
    BY DEF Before
  <2> QED
    BY <2>1, FS_Subset
<1>4. /\ Cardinality(Before(R, S, x)) <= Cardinality(Before(R, S, y))
      /\ Cardinality(Before(R, S, y)) # Cardinality(Before(R, S, x))
  BY <1>1, <1>2, <1>3, FS_Subset
<1> QED
  BY <1>3, <1>4, FS_CardinalityType

\* Each number below the size of S is the rank of a member: ranks are distinct
\* and there are as many as members.
LEMMA RankExists ==
    ASSUME NEW S, IsFiniteSet(S), NEW R, StrictTotalOrder(R, S),
           NEW k \in 1..Cardinality(S)
    PROVE  \E x \in S : Cardinality(Before(R, S, x)) = k - 1
<1> DEFINE n == Cardinality(S)
           rank == [x \in S |-> Cardinality(Before(R, S, x))]
<1>1. n \in Nat
  BY FS_CardinalityType
<1>2. ASSUME NEW x \in S PROVE rank[x] \in 0..(n - 1)
  <2>1. Before(R, S, x) \in SUBSET S /\ x \notin Before(R, S, x)
    BY DEF Before, StrictTotalOrder
  <2>2. /\ IsFiniteSet(Before(R, S, x)) /\ Cardinality(Before(R, S, x)) <= n
        /\ n # Cardinality(Before(R, S, x))
    BY <2>1, FS_Subset
  <2>3. Cardinality(Before(R, S, x)) \in Nat
    BY <2>2, FS_CardinalityType
  <2> HIDE DEF n
  <2> QED
    BY <2>2, <2>3, <1>1
<1>3. ASSUME NEW x \in S, NEW y \in S, rank[x] = rank[y] PROVE x = y
  <2> SUFFICES ASSUME x # y PROVE FALSE
    OBVIOUS
  <2>1. <<x, y>> \in R \/ <<y, x>> \in R
    BY DEF StrictTotalOrder
  <2> QED
    BY <2>1, <1>3, RankGrows
<1> HIDE DEF n
<1>4. IsFiniteSet(0..(n - 1)) /\ Cardinality(0..(n - 1)) = n
  BY <1>1, FS_Interval
<1>5. rank \in Injection(S, 0..(n - 1))
  <2>1. rank \in [S -> 0..(n - 1)]
    BY <1>2
  <2> HIDE DEF rank
  <2> QED
    BY <2>1, <1>3 DEF Injection, IsInjective
<1>6. rank \in Surjection(S, 0..(n - 1))
  <2> HIDE DEF rank
  <2> QED
    BY <1>4, <1>5, FS_Injection DEF n
<1>7. k - 1 \in 0..(n - 1)
  BY <1>1 DEF n
<1>8. \E x \in S : rank[x] = k - 1
  <2> HIDE DEF rank
  <2> QED
    BY <1>6, <1>7 DEF Surjection
<1> QED
  BY <1>8

-----------------------------------------------------------------------------
(* The lists of events the scheduler returns.                                *)

\* m lists the members of S in the order R.
Listed(m, S, R) ==
    /\ m = [k \in 1..Cardinality(S) |-> m[k]]
    /\ \A k \in 1..Cardinality(S) : m[k] \in S /\ Cardinality(Before(R, S, m[k])) = k - 1

OlderPairs(reg, ord, S) == {e \in S \X S : Older(reg, ord, e[1], e[2])}

\* The age of registered instances, with the insertion order between two that
\* were touched at the same time, is a strict total order.
LEMMA OlderIsTotal ==
    ASSUME NEW reg, NEW ord, NEW T, Ordered(ord, T), NEW S \in SUBSET T,
           \A a \in S : reg[a].lastTouchedAt \in Nat
    PROVE  StrictTotalOrder(OlderPairs(reg, ord, S), S)
<1> DEFINE R == OlderPairs(reg, ord, S)
<1>0. \A x, y \in S : <<x, y>> \in R <=> Older(reg, ord, x, y)
  BY DEF OlderPairs
<1> HIDE DEF R
<1>1. ASSUME NEW x \in S PROVE <<x, x>> \notin R
  <2>1. x \in T /\ reg[x].lastTouchedAt \in Nat
    OBVIOUS
  <2>2. ~Older(reg, ord, x, x)
    BY <2>1 DEF Older, Ordered
  <2> QED
    BY <1>0, <2>2
<1>2. ASSUME NEW x \in S, NEW y \in S, x # y PROVE <<x, y>> \in R \/ <<y, x>> \in R
  <2>1. /\ x \in T /\ reg[x].lastTouchedAt \in Nat
        /\ y \in T /\ reg[y].lastTouchedAt \in Nat
    OBVIOUS
  <2>2. Older(reg, ord, x, y) \/ Older(reg, ord, y, x)
    BY <1>2, <2>1 DEF Older, Ordered
  <2> QED
    BY <1>0, <2>2
<1>3. ASSUME NEW x \in S, NEW y \in S, NEW z \in S, <<x, y>> \in R, <<y, z>> \in R
      PROVE  <<x, z>> \in R
  <2>1. Older(reg, ord, x, y) /\ Older(reg, ord, y, z)
    BY <1>0, <1>3
  <2>2. x \in T /\ y \in T /\ z \in T
    OBVIOUS
  <2>3. Older(reg, ord, x, z)
    BY <2>1, <2>2 DEF Older, Ordered
  <2> QED
    BY <1>0, <2>3
<1> QED
  BY <1>1, <1>2, <1>3 DEF StrictTotalOrder, R

\* The insertion order is one on every part of the registry.
LEMMA OrderIsTotal ==
    ASSUME NEW ord, NEW T, Ordered(ord, T), NEW S \in SUBSET T
    PROVE  StrictTotalOrder(ord, S)
BY DEF Ordered, StrictTotalOrder

\* sort(byLastTouchedAsc) lists the set it sorts.
LEMMA ListedByAge ==
    ASSUME NEW S, IsFiniteSet(S), NEW reg, NEW ord,
           StrictTotalOrder(OlderPairs(reg, ord, S), S)
    PROVE  Listed(InOrder(S, LAMBDA a, b : Older(reg, ord, a, b)), S, OlderPairs(reg, ord, S))
<1> DEFINE R == OlderPairs(reg, ord, S)
           m == InOrder(S, LAMBDA a, b : Older(reg, ord, a, b))
<1>1. \A x \in S : Before(R, S, x) = {y \in S : Older(reg, ord, y, x)}
  BY DEF Before, OlderPairs
<1>2. m = [k \in 1..Cardinality(S) |->
            CHOOSE a \in S : Cardinality({b \in S : Older(reg, ord, b, a)}) = k - 1]
  BY DEF InOrder
<1>3. ASSUME NEW k \in 1..Cardinality(S)
      PROVE  m[k] \in S /\ Cardinality(Before(R, S, m[k])) = k - 1
  <2>1. \E a \in S : Cardinality(Before(R, S, a)) = k - 1
    BY RankExists
  <2>2. \E a \in S : Cardinality({b \in S : Older(reg, ord, b, a)}) = k - 1
    BY <2>1, <1>1
  <2>3. m[k] = CHOOSE a \in S : Cardinality({b \in S : Older(reg, ord, b, a)}) = k - 1
    BY <1>2
  <2>4. m[k] \in S /\ Cardinality({b \in S : Older(reg, ord, b, m[k])}) = k - 1
    <3> HIDE DEF m
    <3> QED
      BY <2>2, <2>3, Zenon
  <2> HIDE DEF m, R
  <2> QED
    BY <2>4, <1>1
<1>4. m = [k \in 1..Cardinality(S) |-> m[k]]
  BY <1>2
<1> HIDE DEF m, R
<1>5. Listed(m, S, R)
  BY <1>3, <1>4 DEF Listed
<1> QED
  BY <1>5 DEF m, R

\* A walk of the registry lists the part of it that it selects.
LEMMA ListedByOrder ==
    ASSUME NEW S, IsFiniteSet(S), NEW ord, StrictTotalOrder(ord, S)
    PROVE  Listed(InOrder(S, LAMBDA a, b : <<a, b>> \in ord), S, ord)
<1> DEFINE m == InOrder(S, LAMBDA a, b : <<a, b>> \in ord)
<1>1. m = [k \in 1..Cardinality(S) |->
            CHOOSE a \in S : Cardinality(Before(ord, S, a)) = k - 1]
  BY DEF InOrder, Before
<1>2. ASSUME NEW k \in 1..Cardinality(S)
      PROVE  m[k] \in S /\ Cardinality(Before(ord, S, m[k])) = k - 1
  <2>1. \E a \in S : Cardinality(Before(ord, S, a)) = k - 1
    BY RankExists
  <2>2. m[k] = CHOOSE a \in S : Cardinality(Before(ord, S, a)) = k - 1
    BY <1>1
  <2> HIDE DEF m
  <2> QED
    BY <2>1, <2>2, Zenon
<1>3. m = [k \in 1..Cardinality(S) |-> m[k]]
  BY <1>1
<1> HIDE DEF m
<1>4. Listed(m, S, ord)
  BY <1>2, <1>3 DEF Listed
<1> QED
  BY <1>4 DEF m

\* A list of a set is a sequence of its members, without repetition.
LEMMA ListIsSequence ==
    ASSUME NEW S, IsFiniteSet(S), NEW R, NEW m, Listed(m, S, R)
    PROVE  /\ m \in Seq(S) /\ Len(m) = Cardinality(S)
           /\ \A j, k \in 1..Len(m) : m[j] = m[k] => j = k
<1>1. Cardinality(S) \in Nat
  BY FS_CardinalityType
<1>2. m \in [1..Cardinality(S) -> S]
  BY DEF Listed
<1>3. m \in Seq(S) /\ Len(m) = Cardinality(S)
  BY <1>1, <1>2
<1>4. ASSUME NEW j \in 1..Cardinality(S), NEW k \in 1..Cardinality(S), m[j] = m[k]
      PROVE  j = k
  BY <1>1, <1>4 DEF Listed
<1> QED
  BY <1>3, <1>4

\* q holds well-formed events, at most one for each applet of S and none for
\* another.
EventList(q, S) ==
    /\ q \in Seq(KernelEvents)
    /\ \A k \in 1..Len(q) : q[k].applet \in S
    /\ \A j, k \in 1..Len(q) : q[j].applet = q[k].applet => j = k

\* Two lists about different applets, one after the other.
LEMMA EventListConcat ==
    ASSUME NEW S, NEW T, S \cap T = {}, NEW q, EventList(q, S), NEW r, EventList(r, T)
    PROVE  EventList(q \o r, S \cup T)
<1>1. /\ q \in Seq(KernelEvents) /\ r \in Seq(KernelEvents) /\ Len(q) \in Nat /\ Len(r) \in Nat
      /\ q \o r \in Seq(KernelEvents) /\ Len(q \o r) = Len(q) + Len(r)
  BY DEF EventList
<1>2. ASSUME NEW k \in 1..Len(q \o r)
      PROVE  \/ k \in 1..Len(q) /\ (q \o r)[k] = q[k] /\ q[k].applet \in S
             \/ /\ k \notin 1..Len(q) /\ k - Len(q) \in 1..Len(r)
                /\ (q \o r)[k] = r[k - Len(q)] /\ r[k - Len(q)].applet \in T
  <2>1. CASE k <= Len(q)
    <3>1. k \in 1..Len(q) /\ (q \o r)[k] = q[k]
      BY <1>1, <2>1
    <3> QED
      BY <3>1 DEF EventList
  <2>2. CASE ~(k <= Len(q))
    <3>1. k \notin 1..Len(q) /\ k - Len(q) \in 1..Len(r) /\ (q \o r)[k] = r[k - Len(q)]
      BY <1>1, <2>2
    <3> QED
      BY <3>1 DEF EventList
  <2> QED
    BY <2>1, <2>2
<1>3. \A k \in 1..Len(q \o r) : (q \o r)[k].applet \in S \cup T
  BY <1>2
<1>4. ASSUME NEW j \in 1..Len(q \o r), NEW k \in 1..Len(q \o r),
             (q \o r)[j].applet = (q \o r)[k].applet
      PROVE  j = k
  <2>1. CASE j \in 1..Len(q)
    <3>1. k \in 1..Len(q) /\ q[j].applet = q[k].applet
      BY <2>1, <1>2, <1>4
    <3> QED
      BY <2>1, <3>1 DEF EventList
  <2>2. CASE j \notin 1..Len(q)
    <3>1. /\ j - Len(q) \in 1..Len(r) /\ k - Len(q) \in 1..Len(r)
          /\ r[j - Len(q)].applet = r[k - Len(q)].applet
      BY <2>2, <1>2, <1>4
    <3>2. j - Len(q) = k - Len(q)
      BY <3>1 DEF EventList
    <3> QED
      BY <3>2, <1>1
  <2> QED
    BY <2>1, <2>2
<1> QED
  BY <1>1, <1>3, <1>4 DEF EventList

\* A list of applets becomes a list of events.
LEMMA EventsOfList ==
    ASSUME NEW S \in SUBSET Applets, NEW m \in Seq(S),
           \A j, k \in 1..Len(m) : m[j] = m[k] => j = k,
           NEW q, NEW at \in Nat, NEW types \in [1..Len(m) -> {"suspend", "destroy"}],
           q = [k \in 1..Len(m) |-> Event(types[k], m[k], at)]
    PROVE  EventList(q, S)
<1>1. Len(m) \in Nat /\ \A k \in 1..Len(m) : m[k] \in S
  OBVIOUS
<1>2. ASSUME NEW k \in 1..Len(m)
      PROVE  q[k] \in KernelEvents /\ q[k].applet = m[k]
  <2>1. q[k] = Event(types[k], m[k], at) /\ types[k] \in {"suspend", "destroy"}
    OBVIOUS
  <2>2. m[k] \in Applets
    BY <1>1
  <2> QED
    BY <2>1, <2>2 DEF Event, KernelEvents
<1>3. q \in [1..Len(m) -> KernelEvents]
  BY <1>2
<1>4. q \in Seq(KernelEvents) /\ Len(q) = Len(m)
  BY <1>1, <1>3
<1> HIDE DEF EventList
<1> QED
  BY <1>1, <1>2, <1>4 DEF EventList

\* The events sorted by age are about the set that is sorted.
LEMMA EventsByAgeList ==
    ASSUME NEW reg, NEW ord, NEW T \in SUBSET Applets, Ordered(ord, T), NEW S \in SUBSET T,
           \A a \in S : reg[a].lastTouchedAt \in Nat,
           NEW type \in {"suspend", "destroy"}, NEW at \in Nat
    PROVE  EventList(EventsByAge(type, S, reg, ord, at), S)
<1> DEFINE m == InOrder(S, LAMBDA a, b : Older(reg, ord, a, b))
           types == [k \in 1..Len(m) |-> type]
<1>0. IsFiniteSet(S) /\ S \in SUBSET Applets
  BY PolicyAssumption, FS_Subset
<1>1. Listed(m, S, OlderPairs(reg, ord, S))
  BY <1>0, OlderIsTotal, ListedByAge
<1> HIDE DEF m
<1>2. m \in Seq(S) /\ \A j, k \in 1..Len(m) : m[j] = m[k] => j = k
  BY <1>0, <1>1, ListIsSequence
<1>3. types \in [1..Len(m) -> {"suspend", "destroy"}]
  OBVIOUS
<1>4. EventsByAge(type, S, reg, ord, at) = [k \in 1..Len(m) |-> Event(types[k], m[k], at)]
  BY DEF EventsByAge, m
<1> HIDE DEF types
<1> QED
  BY <1>0, <1>2, <1>3, <1>4, EventsOfList

\* The events of a walk of the registry are about the part it selects.
LEMMA EventsInOrderList ==
    ASSUME NEW ord, NEW T \in SUBSET Applets, Ordered(ord, T), NEW S \in SUBSET T,
           NEW type \in {"suspend", "destroy"}, NEW at \in Nat
    PROVE  EventList(EventsInOrder(type, S, ord, at), S)
<1> DEFINE m == InOrder(S, LAMBDA a, b : <<a, b>> \in ord)
           types == [k \in 1..Len(m) |-> type]
<1>0. IsFiniteSet(S) /\ S \in SUBSET Applets
  BY PolicyAssumption, FS_Subset
<1>1. Listed(m, S, ord)
  BY <1>0, OrderIsTotal, ListedByOrder
<1> HIDE DEF m
<1>2. m \in Seq(S) /\ \A j, k \in 1..Len(m) : m[j] = m[k] => j = k
  BY <1>0, <1>1, ListIsSequence
<1>3. types \in [1..Len(m) -> {"suspend", "destroy"}]
  OBVIOUS
<1>4. EventsInOrder(type, S, ord, at) = [k \in 1..Len(m) |-> Event(types[k], m[k], at)]
  BY DEF EventsInOrder, m
<1> HIDE DEF types
<1> QED
  BY <1>0, <1>2, <1>3, <1>4, EventsOfList

Recorded(reg) == {a \in Applets : reg[a].state # "cold"}

\* The three passes of a sweep select from different states, none visible.
LEMMA SweepPasses ==
    ASSUME NEW reg \in [Applets -> Instances], NEW ord, NEW at
    PROVE  /\ TtlSuspend(reg, at) \cup TtlDestroy(reg, at)
                \in SUBSET {a \in Recorded(reg) : reg[a].state # "visible"}
           /\ LruEvict(reg, ord, at)
                \in SUBSET {a \in Recorded(reg) : reg[a].state # "visible"}
           /\ SuspendedOverflow(reg, ord, at)
                \in SUBSET {a \in Recorded(reg) : reg[a].state # "visible"}
           /\ (TtlSuspend(reg, at) \cup TtlDestroy(reg, at)) \cap LruEvict(reg, ord, at) = {}
           /\ (TtlSuspend(reg, at) \cup TtlDestroy(reg, at) \cup LruEvict(reg, ord, at))
                \cap SuspendedOverflow(reg, ord, at) = {}
<1>1. TtlSuspend(reg, at) \in SUBSET {a \in Applets : reg[a].state \in {"hidden-warm", "paused"}}
  BY DEF TtlSuspend
<1>2. TtlDestroy(reg, at) \in SUBSET {a \in Applets : reg[a].state = "suspended"}
  BY DEF TtlDestroy
<1>3. LruEvict(reg, ord, at)
        \in SUBSET ({a \in Applets : reg[a].state \in {"hidden-warm", "paused"}}
                       \ TtlSuspend(reg, at))
  BY DEF LruEvict, Oldest, Warm, IsWarmState
<1>4. SuspendedOverflow(reg, ord, at)
        \in SUBSET ({a \in Applets : reg[a].state = "suspended"} \ TtlDestroy(reg, at))
  BY DEF SuspendedOverflow, Oldest, OldSuspended
<1> QED
  BY <1>1, <1>2, <1>3, <1>4 DEF Recorded

\* The events of the TTL pass.
LEMMA TtlEventsList ==
    ASSUME NEW reg \in [Applets -> Instances], NEW ord, Ordered(ord, Recorded(reg)),
           NEW at \in Nat
    PROVE  EventList(TtlEvents(reg, ord, at), TtlSuspend(reg, at) \cup TtlDestroy(reg, at))
<1> DEFINE S == TtlSuspend(reg, at) \cup TtlDestroy(reg, at)
           m == InOrder(S, LAMBDA a, b : <<a, b>> \in ord)
           types == [k \in 1..Len(m) |->
                        IF m[k] \in TtlDestroy(reg, at) THEN "destroy" ELSE "suspend"]
<1>0. S \in SUBSET Recorded(reg) /\ S \in SUBSET Applets
  BY SweepPasses DEF Recorded
<1>1. IsFiniteSet(S)
  BY <1>0, PolicyAssumption, FS_Subset
<1>2. TtlEvents(reg, ord, at) = [k \in 1..Len(m) |-> Event(types[k], m[k], at)]
  BY DEF TtlEvents
<1> HIDE DEF S
<1>3. Listed(m, S, ord)
  BY <1>0, <1>1, OrderIsTotal, ListedByOrder
<1> HIDE DEF m
<1>4. m \in Seq(S) /\ \A j, k \in 1..Len(m) : m[j] = m[k] => j = k
  BY <1>1, <1>3, ListIsSequence
<1>5. types \in [1..Len(m) -> {"suspend", "destroy"}]
  OBVIOUS
<1> HIDE DEF types
<1>6. EventList(TtlEvents(reg, ord, at), S)
  BY <1>0, <1>2, <1>4, <1>5, EventsOfList
<1> QED
  BY <1>6 DEF S

\* A sweep returns at most one event for each applet, and none for a visible one.
LEMMA SweepList ==
    ASSUME NEW reg \in [Applets -> Instances], NEW ord, Ordered(ord, Recorded(reg)),
           NEW at \in Nat
    PROVE  EventList(Sweep(reg, ord, at), {a \in Recorded(reg) : reg[a].state # "visible"})
<1> DEFINE A == TtlSuspend(reg, at) \cup TtlDestroy(reg, at)
           B == LruEvict(reg, ord, at)
           C == SuspendedOverflow(reg, ord, at)
           D == {a \in Recorded(reg) : reg[a].state # "visible"}
           p == TtlEvents(reg, ord, at)
           q == EventsByAge("suspend", B, reg, ord, at)
           r == EventsByAge("destroy", C, reg, ord, at)
<1>0. Recorded(reg) \in SUBSET Applets /\ \A a \in Applets : reg[a].lastTouchedAt \in Nat
  BY DEF Recorded, Instances
<1>1. /\ A \in SUBSET D /\ B \in SUBSET D /\ C \in SUBSET D
      /\ A \cap B = {} /\ (A \cup B) \cap C = {}
  BY SweepPasses
<1>2. B \in SUBSET Recorded(reg) /\ C \in SUBSET Recorded(reg)
  BY <1>1
<1>3. EventList(p, A)
  BY TtlEventsList
<1>4. Sweep(reg, ord, at) = p \o q \o r
  BY DEF Sweep
<1> HIDE DEF A, B, C, D
<1>5. EventList(q, B)
  BY <1>0, <1>2, EventsByAgeList
<1>6. EventList(r, C)
  BY <1>0, <1>2, EventsByAgeList
<1> HIDE DEF p, q, r
<1>7. EventList(p \o q, A \cup B)
  BY <1>1, <1>3, <1>5, EventListConcat
<1>8. EventList((p \o q) \o r, (A \cup B) \cup C)
  BY <1>1, <1>6, <1>7, EventListConcat
<1>9. EventList((p \o q) \o r, D)
  BY <1>1, <1>8 DEF EventList
<1> QED
  BY <1>4, <1>9 DEF D

\* What the memory monitor dispatches is well formed too.
LEMMA PressureList ==
    ASSUME NEW reg \in [Applets -> Instances], NEW ord, Ordered(ord, Recorded(reg)),
           NEW at \in Nat, NEW level \in MemoryPressureLevels
    PROVE  OnMemoryPressure(level, reg, ord, at) \in Seq(KernelEvents)
<1>0. Recorded(reg) \in SUBSET Applets /\ \A a \in Applets : reg[a].lastTouchedAt \in Nat
  BY DEF Recorded, Instances
<1>1. CASE level = "low"
  BY <1>1 DEF OnMemoryPressure
<1>2. CASE level = "moderate"
  <2> DEFINE S == Oldest(reg, ord, {a \in Applets : reg[a].state = "suspended"}, 1)
  <2>1. S \in SUBSET Recorded(reg)
    BY DEF Oldest, Recorded
  <2>2. OnMemoryPressure(level, reg, ord, at) = EventsByAge("destroy", S, reg, ord, at)
    BY <1>2 DEF OnMemoryPressure
  <2> HIDE DEF S
  <2>3. EventList(EventsByAge("destroy", S, reg, ord, at), S)
    BY <1>0, <2>1, EventsByAgeList
  <2> QED
    BY <2>2, <2>3 DEF EventList
<1>3. CASE level = "critical"
  <2> DEFINE S == {a \in Applets : reg[a].state \notin {"cold", "visible"}}
  <2>1. S \in SUBSET Recorded(reg)
    BY DEF Recorded
  <2>2. OnMemoryPressure(level, reg, ord, at) = EventsInOrder("destroy", S, ord, at)
    BY <1>3 DEF OnMemoryPressure
  <2> HIDE DEF S
  <2>3. EventList(EventsInOrder("destroy", S, ord, at), S)
    BY <1>0, <2>1, EventsInOrderList
  <2> QED
    BY <2>2, <2>3 DEF EventList
<1> QED
  BY <1>1, <1>2, <1>3 DEF MemoryPressureLevels

\* The LRU pass takes the oldest: what is as old as something it takes, or
\* older, it takes as well.
LEMMA LruTakesOldest ==
    ASSUME NEW reg \in [Applets -> Instances], NEW ord, Ordered(ord, Recorded(reg)),
           NEW at \in Nat, NEW a \in LruEvict(reg, ord, at),
           NEW b \in Applets, reg[b].state \in {"hidden-warm", "paused"},
           b \notin SweepSuspend(reg, ord, at)
    PROVE  reg[a].lastTouchedAt <= reg[b].lastTouchedAt
<1> DEFINE S == {x \in Warm(reg, at) : reg[x].state # "visible"}
           n == Cardinality(Warm(reg, at)) - LruSize
           Under(x) == {y \in S : Older(reg, ord, y, x)}
<1>0. /\ S \in SUBSET Recorded(reg) /\ S \in SUBSET Applets
      /\ \A x \in Applets : reg[x].lastTouchedAt \in Nat
  BY DEF Warm, IsWarmState, Recorded, Instances
<1>1. a \in S /\ Cardinality(Under(a)) < n
  BY DEF LruEvict, Oldest
<1>2. b \in S
  BY DEF Warm, IsWarmState, SweepSuspend
<1>3. ~(Cardinality(Under(b)) < n)
  BY <1>2 DEF LruEvict, Oldest, SweepSuspend
<1>4. IsFiniteSet(S) /\ IsFiniteSet(Warm(reg, at))
  <2>1. Warm(reg, at) \in SUBSET Applets
    BY DEF Warm
  <2> QED
    BY <1>0, <2>1, PolicyAssumption, FS_Subset
<1>5. n \in Int
  BY <1>4, PolicyAssumption, FS_CardinalityType
<1>6. IsFiniteSet(Under(a)) /\ Under(a) \in SUBSET S /\ Under(b) \in SUBSET S
  BY <1>4, FS_Subset
<1> SUFFICES ASSUME ~(reg[a].lastTouchedAt <= reg[b].lastTouchedAt) PROVE FALSE
  OBVIOUS
<1>7. reg[b].lastTouchedAt < reg[a].lastTouchedAt
  BY <1>0, <1>1, <1>2
<1>8. Under(b) \in SUBSET Under(a)
  BY <1>0, <1>1, <1>2, <1>7 DEF Older
<1>9. /\ Cardinality(Under(b)) <= Cardinality(Under(a))
      /\ Cardinality(Under(a)) \in Nat /\ Cardinality(Under(b)) \in Nat
  <2> HIDE DEF Under
  <2>1. IsFiniteSet(Under(b)) /\ Cardinality(Under(b)) <= Cardinality(Under(a))
    BY <1>6, <1>8, FS_Subset
  <2> QED
    BY <2>1, <1>6, FS_CardinalityType
<1> HIDE DEF Under, n
<1> QED
  BY <1>1, <1>3, <1>5, <1>9

-----------------------------------------------------------------------------
(* What a dispatch and a reclaim do to one applet.                           *)

DispatchEvents == {"show", "hide", "pause", "resume", "suspend"}

\* The rows of the transition table that the host dispatches.
LEMMA EventTable ==
    /\ NextState("show") = "visible" /\ NextState("hide") = "hidden-warm"
    /\ NextState("pause") = "paused" /\ NextState("resume") = "visible"
    /\ NextState("suspend") = "suspended" /\ NextState("ready") = "visible"
    /\ \A st : /\ IsValidTransition(st, "show") => st \in {"hidden-warm", "paused", "suspended"}
               /\ IsValidTransition(st, "hide") => st = "visible"
               /\ IsValidTransition(st, "pause") => st \in {"visible", "hidden-warm"}
               /\ IsValidTransition(st, "resume") => st = "paused"
               /\ IsValidTransition(st, "suspend") => st \in {"hidden-warm", "paused"}
BY DEF NextState, IsValidTransition, RuleOf, ResumeRule, TransitionRules

Kept(a) == registry'[a] = registry[a] /\ surface'[a] = surface[a]

\* The orchestrator accepts event for a.
Moved(a, event) ==
    \E at, s \in Nat :
        /\ Accepted(a, event, s)
        /\ registry'[a] = SetState(registry[a], NextState(event), at)
        /\ surface'[a] = SurfaceAfter(event, surface[a], s)

\* An accepted event keeps an instance registered, with its session.
LEMMA MovedInstance ==
    ASSUME Typed, NEW a \in Applets, NEW event \in DispatchEvents, Moved(a, event)
    PROVE  /\ registry'[a] \in Instances /\ surface'[a] \in Surfaces
           /\ registry[a].state # "cold"
           /\ registry'[a].state = NextState(event) /\ registry'[a].state # "cold"
           /\ registry'[a].session = registry[a].session
<1>1. PICK at, s \in Nat : /\ Accepted(a, event, s)
                          /\ registry'[a] = SetState(registry[a], NextState(event), at)
                          /\ surface'[a] = SurfaceAfter(event, surface[a], s)
  BY DEF Moved
<1>2. NextState(event) \in LifecycleStates \ {"cold"}
  BY EventTable DEF DispatchEvents, LifecycleStates
<1>3. /\ registry[a] \in Instances /\ surface[a] \in Surfaces
      /\ registry[a].state # "cold"
  BY <1>1 DEF Typed, Accepted, Registered
<1>4. registry'[a] \in Instances
  BY <1>1, <1>2, <1>3 DEF SetState, Instances
<1>5. surface'[a] \in Surfaces
  <2>1. ShowSurface(surface[a], s) \in Surfaces
    BY <1>3 DEF ShowSurface, Surfaces
  <2>2. HideSurface(surface[a]) \in Surfaces
    BY <1>3 DEF HideSurface, Surfaces
  <2>3. DetachSurface(surface[a]) \in Surfaces
    BY <1>3 DEF DetachSurface, Surfaces
  <2>4. SurfaceAfter(event, surface[a], s)
          \in {ShowSurface(surface[a], s), HideSurface(surface[a]),
              DetachSurface(surface[a]), surface[a]}
    BY DEF SurfaceAfter, DispatchEvents
  <2> QED
    BY <1>1, <1>3, <2>1, <2>2, <2>3, <2>4
<1> QED
  BY <1>1, <1>2, <1>3, <1>4, <1>5 DEF SetState

\* What a dispatch of several events at once leaves of every applet.
LEMMA DispatchEffect ==
    ASSUME Typed, NEW ev, NEW at \in Nat,
           \E ss \in [Applets -> Nat] : DispatchWith(ev, ss, at),
           \A a \in DOMAIN ev : ev[a] \in DispatchEvents
    PROVE  /\ registry' \in [Applets -> Instances] /\ surface' \in [Applets -> Surfaces]
           /\ \A a \in Applets :
                 Kept(a) \/ (a \in DOMAIN ev /\ \E event \in {ev[a]} : Moved(a, event))
<1>s. PICK ss \in [Applets -> Nat] : DispatchWith(ev, ss, at)
  OBVIOUS
<1> DEFINE accepted == {a \in DOMAIN ev : Accepted(a, ev[a], ss[a])}
<1>0. /\ registry' = [a \in Applets |->
                        IF a \in accepted THEN SetState(registry[a], NextState(ev[a]), at)
                        ELSE registry[a]]
      /\ surface' = [a \in Applets |->
                        IF a \in accepted THEN SurfaceAfter(ev[a], surface[a], ss[a])
                        ELSE surface[a]]
  BY <1>s DEF DispatchWith
<1>1. ASSUME NEW a \in Applets
      PROVE  /\ Kept(a) \/ (a \in DOMAIN ev /\ Moved(a, ev[a]))
             /\ registry'[a] \in Instances /\ surface'[a] \in Surfaces
  <2>1. CASE a \in accepted
    <3>1. a \in DOMAIN ev /\ Accepted(a, ev[a], ss[a]) /\ ev[a] \in DispatchEvents
      BY <2>1
    <3>2. /\ registry'[a] = SetState(registry[a], NextState(ev[a]), at)
          /\ surface'[a] = SurfaceAfter(ev[a], surface[a], ss[a])
      BY <1>0, <2>1
    <3>3. Moved(a, ev[a])
      BY <3>1, <3>2 DEF Moved
    <3> QED
      BY <3>1, <3>3, MovedInstance
  <2>2. CASE a \notin accepted
    BY <1>0, <2>2 DEF Kept, Typed
  <2> QED
    BY <2>1, <2>2
<1> HIDE DEF accepted
<1> QED
  BY <1>0, <1>1

\* The same for one event.
LEMMA DispatchOne ==
    ASSUME Typed, NEW x, NEW event \in DispatchEvents, NEW at \in Nat, Dispatch(x, event, at)
    PROVE  /\ registry' \in [Applets -> Instances] /\ surface' \in [Applets -> Surfaces]
           /\ \A a \in Applets : Kept(a) \/ (a = x /\ Moved(a, event))
<1> DEFINE ev == [y \in {x} |-> event]
<1>1. /\ \E ss \in [Applets -> Nat] : DispatchWith(ev, ss, at)
      /\ \A a \in DOMAIN ev : ev[a] \in DispatchEvents
  BY DEF Dispatch, DispatchEach, Typed
<1>2. DOMAIN ev = {x} /\ ev[x] = event
  OBVIOUS
<1> HIDE DEF ev
<1> QED
  BY <1>1, <1>2, DispatchEffect

\* The show of a warm instance whose load has just resolved.
LEMMA ResumeShow ==
    ASSUME Typed, NEW a \in Applets, NEW s \in Nat, ResumeAcquires(a, s),
           a \in lease, Registered(a)
    PROVE  /\ UNCHANGED <<order, adopted, unloading, lease>>
           /\ registry' \in [Applets -> Instances] /\ surface' \in [Applets -> Surfaces]
           /\ \A x \in Applets : Kept(x) \/ (\E event \in DispatchEvents : Moved(x, event))
<1> DEFINE ev == [y \in {a} |-> "show"]
<1>1. /\ DispatchWith(ev, manager', now) /\ manager' = [manager EXCEPT ![a] = s]
      /\ UNCHANGED <<order, adopted, unloading, lease>>
  BY DEF ResumeAcquires
<1>2. manager' \in [Applets -> Nat] /\ now \in Nat
  BY <1>1 DEF Typed
<1>3. \E ss \in [Applets -> Nat] : DispatchWith(ev, ss, now)
  BY <1>1, <1>2
<1>4. \A x \in DOMAIN ev : ev[x] \in DispatchEvents
  BY DEF DispatchEvents
<1> HIDE DEF ev
<1> QED
  BY <1>1, <1>2, <1>3, <1>4, DispatchEffect

\* Routing to another page moves at most the applet that leaves and the one that
\* enters.
LEMMA NotifyEffect ==
    ASSUME Typed, NEW next \in Applets \cup {NoApplet}, NotifyActivePage(next)
    PROVE  /\ registry' \in [Applets -> Instances] /\ surface' \in [Applets -> Surfaces]
           /\ foreground' = next
           /\ \A a \in Applets : Kept(a) \/ (\E event \in {"show", "hide"} : Moved(a, event))
<1>1. CASE foreground = next
  BY <1>1 DEF NotifyActivePage, Kept, Typed
<1>2. CASE foreground # next
  <2> DEFINE leaving == {a \in Applets : a = foreground /\ registry[a].state = "visible"}
             entering == {a \in Applets : /\ a = next
                                          /\ Registered(a)
                                          /\ registry[a].state # "visible"}
             ev == [a \in leaving \cup entering |-> IF a \in leaving THEN "hide" ELSE "show"]
  <2>1. (\E ss \in [Applets -> Nat] : DispatchWith(ev, ss, now)) /\ foreground' = next
    BY <1>2 DEF NotifyActivePage, DispatchEach, Typed
  <2>2. \A a \in DOMAIN ev : ev[a] \in {"show", "hide"}
    OBVIOUS
  <2> HIDE DEF ev
  <2>3. now \in Nat /\ \A a \in DOMAIN ev : ev[a] \in DispatchEvents
    BY <2>2 DEF Typed, DispatchEvents
  <2> QED
    BY <2>1, <2>2, <2>3, DispatchEffect
<1> QED
  BY <1>1, <1>2

\* No unload that is in flight for a ends.
Grows(a) == \A o \in Origins : unloading'[a][o] >= unloading[a][o]

\* The store unload of an applet without a record.
StoreUnload(a) ==
    /\ Kept(a) /\ Grows(a)
    /\ manager[a] # NoSession => InFlight(a)'

\* A destroy that awaits the gateway.
DestroyBegun(a) ==
    /\ Registered(a) /\ Grows(a)
    /\ registry'[a] = registry[a] /\ surface'[a] = NoSurface
    /\ DestroyInFlight(a)'

\* A destroy without a gateway call.
DestroyedAtOnce(a) ==
    /\ Registered(a) /\ Grows(a)
    /\ registry'[a] = NoInstance
    /\ manager[a] = NoSession \/ registry[a].session \notin adopted

\* What remains of the insertion order when records go.
LEMMA OrderedAmong ==
    ASSUME NEW ord, NEW S, Ordered(ord, S), NEW T \in SUBSET S
    PROVE  Ordered(Among(ord, T), T)
BY DEF Ordered, Among

\* The insertion order when the records stay.
LEMMA OrderedUnchanged ==
    ASSUME Ordered(order, RegisteredApplets), order' = order,
           \A a \in Applets : (registry'[a].state = "cold") <=> (registry[a].state = "cold")
    PROVE  Ordered(order, RegisteredApplets)'
<1>1. RegisteredApplets' = RegisteredApplets
  BY DEF RegisteredApplets, Registered
<1> QED
  BY <1>1 DEF Ordered

\* A reclaim begins or completes the destroy of the records it is about, and
\* leaves every other applet alone.
LEMMA ReclaimEffect ==
    ASSUME TypeInv, NEW origin, DOMAIN origin \in SUBSET Applets, Reclaim(origin),
           \A a \in DOMAIN origin :
              origin[a] \in Origins /\ (origin[a] # "store" <=> Registered(a))
    PROVE  /\ registry' \in [Applets -> Instances] /\ surface' \in [Applets -> Surfaces]
           /\ unloading' \in [Applets -> [Origins -> Nat]]
           /\ order' \in SUBSET (Applets \X Applets) /\ Ordered(order, RegisteredApplets)'
           /\ adopted' = adopted \ {registry[a].session : a \in {x \in DOMAIN origin : Registered(x)}}
           /\ \A a \in DOMAIN origin :
                 IF Registered(a) THEN DestroyBegun(a) \/ DestroyedAtOnce(a) ELSE StoreUnload(a)
           /\ \A a \in Applets \ DOMAIN origin : Kept(a) /\ unloading'[a] = unloading[a]
<1> DEFINE destroyed == {a \in DOMAIN origin : origin[a] # "store"}
           calls == {a \in DOMAIN origin : NeedsGateway(a, origin[a])}
           removed == destroyed \ calls
<1>0. /\ surface' = [a \in Applets |-> IF a \in destroyed THEN NoSurface ELSE surface[a]]
      /\ adopted' = adopted \ {registry[a].session : a \in destroyed}
      /\ registry' = [a \in Applets |-> IF a \in removed THEN NoInstance ELSE registry[a]]
      /\ order' = Among(order, Applets \ removed)
      /\ unloading' = [a \in Applets |->
                         IF a \in calls THEN [unloading[a] EXCEPT ![origin[a]] = @ + 1]
                         ELSE unloading[a]]
  BY DEF Reclaim, CallGateway
<1>1. destroyed = {x \in DOMAIN origin : Registered(x)}
  OBVIOUS
<1>2. calls \in SUBSET DOMAIN origin /\ removed \in SUBSET destroyed
  OBVIOUS
<1>3. Typed
  BY DEF TypeInv
<1>4. NoSurface \in Surfaces /\ NoInstance \in Instances
  BY DEF NoSurface, NoInstance, Surfaces, Instances, NoSession, LifecycleStates
<1>5. registry' \in [Applets -> Instances] /\ surface' \in [Applets -> Surfaces]
  <2> HIDE DEF destroyed, removed
  <2> QED
    BY <1>0, <1>3, <1>4 DEF Typed
<1>6. ASSUME NEW a \in Applets PROVE unloading'[a] \in [Origins -> Nat] /\ Grows(a)
  <2>1. unloading[a] \in [Origins -> Nat]
    BY <1>3 DEF Typed
  <2>2. CASE a \in calls
    <3>1. unloading'[a] = [unloading[a] EXCEPT ![origin[a]] = @ + 1] /\ origin[a] \in Origins
      BY <1>0, <2>2
    <3> QED
      BY <2>1, <3>1 DEF Grows
  <2>3. CASE a \notin calls
    <3>1. unloading'[a] = unloading[a]
      BY <1>0, <2>3
    <3> QED
      BY <2>1, <3>1 DEF Grows
  <2> QED
    BY <2>2, <2>3
<1>7. ASSUME NEW a \in calls PROVE unloading'[a][origin[a]] > 0 /\ origin[a] \in Origins
  <2>1. /\ unloading[a] \in [Origins -> Nat] /\ origin[a] \in Origins
        /\ unloading'[a] = [unloading[a] EXCEPT ![origin[a]] = @ + 1]
    BY <1>0, <1>2, <1>3 DEF Typed
  <2> QED
    BY <2>1
<1>8. unloading' \in [Applets -> [Origins -> Nat]]
  <2>1. unloading' = [a \in Applets |-> unloading'[a]]
    <3> HIDE DEF calls
    <3> QED
      BY <1>0
  <2> QED
    BY <1>6, <2>1
<1>9. ASSUME NEW a \in DOMAIN origin, Registered(a)
      PROVE  DestroyBegun(a) \/ DestroyedAtOnce(a)
  <2>1. a \in destroyed /\ surface'[a] = NoSurface
    BY <1>0, <1>9
  <2>2. CASE a \in calls
    <3>1. registry'[a] = registry[a]
      BY <1>0, <2>2
    <3>2. origin[a] \in Origins \ {"store"} /\ unloading'[a][origin[a]] > 0
      BY <1>7, <1>9, <2>2
    <3>3. DestroyInFlight(a)'
      BY <3>2 DEF DestroyInFlight
    <3> QED
      BY <1>6, <1>9, <2>1, <3>1, <3>3 DEF DestroyBegun
  <2>3. CASE a \notin calls
    <3>1. registry'[a] = NoInstance
      BY <1>0, <2>1, <2>3
    <3>2. manager[a] = NoSession \/ registry[a].session \notin adopted
      BY <2>3 DEF NeedsGateway
    <3> QED
      BY <1>6, <1>9, <3>1, <3>2 DEF DestroyedAtOnce
  <2> QED
    BY <2>2, <2>3
<1>10. ASSUME NEW a \in DOMAIN origin, ~Registered(a) PROVE StoreUnload(a)
  <2>1. a \notin destroyed /\ a \notin removed /\ origin[a] = "store"
    BY <1>10
  <2>2. Kept(a)
    BY <1>0, <2>1 DEF Kept
  <2>3. ASSUME manager[a] # NoSession PROVE InFlight(a)'
    <3>1. a \in calls
      BY <2>1, <2>3 DEF NeedsGateway
    <3> QED
      BY <1>7, <3>1 DEF InFlight
  <2> QED
    BY <1>6, <2>2, <2>3 DEF StoreUnload
<1>11. ASSUME NEW a \in Applets \ DOMAIN origin PROVE Kept(a) /\ unloading'[a] = unloading[a]
  BY <1>0 DEF Kept
<1>12. RegisteredApplets' = RegisteredApplets \ removed
  <2>1. ASSUME NEW a \in Applets
        PROVE  registry'[a].state # "cold" <=> registry[a].state # "cold" /\ a \notin removed
    <3> HIDE DEF removed
    <3> QED
      BY <1>0 DEF NoInstance
  <2> QED
    BY <2>1 DEF RegisteredApplets, Registered
<1>13. order' = Among(order, RegisteredApplets')
  <2>1. \A e \in order : /\ e[1] \in RegisteredApplets /\ e[2] \in RegisteredApplets
                       /\ e[1] \in Applets /\ e[2] \in Applets
    BY DEF TypeInv, Ordered, RegisteredApplets
  <2> HIDE DEF removed
  <2> QED
    BY <1>0, <1>12, <2>1 DEF Among
<1>14. Ordered(order', RegisteredApplets')
  <2>1. RegisteredApplets' \in SUBSET RegisteredApplets
    BY <1>12
  <2> QED
    BY <1>13, <2>1, OrderedAmong DEF TypeInv
<1>15. order' \in SUBSET (Applets \X Applets)
  BY <1>3, <1>13 DEF Among, Typed
<1>16. Ordered(order, RegisteredApplets)'
  BY <1>14
<1> HIDE DEF destroyed, calls, removed
<1> QED
  BY <1>0, <1>1, <1>5, <1>8, <1>9, <1>10, <1>11, <1>15, <1>16

-----------------------------------------------------------------------------
(* The type invariant.                                                       *)

\* The initial state has it.
LEMMA InitTypeInv == Init => TypeInv
<1> SUFFICES ASSUME Init PROVE TypeInv
  OBVIOUS
<1>1. NoSurface \in Surfaces /\ NoInstance \in Instances
  BY DEF NoSurface, NoInstance, Surfaces, Instances, NoSession, LifecycleStates
<1>2. Typed
  BY <1>1 DEF Init, Typed, NoSession
<1>3. RegisteredApplets = {}
  BY DEF Init, RegisteredApplets, Registered, NoInstance
<1> QED
  BY <1>2, <1>3 DEF TypeInv, Init, Ordered

\* Records that are kept or moved stay registered.
LEMMA MovesKeepOrder ==
    ASSUME TypeInv, order' = order,
           \A a \in Applets : Kept(a) \/ (\E event \in DispatchEvents : Moved(a, event))
    PROVE  Ordered(order, RegisteredApplets)'
<1>1. ASSUME NEW a \in Applets
      PROVE  (registry'[a].state = "cold") <=> (registry[a].state = "cold")
  BY MovedInstance DEF Kept, TypeInv
<1> QED
  BY <1>1, OrderedUnchanged DEF TypeInv

\* The actions of the pages keep it.
LEMMA PagesTypeInv ==
    ASSUME TypeInv,
           \/ \E a \in Applets : OpenPage(a) \/ ReleasePage(a)
           \/ \E close \in BOOLEAN : LeavePage(close)
           \/ Teardown
    PROVE  TypeInv'
<1>0. Typed
  BY DEF TypeInv
<1>1. ASSUME NEW a \in Applets, OpenPage(a) PROVE TypeInv'
  <2>1. /\ registry' \in [Applets -> Instances] /\ surface' \in [Applets -> Surfaces]
        /\ foreground' \in Applets \cup {NoApplet}
        /\ \A x \in Applets : Kept(x) \/ (\E event \in DispatchEvents : Moved(x, event))
    BY <1>0, <1>1, NotifyEffect DEF OpenPage, DispatchEvents
  <2>2. Ordered(order, RegisteredApplets)'
    BY <1>1, <2>1, MovesKeepOrder DEF OpenPage
  <2>3. /\ lease' \in SUBSET Applets /\ load' \in [Applets -> {"idle", "verify", "create"}]
        /\ waiting' \in [Applets -> Nat]
    <3>1. CASE a \in lease
      BY <1>0, <1>1, <3>1 DEF OpenPage, AcquirePage, Typed
    <3>2. CASE a \notin lease
      <4>1. /\ lease' = lease \cup {a}
            /\ load' = IF load[a] = "idle" THEN [load EXCEPT ![a] = "verify"] ELSE load
            /\ waiting' = [waiting EXCEPT ![a] = @ + 1]
        BY <1>1, <3>2 DEF OpenPage, AcquirePage
      <4> QED
        BY <1>0, <4>1 DEF Typed
    <3> QED
      BY <3>1, <3>2
  <2> QED
    BY <1>0, <1>1, <2>1, <2>2, <2>3 DEF OpenPage, TypeInv, Typed
<1>2. ASSUME NEW close \in BOOLEAN, LeavePage(close) PROVE TypeInv'
  <2>1. /\ registry' \in [Applets -> Instances] /\ surface' \in [Applets -> Surfaces]
        /\ foreground' \in Applets \cup {NoApplet}
        /\ \A x \in Applets : Kept(x) \/ (\E event \in DispatchEvents : Moved(x, event))
    BY <1>0, <1>2, NotifyEffect DEF LeavePage, DispatchEvents
  <2>2. Ordered(order, RegisteredApplets)'
    BY <1>2, <2>1, MovesKeepOrder DEF LeavePage
  <2> QED
    BY <1>0, <1>2, <2>1, <2>2 DEF LeavePage, TypeInv, Typed
<1>3. ASSUME NEW a \in Applets, ReleasePage(a) PROVE TypeInv'
  <2> DEFINE origin == [x \in {a} |-> IF Registered(a) THEN "kernel" ELSE "store"]
  <2>1. /\ DOMAIN origin \in SUBSET Applets /\ Reclaim(origin)
        /\ \A x \in DOMAIN origin :
              origin[x] \in Origins /\ (origin[x] # "store" <=> Registered(x))
    BY <1>3 DEF ReleasePage, Origins
  <2> HIDE DEF origin
  <2>2. /\ registry' \in [Applets -> Instances] /\ surface' \in [Applets -> Surfaces]
        /\ unloading' \in [Applets -> [Origins -> Nat]]
        /\ order' \in SUBSET (Applets \X Applets) /\ Ordered(order, RegisteredApplets)'
    BY <2>1, ReclaimEffect
  <2> QED
    BY <1>0, <1>3, <2>2 DEF ReleasePage, TypeInv, Typed
<1>4. ASSUME Teardown PROVE TypeInv'
  <2> DEFINE origin == [x \in lease |-> IF Registered(x) THEN "kernel" ELSE "store"]
  <2>1. /\ DOMAIN origin \in SUBSET Applets /\ Reclaim(origin)
        /\ \A x \in DOMAIN origin :
              origin[x] \in Origins /\ (origin[x] # "store" <=> Registered(x))
    BY <1>0, <1>4 DEF Teardown, Origins, Typed
  <2> HIDE DEF origin
  <2>2. /\ registry' \in [Applets -> Instances] /\ surface' \in [Applets -> Surfaces]
        /\ unloading' \in [Applets -> [Origins -> Nat]]
        /\ order' \in SUBSET (Applets \X Applets) /\ Ordered(order, RegisteredApplets)'
    BY <2>1, ReclaimEffect
  <2> QED
    BY <1>0, <1>4, <2>2 DEF Teardown, TypeInv, Typed
<1> QED
  BY <1>1, <1>2, <1>3, <1>4

\* The new record is the last of the insertion order.
LEMMA OrderedInsert ==
    ASSUME NEW ord, NEW S, Ordered(ord, S), NEW a, a \notin S
    PROVE  Ordered(ord \cup {<<b, a>> : b \in S}, S \cup {a})
<1> DEFINE R == ord \cup {<<b, a>> : b \in S}
<1>1. \A x, y : <<x, y>> \in R <=> <<x, y>> \in ord \/ (x \in S /\ y = a)
  OBVIOUS
<1>2. \A x, y : <<x, y>> \in ord => x \in S /\ y \in S
  BY DEF Ordered
<1>3. \A e \in R : e[1] \in S \cup {a} /\ e[2] \in S \cup {a}
  BY DEF Ordered
<1> HIDE DEF R
<1>4. \A x \in S \cup {a} : <<x, x>> \notin R
  BY <1>1, <1>2 DEF Ordered
<1>5. \A x, y \in S \cup {a} : x # y => <<x, y>> \in R \/ <<y, x>> \in R
  BY <1>1 DEF Ordered
<1>6. \A x, y, z \in S \cup {a} : <<x, y>> \in R /\ <<y, z>> \in R => <<x, z>> \in R
  BY <1>1, <1>2 DEF Ordered
<1>7. Ordered(R, S \cup {a})
  BY <1>3, <1>4, <1>5, <1>6 DEF Ordered
<1> QED
  BY <1>7 DEF R

\* The instance a cold acquire creates.
NewInstance(s) ==
    [state |-> NextState("ready"), session |-> s, lastHiddenAt |-> 0, lastTouchedAt |-> now]

\* What the acquires that awaited a load leave.
LEMMA ResumeTypeInv ==
    ASSUME TypeInv, NEW a \in Applets, NEW s \in Nat, ResumeAcquires(a, s), minted' \in Nat
    PROVE  TypeInv'
<1>0. Typed
  BY DEF TypeInv
<1>1. /\ manager' \in [Applets -> Nat] /\ waiting' \in [Applets -> Nat]
      /\ load' \in [Applets -> {"idle", "verify", "create"}]
      /\ UNCHANGED <<foreground, page, closing, batch, busy, now>>
  BY <1>0 DEF ResumeAcquires, Typed
<1>2. CASE a \notin lease
  <2>1. UndoLoad(a) /\ UNCHANGED <<registry, order, surface, adopted, lease>>
    BY <1>2 DEF ResumeAcquires
  <2>2. unloading' \in [Applets -> [Origins -> Nat]]
    <3>1. "store" \in Origins
      BY DEF Origins
    <3> QED
      BY <1>0, <2>1, <3>1 DEF UndoLoad, Typed
  <2>3. Ordered(order, RegisteredApplets)'
    BY <2>1, OrderedUnchanged DEF TypeInv
  <2> QED
    BY <1>0, <1>1, <2>1, <2>2, <2>3 DEF TypeInv, Typed
<1>3. CASE a \in lease /\ Registered(a)
  <2>1. UNCHANGED <<order, adopted, unloading, lease>>
    BY <1>0, <1>3, ResumeShow
  <2>2. /\ registry' \in [Applets -> Instances] /\ surface' \in [Applets -> Surfaces]
        /\ \A x \in Applets : Kept(x) \/ (\E event \in DispatchEvents : Moved(x, event))
    BY <1>0, <1>3, ResumeShow
  <2>3. Ordered(order, RegisteredApplets)'
    BY <2>1, <2>2, MovesKeepOrder
  <2> QED
    BY <1>0, <1>1, <2>1, <2>2, <2>3 DEF TypeInv, Typed
<1>4. CASE a \in lease /\ ~Registered(a)
  <2>1. /\ registry' = [registry EXCEPT ![a] = NewInstance(s)]
        /\ order' = order \cup {<<b, a>> : b \in RegisteredApplets}
        /\ surface' = [surface EXCEPT ![a] = ShowSurface(@, s)]
        /\ lease' \in SUBSET lease
        /\ UNCHANGED unloading
    BY <1>4 DEF ResumeAcquires, NewInstance, RegisteredApplets
  <2>2. NewInstance(s) \in Instances /\ NewInstance(s).state = "visible"
    BY <1>0, EventTable DEF NewInstance, Instances, LifecycleStates, Typed
  <2>3. registry' \in [Applets -> Instances]
    BY <1>0, <2>1, <2>2 DEF Typed
  <2>4. surface' \in [Applets -> Surfaces]
    <3>1. ShowSurface(surface[a], s) \in Surfaces
      BY <1>0 DEF ShowSurface, Surfaces, Typed
    <3> QED
      BY <1>0, <2>1, <3>1 DEF Typed
  <2>5. RegisteredApplets' = RegisteredApplets \cup {a}
    <3>1. \A x \in Applets : registry'[x].state # "cold" <=> registry[x].state # "cold" \/ x = a
      BY <1>0, <2>1, <2>2 DEF Typed
    <3> QED
      BY <3>1 DEF RegisteredApplets, Registered
  <2>6. a \notin RegisteredApplets /\ RegisteredApplets \in SUBSET Applets
    BY <1>4 DEF RegisteredApplets
  <2>7. Ordered(order', RegisteredApplets')
    BY <2>1, <2>5, <2>6, OrderedInsert DEF TypeInv
  <2>8. order' \in SUBSET (Applets \X Applets)
    BY <1>0, <2>1, <2>6 DEF Typed
  <2>9. Ordered(order, RegisteredApplets)'
    BY <2>7
  <2> QED
    BY <1>0, <1>1, <2>1, <2>3, <2>4, <2>8, <2>9 DEF TypeInv, Typed
<1> QED
  BY <1>2, <1>3, <1>4

\* The actions of loading and unloading keep it.
LEMMA LoadsTypeInv ==
    ASSUME TypeInv, NEW a \in Applets,
           \/ LoadVerified(a) \/ LoadCreated(a) \/ LoadFailed(a)
           \/ \E o \in Origins : UnloadDone(a, o)
    PROVE  TypeInv'
<1>0. Typed
  BY DEF TypeInv
<1>1. ASSUME LoadVerified(a) PROVE TypeInv'
  <2>1. CASE manager[a] # NoSession
    BY <1>0, <1>1, <2>1, ResumeTypeInv DEF LoadVerified, Typed
  <2>2. CASE manager[a] = NoSession
    <3>1. /\ load' = [load EXCEPT ![a] = "create"]
          /\ UNCHANGED <<registry, order, surface, manager, adopted, waiting, unloading,
                         lease, foreground, page, closing, batch, busy, now, minted>>
      BY <1>1, <2>2 DEF LoadVerified
    <3>2. Ordered(order, RegisteredApplets)'
      BY <3>1, OrderedUnchanged DEF TypeInv
    <3> QED
      BY <1>0, <3>1, <3>2 DEF TypeInv, Typed
  <2> QED
    BY <2>1, <2>2
<1>2. ASSUME LoadCreated(a) PROVE TypeInv'
  <2>1. minted + 1 \in Nat /\ minted' = minted + 1 /\ ResumeAcquires(a, minted + 1)
    BY <1>0, <1>2 DEF LoadCreated, Typed
  <2> QED
    BY <2>1, ResumeTypeInv
<1>3. ASSUME LoadFailed(a) PROVE TypeInv'
  <2>1. Ordered(order, RegisteredApplets)'
    BY <1>3, OrderedUnchanged DEF TypeInv, LoadFailed
  <2> QED
    BY <1>0, <1>3, <2>1 DEF LoadFailed, TypeInv, Typed
<1>4. ASSUME NEW o \in Origins, UnloadDone(a, o) PROVE TypeInv'
  <2>1. /\ unloading' \in [Applets -> [Origins -> Nat]] /\ manager' \in [Applets -> Nat]
    BY <1>0, <1>4 DEF UnloadDone, Typed, NoSession
  <2>2. CASE o = "store"
    <3>1. Ordered(order, RegisteredApplets)'
      BY <1>4, <2>2, OrderedUnchanged DEF TypeInv, UnloadDone
    <3> QED
      BY <1>0, <1>4, <2>1, <2>2, <3>1 DEF UnloadDone, TypeInv, Typed
  <2>3. CASE o # "store"
    <3>1. registry' = [registry EXCEPT ![a] = NoInstance] /\ order' = Among(order, Applets \ {a})
      BY <1>4, <2>3 DEF UnloadDone
    <3>2. registry' \in [Applets -> Instances]
      BY <1>0, <3>1 DEF Typed, NoInstance, Instances, LifecycleStates, NoSession
    <3>3. RegisteredApplets' = RegisteredApplets \ {a}
      <4>1. \A x \in Applets : registry'[x].state # "cold" <=> registry[x].state # "cold" /\ x # a
        BY <1>0, <3>1 DEF Typed, NoInstance
      <4> QED
        BY <4>1 DEF RegisteredApplets, Registered
    <3>4. order' = Among(order, RegisteredApplets')
      <4>1. \A e \in order : /\ e[1] \in RegisteredApplets /\ e[2] \in RegisteredApplets
                             /\ e[1] \in Applets /\ e[2] \in Applets
        BY DEF TypeInv, Ordered, RegisteredApplets
      <4> QED
        BY <3>1, <3>3, <4>1 DEF Among
    <3>5. Ordered(order', RegisteredApplets')
      <4>1. RegisteredApplets' \in SUBSET RegisteredApplets
        BY <3>3
      <4> QED
        BY <3>4, <4>1, OrderedAmong DEF TypeInv
    <3>6. order' \in SUBSET (Applets \X Applets)
      BY <1>0, <3>1 DEF Among, Typed
    <3>7. Ordered(order, RegisteredApplets)'
      BY <3>5
    <3> QED
      BY <1>0, <1>4, <2>1, <3>2, <3>6, <3>7 DEF UnloadDone, TypeInv, Typed
  <2> QED
    BY <2>2, <2>3
<1> QED
  BY <1>1, <1>2, <1>3, <1>4

\* The event a batch takes next is well formed, and so is what it leaves.
LEMMA NextEvent ==
    ASSUME Typed, NEW t \in Timers, Ready(t)
    PROVE  /\ Head(batch[t]) \in KernelEvents /\ Head(batch[t]).applet \in Applets
           /\ Head(batch[t]).at \in Nat
           /\ [batch EXCEPT ![t] = Tail(@)] \in [Timers -> Seq(KernelEvents)]
<1>1. batch \in [Timers -> Seq(KernelEvents)] /\ batch[t] \in Seq(KernelEvents) /\ batch[t] # <<>>
  BY DEF Typed, Ready
<1>2. Head(batch[t]) \in KernelEvents /\ Tail(batch[t]) \in Seq(KernelEvents)
  BY <1>1
<1> QED
  BY <1>1, <1>2 DEF KernelEvents

\* The actions of the window, the timers and the clock keep it.
LEMMA TimersTypeInv ==
    ASSUME TypeInv,
           \/ WindowBlur \/ WindowFocus \/ RunSweep \/ Tick
           \/ \E level \in PressureLevels : HandleMemoryPressure(level)
           \/ \E t \in Timers : BatchSuspend(t) \/ BatchDestroy(t)
    PROVE  TypeInv'
<1>0. Typed
  BY DEF TypeInv
<1>1. ASSUME NEW x, NEW event \in DispatchEvents, NEW at \in Nat, Dispatch(x, event, at), order' = order
      PROVE  /\ registry' \in [Applets -> Instances] /\ surface' \in [Applets -> Surfaces]
             /\ Ordered(order, RegisteredApplets)'
  <2>1. /\ registry' \in [Applets -> Instances] /\ surface' \in [Applets -> Surfaces]
        /\ \A a \in Applets : Kept(a) \/ (\E e \in DispatchEvents : Moved(a, e))
    BY <1>0, <1>1, DispatchOne
  <2> QED
    BY <1>1, <2>1, MovesKeepOrder
<1>2. CASE WindowBlur
  <2>1. now \in Nat /\ "pause" \in DispatchEvents
    BY <1>0 DEF Typed, DispatchEvents
  <2> QED
    BY <1>0, <1>1, <1>2, <2>1 DEF WindowBlur, TypeInv, Typed
<1>3. CASE WindowFocus
  <2>1. now \in Nat /\ "resume" \in DispatchEvents
    BY <1>0 DEF Typed, DispatchEvents
  <2> QED
    BY <1>0, <1>1, <1>3, <2>1 DEF WindowFocus, TypeInv, Typed
<1>4. ASSUME NEW t \in Timers, NEW events \in Seq(KernelEvents), StartBatch(t, events)
      PROVE  TypeInv'
  <2>1. Ordered(order, RegisteredApplets)'
    BY <1>4, OrderedUnchanged DEF StartBatch, TypeInv
  <2> QED
    BY <1>0, <1>4, <2>1 DEF StartBatch, TypeInv, Typed
<1>5. /\ registry \in [Applets -> Instances] /\ Ordered(order, Recorded(registry)) /\ now \in Nat
      /\ "sweep" \in Timers /\ "memory" \in Timers
  BY <1>0 DEF TypeInv, Typed, Recorded, RegisteredApplets, Registered, Timers
<1>6. CASE RunSweep
  <2>1. Sweep(registry, order, now) \in Seq(KernelEvents)
    BY <1>5, SweepList DEF EventList
  <2> QED
    BY <1>4, <1>5, <1>6, <2>1 DEF RunSweep
<1>7. ASSUME NEW level \in PressureLevels, HandleMemoryPressure(level) PROVE TypeInv'
  <2>1. OnMemoryPressure(level, registry, order, now) \in Seq(KernelEvents)
    BY <1>5, RuntimeAssumption, PressureList
  <2> QED
    BY <1>4, <1>5, <1>7, <2>1 DEF HandleMemoryPressure
<1>8. ASSUME NEW t \in Timers, BatchSuspend(t) PROVE TypeInv'
  <2>1. /\ Head(batch[t]).at \in Nat /\ batch' \in [Timers -> Seq(KernelEvents)]
        /\ "suspend" \in DispatchEvents
    BY <1>0, <1>8, NextEvent DEF BatchSuspend, DispatchEvents
  <2>2. Dispatch(Head(batch[t]).applet, "suspend", Head(batch[t]).at) /\ order' = order
    BY <1>8 DEF BatchSuspend
  <2>3. /\ registry' \in [Applets -> Instances] /\ surface' \in [Applets -> Surfaces]
        /\ Ordered(order, RegisteredApplets)'
    BY <1>1, <2>1, <2>2
  <2> QED
    BY <1>0, <1>8, <2>1, <2>3 DEF BatchSuspend, TypeInv, Typed
<1>9. ASSUME NEW t \in Timers, BatchDestroy(t) PROVE TypeInv'
  <2> DEFINE a == Head(batch[t]).applet
             origin == [x \in {y \in {a} : Registered(y)} |-> t]
  <2>1. a \in Applets /\ batch' \in [Timers -> Seq(KernelEvents)]
    BY <1>0, <1>9, NextEvent DEF BatchDestroy
  <2>2. Reclaim(origin)
    BY <1>9 DEF BatchDestroy
  <2>3. t \in Origins /\ t # "store"
    BY DEF Origins, Timers
  <2>4. /\ DOMAIN origin \in SUBSET Applets
        /\ \A x \in DOMAIN origin :
              origin[x] \in Origins /\ (origin[x] # "store" <=> Registered(x))
    BY <2>1, <2>3
  <2> HIDE DEF origin
  <2>5. /\ registry' \in [Applets -> Instances] /\ surface' \in [Applets -> Surfaces]
        /\ unloading' \in [Applets -> [Origins -> Nat]]
        /\ order' \in SUBSET (Applets \X Applets) /\ Ordered(order, RegisteredApplets)'
    BY <2>2, <2>4, ReclaimEffect
  <2> QED
    BY <1>0, <1>9, <2>1, <2>5 DEF BatchDestroy, TypeInv, Typed
<1>10. CASE Tick
  <2>1. Ordered(order, RegisteredApplets)'
    BY <1>10, OrderedUnchanged DEF Tick, TypeInv
  <2> QED
    BY <1>0, <1>10, <2>1 DEF Tick, TypeInv, Typed
<1> QED
  BY <1>2, <1>3, <1>6, <1>7, <1>8, <1>9, <1>10

\* Every step keeps the type invariant.
LEMMA NextTypeInv == TypeInv /\ [Next]_vars => TypeInv'
<1> SUFFICES ASSUME TypeInv, [Next]_vars PROVE TypeInv'
  OBVIOUS
<1>1. CASE Next
  BY <1>1, PagesTypeInv, LoadsTypeInv, TimersTypeInv DEF Next
<1>2. CASE UNCHANGED vars
  <2>1. Ordered(order, RegisteredApplets)'
    BY <1>2, OrderedUnchanged DEF vars, TypeInv
  <2> QED
    BY <1>2, <2>1 DEF vars, TypeInv, Typed
<1> QED
  BY <1>1, <1>2

\* The registry, the surfaces, the sessions and the batches are well formed, and
\* the insertion order is a strict total order of the registered applets.
THEOREM TypeCorrect == Spec => []TypeInv
BY InitTypeInv, NextTypeInv, PTL DEF Spec

-----------------------------------------------------------------------------
(* What a sweep decides.                                                     *)

\* Whatever the registry and the policy, a sweep decides once about an instance,
\* never about a visible one, and its LRU pass takes the least recently touched.
THEOREM SweepChoosesOldest == Spec => []SweepChooses
<1>1. TypeInv => SweepChooses
  <2> SUFFICES ASSUME TypeInv PROVE SweepChooses
    OBVIOUS
  <2> DEFINE events == Sweep(registry, order, now)
  <2>1. /\ registry \in [Applets -> Instances] /\ Ordered(order, Recorded(registry)) /\ now \in Nat
    BY DEF TypeInv, Typed, Recorded, RegisteredApplets, Registered
  <2>2. EventList(events, {a \in Recorded(registry) : registry[a].state # "visible"})
    BY <2>1, SweepList
  <2> HIDE DEF events
  <2>3. DOMAIN events = 1..Len(events)
    BY <2>2 DEF EventList
  <2>4. \A j, k \in DOMAIN events : events[j].applet = events[k].applet => j = k
    BY <2>2, <2>3 DEF EventList
  <2>5. \A k \in DOMAIN events : registry[events[k].applet].state # "visible"
    BY <2>2, <2>3 DEF EventList
  <2>6. ASSUME NEW a \in LruEvict(registry, order, now),
               NEW b \in In(registry, {"hidden-warm", "paused"})
                           \ SweepSuspend(registry, order, now)
        PROVE  registry[a].lastTouchedAt <= registry[b].lastTouchedAt
    <3>1. b \in Applets /\ registry[b].state \in {"hidden-warm", "paused"}
      BY DEF In
    <3> QED
      BY <2>1, <3>1, LruTakesOldest
  <2> QED
    BY <2>4, <2>5, <2>6 DEF SweepChooses, events
<1> QED
  BY <1>1, TypeCorrect, PTL

-----------------------------------------------------------------------------
(* What one step does to one applet.                                         *)

\* A destroy of a that is in flight stays so.
Lasts(a) == DestroyInFlight(a) => DestroyInFlight(a)'

\* A cold acquire registers and shows the applet.
Created(a, s) ==
    /\ ~Registered(a) /\ s # NoSession
    /\ registry'[a] = NewInstance(s)
    /\ surface'[a] = ShowSurface(surface[a], s)

Fate(a) ==
    \/ Kept(a) /\ Lasts(a)
    \/ Lasts(a) /\ \E event \in DispatchEvents : Moved(a, event)
    \/ \E s \in Nat : Created(a, s)
    \/ DestroyBegun(a)
    \/ registry'[a] = NoInstance

\* A destroy in flight lasts while no unload of the applet ends.
LEMMA GrowsLasts ==
    ASSUME Typed, Typed', NEW a \in Applets, Grows(a)
    PROVE  Lasts(a) /\ (InFlight(a) => InFlight(a)')
<1>1. /\ \A o \in Origins : unloading[a][o] \in Nat /\ unloading'[a][o] \in Nat
      /\ \A o \in Origins : unloading'[a][o] >= unloading[a][o]
  BY DEF Typed, Grows
<1>2. \A o \in Origins : unloading[a][o] > 0 => unloading'[a][o] > 0
  BY <1>1
<1> QED
  BY <1>2 DEF Lasts, DestroyInFlight, InFlight

\* A reclaim, seen from one applet.
LEMMA ReclaimFate ==
    ASSUME TypeInv, TypeInv', NEW origin, DOMAIN origin \in SUBSET Applets, Reclaim(origin),
           \A a \in DOMAIN origin :
              origin[a] \in Origins /\ (origin[a] # "store" <=> Registered(a))
    PROVE  \A a \in Applets : Fate(a)
<1> SUFFICES ASSUME NEW a \in Applets PROVE Fate(a)
  OBVIOUS
<1>1. CASE a \in DOMAIN origin
  <2>1. StoreUnload(a) \/ DestroyBegun(a) \/ DestroyedAtOnce(a)
    BY <1>1, ReclaimEffect
  <2>2. ASSUME StoreUnload(a) PROVE Kept(a) /\ Lasts(a)
    BY <2>2, GrowsLasts DEF StoreUnload, TypeInv
  <2> QED
    BY <2>1, <2>2 DEF Fate, DestroyedAtOnce
<1>2. CASE a \notin DOMAIN origin
  <2>1. Kept(a) /\ unloading'[a] = unloading[a]
    BY <1>2, ReclaimEffect
  <2> QED
    BY <2>1 DEF Fate, Lasts, DestroyInFlight
<1> QED
  BY <1>1, <1>2

\* The same for the steps of the pages, which move, reclaim or leave alone.
LEMMA PagesFate ==
    ASSUME TypeInv, TypeInv',
           \/ \E a \in Applets : OpenPage(a) \/ ReleasePage(a)
           \/ \E close \in BOOLEAN : LeavePage(close)
           \/ Teardown
    PROVE  \A a \in Applets : Fate(a)
<1>0. Typed
  BY DEF TypeInv
<1>1. ASSUME NEW next \in Applets \cup {NoApplet}, NotifyActivePage(next), UNCHANGED unloading
      PROVE  \A x \in Applets : Fate(x)
  <2>1. \A x \in Applets : Kept(x) \/ (\E event \in DispatchEvents : Moved(x, event))
    BY <1>0, <1>1, NotifyEffect DEF DispatchEvents
  <2>2. \A x \in Applets : Lasts(x)
    BY <1>1 DEF Lasts, DestroyInFlight
  <2> QED
    BY <2>1, <2>2 DEF Fate
<1>2. ASSUME NEW a \in Applets, OpenPage(a) PROVE \A x \in Applets : Fate(x)
  BY <1>1, <1>2 DEF OpenPage
<1>3. ASSUME NEW close \in BOOLEAN, LeavePage(close) PROVE \A x \in Applets : Fate(x)
  BY <1>1, <1>3 DEF LeavePage
<1>4. ASSUME NEW a \in Applets, ReleasePage(a) PROVE \A x \in Applets : Fate(x)
  <2> DEFINE origin == [x \in {a} |-> IF Registered(a) THEN "kernel" ELSE "store"]
  <2>1. /\ DOMAIN origin \in SUBSET Applets /\ Reclaim(origin)
        /\ \A x \in DOMAIN origin :
              origin[x] \in Origins /\ (origin[x] # "store" <=> Registered(x))
    BY <1>4 DEF ReleasePage, Origins
  <2> HIDE DEF origin
  <2> QED
    BY <2>1, ReclaimFate
<1>5. ASSUME Teardown PROVE \A x \in Applets : Fate(x)
  <2> DEFINE origin == [x \in lease |-> IF Registered(x) THEN "kernel" ELSE "store"]
  <2>1. /\ DOMAIN origin \in SUBSET Applets /\ Reclaim(origin)
        /\ \A x \in DOMAIN origin :
              origin[x] \in Origins /\ (origin[x] # "store" <=> Registered(x))
    BY <1>0, <1>5 DEF Teardown, Origins, Typed
  <2> HIDE DEF origin
  <2> QED
    BY <2>1, ReclaimFate
<1> QED
  BY <1>2, <1>3, <1>4, <1>5

\* A superseded acquire adds an unload; nothing else changes the unloads here.
LEMMA ResumeGrows ==
    ASSUME Typed, NEW a \in Applets, NEW s, ResumeAcquires(a, s)
    PROVE  \A x \in Applets : Grows(x)
<1>1. CASE a \notin lease
  <2>1. unloading' = [unloading EXCEPT ![a]["store"] = @ + waiting[a]] /\ waiting[a] \in Nat
    BY <1>1 DEF ResumeAcquires, UndoLoad, Typed
  <2>2. unloading \in [Applets -> [Origins -> Nat]]
    BY DEF Typed
  <2> QED
    BY <2>1, <2>2 DEF Grows
<1>2. CASE a \in lease
  <2>1. UNCHANGED unloading
    BY <1>2 DEF ResumeAcquires
  <2> QED
    BY <2>1 DEF Grows, Typed
<1> QED
  BY <1>1, <1>2

\* The acquires that awaited a load, seen from one applet.
LEMMA ResumeFate ==
    ASSUME TypeInv, TypeInv', NEW a \in Applets, NEW s \in Nat \ {0}, ResumeAcquires(a, s)
    PROVE  \A x \in Applets : Fate(x)
<1>0. Typed /\ Typed'
  BY DEF TypeInv
<1>1. \A x \in Applets : Lasts(x)
  BY <1>0, ResumeGrows, GrowsLasts
<1>2. CASE a \notin lease
  <2>1. UNCHANGED <<registry, surface>>
    BY <1>2 DEF ResumeAcquires
  <2> QED
    BY <1>1, <2>1 DEF Fate, Kept
<1>3. CASE a \in lease /\ Registered(a)
  <2>2. \A x \in Applets : Kept(x) \/ (\E event \in DispatchEvents : Moved(x, event))
    BY <1>0, <1>3, ResumeShow
  <2> QED
    BY <1>1, <2>2 DEF Fate
<1>4. CASE a \in lease /\ ~Registered(a)
  <2>1. /\ registry' = [registry EXCEPT ![a] = NewInstance(s)]
        /\ surface' = [surface EXCEPT ![a] = ShowSurface(@, s)]
    BY <1>4 DEF ResumeAcquires, NewInstance
  <2>2. Created(a, s)
    BY <1>0, <1>4, <2>1 DEF Created, Typed, NoSession
  <2>3. \A x \in Applets \ {a} : Kept(x)
    BY <1>0, <2>1 DEF Kept, Typed
  <2> QED
    BY <1>1, <2>2, <2>3 DEF Fate
<1> QED
  BY <1>2, <1>3, <1>4

\* Loads and unloads, seen from one applet.
LEMMA LoadsFate ==
    ASSUME TypeInv, TypeInv', NEW a \in Applets,
           \/ LoadVerified(a) \/ LoadCreated(a) \/ LoadFailed(a)
           \/ \E o \in Origins : UnloadDone(a, o)
    PROVE  \A x \in Applets : Fate(x)
<1>0. Typed
  BY DEF TypeInv
<1>1. ASSUME UNCHANGED <<registry, surface, unloading>> PROVE \A x \in Applets : Fate(x)
  BY <1>1 DEF Fate, Kept, Lasts, DestroyInFlight
<1>2. ASSUME LoadVerified(a) PROVE \A x \in Applets : Fate(x)
  <2>1. CASE manager[a] # NoSession
    <3>1. manager[a] \in Nat \ {0}
      BY <1>0, <2>1 DEF Typed, NoSession
    <3> QED
      BY <1>2, <2>1, <3>1, ResumeFate DEF LoadVerified
  <2>2. CASE manager[a] = NoSession
    BY <1>1, <1>2, <2>2 DEF LoadVerified
  <2> QED
    BY <2>1, <2>2
<1>3. ASSUME LoadCreated(a) PROVE \A x \in Applets : Fate(x)
  <2>1. minted + 1 \in Nat \ {0}
    BY <1>0 DEF Typed
  <2> QED
    BY <1>3, <2>1, ResumeFate DEF LoadCreated
<1>4. ASSUME LoadFailed(a) PROVE \A x \in Applets : Fate(x)
  BY <1>1, <1>4 DEF LoadFailed
<1>5. ASSUME NEW o \in Origins, UnloadDone(a, o) PROVE \A x \in Applets : Fate(x)
  <2>1. ASSUME NEW x \in Applets, x # a PROVE Fate(x)
    <3>1. unloading'[x] = unloading[x] /\ Kept(x)
      BY <1>0, <1>5, <2>1 DEF UnloadDone, Kept, Typed
    <3> QED
      BY <3>1 DEF Fate, Lasts, DestroyInFlight
  <2>2. CASE o = "store"
    <3>1. Kept(a) /\ \A p \in Origins \ {"store"} : unloading'[a][p] = unloading[a][p]
      BY <1>0, <1>5, <2>2 DEF UnloadDone, Kept, Typed
    <3>2. Fate(a)
      BY <3>1 DEF Fate, Lasts, DestroyInFlight
    <3> QED
      BY <2>1, <3>2
  <2>3. CASE o # "store"
    <3>1. registry'[a] = NoInstance
      BY <1>0, <1>5, <2>3 DEF UnloadDone, Typed
    <3> QED
      BY <2>1, <3>1 DEF Fate
  <2> QED
    BY <2>2, <2>3
<1> QED
  BY <1>2, <1>3, <1>4, <1>5

\* The window and the timers, seen from one applet.
LEMMA TimersFate ==
    ASSUME TypeInv, TypeInv',
           \/ WindowBlur \/ WindowFocus \/ RunSweep \/ Tick
           \/ \E level \in PressureLevels : HandleMemoryPressure(level)
           \/ \E t \in Timers : BatchSuspend(t) \/ BatchDestroy(t)
    PROVE  \A x \in Applets : Fate(x)
<1>0. Typed
  BY DEF TypeInv
<1>1. ASSUME UNCHANGED <<registry, surface, unloading>> PROVE \A x \in Applets : Fate(x)
  BY <1>1 DEF Fate, Kept, Lasts, DestroyInFlight
<1>2. ASSUME NEW y, NEW event \in DispatchEvents, NEW at \in Nat, Dispatch(y, event, at),
             UNCHANGED unloading
      PROVE  \A x \in Applets : Fate(x)
  <2>1. \A x \in Applets : Kept(x) \/ (\E e \in DispatchEvents : Moved(x, e))
    BY <1>0, <1>2, DispatchOne
  <2>2. \A x \in Applets : Lasts(x)
    BY <1>2 DEF Lasts, DestroyInFlight
  <2> QED
    BY <2>1, <2>2 DEF Fate
<1>3. now \in Nat /\ "pause" \in DispatchEvents /\ "resume" \in DispatchEvents
      /\ "suspend" \in DispatchEvents
  BY <1>0 DEF Typed, DispatchEvents
<1>4. CASE WindowBlur
  BY <1>2, <1>3, <1>4 DEF WindowBlur
<1>5. CASE WindowFocus
  BY <1>2, <1>3, <1>5 DEF WindowFocus
<1>6. CASE RunSweep
  BY <1>1, <1>6 DEF RunSweep, StartBatch
<1>7. ASSUME NEW level \in PressureLevels, HandleMemoryPressure(level)
      PROVE  \A x \in Applets : Fate(x)
  BY <1>1, <1>7 DEF HandleMemoryPressure, StartBatch
<1>8. CASE Tick
  BY <1>1, <1>8 DEF Tick
<1>9. ASSUME NEW t \in Timers, BatchSuspend(t) PROVE \A x \in Applets : Fate(x)
  <2>1. Head(batch[t]).at \in Nat
    BY <1>0, <1>9, NextEvent DEF BatchSuspend
  <2> QED
    BY <1>2, <1>3, <1>9, <2>1 DEF BatchSuspend
<1>10. ASSUME NEW t \in Timers, BatchDestroy(t) PROVE \A x \in Applets : Fate(x)
  <2> DEFINE a == Head(batch[t]).applet
             origin == [x \in {y \in {a} : Registered(y)} |-> t]
  <2>1. a \in Applets
    BY <1>0, <1>10, NextEvent DEF BatchDestroy
  <2>2. Reclaim(origin)
    BY <1>10 DEF BatchDestroy
  <2>3. t \in Origins /\ t # "store"
    BY DEF Origins, Timers
  <2>4. /\ DOMAIN origin \in SUBSET Applets
        /\ \A x \in DOMAIN origin :
              origin[x] \in Origins /\ (origin[x] # "store" <=> Registered(x))
    BY <2>1, <2>3
  <2> HIDE DEF origin
  <2> QED
    BY <2>2, <2>4, ReclaimFate
<1> QED
  BY <1>4, <1>5, <1>6, <1>7, <1>8, <1>9, <1>10

\* Every step.
LEMMA StepFate ==
    ASSUME TypeInv, [Next]_vars
    PROVE  TypeInv' /\ \A a \in Applets : Fate(a)
<1>0. TypeInv'
  BY NextTypeInv
<1>1. CASE Next
  BY <1>0, <1>1, PagesFate, LoadsFate, TimersFate DEF Next
<1>2. CASE UNCHANGED vars
  BY <1>0, <1>2 DEF vars, Fate, Kept, Lasts, DestroyInFlight
<1> QED
  BY <1>1, <1>2

\* A suspend that a sweep or the memory monitor decided before the user came back
\* to the applet is rejected by the orchestrator, whenever it is dispatched.
THEOREM StaleSuspendIsRejected == Spec => StaleSuspendRejected
<1>1. TypeInv /\ [Next]_vars
        => [\A a \in Applets : registry[a].state = "visible" => registry'[a].state # "suspended"]_vars
  <2> SUFFICES ASSUME TypeInv, [Next]_vars, NEW a \in Applets, registry[a].state = "visible"
               PROVE  registry'[a].state # "suspended"
    OBVIOUS
  <2>1. Fate(a) /\ Typed
    BY StepFate DEF TypeInv
  <2>2. ASSUME NEW event \in DispatchEvents, Moved(a, event)
        PROVE  registry'[a].state # "suspended"
    <3>1. registry'[a].state = NextState(event) /\ IsValidTransition(registry[a].state, event)
      BY <2>1, <2>2, MovedInstance DEF Moved, Accepted
    <3> QED
      BY <3>1, EventTable DEF DispatchEvents
  <2>3. ASSUME NEW s \in Nat, Created(a, s) PROVE registry'[a].state # "suspended"
    BY <2>3, EventTable DEF Created, NewInstance
  <2> QED
    BY <2>1, <2>2, <2>3 DEF Fate, Kept, DestroyBegun, NoInstance
<1> QED
  BY <1>1, TypeCorrect, PTL DEF Spec, StaleSuspendRejected

-----------------------------------------------------------------------------
(* The surface of an applet.                                                 *)

\* What the page shows of an instance in a state.  It strengthens SurfaceAgrees:
\* every registered instance has a host, so a hide or a suspend reaches it.
Shown(state, rec) ==
    /\ state # "cold" => rec.host # NoSession
    /\ state \in LifecycleStates \ {"materializing"}
    /\ state = "visible" => rec.visible /\ ~rec.detached
    /\ state = "hidden-warm" => ~rec.visible
    /\ state = "suspended" => ~rec.visible /\ rec.detached

SurfaceInv ==
    /\ TypeInv
    /\ \A a \in Applets : ~DestroyInFlight(a) => Shown(registry[a].state, surface[a])

\* An accepted event leaves the surface of its state.
LEMMA MovedSurface ==
    ASSUME Typed, NEW a \in Applets, NEW event \in DispatchEvents, Moved(a, event),
           Shown(registry[a].state, surface[a])
    PROVE  Shown(registry'[a].state, surface'[a])
<1>0. PICK s \in Nat : Accepted(a, event, s) /\ surface'[a] = SurfaceAfter(event, surface[a], s)
  BY DEF Moved
<1>1. /\ registry'[a].state = NextState(event) /\ registry'[a].state # "cold"
      /\ registry[a].state # "cold" /\ IsValidTransition(registry[a].state, event)
      /\ ~SurfaceFails(event, surface[a], s)
      /\ surface'[a] = SurfaceAfter(event, surface[a], s)
  BY <1>0, MovedInstance DEF Accepted
<1>2. surface[a] \in Surfaces /\ surface[a].host # NoSession
  BY <1>1 DEF Typed, Shown
<1>3. CASE event \in {"show", "resume"}
  <2>1. surface'[a] = ShowSurface(surface[a], s) /\ registry'[a].state = "visible"
    BY <1>1, <1>3, EventTable DEF SurfaceAfter
  <2> QED
    BY <1>2, <2>1 DEF ShowSurface, Shown, LifecycleStates
<1>4. CASE event = "hide"
  <2>1. surface'[a] = HideSurface(surface[a]) /\ registry'[a].state = "hidden-warm"
    BY <1>1, <1>4, EventTable DEF SurfaceAfter
  <2> QED
    BY <1>2, <2>1 DEF HideSurface, Shown, LifecycleStates, Surfaces
<1>5. CASE event = "suspend"
  <2>1. surface'[a] = DetachSurface(surface[a]) /\ registry'[a].state = "suspended"
    BY <1>1, <1>5, EventTable DEF SurfaceAfter
  <2> QED
    BY <1>2, <2>1 DEF DetachSurface, Shown, LifecycleStates
<1>6. CASE event = "pause"
  <2>1. surface'[a] = surface[a] /\ registry'[a].state = "paused"
    BY <1>1, <1>6, EventTable DEF SurfaceAfter
  <2> QED
    BY <1>2, <2>1 DEF Shown, LifecycleStates
<1> QED
  BY <1>3, <1>4, <1>5, <1>6 DEF DispatchEvents

\* Every step keeps the surfaces in agreement.
LEMMA NextSurfaceInv == SurfaceInv /\ [Next]_vars => SurfaceInv'
<1> SUFFICES ASSUME SurfaceInv, [Next]_vars PROVE SurfaceInv'
  OBVIOUS
<1>0. TypeInv /\ TypeInv' /\ Typed
  BY StepFate DEF SurfaceInv, TypeInv
<1>1. ASSUME NEW a \in Applets, ~DestroyInFlight(a)'
      PROVE  Shown(registry'[a].state, surface'[a])
  <2>1. Fate(a)
    BY <1>0, StepFate
  <2>2. Lasts(a) => Shown(registry[a].state, surface[a])
    BY <1>1 DEF Lasts, SurfaceInv
  <2>3. CASE Kept(a) /\ Lasts(a)
    BY <2>2, <2>3 DEF Kept
  <2>4. ASSUME NEW event \in DispatchEvents, Moved(a, event), Lasts(a)
        PROVE  Shown(registry'[a].state, surface'[a])
    BY <1>0, <2>2, <2>4, MovedSurface
  <2>5. ASSUME NEW s \in Nat, Created(a, s)
        PROVE  Shown(registry'[a].state, surface'[a])
    <3>1. registry'[a].state = "visible" /\ surface'[a] = ShowSurface(surface[a], s) /\ s # NoSession
      BY <2>5, EventTable DEF Created, NewInstance
    <3> QED
      BY <3>1 DEF ShowSurface, Shown, LifecycleStates
  <2>6. CASE DestroyBegun(a)
    BY <1>1, <2>6 DEF DestroyBegun
  <2>7. CASE registry'[a] = NoInstance
    BY <2>7 DEF NoInstance, Shown, LifecycleStates
  <2> QED
    BY <2>1, <2>3, <2>4, <2>5, <2>6, <2>7 DEF Fate
<1> QED
  BY <1>0, <1>1 DEF SurfaceInv

\* The user sees the state the orchestrator records, however page changes, loads,
\* sweeps, pressure batches and unloads interleave.
THEOREM SurfaceAlwaysAgrees == Spec => []SurfaceAgrees
<1>1. Init => SurfaceInv
  <2> SUFFICES ASSUME Init PROVE SurfaceInv
    OBVIOUS
  <2>1. \A a \in Applets : registry[a].state = "cold"
    BY DEF Init, NoInstance
  <2> QED
    BY <2>1, InitTypeInv DEF SurfaceInv, Shown, LifecycleStates
<1>2. SurfaceInv => SurfaceAgrees
  BY DEF SurfaceInv, SurfaceAgrees, Shown
<1> QED
  BY <1>1, <1>2, NextSurfaceInv, PTL DEF Spec

-----------------------------------------------------------------------------
(* The capability sessions.                                                  *)

\* A session in the manager has an instance, or an unload that will end it.
Held == \A a \in Applets : manager[a] # NoSession => Registered(a) \/ InFlight(a)

\* The backend knows the session of an instance until its destroy begins, so that
\* destroy reaches the gateway.
Known ==
    \A a \in Applets :
        Registered(a) /\ registry[a].session \notin adopted => DestroyInFlight(a)

SessionsOf(a) == {manager[a], registry[a].session} \ {NoSession}

\* The gateway minted every session, for one applet.
Own ==
    /\ \A a \in Applets : SessionsOf(a) \in SUBSET (1..minted)
    /\ \A a, b \in Applets : a # b => SessionsOf(a) \cap SessionsOf(b) = {}
    /\ \A a \in Applets : Registered(a) <=> registry[a].session # NoSession

\* An acquire awaits every load.
Awaited == \A a \in Applets : load[a] # "idle" => waiting[a] > 0

\* NoOrphanSession needs what each destroy finds: the instance of a session, a
\* backend that knows it, and no other applet that shares it.
SessionInv == TypeInv /\ Held /\ Known /\ Own /\ Awaited

\* Sessions that stay with their applet stay its own.
LEMMA OwnKept ==
    ASSUME TypeInv, TypeInv', Own, minted' >= minted,
           \A a \in Applets : SessionsOf(a)' \in SUBSET SessionsOf(a),
           \A a \in Applets : Registered(a)' <=> registry'[a].session # NoSession
    PROVE  Own'
<1>0. minted \in Nat /\ minted' \in Nat
  BY DEF TypeInv, Typed
<1>1. ASSUME NEW a \in Applets PROVE SessionsOf(a)' \in SUBSET (1..minted')
  <2>1. SessionsOf(a)' \in SUBSET (1..minted)
    BY DEF Own
  <2> QED
    BY <1>0, <2>1
<1>2. ASSUME NEW a \in Applets, NEW b \in Applets, a # b
      PROVE  SessionsOf(a)' \cap SessionsOf(b)' = {}
  <2>1. SessionsOf(a) \cap SessionsOf(b) = {}
    BY <1>2 DEF Own
  <2>2. SessionsOf(a)' \in SUBSET SessionsOf(a) /\ SessionsOf(b)' \in SUBSET SessionsOf(b)
    OBVIOUS
  <2> QED
    BY <2>1, <2>2
<1> QED
  BY <1>1, <1>2 DEF Own

\* A step that only dispatches events changes no session.
LEMMA QuietSession ==
    ASSUME SessionInv, TypeInv', UNCHANGED <<manager, adopted, unloading, minted>>, Awaited',
           \A a \in Applets : Kept(a) \/ (\E event \in DispatchEvents : Moved(a, event))
    PROVE  SessionInv'
<1>0. TypeInv /\ Typed /\ Held /\ Known /\ Own
  BY DEF SessionInv, TypeInv
<1>1. ASSUME NEW a \in Applets
      PROVE  /\ Registered(a)' <=> Registered(a)
             /\ registry'[a].session = registry[a].session
  BY <1>0, MovedInstance DEF Kept, Registered
<1>2. Held' /\ Known'
  BY <1>0, <1>1 DEF Held, Known, InFlight, DestroyInFlight
<1>3. Own'
  <2>1. minted' >= minted
    BY <1>0 DEF Typed
  <2>2. \A a \in Applets : SessionsOf(a)' \in SUBSET SessionsOf(a)
    BY <1>1 DEF SessionsOf
  <2>3. \A a \in Applets : Registered(a)' <=> registry'[a].session # NoSession
    BY <1>0, <1>1 DEF Own
  <2> QED
    BY <1>0, <2>1, <2>2, <2>3, OwnKept
<1> QED
  BY <1>2, <1>3 DEF SessionInv

\* A destroy forgets the sessions of the instances it is about and no others, and
\* removes a record at once only if its session is gone or another destroy of it
\* is in flight.
LEMMA ReclaimSession ==
    ASSUME SessionInv, TypeInv', UNCHANGED <<manager, load, waiting, minted>>,
           NEW origin, DOMAIN origin \in SUBSET Applets, Reclaim(origin),
           \A a \in DOMAIN origin :
              origin[a] \in Origins /\ (origin[a] # "store" <=> Registered(a))
    PROVE  SessionInv'
<1>0. TypeInv /\ Typed /\ Typed' /\ Held /\ Known /\ Own /\ Awaited
  BY DEF SessionInv, TypeInv
<1>1. /\ adopted' = adopted \ {registry[a].session : a \in {x \in DOMAIN origin : Registered(x)}}
      /\ \A a \in DOMAIN origin :
            IF Registered(a) THEN DestroyBegun(a) \/ DestroyedAtOnce(a) ELSE StoreUnload(a)
      /\ \A a \in Applets \ DOMAIN origin : Kept(a) /\ unloading'[a] = unloading[a]
  BY <1>0, ReclaimEffect
<1>2. ASSUME NEW a \in Applets
      PROVE  \/ Kept(a) /\ unloading'[a] = unloading[a] /\ a \notin DOMAIN origin
             \/ StoreUnload(a) /\ ~Registered(a)
             \/ DestroyBegun(a)
             \/ DestroyedAtOnce(a)
  <2>1. CASE a \in DOMAIN origin
    BY <1>1, <2>1
  <2>2. CASE a \notin DOMAIN origin
    BY <1>1, <2>2
  <2> QED
    BY <2>1, <2>2
<1>3. Held'
  <2> SUFFICES ASSUME NEW a \in Applets, manager[a] # NoSession
               PROVE  Registered(a)' \/ InFlight(a)'
    BY DEF Held
  <2>1. Registered(a) \/ InFlight(a)
    BY <1>0 DEF Held
  <2>2. CASE Kept(a) /\ unloading'[a] = unloading[a]
    BY <2>1, <2>2 DEF Kept, Registered, InFlight
  <2>3. CASE StoreUnload(a)
    BY <2>3 DEF StoreUnload
  <2>4. CASE DestroyBegun(a)
    BY <2>4 DEF DestroyBegun, Registered
  <2>5. CASE DestroyedAtOnce(a)
    <3>1. DestroyInFlight(a)
      BY <1>0, <2>5 DEF DestroyedAtOnce, Known
    <3>2. Lasts(a)
      BY <1>0, <2>5, GrowsLasts DEF DestroyedAtOnce
    <3> QED
      BY <3>1, <3>2 DEF Lasts, DestroyInFlight, InFlight
  <2> QED
    BY <1>2, <2>2, <2>3, <2>4, <2>5
<1>4. Known'
  <2> SUFFICES ASSUME NEW a \in Applets, registry'[a].state # "cold",
                      registry'[a].session \notin adopted'
               PROVE  DestroyInFlight(a)'
    BY DEF Known, Registered
  <2>1. CASE Kept(a) /\ unloading'[a] = unloading[a] /\ a \notin DOMAIN origin
    <3>1. Registered(a) /\ registry'[a].session = registry[a].session
      BY <2>1 DEF Kept, Registered
    <3>2. ASSUME NEW b \in DOMAIN origin, Registered(b)
          PROVE  registry[b].session # registry[a].session
      <4>1. /\ a # b /\ b \in Applets
            /\ registry[a].session \in SessionsOf(a) /\ registry[b].session \in SessionsOf(b)
        BY <1>0, <2>1, <3>1, <3>2 DEF Own, SessionsOf
      <4> QED
        BY <1>0, <4>1 DEF Own
    <3>3. registry[a].session \notin adopted
      BY <1>1, <3>1, <3>2
    <3> QED
      BY <1>0, <2>1, <3>1, <3>3 DEF Known, DestroyInFlight
  <2>2. CASE StoreUnload(a) /\ ~Registered(a)
    BY <2>2 DEF StoreUnload, Kept, Registered
  <2>3. CASE DestroyBegun(a)
    BY <2>3 DEF DestroyBegun
  <2>4. CASE DestroyedAtOnce(a)
    BY <2>4 DEF DestroyedAtOnce, NoInstance
  <2> QED
    BY <1>2, <2>1, <2>2, <2>3, <2>4
<1>5. Own'
  <2>1. ASSUME NEW a \in Applets
        PROVE  registry'[a] = registry[a] \/ registry'[a] = NoInstance
    BY <1>2 DEF Kept, StoreUnload, DestroyBegun, DestroyedAtOnce
  <2>2. ASSUME NEW a \in Applets
        PROVE  /\ SessionsOf(a)' \in SUBSET SessionsOf(a)
               /\ Registered(a)' <=> registry'[a].session # NoSession
    BY <1>0, <2>1 DEF SessionsOf, Own, Registered, NoInstance
  <2>3. minted' >= minted
    BY <1>0 DEF Typed
  <2> QED
    BY <1>0, <2>2, <2>3, OwnKept
<1>6. Awaited'
  BY <1>0 DEF Awaited
<1> QED
  BY <1>3, <1>4, <1>5, <1>6 DEF SessionInv

\* The acquires that awaited a load: superseded ones leave an unload in flight,
\* the others an instance whose session the backend knows.
LEMMA ResumeSession ==
    ASSUME SessionInv, TypeInv', NEW a \in Applets, load[a] # "idle",
           NEW s \in Nat \ {0}, ResumeAcquires(a, s),
           \/ s = manager[a] /\ minted' = minted
           \/ s = minted + 1 /\ minted' = minted + 1
    PROVE  SessionInv'
<1>0. TypeInv /\ Typed /\ Typed' /\ Held /\ Known /\ Own /\ Awaited /\ minted \in Nat
  BY DEF SessionInv, TypeInv, Typed
<1>1. /\ manager' = [manager EXCEPT ![a] = s]
      /\ waiting' = [waiting EXCEPT ![a] = 0] /\ load' = [load EXCEPT ![a] = "idle"]
  BY DEF ResumeAcquires
<1>2. manager'[a] = s /\ \A x \in Applets \ {a} : manager'[x] = manager[x]
  BY <1>0, <1>1 DEF Typed
<1>3. Awaited'
  BY <1>0, <1>1 DEF Awaited, Typed
<1>4. ASSUME NEW x \in Applets PROVE Lasts(x) /\ (InFlight(x) => InFlight(x)')
  BY <1>0, ResumeGrows, GrowsLasts
<1>5. \/ a \notin lease /\ InFlight(a)' /\ UNCHANGED <<registry, adopted>>
      \/ /\ Registered(a) /\ Registered(a)' /\ UNCHANGED adopted
         /\ \A x \in Applets : registry'[x].session = registry[x].session
         /\ \A x \in Applets : Registered(x)' <=> Registered(x)
      \/ /\ ~Registered(a) /\ adopted' = adopted \cup {s}
         /\ registry' = [registry EXCEPT ![a] = NewInstance(s)]
  <2>1. CASE a \notin lease
    <3>1. /\ unloading' = [unloading EXCEPT ![a]["store"] = @ + waiting[a]]
          /\ UNCHANGED <<registry, adopted>>
      BY <2>1 DEF ResumeAcquires, UndoLoad
    <3>2. waiting[a] \in Nat /\ waiting[a] > 0 /\ "store" \in Origins
      BY <1>0 DEF Awaited, Typed, Origins
    <3>3. unloading'[a]["store"] > 0
      BY <1>0, <3>1, <3>2 DEF Typed
    <3> QED
      BY <2>1, <3>1, <3>2, <3>3 DEF InFlight
  <2>2. CASE a \in lease /\ Registered(a)
    <3>1. UNCHANGED adopted
      BY <1>0, <2>2, ResumeShow
    <3>2. \A x \in Applets : Kept(x) \/ (\E event \in DispatchEvents : Moved(x, event))
      BY <1>0, <2>2, ResumeShow
    <3>3. ASSUME NEW x \in Applets
          PROVE  /\ Registered(x)' <=> Registered(x)
                 /\ registry'[x].session = registry[x].session
      BY <1>0, <3>2, MovedInstance DEF Kept, Registered
    <3> QED
      BY <2>2, <3>1, <3>3
  <2>3. CASE a \in lease /\ ~Registered(a)
    BY <2>3 DEF ResumeAcquires, NewInstance
  <2> QED
    BY <2>1, <2>2, <2>3
<1>6. ASSUME registry' = [registry EXCEPT ![a] = NewInstance(s)]
      PROVE  /\ registry'[a].session = s /\ registry'[a].state # "cold"
             /\ \A x \in Applets \ {a} : registry'[x] = registry[x]
  BY <1>0, <1>6, EventTable DEF Typed, NewInstance
<1>7. Held'
  <2> SUFFICES ASSUME NEW x \in Applets, manager'[x] # NoSession
               PROVE  registry'[x].state # "cold" \/ InFlight(x)'
    BY DEF Held, Registered
  <2>1. CASE x = a
    BY <1>5, <1>6, <2>1 DEF Registered
  <2>2. CASE x # a
    <3>1. Registered(x) \/ InFlight(x)
      BY <1>0, <1>2, <2>2 DEF Held
    <3>2. registry'[x].state # "cold" <=> registry[x].state # "cold"
      BY <1>5, <1>6, <2>2 DEF Registered
    <3> QED
      BY <1>4, <3>1, <3>2 DEF Registered
  <2> QED
    BY <2>1, <2>2
<1>8. Known'
  <2> SUFFICES ASSUME NEW x \in Applets, registry'[x].state # "cold",
                      registry'[x].session \notin adopted'
               PROVE  DestroyInFlight(x)'
    BY DEF Known, Registered
  <2>1. registry[x].state # "cold" /\ registry[x].session \notin adopted
    <3>1. CASE registry' = [registry EXCEPT ![a] = NewInstance(s)] /\ adopted' = adopted \cup {s}
      BY <1>6, <3>1
    <3> QED
      BY <1>5, <3>1 DEF Registered
  <2>2. DestroyInFlight(x)
    BY <1>0, <2>1 DEF Known, Registered
  <2> QED
    BY <1>4, <2>2 DEF Lasts
<1>9. \A x \in Applets : Registered(x)' <=> registry'[x].session # NoSession
  <2> SUFFICES ASSUME NEW x \in Applets
               PROVE  registry'[x].state # "cold" <=> registry'[x].session # NoSession
    BY DEF Registered
  <2>1. registry[x].state # "cold" <=> registry[x].session # NoSession
    BY <1>0 DEF Own, Registered
  <2>2. CASE registry' = [registry EXCEPT ![a] = NewInstance(s)]
    BY <1>6, <2>1, <2>2 DEF NoSession
  <2> QED
    BY <1>5, <2>1, <2>2 DEF Registered
<1>10. ASSUME NEW x \in Applets
       PROVE  /\ x # a => SessionsOf(x)' \in SUBSET SessionsOf(x)
              /\ x = a => SessionsOf(x)' \in SUBSET (SessionsOf(x) \cup {s})
  <2>1. CASE registry' = [registry EXCEPT ![a] = NewInstance(s)]
    BY <1>2, <1>6, <2>1 DEF SessionsOf
  <2>2. CASE registry'[x].session = registry[x].session
    BY <1>2, <2>2 DEF SessionsOf
  <2> QED
    BY <1>5, <2>1, <2>2
<1>11. CASE s = manager[a] /\ minted' = minted
  <2>1. s \in SessionsOf(a) /\ minted' >= minted
    BY <1>0, <1>11 DEF SessionsOf, NoSession
  <2>2. \A x \in Applets : SessionsOf(x)' \in SUBSET SessionsOf(x)
    BY <1>10, <2>1
  <2>3. Own'
    BY <1>0, <1>9, <2>1, <2>2, OwnKept
  <2> QED
    BY <1>3, <1>7, <1>8, <2>3 DEF SessionInv
<1>12. CASE s = minted + 1 /\ minted' = minted + 1
  <2>1. ASSUME NEW x \in Applets
        PROVE  SessionsOf(x) \in SUBSET (1..minted) /\ s \notin SessionsOf(x)
    BY <1>0, <1>12 DEF Own
  <2>2. ASSUME NEW x \in Applets PROVE SessionsOf(x)' \in SUBSET (1..minted')
    <3>1. SessionsOf(x)' \in SUBSET (SessionsOf(x) \cup {s})
      BY <1>10
    <3>2. s \in 1..minted' /\ \A n \in 1..minted : n \in 1..minted'
      BY <1>0, <1>12
    <3> QED
      BY <2>1, <3>1, <3>2
  <2>3. ASSUME NEW x \in Applets, NEW y \in Applets, x # y
        PROVE  SessionsOf(x)' \cap SessionsOf(y)' = {}
    <3>1. SessionsOf(x) \cap SessionsOf(y) = {}
      BY <1>0, <2>3 DEF Own
    <3>2. s \notin SessionsOf(x) /\ s \notin SessionsOf(y)
      BY <2>1
    <3> QED
      BY <1>10, <2>3, <3>1, <3>2
  <2>4. Own'
    BY <1>9, <2>2, <2>3 DEF Own
  <2> QED
    BY <1>3, <1>7, <1>8, <2>4 DEF SessionInv
<1> QED
  BY <1>11, <1>12

\* The end of an unload takes the session out of the manager.
LEMMA UnloadSession ==
    ASSUME SessionInv, TypeInv', NEW a \in Applets, NEW o \in Origins, UnloadDone(a, o)
    PROVE  SessionInv'
<1>0. TypeInv /\ Typed /\ Typed' /\ Held /\ Known /\ Own /\ Awaited
  BY DEF SessionInv, TypeInv
<1>1. /\ manager'[a] = NoSession /\ UNCHANGED <<adopted, load, waiting, minted>>
      /\ \A x \in Applets \ {a} : /\ manager'[x] = manager[x]
                                  /\ unloading'[x] = unloading[x] /\ registry'[x] = registry[x]
      /\ registry'[a] = registry[a] \/ registry'[a] = NoInstance
  BY <1>0 DEF UnloadDone, Typed
<1>2. registry'[a] = NoInstance \/ Lasts(a)
  <2>1. CASE o = "store"
    <3>1. \A p \in Origins \ {"store"} : unloading'[a][p] = unloading[a][p]
      BY <1>0, <2>1 DEF UnloadDone, Typed
    <3> QED
      BY <3>1 DEF Lasts, DestroyInFlight
  <2>2. CASE o # "store"
    BY <1>0, <2>2 DEF UnloadDone, Typed
  <2> QED
    BY <2>1, <2>2
<1>3. Held'
  <2> SUFFICES ASSUME NEW x \in Applets, manager'[x] # NoSession
               PROVE  registry'[x].state # "cold" \/ InFlight(x)'
    BY DEF Held, Registered
  <2> QED
    BY <1>0, <1>1 DEF Held, Registered, InFlight
<1>4. Known'
  <2> SUFFICES ASSUME NEW x \in Applets, registry'[x].state # "cold",
                      registry'[x].session \notin adopted'
               PROVE  DestroyInFlight(x)'
    BY DEF Known, Registered
  <2>1. registry'[x] = registry[x]
    BY <1>1 DEF NoInstance
  <2>2. DestroyInFlight(x)
    BY <1>0, <1>1, <2>1 DEF Known, Registered
  <2>3. CASE x = a
    BY <1>2, <2>2, <2>3 DEF Lasts, NoInstance
  <2>4. CASE x # a
    BY <1>1, <2>2, <2>4 DEF DestroyInFlight
  <2> QED
    BY <2>3, <2>4
<1>5. Own'
  <2>1. ASSUME NEW x \in Applets
        PROVE  /\ SessionsOf(x)' \in SUBSET SessionsOf(x)
               /\ Registered(x)' <=> registry'[x].session # NoSession
    BY <1>0, <1>1 DEF SessionsOf, Own, Registered, NoInstance
  <2>2. minted' >= minted
    BY <1>0, <1>1 DEF Typed
  <2> QED
    BY <1>0, <2>1, <2>2, OwnKept
<1>6. Awaited'
  BY <1>0, <1>1 DEF Awaited
<1> QED
  BY <1>3, <1>4, <1>5, <1>6 DEF SessionInv

\* Every step keeps the session invariant.
LEMMA NextSessionInv == SessionInv /\ [Next]_vars => SessionInv'
<1> SUFFICES ASSUME SessionInv, [Next]_vars PROVE SessionInv'
  OBVIOUS
<1>0. TypeInv /\ Typed /\ TypeInv' /\ Awaited
  BY NextTypeInv DEF SessionInv, TypeInv
<1>1. ASSUME UNCHANGED <<registry, surface, manager, adopted, unloading, minted>>, Awaited'
      PROVE  SessionInv'
  <2>1. \A a \in Applets : Kept(a)
    BY <1>1 DEF Kept
  <2> QED
    BY <1>0, <1>1, <2>1, QuietSession
<1>2. ASSUME UNCHANGED <<load, waiting>> PROVE Awaited'
  BY <1>0, <1>2 DEF Awaited
<1>3. ASSUME NEW x, NEW event \in DispatchEvents, NEW at \in Nat, Dispatch(x, event, at),
             UNCHANGED <<manager, adopted, unloading, minted, load, waiting>>
      PROVE  SessionInv'
  <2>1. \A a \in Applets : Kept(a) \/ (\E e \in DispatchEvents : Moved(a, e))
    BY <1>0, <1>3, DispatchOne
  <2> QED
    BY <1>0, <1>2, <1>3, <2>1, QuietSession
<1>4. now \in Nat /\ "pause" \in DispatchEvents /\ "resume" \in DispatchEvents
      /\ "suspend" \in DispatchEvents
  BY <1>0 DEF Typed, DispatchEvents
<1>5. ASSUME NEW a \in Applets, OpenPage(a) PROVE SessionInv'
  <2>1. \A x \in Applets : Kept(x) \/ (\E event \in DispatchEvents : Moved(x, event))
    BY <1>0, <1>5, NotifyEffect DEF OpenPage, DispatchEvents
  <2>2. Awaited'
    <3>1. CASE a \in lease
      BY <1>2, <1>5, <3>1 DEF OpenPage, AcquirePage
    <3>2. CASE a \notin lease
      <4>1. /\ load' = IF load[a] = "idle" THEN [load EXCEPT ![a] = "verify"] ELSE load
            /\ waiting' = [waiting EXCEPT ![a] = @ + 1]
        BY <1>5, <3>2 DEF OpenPage, AcquirePage
      <4>2. waiting'[a] > 0 /\ \A x \in Applets \ {a} : waiting'[x] = waiting[x] /\ load'[x] = load[x]
        BY <1>0, <4>1 DEF Typed
      <4> QED
        BY <1>0, <4>2 DEF Awaited
    <3> QED
      BY <3>1, <3>2
  <2> QED
    BY <1>0, <1>5, <2>1, <2>2, QuietSession DEF OpenPage
<1>6. ASSUME NEW close \in BOOLEAN, LeavePage(close) PROVE SessionInv'
  <2>1. \A x \in Applets : Kept(x) \/ (\E event \in DispatchEvents : Moved(x, event))
    BY <1>0, <1>6, NotifyEffect DEF LeavePage, DispatchEvents
  <2> QED
    BY <1>0, <1>2, <1>6, <2>1, QuietSession DEF LeavePage
<1>7. ASSUME NEW a \in Applets, ReleasePage(a) PROVE SessionInv'
  <2> DEFINE origin == [x \in {a} |-> IF Registered(a) THEN "kernel" ELSE "store"]
  <2>1. /\ DOMAIN origin \in SUBSET Applets /\ Reclaim(origin)
        /\ \A x \in DOMAIN origin :
              origin[x] \in Origins /\ (origin[x] # "store" <=> Registered(x))
        /\ UNCHANGED <<manager, load, waiting, minted>>
    BY <1>7 DEF ReleasePage, Origins
  <2> HIDE DEF origin
  <2> QED
    BY <1>0, <2>1, ReclaimSession
<1>8. ASSUME Teardown PROVE SessionInv'
  <2> DEFINE origin == [x \in lease |-> IF Registered(x) THEN "kernel" ELSE "store"]
  <2>1. /\ DOMAIN origin \in SUBSET Applets /\ Reclaim(origin)
        /\ \A x \in DOMAIN origin :
              origin[x] \in Origins /\ (origin[x] # "store" <=> Registered(x))
        /\ UNCHANGED <<manager, load, waiting, minted>>
    BY <1>0, <1>8 DEF Teardown, Origins, Typed
  <2> HIDE DEF origin
  <2> QED
    BY <1>0, <2>1, ReclaimSession
<1>9. ASSUME NEW a \in Applets, LoadVerified(a) PROVE SessionInv'
  <2>1. CASE manager[a] # NoSession
    <3>1. /\ manager[a] \in Nat \ {0} /\ ResumeAcquires(a, manager[a]) /\ minted' = minted
          /\ load[a] # "idle"
      BY <1>0, <1>9, <2>1 DEF LoadVerified, Typed, NoSession
    <3> QED
      BY <1>0, <3>1, ResumeSession
  <2>2. CASE manager[a] = NoSession
    <3>1. /\ load' = [load EXCEPT ![a] = "create"] /\ waiting' = waiting /\ load[a] = "verify"
          /\ UNCHANGED <<registry, surface, manager, adopted, unloading, minted>>
      BY <1>9, <2>2 DEF LoadVerified
    <3>2. Awaited'
      BY <1>0, <3>1 DEF Awaited, Typed
    <3> QED
      BY <1>1, <3>1, <3>2
  <2> QED
    BY <2>1, <2>2
<1>10. ASSUME NEW a \in Applets, LoadCreated(a) PROVE SessionInv'
  <2>1. /\ minted + 1 \in Nat \ {0} /\ ResumeAcquires(a, minted + 1) /\ minted' = minted + 1
        /\ load[a] # "idle"
    BY <1>0, <1>10 DEF LoadCreated, Typed
  <2> QED
    BY <1>0, <2>1, ResumeSession
<1>11. ASSUME NEW a \in Applets, LoadFailed(a) PROVE SessionInv'
  <2>1. Awaited'
    BY <1>0, <1>11 DEF Awaited, LoadFailed, Typed
  <2> QED
    BY <1>1, <1>11, <2>1 DEF LoadFailed
<1>12. ASSUME NEW a \in Applets, NEW o \in Origins, UnloadDone(a, o) PROVE SessionInv'
  BY <1>0, <1>12, UnloadSession
<1>13. CASE WindowBlur
  BY <1>3, <1>4, <1>13 DEF WindowBlur
<1>14. CASE WindowFocus
  BY <1>3, <1>4, <1>14 DEF WindowFocus
<1>15. CASE RunSweep
  BY <1>1, <1>2, <1>15 DEF RunSweep, StartBatch
<1>16. ASSUME NEW level \in PressureLevels, HandleMemoryPressure(level) PROVE SessionInv'
  BY <1>1, <1>2, <1>16 DEF HandleMemoryPressure, StartBatch
<1>17. ASSUME NEW t \in Timers, BatchSuspend(t) PROVE SessionInv'
  <2>1. Head(batch[t]).at \in Nat
    BY <1>0, <1>17, NextEvent DEF BatchSuspend
  <2> QED
    BY <1>3, <1>4, <1>17, <2>1 DEF BatchSuspend
<1>18. ASSUME NEW t \in Timers, BatchDestroy(t) PROVE SessionInv'
  <2> DEFINE a == Head(batch[t]).applet
             origin == [x \in {y \in {a} : Registered(y)} |-> t]
  <2>1. a \in Applets
    BY <1>0, <1>18, NextEvent DEF BatchDestroy
  <2>2. Reclaim(origin) /\ UNCHANGED <<manager, load, waiting, minted>>
    BY <1>18 DEF BatchDestroy
  <2>3. t \in Origins /\ t # "store"
    BY DEF Origins, Timers
  <2>4. /\ DOMAIN origin \in SUBSET Applets
        /\ \A x \in DOMAIN origin :
              origin[x] \in Origins /\ (origin[x] # "store" <=> Registered(x))
    BY <2>1, <2>3
  <2> HIDE DEF origin
  <2> QED
    BY <1>0, <2>2, <2>4, ReclaimSession
<1>19. CASE Tick
  BY <1>1, <1>2, <1>19 DEF Tick
<1>20. CASE UNCHANGED vars
  BY <1>1, <1>2, <1>20 DEF vars
<1> QED
  BY <1>5, <1>6, <1>7, <1>8, <1>9, <1>10, <1>11, <1>12, <1>13, <1>14, <1>15, <1>16, <1>17,
     <1>18, <1>19, <1>20 DEF Next

\* No capability session is left behind: whichever acquire, release, destroy or
\* unload came last, a session in the manager has an instance or an unload in
\* flight.
THEOREM NoSessionIsOrphaned == Spec => []NoOrphanSession
<1>1. Init => SessionInv
  <2> SUFFICES ASSUME Init PROVE SessionInv
    OBVIOUS
  <2>1. /\ \A a \in Applets : registry[a].state = "cold" /\ registry[a].session = NoSession
        /\ \A a \in Applets : manager[a] = NoSession
        /\ \A a \in Applets : load[a] = "idle"
    BY DEF Init, NoInstance
  <2> QED
    BY <2>1, InitTypeInv DEF SessionInv, Held, Known, Own, Awaited, SessionsOf, Registered
<1>2. SessionInv => NoOrphanSession
  BY DEF SessionInv, Held, NoOrphanSession
<1> QED
  BY <1>1, <1>2, NextSessionInv, PTL DEF Spec

-----------------------------------------------------------------------------
(* What a whole sweep leaves.                                                *)

\* A set of numbers that holds 0 and the successor of each of its members holds
\* every number.
LEMMA SetInduction ==
    ASSUME NEW N, N \subseteq Nat, 0 \in N, \A n \in N : n + 1 \in N
    PROVE  N = Nat
<1> DEFINE R == OpToRel(<, Nat)
           T == Nat \ N
<1> SUFFICES ASSUME T # {} PROVE FALSE
  OBVIOUS
<1>1. PICK x \in T : \A y \in T : ~(<<y, x>> \in R)
  <2>1. IsWellFoundedOn(R, Nat) /\ T \subseteq Nat
    BY NatLessThanWellFounded
  <2> HIDE DEF R, T
  <2> QED
    BY <2>1, WFMin
<1>2. x \in Nat /\ x # 0 /\ x - 1 \in Nat /\ x - 1 < x /\ (x - 1) + 1 = x
  OBVIOUS
<1>3. <<x - 1, x>> \in R
  BY <1>2, Zenon DEF OpToRel
<1>4. x - 1 \in N
  BY <1>1, <1>2, <1>3
<1> QED
  BY <1>2, <1>4

\* A list of a set holds every member of it.
LEMMA ListIsComplete ==
    ASSUME NEW S, IsFiniteSet(S), NEW R, NEW m, Listed(m, S, R)
    PROVE  \A a \in S : \E k \in 1..Len(m) : m[k] = a
<1>0. Cardinality(S) \in Nat
  BY FS_CardinalityType
<1>1. /\ m \in Seq(S) /\ Len(m) = Cardinality(S)
      /\ \A j, k \in 1..Len(m) : m[j] = m[k] => j = k
  BY ListIsSequence
<1> DEFINE D == 1..Cardinality(S)
<1>2. m \in Injection(D, S)
  BY <1>0, <1>1 DEF Injection, IsInjective
<1>3. IsFiniteSet(D) /\ Cardinality(D) = Cardinality(S)
  BY <1>0, FS_Interval
<1> HIDE DEF D
<1>4. m \in Surjection(D, S)
  BY <1>2, <1>3, FS_Injection
<1> QED
  BY <1>1, <1>4 DEF Surjection, D

\* The events of q, all of time at, suspend the applets of S and destroy those of D.
Decides(q, S, D, at) ==
    /\ q \in Seq(KernelEvents)
    /\ \A k \in 1..Len(q) :
          q[k].at = at /\ q[k].applet \in (IF q[k].type = "destroy" THEN D ELSE S)
    /\ \A a \in S : \E k \in 1..Len(q) : q[k].applet = a /\ q[k].type = "suspend"
    /\ \A a \in D : \E k \in 1..Len(q) : q[k].applet = a /\ q[k].type = "destroy"

\* Two lists of decisions, one after the other.
LEMMA DecidesConcat ==
    ASSUME NEW at, NEW S, NEW D, NEW q, Decides(q, S, D, at),
           NEW T, NEW E, NEW r, Decides(r, T, E, at)
    PROVE  Decides(q \o r, S \cup T, D \cup E, at)
<1>1. /\ q \in Seq(KernelEvents) /\ r \in Seq(KernelEvents) /\ Len(q) \in Nat /\ Len(r) \in Nat
      /\ q \o r \in Seq(KernelEvents) /\ Len(q \o r) = Len(q) + Len(r)
  BY DEF Decides
<1>2. ASSUME NEW k \in 1..Len(q \o r)
      PROVE  /\ (q \o r)[k].at = at
             /\ (q \o r)[k].applet \in IF (q \o r)[k].type = "destroy" THEN D \cup E ELSE S \cup T
  <2>1. CASE k <= Len(q)
    <3>1. k \in 1..Len(q) /\ (q \o r)[k] = q[k]
      BY <1>1, <2>1
    <3> QED
      BY <3>1 DEF Decides
  <2>2. CASE ~(k <= Len(q))
    <3>1. k - Len(q) \in 1..Len(r) /\ (q \o r)[k] = r[k - Len(q)]
      BY <1>1, <2>2
    <3> QED
      BY <3>1 DEF Decides
  <2> QED
    BY <2>1, <2>2
<1>3. ASSUME NEW k \in 1..Len(q) PROVE k \in 1..Len(q \o r) /\ (q \o r)[k] = q[k]
  BY <1>1
<1>4. ASSUME NEW k \in 1..Len(r)
      PROVE  Len(q) + k \in 1..Len(q \o r) /\ (q \o r)[Len(q) + k] = r[k]
  BY <1>1
<1>5. ASSUME NEW a \in S \cup T
      PROVE  \E k \in 1..Len(q \o r) : (q \o r)[k].applet = a /\ (q \o r)[k].type = "suspend"
  <2>1. CASE a \in S
    <3>1. PICK k \in 1..Len(q) : q[k].applet = a /\ q[k].type = "suspend"
      BY <2>1 DEF Decides
    <3> QED
      BY <3>1, <1>3
  <2>2. CASE a \in T
    <3>1. PICK k \in 1..Len(r) : r[k].applet = a /\ r[k].type = "suspend"
      BY <2>2 DEF Decides
    <3> QED
      BY <3>1, <1>4
  <2> QED
    BY <2>1, <2>2
<1>6. ASSUME NEW a \in D \cup E
      PROVE  \E k \in 1..Len(q \o r) : (q \o r)[k].applet = a /\ (q \o r)[k].type = "destroy"
  <2>1. CASE a \in D
    <3>1. PICK k \in 1..Len(q) : q[k].applet = a /\ q[k].type = "destroy"
      BY <2>1 DEF Decides
    <3> QED
      BY <3>1, <1>3
  <2>2. CASE a \in E
    <3>1. PICK k \in 1..Len(r) : r[k].applet = a /\ r[k].type = "destroy"
      BY <2>2 DEF Decides
    <3> QED
      BY <3>1, <1>4
  <2> QED
    BY <2>1, <2>2
<1> QED
  BY <1>1, <1>2, <1>5, <1>6 DEF Decides

\* A list of applets becomes a list of decisions about each of them.
LEMMA DecidesOfList ==
    ASSUME NEW S, NEW D, S \cup D \in SUBSET Applets, S \cap D = {},
           NEW R, NEW m, Listed(m, S \cup D, R), NEW at \in Nat, NEW q,
           q = [k \in 1..Len(m) |->
                  Event(IF m[k] \in D THEN "destroy" ELSE "suspend", m[k], at)]
    PROVE  Decides(q, S, D, at)
<1> DEFINE B == S \cup D
<1>0. IsFiniteSet(B)
  BY PolicyAssumption, FS_Subset
<1>1. m \in Seq(B) /\ \A a \in B : \E k \in 1..Len(m) : m[k] = a
  <2> HIDE DEF B
  <2>1. Listed(m, B, R)
    BY DEF B
  <2> QED
    BY <1>0, <2>1, ListIsSequence, ListIsComplete
<1>2. Len(m) \in Nat /\ \A k \in 1..Len(m) : m[k] \in S \cup D
  BY <1>1
<1>3. ASSUME NEW k \in 1..Len(m)
      PROVE  /\ q[k] \in KernelEvents /\ q[k].applet = m[k] /\ q[k].at = at
             /\ q[k].type = IF m[k] \in D THEN "destroy" ELSE "suspend"
  <2>1. m[k] \in Applets
    BY <1>2
  <2> QED
    BY <2>1 DEF Event, KernelEvents
<1>4. q \in Seq(KernelEvents) /\ Len(q) = Len(m)
  <2>1. q \in [1..Len(m) -> KernelEvents]
    BY <1>3
  <2> QED
    BY <1>2, <2>1
<1>5. \A k \in 1..Len(q) :
          q[k].at = at /\ q[k].applet \in (IF q[k].type = "destroy" THEN D ELSE S)
  BY <1>2, <1>3, <1>4
<1>6. \A a \in S : \E k \in 1..Len(q) : q[k].applet = a /\ q[k].type = "suspend"
  <2> SUFFICES ASSUME NEW a \in S
               PROVE  \E k \in 1..Len(q) : q[k].applet = a /\ q[k].type = "suspend"
    OBVIOUS
  <2>1. PICK k \in 1..Len(m) : m[k] = a
    BY <1>1
  <2>2. q[k].applet = m[k] /\ q[k].type = IF m[k] \in D THEN "destroy" ELSE "suspend"
    BY <1>3
  <2>3. k \in 1..Len(q) /\ a \notin D
    BY <1>4
  <2> QED
    BY <2>1, <2>2, <2>3
<1>7. \A a \in D : \E k \in 1..Len(q) : q[k].applet = a /\ q[k].type = "destroy"
  <2> SUFFICES ASSUME NEW a \in D
               PROVE  \E k \in 1..Len(q) : q[k].applet = a /\ q[k].type = "destroy"
    OBVIOUS
  <2>1. PICK k \in 1..Len(m) : m[k] = a
    BY <1>1
  <2>2. q[k].applet = m[k] /\ q[k].type = IF m[k] \in D THEN "destroy" ELSE "suspend"
    BY <1>3
  <2>3. k \in 1..Len(q)
    BY <1>4
  <2> QED
    BY <2>1, <2>2, <2>3
<1> QED
  BY <1>4, <1>5, <1>6, <1>7 DEF Decides

\* A sweep decides to suspend and to destroy exactly what its three passes select.
LEMMA SweepDecides ==
    ASSUME NEW reg \in [Applets -> Instances], NEW ord, Ordered(ord, Recorded(reg)),
           NEW at \in Nat
    PROVE  Decides(Sweep(reg, ord, at), SweepSuspend(reg, ord, at), SweepDestroy(reg, ord, at),
                   at)
<1> DEFINE A == TtlSuspend(reg, at)
           B == TtlDestroy(reg, at)
           C == LruEvict(reg, ord, at)
           D == SuspendedOverflow(reg, ord, at)
           p == TtlEvents(reg, ord, at)
           q == EventsByAge("suspend", C, reg, ord, at)
           r == EventsByAge("destroy", D, reg, ord, at)
<1>0. /\ A \cup B \in SUBSET Recorded(reg) /\ C \in SUBSET Recorded(reg)
      /\ D \in SUBSET Recorded(reg) /\ A \cap B = {}
      /\ Recorded(reg) \in SUBSET Applets /\ \A a \in Applets : reg[a].lastTouchedAt \in Nat
  <2>1. A \cap B = {}
    BY DEF TtlSuspend, TtlDestroy
  <2>2. Recorded(reg) \in SUBSET Applets /\ \A a \in Applets : reg[a].lastTouchedAt \in Nat
    BY DEF Recorded, Instances
  <2> QED
    BY <2>1, <2>2, SweepPasses
<1>1. Decides(p, A, B, at)
  <2> DEFINE m == InOrder(A \cup B, LAMBDA a, b : <<a, b>> \in ord)
  <2>1. p = [k \in 1..Len(m) |-> Event(IF m[k] \in B THEN "destroy" ELSE "suspend", m[k], at)]
    BY DEF TtlEvents
  <2> HIDE DEF A, B, p
  <2>2. IsFiniteSet(A \cup B) /\ A \cup B \in SUBSET Applets
    BY <1>0, PolicyAssumption, FS_Subset
  <2>3. Listed(m, A \cup B, ord)
    BY <1>0, <2>2, OrderIsTotal, ListedByOrder
  <2> HIDE DEF m
  <2> QED
    BY <1>0, <2>1, <2>2, <2>3, DecidesOfList
<1>2. ASSUME NEW S \in SUBSET Recorded(reg)
      PROVE  Listed(InOrder(S, LAMBDA a, b : Older(reg, ord, a, b)), S, OlderPairs(reg, ord, S))
  <2>1. IsFiniteSet(S)
    BY <1>0, PolicyAssumption, FS_Subset
  <2> QED
    BY <1>0, <2>1, OlderIsTotal, ListedByAge
<1>3. Decides(q, C, {}, at)
  <2> DEFINE m == InOrder(C, LAMBDA a, b : Older(reg, ord, a, b))
  <2> HIDE DEF C
  <2>0. q = [k \in 1..Len(m) |-> Event("suspend", m[k], at)]
    BY DEF EventsByAge
  <2>1. Listed(m, C, OlderPairs(reg, ord, C))
    BY <1>0, <1>2
  <2> HIDE DEF m, q
  <2>2. q = [k \in 1..Len(m) |-> Event(IF m[k] \in {} THEN "destroy" ELSE "suspend", m[k], at)]
    BY <2>0
  <2>3. /\ C \cup {} = C /\ C \cup {} \in SUBSET Applets /\ C \cap {} = {}
        /\ Listed(m, C \cup {}, OlderPairs(reg, ord, C))
    BY <1>0, <2>1
  <2> QED
    BY <2>2, <2>3, DecidesOfList
<1>4. Decides(r, {}, D, at)
  <2> DEFINE m == InOrder(D, LAMBDA a, b : Older(reg, ord, a, b))
  <2> HIDE DEF D
  <2>0. r = [k \in 1..Len(m) |-> Event("destroy", m[k], at)]
    BY DEF EventsByAge
  <2>1. Listed(m, D, OlderPairs(reg, ord, D)) /\ IsFiniteSet(D)
    BY <1>0, <1>2, PolicyAssumption, FS_Subset
  <2> HIDE DEF m, r
  <2>4. m \in Seq(D)
    BY <2>1, ListIsSequence
  <2>2. r = [k \in 1..Len(m) |-> Event(IF m[k] \in D THEN "destroy" ELSE "suspend", m[k], at)]
    <3>1. \A k \in 1..Len(m) : m[k] \in D
      BY <2>4
    <3> QED
      BY <2>0, <3>1
  <2>3. /\ {} \cup D = D /\ {} \cup D \in SUBSET Applets /\ {} \cap D = {}
        /\ Listed(m, {} \cup D, OlderPairs(reg, ord, D))
    BY <1>0, <2>1
  <2> QED
    BY <2>2, <2>3, DecidesOfList
<1>5. /\ Sweep(reg, ord, at) = p \o q \o r
      /\ SweepSuspend(reg, ord, at) = A \cup C /\ SweepDestroy(reg, ord, at) = B \cup D
  BY DEF Sweep, SweepSuspend, SweepDestroy
<1> HIDE DEF A, B, C, D, p, q, r
<1>6. Decides(p \o q, A \cup C, B \cup {}, at)
  BY <1>1, <1>3, DecidesConcat
<1>7. Decides((p \o q) \o r, (A \cup C) \cup {}, (B \cup {}) \cup D, at)
  BY <1>4, <1>6, DecidesConcat
<1>8. (A \cup C) \cup {} = A \cup C /\ (B \cup {}) \cup D = B \cup D
  OBVIOUS
<1> QED
  BY <1>5, <1>7, <1>8

\* What each applet is after a whole sweep that nobody disturbs.
Outcome(reg, ord, a) ==
    IF a \in SweepDestroy(reg, ord, now) THEN NoInstance
    ELSE IF a \in SweepSuspend(reg, ord, now) THEN SetState(reg[a], "suspended", now)
    ELSE reg[a]

\* Dispatching the events of a sweep one after the other has the effect of its two
\* sets of decisions: no event undoes or disables another one.
LEMMA SweptOutcome ==
    ASSUME NEW reg \in [Applets -> Instances], NEW ord, Ordered(ord, Recorded(reg)),
           now \in Nat
    PROVE  Swept(reg, ord) = [a \in Applets |-> Outcome(reg, ord, a)]
<1> DEFINE events == Sweep(reg, ord, now)
           n == Len(events)
           S == SweepSuspend(reg, ord, now)
           D == SweepDestroy(reg, ord, now)
           Met(k, a) == \E j \in 1..k : events[j].applet = a
           g == [k \in 0..n |->
                    [a \in Applets |-> IF Met(k, a) THEN Outcome(reg, ord, a) ELSE reg[a]]]
           Step(f, k) == IF k = 0 THEN reg ELSE Dispatched(f[k - 1], events[k])
           after == CHOOSE f : f = [k \in 0..n |-> Step(f, k)]
<1>1. Decides(events, S, D, now)
  BY SweepDecides
<1>2. EventList(events, {a \in Recorded(reg) : reg[a].state # "visible"})
  BY SweepList
<1>3. /\ S \in SUBSET {a \in Applets : reg[a].state \in {"hidden-warm", "paused"}}
      /\ D \in SUBSET {a \in Applets : reg[a].state = "suspended"}
      /\ S \cap D = {}
  <2>1. S \in SUBSET {a \in Applets : reg[a].state \in {"hidden-warm", "paused"}}
    BY DEF SweepSuspend, TtlSuspend, LruEvict, Oldest, Warm, IsWarmState
  <2>2. D \in SUBSET {a \in Applets : reg[a].state = "suspended"}
    BY DEF SweepDestroy, TtlDestroy, SuspendedOverflow, Oldest, OldSuspended
  <2> QED
    BY <2>1, <2>2
<1>4. Swept(reg, ord) = after[n]
  BY DEF Swept
<1>5. \A a \in Applets :
         Outcome(reg, ord, a) = IF a \in D THEN NoInstance
                                ELSE IF a \in S THEN SetState(reg[a], "suspended", now)
                                ELSE reg[a]
  BY DEF Outcome
<1> HIDE DEF events, S, D
<1>6. /\ n \in Nat /\ events \in Seq(KernelEvents)
      /\ \A k \in 1..n : events[k].applet \in Applets /\ events[k].type \in {"suspend", "destroy"}
  <2>1. n \in Nat /\ events \in Seq(KernelEvents)
    BY <1>1 DEF Decides
  <2>2. ASSUME NEW k \in 1..n PROVE events[k] \in KernelEvents
    BY <2>1
  <2> HIDE DEF n
  <2> QED
    BY <2>1, <2>2 DEF KernelEvents
<1> HIDE DEF n
<1>7. ASSUME NEW k \in 1..n
      PROVE  [a \in Applets |-> IF Met(k, a) THEN Outcome(reg, ord, a) ELSE reg[a]]
               = Dispatched([a \in Applets |->
                               IF Met(k - 1, a) THEN Outcome(reg, ord, a) ELSE reg[a]], events[k])
  <2> DEFINE e == events[k]
             old == [a \in Applets |-> IF Met(k - 1, a) THEN Outcome(reg, ord, a) ELSE reg[a]]
             new == [a \in Applets |-> IF Met(k, a) THEN Outcome(reg, ord, a) ELSE reg[a]]
  <2>1. /\ e.applet \in Applets /\ e.type \in {"suspend", "destroy"} /\ e.at = now
        /\ e.applet \in (IF e.type = "destroy" THEN D ELSE S)
    BY <1>1, <1>6 DEF Decides, n
  <2>2. Met(k, e.applet)
    BY <1>6
  <2>3. ~Met(k - 1, e.applet)
    <3> SUFFICES ASSUME NEW j \in 1..(k - 1), events[j].applet = e.applet PROVE FALSE
      OBVIOUS
    <3>1. j \in 1..n /\ j # k
      BY <1>6
    <3> QED
      BY <1>2, <3>1 DEF EventList, n
  <2>4. ASSUME NEW a \in Applets, a # e.applet PROVE Met(k, a) <=> Met(k - 1, a)
    <3>1. ASSUME NEW j \in 1..k, events[j].applet = a PROVE j \in 1..(k - 1)
      BY <1>6, <2>4, <3>1
    <3>2. ASSUME NEW j \in 1..(k - 1) PROVE j \in 1..k
      BY <1>6
    <3> QED
      BY <3>1, <3>2
  <2>5. old[e.applet] = reg[e.applet] /\ new[e.applet] = Outcome(reg, ord, e.applet)
    BY <2>1, <2>2, <2>3
  <2>6. \A a \in Applets : a # e.applet => new[a] = old[a]
    BY <2>4
  <2>7. /\ old = [a \in Applets |-> old[a]]
        /\ new = [a \in Applets |-> new[a]]
    OBVIOUS
  <2> HIDE DEF old, new, Met
  <2>8. Dispatched(old, e)[e.applet] = Outcome(reg, ord, e.applet)
    <3>1. CASE e.type = "destroy"
      <4>1. Outcome(reg, ord, e.applet) = NoInstance
        BY <1>5, <2>1, <3>1
      <4> QED
        BY <2>1, <2>7, <3>1, <4>1 DEF Dispatched
    <3>2. CASE e.type = "suspend"
      <4>1. Outcome(reg, ord, e.applet) = SetState(reg[e.applet], "suspended", now)
        BY <1>3, <1>5, <2>1, <3>2
      <4>2. reg[e.applet].state \in {"hidden-warm", "paused"}
        BY <1>3, <2>1, <3>2
      <4>3. IsValidTransition(old[e.applet].state, "suspend")
        BY <2>5, <4>2 DEF IsValidTransition, RuleOf, TransitionRules
      <4> QED
        BY <2>1, <2>5, <2>7, <3>2, <4>1, <4>3 DEF Dispatched
    <3> QED
      BY <2>1, <3>1, <3>2
  <2>9. /\ Dispatched(old, e) = [a \in Applets |-> Dispatched(old, e)[a]]
        /\ \A a \in Applets : a # e.applet => Dispatched(old, e)[a] = old[a]
    BY <2>7 DEF Dispatched
  <2>10. \A a \in Applets : new[a] = Dispatched(old, e)[a]
    BY <2>5, <2>6, <2>8, <2>9
  <2>11. new = Dispatched(old, e)
    BY <2>7, <2>9, <2>10
  <2> QED
    BY <2>11 DEF old, new
<1>8. g = [k \in 0..n |-> Step(g, k)]
  <2>1. ASSUME NEW k \in 0..n PROVE g[k] = Step(g, k)
    <3>1. CASE k = 0
      <4>1. \A a \in Applets : ~Met(k, a)
        BY <3>1
      <4>2. reg = [a \in Applets |-> reg[a]]
        OBVIOUS
      <4>3. g[k] = [a \in Applets |-> reg[a]]
        BY <4>1
      <4> QED
        BY <3>1, <4>2, <4>3
    <3>2. CASE k # 0
      <4>1. k \in 1..n /\ k - 1 \in 0..n
        BY <1>6, <3>2
      <4>2. /\ g[k] = [a \in Applets |-> IF Met(k, a) THEN Outcome(reg, ord, a) ELSE reg[a]]
            /\ g[k - 1] = [a \in Applets |->
                              IF Met(k - 1, a) THEN Outcome(reg, ord, a) ELSE reg[a]]
        BY <4>1
      <4> HIDE DEF g, Met
      <4> QED
        BY <1>7, <3>2, <4>1, <4>2
    <3> QED
      BY <3>1, <3>2
  <2>2. g = [k \in 0..n |-> g[k]]
    OBVIOUS
  <2> HIDE DEF g
  <2> QED
    BY <2>1, <2>2
<1>9. after = [k \in 0..n |-> Step(after, k)]
  <2>1. \E f : f = [k \in 0..n |-> Step(f, k)]
    <3> HIDE DEF g
    <3> QED
      BY <1>8
  <2> HIDE DEF Step
  <2> QED
    BY <2>1, Zenon
<1>10. \A k \in 0..n : after[k] = g[k]
  <2> DEFINE N == {k \in Nat : k \in 0..n => after[k] = g[k]}
  <2> HIDE DEF g, after
  <2>1. 0 \in N
    BY <1>6, <1>8, <1>9
  <2>2. ASSUME NEW k \in N PROVE k + 1 \in N
    <3> SUFFICES ASSUME k + 1 \in 0..n PROVE after[k + 1] = g[k + 1]
      OBVIOUS
    <3>1. k \in 0..n /\ k + 1 # 0 /\ (k + 1) - 1 = k
      BY <1>6
    <3>2. after[k] = g[k]
      BY <3>1
    <3>3. /\ after[k + 1] = Dispatched(after[(k + 1) - 1], events[k + 1])
          /\ g[k + 1] = Dispatched(g[(k + 1) - 1], events[k + 1])
      BY <1>8, <1>9, <3>1
    <3> QED
      BY <3>1, <3>2, <3>3
  <2>3. N = Nat
    <3> HIDE DEF N
    <3>1. N \subseteq Nat
      BY DEF N
    <3> QED
      BY <2>1, <2>2, <3>1, SetInduction
  <2> QED
    BY <1>6, <2>3
<1>11. ASSUME NEW a \in Applets, ~Met(n, a) PROVE Outcome(reg, ord, a) = reg[a]
  <2>1. a \notin S /\ a \notin D
    BY <1>1, <1>11 DEF Decides, n
  <2> QED
    BY <1>5, <2>1
<1>12. g[n] = [a \in Applets |-> Outcome(reg, ord, a)]
  <2>1. g[n] = [a \in Applets |-> IF Met(n, a) THEN Outcome(reg, ord, a) ELSE reg[a]]
    BY <1>6
  <2> HIDE DEF Met, g
  <2> QED
    BY <1>11, <2>1
<1> HIDE DEF g, after
<1> QED
  BY <1>4, <1>6, <1>10, <1>12

\* The n oldest of a set are the whole set or at least n.
LEMMA OldestTakesEnough ==
    ASSUME NEW reg, NEW ord, NEW T \in SUBSET Applets, Ordered(ord, T), NEW S \in SUBSET T,
           \A a \in S : reg[a].lastTouchedAt \in Nat, NEW n \in Int
    PROVE  /\ Oldest(reg, ord, S, n) \in SUBSET S
           /\ n <= 0 => Oldest(reg, ord, S, n) = {}
           /\ Oldest(reg, ord, S, n) = S \/ Cardinality(Oldest(reg, ord, S, n)) >= n
<1> DEFINE R == OlderPairs(reg, ord, S)
           O == Oldest(reg, ord, S, n)
           Rank(a) == Cardinality(Before(R, S, a))
<1>0. IsFiniteSet(S)
  BY PolicyAssumption, FS_Subset
<1>1. StrictTotalOrder(R, S)
  BY OlderIsTotal
<1>2. \A a \in S : Before(R, S, a) = {b \in S : Older(reg, ord, b, a)}
  BY DEF Before, OlderPairs
<1>3. O = {a \in S : Rank(a) < n}
  BY <1>2 DEF Oldest
<1> HIDE DEF R, O
<1>4. ASSUME NEW a \in S PROVE Rank(a) \in Nat /\ Rank(a) < Cardinality(S)
  <2>1. Before(R, S, a) \in SUBSET S /\ a \notin Before(R, S, a)
    BY <1>1 DEF Before, StrictTotalOrder
  <2>2. /\ IsFiniteSet(Before(R, S, a)) /\ Cardinality(Before(R, S, a)) <= Cardinality(S)
        /\ Cardinality(S) # Cardinality(Before(R, S, a))
    BY <1>0, <2>1, FS_Subset
  <2> QED
    BY <1>0, <2>2, FS_CardinalityType
<1>5. O \in SUBSET S /\ IsFiniteSet(O)
  BY <1>0, <1>3, FS_Subset
<1>6. Cardinality(S) \in Nat /\ Cardinality(O) \in Nat
  BY <1>0, <1>5, FS_CardinalityType
<1>7. n <= 0 => O = {}
  <2> HIDE DEF Rank
  <2> QED
    BY <1>3, <1>4
<1>8. CASE n > Cardinality(S)
  <2>1. \A a \in S : Rank(a) < n
    <3> HIDE DEF Rank
    <3> QED
      BY <1>4, <1>6, <1>8
  <2>2. O = S
    BY <1>3, <2>1
  <2> QED
    BY <1>5, <1>7, <2>2 DEF O
<1>9. CASE n <= 0
  <2>1. Cardinality(O) >= n
    BY <1>6, <1>9
  <2> QED
    BY <1>5, <1>7, <2>1 DEF O
<1>10. CASE n > 0 /\ n <= Cardinality(S)
  <2> DEFINE f == [k \in 1..n |-> CHOOSE a \in S : Rank(a) = k - 1]
  <2>1. ASSUME NEW k \in 1..n PROVE f[k] \in S /\ Rank(f[k]) = k - 1
    <3>1. k \in 1..Cardinality(S)
      BY <1>6, <1>10
    <3>2. \E a \in S : Rank(a) = k - 1
      BY <1>0, <1>1, <3>1, RankExists
    <3>3. f[k] = CHOOSE a \in S : Rank(a) = k - 1
      OBVIOUS
    <3> HIDE DEF f, Rank
    <3> QED
      BY <3>2, <3>3, Zenon
  <2>2. f = [k \in 1..n |-> f[k]]
    OBVIOUS
  <2> HIDE DEF f
  <2>3. ASSUME NEW k \in 1..n PROVE f[k] \in O
    <3> HIDE DEF Rank
    <3>1. k - 1 < n
      OBVIOUS
    <3> QED
      BY <1>3, <2>1, <3>1
  <2>4. ASSUME NEW j \in 1..n, NEW k \in 1..n, f[j] = f[k] PROVE j = k
    <3>1. Rank(f[j]) = j - 1 /\ Rank(f[k]) = k - 1
      BY <2>1
    <3> HIDE DEF Rank
    <3> QED
      BY <2>4, <3>1
  <2>5. f \in Injection(1..n, O)
    BY <2>2, <2>3, <2>4 DEF Injection, IsInjective
  <2>6. Cardinality(1..n) <= Cardinality(O)
    BY <1>5, <2>5, FS_Injection
  <2>7. Cardinality(1..n) = n
    BY <1>10, FS_Interval
  <2>8. Cardinality(O) >= n
    BY <1>6, <2>6, <2>7
  <2> QED
    BY <1>5, <1>7, <2>8 DEF O
<1> QED
  BY <1>6, <1>8, <1>9, <1>10

\* A sweep that selects nothing has no event.
LEMMA NothingDecided ==
    ASSUME NEW q, NEW at, Decides(q, {}, {}, at)
    PROVE  q = <<>>
<1>1. q \in Seq(KernelEvents) /\ Len(q) \in Nat /\ \A k \in 1..Len(q) : FALSE
  BY DEF Decides
<1>2. Len(q) = 0
  BY <1>1
<1> QED
  BY <1>1, <1>2

\* The passes over a registry after a sweep of reg: no time limit has passed, and
\* the warm ones are within the LRU size or all visible.
LEMMA AfterSweep ==
    ASSUME NEW reg \in [Applets -> Instances], NEW ord, Ordered(ord, Recorded(reg)),
           now \in Nat,
           NEW next, next = [a \in Applets |-> Outcome(reg, ord, a)]
    PROVE  /\ next \in [Applets -> Instances] /\ Recorded(next) \in SUBSET Recorded(reg)
           /\ TtlSuspend(next, now) = {} /\ TtlDestroy(next, now) = {}
           /\ In(next, {"visible", "hidden-warm", "paused"})
                = Warm(reg, now) \ LruEvict(reg, ord, now)
           /\ In(next, {"hidden-warm", "paused"})
                = {a \in Warm(reg, now) : reg[a].state # "visible"} \ LruEvict(reg, ord, now)
           /\ In(next, {"suspended"})
                = (OldSuspended(reg, now) \cup SweepSuspend(reg, ord, now))
                     \ SuspendedOverflow(reg, ord, now)
<1> DEFINE S == SweepSuspend(reg, ord, now)
           D == SweepDestroy(reg, ord, now)
           O == SuspendedOverflow(reg, ord, now)
           L == LruEvict(reg, ord, now)
<1>1. /\ L \in SUBSET {a \in Warm(reg, now) : reg[a].state # "visible"}
      /\ O \in SUBSET OldSuspended(reg, now)
      /\ S = TtlSuspend(reg, now) \cup L /\ D = TtlDestroy(reg, now) \cup O
  BY DEF LruEvict, SuspendedOverflow, Oldest, SweepSuspend, SweepDestroy
<1>2. /\ S \in SUBSET {a \in Applets : reg[a].state \in {"hidden-warm", "paused"}}
      /\ D \in SUBSET {a \in Applets : reg[a].state = "suspended"}
  BY <1>1 DEF TtlSuspend, TtlDestroy, Warm, IsWarmState, OldSuspended
<1>3. ASSUME NEW a \in Applets
      PROVE  /\ reg[a] \in Instances /\ next[a] \in Instances
             /\ a \in D => next[a].state = "cold" /\ reg[a].state = "suspended"
             /\ a \in S => /\ next[a].state = "suspended" /\ next[a].lastTouchedAt = now
                           /\ reg[a].state \in {"hidden-warm", "paused"}
             /\ a \notin S \cup D => next[a] = reg[a]
  <2>0. reg[a] \in Instances
    OBVIOUS
  <2>1. CASE a \in D
    <3>1. next[a] = NoInstance
      BY <2>1 DEF Outcome
    <3> QED
      BY <1>2, <2>0, <2>1, <3>1 DEF NoInstance, NoSession, Instances, LifecycleStates
  <2>2. CASE a \in S
    <3>1. next[a] = SetState(reg[a], "suspended", now)
      BY <1>2, <2>2 DEF Outcome
    <3> QED
      BY <1>2, <2>0, <2>2, <3>1 DEF SetState, Instances, LifecycleStates
  <2>3. CASE a \notin S \cup D
    <3>1. next[a] = reg[a]
      BY <2>3 DEF Outcome
    <3> QED
      BY <2>0, <2>3, <3>1
  <2> QED
    BY <2>1, <2>2, <2>3
<1>4. next \in [Applets -> Instances]
  <2>1. next = [a \in Applets |-> next[a]]
    OBVIOUS
  <2> QED
    BY <1>3, <2>1
<1> HIDE DEF S, D, O, L
<1>5. Recorded(next) \in SUBSET Recorded(reg)
  <2> SUFFICES ASSUME NEW a \in Applets, next[a].state # "cold" PROVE reg[a].state # "cold"
    BY DEF Recorded
  <2> QED
    BY <1>3
<1>6. TtlSuspend(next, now) = {}
  <2> SUFFICES ASSUME NEW a \in TtlSuspend(next, now) PROVE FALSE
    OBVIOUS
  <2>1. a \in Applets /\ next[a].state \in {"hidden-warm", "paused"}
    BY DEF TtlSuspend
  <2>2. next[a] = reg[a] /\ a \notin S
    BY <1>3, <2>1
  <2>3. a \in TtlSuspend(reg, now)
    BY <2>1, <2>2 DEF TtlSuspend
  <2> QED
    BY <1>1, <2>2, <2>3
<1>7. TtlDestroy(next, now) = {}
  <2> SUFFICES ASSUME NEW a \in TtlDestroy(next, now) PROVE FALSE
    OBVIOUS
  <2>1. /\ a \in Applets /\ next[a].state = "suspended"
        /\ now - next[a].lastTouchedAt > SuspendedTtl
    BY DEF TtlDestroy
  <2>2. a \notin S
    BY <1>3, <2>1, PolicyAssumption
  <2>3. next[a] = reg[a] /\ a \notin D
    BY <1>3, <2>1, <2>2
  <2>4. a \in TtlDestroy(reg, now)
    BY <2>1, <2>3 DEF TtlDestroy
  <2> QED
    BY <1>1, <2>3, <2>4
<1>8. In(next, {"visible", "hidden-warm", "paused"}) = Warm(reg, now) \ L
  <2>1. ASSUME NEW a \in Applets
        PROVE  next[a].state \in {"visible", "hidden-warm", "paused"}
                 <=> reg[a].state \in {"visible", "hidden-warm", "paused"} /\ a \notin S
    BY <1>3
  <2> QED
    BY <1>1, <2>1 DEF In, Warm, IsWarmState
<1>9. In(next, {"hidden-warm", "paused"})
        = {a \in Warm(reg, now) : reg[a].state # "visible"} \ L
  <2>1. ASSUME NEW a \in Applets
        PROVE  next[a].state \in {"hidden-warm", "paused"}
                 <=> reg[a].state \in {"hidden-warm", "paused"} /\ a \notin S
    BY <1>3
  <2> QED
    BY <1>1, <2>1 DEF In, Warm, IsWarmState
<1>10. In(next, {"suspended"}) = (OldSuspended(reg, now) \cup S) \ O
  <2>1. ASSUME NEW a \in Applets
        PROVE  next[a].state \in {"suspended"}
                 <=> a \in S \/ (reg[a].state = "suspended" /\ a \notin D)
    BY <1>3
  <2>2. S \cap O = {} /\ S \in SUBSET Applets
    BY <1>1, <1>2 DEF OldSuspended
  <2> QED
    BY <1>1, <2>1, <2>2 DEF In, OldSuspended
<1> QED
  BY <1>4, <1>5, <1>6, <1>7, <1>8, <1>9, <1>10 DEF S, O, L

\* A sweep brings the warm and the suspended instances within their limits, as far
\* as it may: it evicts no visible one, and none that it has itself suspended.
LEMMA LimitsKept ==
    ASSUME NEW reg \in [Applets -> Instances], NEW ord, Ordered(ord, Recorded(reg)),
           now \in Nat,
           NEW next, next = [a \in Applets |-> Outcome(reg, ord, a)]
    PROVE  /\ Cardinality(In(next, {"visible", "hidden-warm", "paused"})) > LruSize
                 => In(next, {"hidden-warm", "paused"}) = {}
           /\ Cardinality(In(next, {"suspended"})) > MaxSuspended
                 => In(next, {"suspended"}) \cap In(reg, {"suspended"}) = {}
<1> DEFINE W == Warm(reg, now)
           H == {a \in W : reg[a].state # "visible"}
           L == LruEvict(reg, ord, now)
           P == OldSuspended(reg, now)
           S == SweepSuspend(reg, ord, now)
           O == SuspendedOverflow(reg, ord, now)
<1>1. /\ In(next, {"visible", "hidden-warm", "paused"}) = W \ L
      /\ In(next, {"hidden-warm", "paused"}) = H \ L
      /\ In(next, {"suspended"}) = (P \cup S) \ O
  BY AfterSweep
<1>2. /\ Recorded(reg) \in SUBSET Applets /\ \A a \in Applets : reg[a].lastTouchedAt \in Nat
      /\ H \in SUBSET Recorded(reg) /\ P \in SUBSET Recorded(reg)
  BY DEF Recorded, Instances, Warm, IsWarmState, OldSuspended
<1>3. /\ W \in SUBSET Applets /\ P \cup S \in SUBSET Applets
      /\ S \cap In(reg, {"suspended"}) = {}
  BY DEF Warm, OldSuspended, SweepSuspend, TtlSuspend, LruEvict, Oldest, IsWarmState, In
<1>4. /\ L = Oldest(reg, ord, H, Cardinality(W) - LruSize)
      /\ O = Oldest(reg, ord, P, Cardinality(P \cup S) - MaxSuspended)
  BY DEF LruEvict, SuspendedOverflow
<1>5. H \in SUBSET W
  OBVIOUS
<1> HIDE DEF W, H, L, P, S, O
<1>6. IsFiniteSet(W) /\ IsFiniteSet(P \cup S)
  BY <1>3, PolicyAssumption, FS_Subset
<1>7. /\ Cardinality(W) \in Nat /\ Cardinality(P \cup S) \in Nat
      /\ Cardinality(W) - LruSize \in Int /\ Cardinality(P \cup S) - MaxSuspended \in Int
  BY <1>6, PolicyAssumption, FS_CardinalityType
<1>8. /\ L \in SUBSET H /\ (L = H \/ Cardinality(L) >= Cardinality(W) - LruSize)
      /\ O \in SUBSET P /\ (O = P \/ Cardinality(O) >= Cardinality(P \cup S) - MaxSuspended)
  <2>1. /\ \A a \in H : reg[a].lastTouchedAt \in Nat
        /\ \A a \in P : reg[a].lastTouchedAt \in Nat
    BY <1>2
  <2>2. L \in SUBSET H /\ (L = H \/ Cardinality(L) >= Cardinality(W) - LruSize)
    BY <1>2, <1>4, <1>7, <2>1, OldestTakesEnough
  <2>3. O \in SUBSET P /\ (O = P \/ Cardinality(O) >= Cardinality(P \cup S) - MaxSuspended)
    BY <1>2, <1>4, <1>7, <2>1, OldestTakesEnough
  <2> QED
    BY <2>2, <2>3
<1>9. /\ Cardinality(W \ L) = Cardinality(W) - Cardinality(L) /\ Cardinality(L) \in Nat
      /\ Cardinality((P \cup S) \ O) = Cardinality(P \cup S) - Cardinality(O)
      /\ Cardinality(O) \in Nat
  <2>1. /\ W \cap L = L /\ (P \cup S) \cap O = O
        /\ L \in SUBSET W /\ O \in SUBSET (P \cup S)
    BY <1>5, <1>8
  <2>2. IsFiniteSet(L) /\ IsFiniteSet(O)
    BY <1>6, <2>1, FS_Subset
  <2>3. /\ Cardinality(W \ L) = Cardinality(W) - Cardinality(W \cap L)
        /\ Cardinality((P \cup S) \ O)
              = Cardinality(P \cup S) - Cardinality((P \cup S) \cap O)
    BY <1>6, FS_Difference
  <2> QED
    BY <2>1, <2>2, <2>3, FS_CardinalityType
<1>10. Cardinality(W \ L) > LruSize => H \ L = {}
  <2> SUFFICES ASSUME Cardinality(W \ L) > LruSize PROVE L = H
    OBVIOUS
  <2> QED
    BY <1>7, <1>8, <1>9, PolicyAssumption
<1>11. Cardinality((P \cup S) \ O) > MaxSuspended
         => ((P \cup S) \ O) \cap In(reg, {"suspended"}) = {}
  <2> SUFFICES ASSUME Cardinality((P \cup S) \ O) > MaxSuspended
               PROVE  ((P \cup S) \ O) \cap In(reg, {"suspended"}) = {}
    OBVIOUS
  <2>1. O = P
    BY <1>7, <1>8, <1>9, PolicyAssumption
  <2> QED
    BY <1>3, <2>1
<1> QED
  BY <1>1, <1>10, <1>11

\* Where no time limit has passed and the warm instances are within the LRU size or
\* all visible, a sweep suspends nothing.
LEMMA NothingToSuspend ==
    ASSUME NEW reg \in [Applets -> Instances], NEW ord, Ordered(ord, Recorded(reg)),
           now \in Nat, TtlSuspend(reg, now) = {},
           Cardinality(In(reg, {"visible", "hidden-warm", "paused"})) > LruSize
              => In(reg, {"hidden-warm", "paused"}) = {}
    PROVE  LruEvict(reg, ord, now) = {} /\ SweepSuspend(reg, ord, now) = {}
<1> DEFINE W == In(reg, {"visible", "hidden-warm", "paused"})
           H == In(reg, {"hidden-warm", "paused"})
<1>1. Warm(reg, now) = W /\ {a \in Warm(reg, now) : reg[a].state # "visible"} = H
  BY DEF Warm, IsWarmState, In
<1>2. LruEvict(reg, ord, now) = Oldest(reg, ord, H, Cardinality(W) - LruSize)
  BY <1>1 DEF LruEvict
<1>3. /\ Recorded(reg) \in SUBSET Applets /\ H \in SUBSET Recorded(reg) /\ W \in SUBSET Applets
      /\ \A a \in H : reg[a].lastTouchedAt \in Nat
  BY DEF Recorded, Instances, In
<1> HIDE DEF W, H
<1>4. Cardinality(W) \in Nat /\ Cardinality(W) - LruSize \in Int
  BY <1>3, PolicyAssumption, FS_Subset, FS_CardinalityType
<1>5. /\ Oldest(reg, ord, H, Cardinality(W) - LruSize) \in SUBSET H
      /\ Cardinality(W) - LruSize <= 0 => Oldest(reg, ord, H, Cardinality(W) - LruSize) = {}
  BY <1>3, <1>4, OldestTakesEnough
<1>6. LruEvict(reg, ord, now) = {}
  <2>1. CASE Cardinality(W) > LruSize
    BY <1>2, <1>5, <2>1 DEF W, H
  <2>2. CASE ~(Cardinality(W) > LruSize)
    BY <1>2, <1>4, <1>5, <2>2, PolicyAssumption
  <2> QED
    BY <2>1, <2>2
<1> QED
  BY <1>6 DEF SweepSuspend

\* What remains of the insertion order after a sweep orders what remains of the
\* registry.
LEMMA RemainingOrdered ==
    ASSUME NEW reg, NEW ord, Ordered(ord, Recorded(reg)),
           NEW next, Recorded(next) \in SUBSET Recorded(reg)
    PROVE  Ordered(Remaining(next, ord), Recorded(next))
<1>1. Remaining(next, ord) = Among(ord, Recorded(next))
  BY DEF Remaining, Recorded
<1> QED
  BY <1>1, OrderedAmong

\* A second sweep at the same instant leaves nothing to a third.
LEMMA SecondSweepSettles ==
    ASSUME NEW reg \in [Applets -> Instances], NEW ord, Ordered(ord, Recorded(reg)),
           now \in Nat, TtlSuspend(reg, now) = {}, TtlDestroy(reg, now) = {},
           SweepSuspend(reg, ord, now) = {},
           NEW next, next = Swept(reg, ord)
    PROVE  Sweep(next, Remaining(next, ord), now) = <<>>
<1> DEFINE rest == Remaining(next, ord)
           U == In(next, {"suspended"})
<1>1. next = [a \in Applets |-> Outcome(reg, ord, a)]
  BY SweptOutcome
<1>2. /\ next \in [Applets -> Instances] /\ Recorded(next) \in SUBSET Recorded(reg)
      /\ TtlSuspend(next, now) = {} /\ TtlDestroy(next, now) = {}
      /\ U = (OldSuspended(reg, now) \cup SweepSuspend(reg, ord, now))
                \ SuspendedOverflow(reg, ord, now)
  BY <1>1, AfterSweep
<1>3. /\ Cardinality(In(next, {"visible", "hidden-warm", "paused"})) > LruSize
            => In(next, {"hidden-warm", "paused"}) = {}
      /\ Cardinality(U) > MaxSuspended => U \cap In(reg, {"suspended"}) = {}
  BY <1>1, LimitsKept
<1>4. Ordered(rest, Recorded(next))
  BY <1>2, RemainingOrdered
<1> HIDE DEF rest
<1>5. LruEvict(next, rest, now) = {} /\ SweepSuspend(next, rest, now) = {}
  BY <1>2, <1>3, <1>4, NothingToSuspend
<1>6. Cardinality(U) > MaxSuspended => U = {}
  <2>1. U \in SUBSET In(reg, {"suspended"})
    <3>1. OldSuspended(reg, now) \in SUBSET In(reg, {"suspended"})
      BY DEF OldSuspended, In
    <3> HIDE DEF U
    <3> QED
      BY <1>2, <3>1
  <2> HIDE DEF U
  <2> QED
    BY <1>3, <2>1
<1>7. OldSuspended(next, now) = U
  BY <1>2 DEF OldSuspended, In
<1>8. SuspendedOverflow(next, rest, now) = Oldest(next, rest, U, Cardinality(U) - MaxSuspended)
  <2>1. U \cup {} = U
    OBVIOUS
  <2> HIDE DEF U
  <2> QED
    BY <1>5, <1>7, <2>1 DEF SuspendedOverflow
<1>9. /\ Recorded(next) \in SUBSET Applets /\ U \in SUBSET Recorded(next) /\ U \in SUBSET Applets
      /\ \A a \in U : next[a].lastTouchedAt \in Nat
  BY <1>2 DEF Recorded, Instances, In
<1> HIDE DEF U
<1>10. Cardinality(U) \in Nat /\ Cardinality(U) - MaxSuspended \in Int
  BY <1>9, PolicyAssumption, FS_Subset, FS_CardinalityType
<1>11. /\ Oldest(next, rest, U, Cardinality(U) - MaxSuspended) \in SUBSET U
       /\ Cardinality(U) - MaxSuspended <= 0
             => Oldest(next, rest, U, Cardinality(U) - MaxSuspended) = {}
  BY <1>4, <1>9, <1>10, OldestTakesEnough
<1>12. SuspendedOverflow(next, rest, now) = {}
  <2>1. CASE Cardinality(U) > MaxSuspended
    BY <1>6, <1>8, <1>11, <2>1
  <2>2. CASE ~(Cardinality(U) > MaxSuspended)
    BY <1>8, <1>10, <1>11, <2>2, PolicyAssumption
  <2> QED
    BY <2>1, <2>2
<1>13. SweepDestroy(next, rest, now) = {}
  BY <1>2, <1>12 DEF SweepDestroy
<1>14. Decides(Sweep(next, rest, now), {}, {}, now)
  <2>1. Decides(Sweep(next, rest, now), SweepSuspend(next, rest, now),
                SweepDestroy(next, rest, now), now)
    BY <1>2, <1>4, SweepDecides
  <2> QED
    BY <1>5, <1>13, <2>1
<1> QED
  BY <1>14, NothingDecided DEF rest

\* In every reachable state, a sweep that nobody disturbs keeps the limits of the
\* policy and, repeated at the same instant, comes to rest.
THEOREM SweepAlwaysSettles == Spec => []SweepSettles
<1>1. TypeInv => SweepSettles
  <2> SUFFICES ASSUME TypeInv PROVE SweepSettles
    OBVIOUS
  <2> DEFINE once == Swept(registry, order)
             ord == Remaining(once, order)
             twice == Swept(once, ord)
  <2>1. registry \in [Applets -> Instances] /\ now \in Nat /\ Ordered(order, Recorded(registry))
    BY DEF TypeInv, Typed, Recorded, RegisteredApplets, Registered
  <2>2. once = [a \in Applets |-> Outcome(registry, order, a)]
    BY <2>1, SweptOutcome
  <2> HIDE DEF once
  <2>3. /\ Cardinality(In(once, {"visible", "hidden-warm", "paused"})) > LruSize
              => In(once, {"hidden-warm", "paused"}) = {}
        /\ Cardinality(In(once, {"suspended"})) > MaxSuspended
              => In(once, {"suspended"}) \cap In(registry, {"suspended"}) = {}
    BY <2>1, <2>2, LimitsKept
  <2>4. KeepsLimits
    BY <2>3 DEF KeepsLimits, once
  <2>5. /\ once \in [Applets -> Instances] /\ Recorded(once) \in SUBSET Recorded(registry)
        /\ TtlSuspend(once, now) = {} /\ TtlDestroy(once, now) = {}
    BY <2>1, <2>2, AfterSweep
  <2>6. Ordered(ord, Recorded(once))
    BY <2>1, <2>5, RemainingOrdered
  <2> HIDE DEF ord
  <2>7. LruEvict(once, ord, now) = {} /\ SweepSuspend(once, ord, now) = {}
    BY <2>1, <2>3, <2>5, <2>6, NothingToSuspend
  <2>8. Sweep(twice, Remaining(twice, ord), now) = <<>>
    <3> HIDE DEF twice
    <3>1. twice = Swept(once, ord)
      BY DEF twice
    <3> QED
      BY <2>1, <2>5, <2>6, <2>7, <3>1, SecondSweepSettles
  <2>9. Converges
    BY <2>5, <2>7, <2>8 DEF Converges, once, ord
  <2> QED
    BY <2>4, <2>9 DEF SweepSettles
<1> QED
  BY <1>1, TypeCorrect, PTL
============================================================================
