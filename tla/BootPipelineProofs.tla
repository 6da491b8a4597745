------------------------- MODULE BootPipelineProofs -------------------------
(***************************************************************************)
(* Theorems about BootPipeline, for every list of runtimes, every set of   *)
(* actors and every number of session edges: types, the single flight of   *)
(* the idle installer, the fence of a late bootstrap and what a ready      *)
(* pipeline holds.                                                         *)
(***************************************************************************)
EXTENDS BootPipeline, FiniteSetTheorems, TLAPS

Entry == [installed : BOOLEAN, seq : Nat, actor : MaybeActor]

LoopSet == [kind : {"none", "critical", "idle", "deferred"}, actor : MaybeActor,
            generation : Nat, pos : Nat, pc : {"free", "step", "await", "yield"},
            seq : Nat, born : Nat]

Kinds == {"critical", "idle", "deferred"}

(***************************************************************************)
(* A slot is free exactly when it has no installer, an installer stands    *)
(* within its list, one that awaits stands on a runtime, and none is of a  *)
(* later generation.                                                       *)
(***************************************************************************)
LoopGood(lp) ==
    /\ lp.pc = "free" <=> lp.kind = "none"
    /\ lp.kind # "none" => lp.pos >= 1
    /\ lp.pc = "await" => ~AtEnd(lp)
    /\ lp.generation <= idle.generation

LoopsInv == \A l \in Slots : LoopGood(loops[l])

\* The effect waits or is due only while somebody is signed in.
EffectInv == effect.waits # 0 \/ effect.idleDue => session.actor \in Actors

TInv == TypeOK /\ LoopsInv /\ EffectInv

\* The runtime an installer stands on is registered; which list it is from.
LEMMA StandsOn ==
    ASSUME NEW lp \in LoopSet, lp.kind \in Kinds, lp.pos >= 1, ~AtEnd(lp)
    PROVE  /\ LoopRuntime(lp) \in Runtimes
           /\ lp.kind = "critical" => LoopRuntime(lp) \in Range(Critical)
           /\ lp.kind = "idle" => /\ lp.pos \in 1..Len(Idle)
                                  /\ LoopRuntime(lp) = Idle[lp.pos]
                                  /\ LoopRuntime(lp) \in Range(Idle)
           /\ lp.kind = "deferred" => LoopRuntime(lp) \in {Social} \cup Range(Deferred)
<1>1. CASE lp.kind = "critical"
  <2>1. LoopRuntimes(lp.kind) = Critical
    BY <1>1 DEF LoopRuntimes
  <2>2. lp.pos \in DOMAIN Critical
    BY <2>1, BootAssumption DEF AtEnd, LoopSet
  <2>3. LoopRuntime(lp) \in Range(Critical)
    BY <2>1, <2>2 DEF LoopRuntime, Range
  <2> QED  BY <1>1, <2>3 DEF Runtimes, SessionRuntimes
<1>2. CASE lp.kind = "idle"
  <2>1. LoopRuntimes(lp.kind) = Idle
    BY <1>2 DEF LoopRuntimes
  <2>2. lp.pos \in 1..Len(Idle) /\ lp.pos \in DOMAIN Idle
    BY <2>1, BootAssumption DEF AtEnd, LoopSet
  <2>3. LoopRuntime(lp) = Idle[lp.pos] /\ LoopRuntime(lp) \in Range(Idle)
    BY <2>1, <2>2 DEF LoopRuntime, Range
  <2> QED  BY <1>2, <2>2, <2>3 DEF Runtimes, SessionRuntimes
<1>3. CASE lp.kind = "deferred"
  <2>1. LoopRuntimes(lp.kind) = <<Social>> \o Deferred
    BY <1>3 DEF LoopRuntimes
  <2>2. /\ Deferred \in Seq(Range(Deferred)) /\ Len(Deferred) \in Nat
        /\ <<Social>> \in Seq({Social})
    BY BootAssumption
  <2>3. lp.pos \in 1..(1 + Len(Deferred))
    BY <2>1, <2>2 DEF AtEnd, LoopSet
  <2>4. LoopRuntime(lp) = IF lp.pos = 1 THEN Social ELSE Deferred[lp.pos - 1]
    BY <2>1, <2>2, <2>3 DEF LoopRuntime
  <2>5. lp.pos # 1 => lp.pos - 1 \in DOMAIN Deferred
    BY <2>2, <2>3
  <2>6. LoopRuntime(lp) \in {Social} \cup Range(Deferred)
    BY <2>4, <2>5 DEF Range
  <2> QED  BY <1>3, <2>6 DEF Runtimes
<1> QED  BY <1>1, <1>2, <1>3 DEF Kinds

(***************************************************************************)
(* The two ways bootstrapRuntime leaves its installer: waiting for a new   *)
(* bootstrap, or past a runtime that already holds the actor.              *)
(***************************************************************************)
Begun(r, lp, old, e, n) ==
    /\ e \in Entry /\ n \in LoopSet
    /\ e.actor = old.actor
    /\ old.installed => e.installed
    /\ ~Faults => e.installed
    /\ n.kind = lp.kind /\ n.actor = lp.actor /\ n.generation = lp.generation
    /\ \/ /\ n.pc = "await" /\ n.pos = lp.pos
          /\ e.seq = old.seq + 1 /\ n.seq = e.seq /\ n.born = idle.generation
       \/ /\ n.pc \in {"step", "yield"} /\ n.pos = lp.pos + 1
          /\ e.seq = old.seq /\ ShortCircuits(r, BootActor(lp))

\* What an installer that has a runtime behind it looks like.
LEMMA PassedTyped ==
    ASSUME NEW lp \in LoopSet
    PROVE  /\ Passed(lp) \in LoopSet
           /\ Passed(lp).pc \in {"step", "yield"} /\ Passed(lp).pos = lp.pos + 1
           /\ Passed(lp).kind = lp.kind /\ Passed(lp).actor = lp.actor
           /\ Passed(lp).generation = lp.generation
           /\ lp.kind = "idle" => Passed(lp).pc = "step"
<1>1. (IF lp.kind = "deferred" /\ lp.pos > 1 THEN "yield" ELSE "step") \in {"step", "yield"}
  OBVIOUS
<1>2. Passed(lp) \in LoopSet
  BY <1>1 DEF Passed, Loop, LoopSet
<1> QED  BY <1>1, <1>2 DEF Passed, Loop

\* bootstrapRuntime, up to its await, on a typed state.
LEMMA BeginShape ==
    ASSUME TInv, NEW l \in Slots, loops[l].kind \in Kinds, ~AtEnd(loops[l]),
           BeginBootstrap(l)
    PROVE  \E e, n : /\ Begun(LoopRuntime(loops[l]), loops[l], rec[LoopRuntime(loops[l])], e, n)
                     /\ rec' = [rec EXCEPT ![LoopRuntime(loops[l])] = e]
                     /\ loops' = [loops EXCEPT ![l] = n]
<1> DEFINE lp == loops[l]
           r == LoopRuntime(lp)
<1>1. lp \in LoopSet /\ lp.pos >= 1 /\ idle.generation \in Nat /\ rec \in [Runtimes -> Entry]
  BY DEF TInv, TypeOK, LoopSet, Entry, LoopsInv, LoopGood, Kinds
<1>2. r \in Runtimes /\ rec[r] \in Entry
  BY <1>1, StandsOn
<1>3. PICK ok \in Outcomes :
        LET entry == InstallRuntime(rec[r], ok) IN
          IF ShortCircuits(r, BootActor(lp))
          THEN /\ rec' = [rec EXCEPT ![r] = entry]
               /\ loops' = [loops EXCEPT ![l] = Passed(lp)]
          ELSE /\ rec' = [rec EXCEPT ![r] =
                            [installed |-> entry.installed, seq |-> entry.seq + 1,
                             actor |-> entry.actor]]
               /\ loops' = [loops EXCEPT ![l] = Awaiting(lp, entry.seq + 1)]
  BY DEF BeginBootstrap
<1> DEFINE entry == InstallRuntime(rec[r], ok)
<1>4. ok \in BOOLEAN /\ (~Faults => ok)
  BY <1>3, BootAssumption DEF Outcomes
<1>5. /\ entry \in Entry /\ entry.seq = rec[r].seq /\ entry.actor = rec[r].actor
      /\ entry.seq \in Nat /\ entry.actor \in MaybeActor /\ entry.installed \in BOOLEAN
      /\ rec[r].installed => entry.installed
      /\ ~Faults => entry.installed
  BY <1>2, <1>4 DEF InstallRuntime, Entry
<1> HIDE DEF entry
<1>6. CASE ShortCircuits(r, BootActor(lp))
  <2>1. rec' = [rec EXCEPT ![r] = entry] /\ loops' = [loops EXCEPT ![l] = Passed(lp)]
    BY <1>3, <1>6 DEF entry
  <2>2. Begun(r, lp, rec[r], entry, Passed(lp))
    BY <1>1, <1>5, <1>6, PassedTyped DEF Begun
  <2> QED  BY <2>1, <2>2
<1>7. CASE ~ShortCircuits(r, BootActor(lp))
  <2> DEFINE e == [installed |-> entry.installed, seq |-> entry.seq + 1, actor |-> entry.actor]
             n == Awaiting(lp, entry.seq + 1)
  <2>1. rec' = [rec EXCEPT ![r] = e] /\ loops' = [loops EXCEPT ![l] = n]
    BY <1>3, <1>7 DEF entry
  <2>2. /\ e \in Entry /\ e.actor = rec[r].actor /\ e.seq = rec[r].seq + 1
        /\ e.seq = entry.seq + 1 /\ e.installed = entry.installed
    BY <1>5 DEF Entry
  <2>3. n \in LoopSet
    BY <1>1, <1>5 DEF Awaiting, Loop, LoopSet
  <2>4. /\ n.kind = lp.kind /\ n.actor = lp.actor /\ n.generation = lp.generation
        /\ n.pc = "await" /\ n.pos = lp.pos /\ n.seq = entry.seq + 1
        /\ n.born = idle.generation
    BY DEF Awaiting, Loop
  <2>5. Begun(r, lp, rec[r], e, n)
    <3> HIDE DEF e, n
    <3> QED  BY <1>5, <2>2, <2>3, <2>4 DEF Begun
  <2> QED  BY <2>1, <2>5
<1> QED  BY <1>6, <1>7

\* The types as the steps use them.
LEMMA Typed ==
    TInv => /\ rec \in [Runtimes -> Entry] /\ loops \in [Slots -> LoopSet]
            /\ idle.generation \in Nat /\ idle.install \in {0} \cup Slots
            /\ \A l \in Slots : LoopGood(loops[l]) /\ loops[l] \in LoopSet
  BY DEF TInv, TypeOK, Entry, LoopSet, LoopsInv

\* An answered bootstrap, on a typed state: only a bootstrap that was not
\* overtaken marks its runtime.
LEMMA AnswerShape ==
    ASSUME TInv, NEW l \in Slots, NEW ok \in Outcomes, BootstrapAnswered(l, ok)
    PROVE  /\ loops[l].kind \in Kinds /\ loops[l].pos >= 1 /\ ~AtEnd(loops[l])
           /\ LoopRuntime(loops[l]) \in Runtimes
           /\ loops' = [loops EXCEPT ![l] = Passed(loops[l])]
           /\ \E e \in Entry :
                /\ rec' = [rec EXCEPT ![LoopRuntime(loops[l])] = e]
                /\ e.seq = rec[LoopRuntime(loops[l])].seq
                /\ e.installed = rec[LoopRuntime(loops[l])].installed
                /\ \/ e.actor = rec[LoopRuntime(loops[l])].actor
                   \/ /\ e.actor = BootActor(loops[l])
                      /\ rec[LoopRuntime(loops[l])].seq = loops[l].seq
                /\ (~Faults /\ rec[LoopRuntime(loops[l])].seq = loops[l].seq)
                     => e.actor = BootActor(loops[l])
<1> DEFINE lp == loops[l]
           r == LoopRuntime(lp)
           e == BootstrapDone(rec[r], lp.seq, BootActor(lp), ok)
<1>1. lp \in LoopSet /\ LoopGood(lp) /\ lp.pc = "await" /\ rec \in [Runtimes -> Entry]
  BY Typed DEF BootstrapAnswered
<1>2. lp.kind \in Kinds /\ lp.pos >= 1 /\ ~AtEnd(lp)
  BY <1>1 DEF LoopGood, LoopSet, Kinds
<1>3. r \in Runtimes /\ rec[r] \in Entry
  BY <1>1, <1>2, StandsOn
<1>4. ok \in BOOLEAN /\ (~Faults => ok)
  BY BootAssumption DEF Outcomes
<1>5. BootActor(lp) \in MaybeActor
  BY <1>1 DEF BootActor, LoopSet, MaybeActor
<1>6. rec' = [rec EXCEPT ![r] = e] /\ loops' = [loops EXCEPT ![l] = Passed(lp)]
  BY DEF BootstrapAnswered
<1>7. /\ e \in Entry /\ e.seq = rec[r].seq /\ e.installed = rec[r].installed
      /\ \/ e.actor = rec[r].actor
         \/ e.actor = BootActor(lp) /\ rec[r].seq = lp.seq
      /\ (~Faults /\ rec[r].seq = lp.seq) => e.actor = BootActor(lp)
  BY <1>3, <1>4, <1>5 DEF BootstrapDone, Entry
<1> QED  BY <1>2, <1>3, <1>6, <1>7

\* The ways installIdleRuntimes goes: nothing to do or join, chain, start.
LEMMA InstallShape ==
    ASSUME NEW a, NEW calls, InstallIdleRuntimes(a, calls)
    PROVE  \/ requests' = calls /\ UNCHANGED <<idle, loops>>
           \/ /\ idle.install # 0
              /\ requests' = Append(calls, [actor |-> a, on |-> idle.install])
              /\ UNCHANGED <<idle, loops>>
           \/ /\ idle.install = 0
              /\ \E l \in FreeSlots : /\ loops' = [loops EXCEPT ![l] = NewLoop("idle", a)]
                                      /\ idle' = InFlight(l)
              /\ requests' = calls
  BY DEF InstallIdleRuntimes

\* Replacing one installer by a good one.
LEMMA Replaced ==
    ASSUME TInv, NEW l \in Slots, NEW n \in LoopSet,
           loops' = [loops EXCEPT ![l] = n],
           idle'.generation \in Nat, idle.generation <= idle'.generation,
           n.pc = "free" <=> n.kind = "none", n.kind # "none" => n.pos >= 1,
           n.pc = "await" => ~AtEnd(n), n.generation <= idle'.generation
    PROVE  loops' \in [Slots -> LoopSet] /\ LoopsInv'
<1>1. loops \in [Slots -> LoopSet] /\ idle.generation \in Nat
      /\ \A m \in Slots : LoopGood(loops[m]) /\ loops[m] \in LoopSet
  BY Typed
<1>2. loops' \in [Slots -> LoopSet]
  BY <1>1
<1>3. ASSUME NEW m \in Slots PROVE LoopGood(loops[m])'
  <2>1. CASE m = l
    <3>1. loops'[m] = n
      BY <1>1, <2>1
    <3> QED  BY <3>1 DEF LoopGood
  <2>2. CASE m # l
    <3>1. loops'[m] = loops[m] /\ loops[m].generation \in Nat
      BY <1>1, <2>2 DEF LoopSet
    <3>2. loops[m].generation <= idle'.generation
      BY <1>1, <3>1 DEF LoopGood
    <3> QED  BY <1>1, <3>1, <3>2 DEF LoopGood
  <2> QED  BY <2>1, <2>2
<1> QED  BY <1>2, <1>3 DEF LoopsInv

\* The installers an action may start.
LEMMA StartedGood ==
    ASSUME NEW kind \in Kinds, NEW a \in MaybeActor, NEW g \in Nat
    PROVE  LET n == Loop(kind, a, g, 1, "step", 0, 0)
           IN /\ n \in LoopSet /\ n.pc = "step" /\ n.kind = kind /\ n.pos = 1
              /\ n.generation = g /\ n.actor = a
  BY DEF Loop, LoopSet, Kinds

\* The free slot.
LEMMA FreeGood ==
    /\ Free \in LoopSet /\ Free.pc = "free" /\ Free.kind = "none" /\ Free.generation = 0
  BY DEF Free, Loop, LoopSet, MaybeActor

-----------------------------------------------------------------------------
(* Types.                                                                  *)

RequestSet == [actor : Actors, on : {0} \cup Slots]

\* What is left to show when an action replaces one installer and leaves the
\* callers alone.
LEMMA LoopStep ==
    ASSUME TInv, NEW l \in Slots, NEW n \in LoopSet, NEW r, NEW e \in Entry,
           rec' = [rec EXCEPT ![r] = e], loops' = [loops EXCEPT ![l] = n],
           UNCHANGED <<session, effect, ready, idle, requests, app>>,
           n.kind = loops[l].kind, n.kind # "none", n.pc # "free", n.pos >= 1,
           n.pc = "await" => ~AtEnd(n), n.generation = loops[l].generation
    PROVE  TInv'
<1>1. idle.generation \in Nat /\ loops[l].generation <= idle.generation
  BY Typed DEF LoopGood
<1>a. /\ idle'.generation \in Nat /\ idle.generation <= idle'.generation
      /\ n.generation <= idle'.generation /\ (n.pc = "free" <=> n.kind = "none")
  BY <1>1
<1>2. loops' \in [Slots -> LoopSet] /\ LoopsInv'
  BY <1>a, Replaced, Zenon
<1>3. rec' \in [Runtimes -> Entry]
  BY Typed
<1>4. TypeOK'
  BY <1>2, <1>3 DEF TInv, TypeOK, Entry, LoopSet
<1>5. EffectInv'
  BY DEF TInv, EffectInv
<1> QED  BY <1>2, <1>4, <1>5 DEF TInv

\* A step of an installer that begins a bootstrap.
LEMMA BeginTyped ==
    ASSUME TInv, NEW l \in Slots, loops[l].kind \in Kinds, ~AtEnd(loops[l]),
           BeginBootstrap(l), UNCHANGED <<session, effect, ready, idle, requests, app>>
    PROVE  TInv'
<1> DEFINE lp == loops[l]
           r == LoopRuntime(lp)
<1>1. PICK e, n : /\ Begun(r, lp, rec[r], e, n)
                  /\ rec' = [rec EXCEPT ![r] = e] /\ loops' = [loops EXCEPT ![l] = n]
  BY BeginShape
<1>2. lp \in LoopSet /\ lp.pos >= 1 /\ lp.pos \in Nat
  BY Typed DEF LoopGood, Kinds, LoopSet
<1>3. /\ e \in Entry /\ n \in LoopSet /\ n.kind = lp.kind /\ n.generation = lp.generation
      /\ n.pc # "free" /\ n.pos >= 1 /\ (n.pc = "await" => n.pos = lp.pos)
  BY <1>1, <1>2 DEF Begun
<1>4. n.pc = "await" => ~AtEnd(n)
  BY <1>3 DEF AtEnd
<1>5. n.kind # "none"
  BY <1>3 DEF Kinds
<1> HIDE DEF r
<1> QED  BY <1>1, <1>3, <1>4, <1>5, LoopStep

\* The types and the shape of the installers hold initially.
LEMMA TInvInit == Init => TInv
<1> SUFFICES ASSUME Init PROVE TInv
  OBVIOUS
<1>1. TypeOK
  <2>1. loops \in [Slots -> LoopSet]
    BY FreeGood DEF Init
  <2>2. rec \in [Runtimes -> Entry]
    BY DEF Init, Entry, MaybeActor
  <2> QED  BY <2>1, <2>2, BootAssumption DEF Init, TypeOK, NoEffect, MaybeActor, LoopSet, Entry
<1>2. LoopsInv
  <2>1. \A l \in Slots : loops[l] = Free
    BY DEF Init
  <2>2. idle.generation = 0
    BY DEF Init
  <2> QED  BY <2>1, <2>2, FreeGood DEF LoopsInv, LoopGood
<1>3. EffectInv
  BY DEF Init, EffectInv, NoEffect
<1> QED  BY <1>1, <1>2, <1>3 DEF TInv

\* installIdleRuntimes keeps the types.
LEMMA InstallTyped ==
    ASSUME TInv, NEW a \in Actors, NEW calls \in Seq(RequestSet),
           InstallIdleRuntimes(a, calls), UNCHANGED <<rec, session, ready, app>>,
           effect' = effect \/ effect' = [effect EXCEPT !.idleDue = FALSE]
    PROVE  TInv'
<1>1. /\ effect' \in [waits : {0} \cup Slots, deferredDue : BOOLEAN, idleDue : BOOLEAN]
      /\ effect'.waits = effect.waits /\ (effect'.idleDue => effect.idleDue)
  BY DEF TInv, TypeOK
<1>2. EffectInv'
  BY <1>1 DEF TInv, EffectInv
<1>3. requests' \in Seq(RequestSet)
  <2>1. idle.install # 0 => [actor |-> a, on |-> idle.install] \in RequestSet
    BY Typed DEF RequestSet
  <2> QED  BY <2>1, InstallShape
<1>4. CASE UNCHANGED <<idle, loops>>
  <2>1. TypeOK'
    BY <1>1, <1>3, <1>4 DEF TInv, TypeOK, RequestSet
  <2>2. LoopsInv'
    BY <1>4 DEF TInv, LoopsInv, LoopGood
  <2> QED  BY <1>2, <2>1, <2>2 DEF TInv
<1>5. ASSUME NEW l \in FreeSlots, loops' = [loops EXCEPT ![l] = NewLoop("idle", a)],
             idle' = InFlight(l)
      PROVE  TInv'
  <2>1. l \in Slots /\ idle.generation \in Nat
    BY Typed DEF FreeSlots
  <2>2. /\ idle' \in [generation : Nat, install : {0} \cup Slots,
                       status : {"pending", "running", "degraded"}, ready : MaybeActor]
        /\ idle'.generation = idle.generation
    BY <1>5, <2>1 DEF InFlight, TInv, TypeOK
  <2>3. /\ NewLoop("idle", a) \in LoopSet /\ NewLoop("idle", a).pc = "step"
        /\ NewLoop("idle", a).kind = "idle" /\ NewLoop("idle", a).pos = 1
        /\ NewLoop("idle", a).generation = idle.generation
    BY <2>1, StartedGood DEF NewLoop, Kinds, MaybeActor
  <2> DEFINE n == NewLoop("idle", a)
  <2>a. /\ idle'.generation \in Nat /\ idle.generation <= idle'.generation
        /\ n.generation <= idle'.generation /\ (n.pc = "free" <=> n.kind = "none")
        /\ n.pos >= 1 /\ n.pc # "await"
    BY <2>1, <2>2, <2>3
  <2>4. loops' \in [Slots -> LoopSet] /\ LoopsInv'
    BY <1>5, <2>1, <2>3, <2>a, Replaced, Zenon
  <2>5. TypeOK'
    BY <1>1, <1>3, <2>2, <2>4 DEF TInv, TypeOK, RequestSet, LoopSet
  <2> QED  BY <1>2, <2>4, <2>5 DEF TInv
<1> QED  BY <1>4, <1>5, InstallShape

\* Starting an installer in a slot.
LEMMA Placed ==
    ASSUME TInv, NEW l \in Slots, NEW kind \in Kinds, NEW a \in MaybeActor, NEW g \in Nat,
           loops' = [loops EXCEPT ![l] = Loop(kind, a, g, 1, "step", 0, 0)],
           idle'.generation \in Nat, idle.generation <= idle'.generation,
           g <= idle'.generation
    PROVE  loops' \in [Slots -> LoopSet] /\ LoopsInv'
<1> DEFINE n == Loop(kind, a, g, 1, "step", 0, 0)
<1>1. /\ n \in LoopSet /\ n.pc = "step" /\ n.kind = kind /\ n.pos = 1 /\ n.generation = g
  BY StartedGood
<1>2. n.kind # "none"
  BY <1>1 DEF Kinds
<1>3. /\ n.generation <= idle'.generation /\ (n.pc = "free" <=> n.kind = "none")
      /\ n.pos >= 1 /\ n.pc # "await"
  BY <1>1, <1>2
<1> HIDE DEF n
<1>4. loops' = [loops EXCEPT ![l] = n]
  BY DEF n
<1> QED  BY <1>1, <1>3, <1>4, Replaced, Zenon

\* Freeing the slot of an installer that returned.
LEMMA Freed ==
    ASSUME TInv, NEW l \in Slots, loops' = [loops EXCEPT ![l] = Free],
           idle'.generation = idle.generation
    PROVE  loops' \in [Slots -> LoopSet] /\ LoopsInv'
<1>1. /\ idle'.generation \in Nat /\ idle.generation <= idle'.generation
      /\ Free.generation <= idle'.generation
      /\ (Free.pc = "free" <=> Free.kind = "none") /\ Free.pc # "await"
  BY FreeGood, Typed
<1> QED  BY <1>1, FreeGood, Replaced, Zenon

\* Tearing a session down and installing the app keep the registry typed.
LEMMA RegistryTyped ==
    ASSUME NEW rs \in [Runtimes -> Entry]
    PROVE  /\ TearDownSession(rs) \in [Runtimes -> Entry]
           /\ AppInstalled(rs) \in [Runtimes -> Entry]
<1>1. ASSUME NEW x \in Entry
      PROVE  TeardownRuntime(x) \in Entry /\ ResetBootstrap(x) \in Entry
  BY DEF Entry, TeardownRuntime, ResetBootstrap, MaybeActor
<1>2. TearDownSession(rs) \in [Runtimes -> Entry]
  BY <1>1 DEF TearDownSession
<1>3. ASSUME NEW r \in Runtimes
      PROVE  (CASE r \in Early -> [installed |-> TRUE, seq |-> rs[r].seq + 1, actor |-> NoActor]
                [] r = Social   -> [rs[r] EXCEPT !.installed = TRUE]
                [] OTHER        -> rs[r]) \in Entry
  <2>1. rs[r] \in Entry
    OBVIOUS
  <2>2. rs[r].seq + 1 \in Nat /\ NoActor \in MaybeActor
    BY <2>1 DEF Entry, MaybeActor
  <2>3. [installed |-> TRUE, seq |-> rs[r].seq + 1, actor |-> NoActor] \in Entry
    BY <2>2 DEF Entry
  <2>4. [rs[r] EXCEPT !.installed = TRUE] \in Entry
    BY <2>1 DEF Entry
  <2> QED  BY <2>1, <2>3, <2>4
<1>4. AppInstalled(rs) \in [Runtimes -> Entry]
  <2> DEFINE F(r) == CASE r \in Early -> [installed |-> TRUE, seq |-> rs[r].seq + 1,
                                          actor |-> NoActor]
                       [] r = Social   -> [rs[r] EXCEPT !.installed = TRUE]
                       [] OTHER        -> rs[r]
  <2>1. \A r \in Runtimes : F(r) \in Entry
    BY <1>3
  <2> HIDE DEF F
  <2>2. [r \in Runtimes |-> F(r)] \in [Runtimes -> Entry]
    BY <2>1
  <2>3. AppInstalled(rs) = IF app.installed THEN rs ELSE [r \in Runtimes |-> F(r)]
    BY DEF AppInstalled, F
  <2> QED  BY <2>2, <2>3
<1> QED  BY <1>2, <1>4

\* The end of the critical installer keeps the types.
LEMMA CriticalEndTyped ==
    ASSUME TInv, NEW l \in Slots, CriticalEnd(l)
    PROVE  TInv'
<1>1. UNCHANGED <<rec, session, idle, requests>> /\ loops' = [loops EXCEPT ![l] = Free]
  BY DEF CriticalEnd
<1>2. loops' \in [Slots -> LoopSet] /\ LoopsInv'
  BY <1>1, Freed
<1>3. app' \in [installed : BOOLEAN, deferred : BOOLEAN,
                deferredIn : {0} \cup Slots, criticalIn : {0} \cup Slots]
  BY DEF CriticalEnd, TInv, TypeOK
<1>4. /\ ready' \in 0..MaxEpochs
      /\ effect' \in [waits : {0} \cup Slots, deferredDue : BOOLEAN, idleDue : BOOLEAN]
      /\ EffectInv'
  <2>1. l # 0
    BY DEF Slots
  <2>2. CASE effect.waits = l
    <3>1. /\ ready' = session.epoch
          /\ effect' = [waits |-> 0, deferredDue |-> effect.deferredDue, idleDue |-> TRUE]
      BY <2>2 DEF CriticalEnd
    <3>2. session.actor \in Actors
      BY <2>1, <2>2 DEF TInv, EffectInv
    <3> QED  BY <1>1, <3>1, <3>2, BootAssumption DEF TInv, TypeOK, EffectInv
  <2>3. CASE effect.waits # l
    <3>1. UNCHANGED <<ready, effect>>
      BY <2>3 DEF CriticalEnd
    <3> QED  BY <1>1, <3>1 DEF TInv, TypeOK, EffectInv
  <2> QED  BY <2>2, <2>3
<1>5. TypeOK'
  BY <1>1, <1>2, <1>3, <1>4 DEF TInv, TypeOK, LoopSet
<1> QED  BY <1>2, <1>4, <1>5 DEF TInv

\* The end of the idle installer keeps the types.
LEMMA IdleEndTyped ==
    ASSUME TInv, NEW l \in Slots, IdleEnd(l)
    PROVE  TInv'
<1>1. UNCHANGED <<rec, session, effect, ready, app>> /\ loops' = [loops EXCEPT ![l] = Free]
  BY DEF IdleEnd
<1>2. loops[l].actor \in MaybeActor
  BY Typed DEF LoopSet
<1>3. /\ idle' \in [generation : Nat, install : {0} \cup Slots,
                     status : {"pending", "running", "degraded"}, ready : MaybeActor]
      /\ idle'.generation = idle.generation
  <2>1. PICK rd \in MaybeActor, i \in {0} \cup Slots,
             st \in {"pending", "running", "degraded"} :
          idle' = [generation |-> idle.generation, install |-> i, status |-> st, ready |-> rd]
    BY <1>2 DEF IdleEnd, TInv, TypeOK
  <2> QED  BY <2>1, Typed
<1>4. requests' \in Seq(RequestSet)
  <2>1. requests \in Seq(RequestSet)
    BY DEF TInv, TypeOK, RequestSet
  <2>2. DOMAIN requests = 1..Len(requests) /\ Len(requests) \in Nat
    BY <2>1
  <2>3. ASSUME NEW i \in DOMAIN requests
        PROVE  [requests[i] EXCEPT !.on = IF @ = l THEN 0 ELSE @] \in RequestSet
    <3>1. requests[i] \in RequestSet
      BY <2>1, <2>3
    <3> QED  BY <3>1 DEF RequestSet
  <2>4. requests' = [i \in 1..Len(requests) |->
                       [requests[i] EXCEPT !.on = IF @ = l THEN 0 ELSE @]]
    BY <2>2 DEF IdleEnd
  <2> DEFINE F(i) == [requests[i] EXCEPT !.on = IF @ = l THEN 0 ELSE @]
  <2>5. \A i \in 1..Len(requests) : F(i) \in RequestSet
    BY <2>2, <2>3
  <2>6. requests' = [i \in 1..Len(requests) |-> F(i)]
    BY <2>4
  <2> HIDE DEF F
  <2> QED  BY <2>2, <2>5, <2>6
<1>5. loops' \in [Slots -> LoopSet] /\ LoopsInv'
  BY <1>1, <1>3, Freed
<1>6. TypeOK'
  BY <1>1, <1>3, <1>4, <1>5 DEF TInv, TypeOK, RequestSet, LoopSet
<1>7. EffectInv'
  BY <1>1 DEF TInv, EffectInv
<1> QED  BY <1>5, <1>6, <1>7 DEF TInv

\* The deferred callback keeps the types.
LEMMA DeferredCallbackTyped ==
    ASSUME TInv, DeferredCallback
    PROVE  TInv'
<1>1. UNCHANGED <<session, ready, idle, requests>>
      /\ effect' = [effect EXCEPT !.deferredDue = FALSE]
  BY DEF DeferredCallback
<1>2. /\ effect' \in [waits : {0} \cup Slots, deferredDue : BOOLEAN, idleDue : BOOLEAN]
      /\ effect'.waits = effect.waits /\ effect'.idleDue = effect.idleDue
  BY <1>1 DEF TInv, TypeOK
<1>3. EffectInv'
  BY <1>1, <1>2 DEF TInv, EffectInv
<1>4. CASE UNCHANGED <<rec, app, loops>>
  <2>1. TypeOK'
    BY <1>1, <1>2, <1>4 DEF TInv, TypeOK
  <2>2. LoopsInv'
    BY <1>1, <1>4 DEF TInv, LoopsInv, LoopGood
  <2> QED  BY <1>3, <2>1, <2>2 DEF TInv
<1>5. ASSUME NEW l \in FreeSlots,
             loops' = [loops EXCEPT ![l] = NewLoop("deferred", session.actor)],
             rec' = AppInstalled(rec),
             app' = [installed |-> TRUE, deferred |-> app.deferred,
                     deferredIn |-> l, criticalIn |-> app.criticalIn]
      PROVE  TInv'
  <2>1. /\ l \in Slots /\ session.actor \in MaybeActor /\ "deferred" \in Kinds
        /\ idle.generation \in Nat /\ idle'.generation = idle.generation
        /\ idle.generation <= idle'.generation
    BY <1>1, Typed DEF FreeSlots, TInv, TypeOK, Kinds
  <2>2. loops' \in [Slots -> LoopSet] /\ LoopsInv'
    BY <1>5, <2>1, Placed DEF NewLoop
  <2>3. rec' \in [Runtimes -> Entry]
    BY <1>5, Typed, RegistryTyped
  <2>4. app' \in [installed : BOOLEAN, deferred : BOOLEAN,
                  deferredIn : {0} \cup Slots, criticalIn : {0} \cup Slots]
    BY <1>5, <2>1 DEF TInv, TypeOK
  <2>5. TypeOK'
    BY <1>1, <1>2, <2>2, <2>3, <2>4 DEF TInv, TypeOK, LoopSet, Entry
  <2> QED  BY <1>3, <2>2, <2>5 DEF TInv
<1> QED  BY <1>4, <1>5 DEF DeferredCallback

\* The idle state after a session edge.
LEMMA NextGenerationTyped ==
    ASSUME TInv, idle' = NextGeneration
    PROVE  /\ idle' \in [generation : Nat, install : {0} \cup Slots,
                         status : {"pending", "running", "degraded"}, ready : MaybeActor]
           /\ idle'.generation = idle.generation + 1 /\ idle'.ready = NoActor
           /\ idle'.install = idle.install
           /\ idle.generation <= idle'.generation /\ idle'.generation \in Nat
           /\ LET lps == loops IN
              \A l \in Slots : lps[l].generation < idle'.generation
<1>1. /\ idle' \in [generation : Nat, install : {0} \cup Slots,
                     status : {"pending", "running", "degraded"}, ready : MaybeActor]
      /\ idle'.generation = idle.generation + 1 /\ idle'.ready = NoActor
      /\ idle'.install = idle.install
  BY DEF NextGeneration, TInv, TypeOK, MaybeActor
<1>2. \A l \in Slots : loops[l].generation <= idle.generation /\ loops[l].generation \in Nat
  BY Typed DEF LoopGood, LoopSet
<1> QED  BY <1>1, <1>2, Typed

\* The same where the effect of a signed-out session leaves it alone.
LEMMA IdleCleanedUpTyped ==
    ASSUME TInv, idle' = IdleCleanedUp
    PROVE  /\ idle' \in [generation : Nat, install : {0} \cup Slots,
                         status : {"pending", "running", "degraded"}, ready : MaybeActor]
           /\ idle'.install = idle.install
           /\ idle.generation <= idle'.generation /\ idle'.generation \in Nat
<1>1. CASE idle' = idle
  BY <1>1 DEF TInv, TypeOK
<1>2. CASE idle' = NextGeneration
  BY <1>2, NextGenerationTyped
<1> QED  BY <1>1, <1>2 DEF IdleCleanedUp

\* A sign-in keeps the types.
LEMMA SignInTyped ==
    ASSUME TInv, NEW a \in Actors, SignIn(a)
    PROVE  TInv'
<1>1. /\ session' = [actor |-> a, epoch |-> session.epoch + 1] /\ session.epoch < MaxEpochs
      /\ ready' = 0 /\ idle' = IdleCleanedUp /\ requests' = requests
  BY DEF SignIn
<1>2. session' \in [actor : MaybeActor, epoch : 1..MaxEpochs] /\ session'.actor \in Actors
  BY <1>1, BootAssumption DEF TInv, TypeOK, MaybeActor
<1>3. EffectInv'
  BY <1>2 DEF EffectInv
<1>4. ready' \in 0..MaxEpochs
  BY <1>1, BootAssumption
<1>5. CASE JoinsCritical(a)
  <2>1. /\ effect' = [waits |-> app.criticalIn, deferredDue |-> TRUE, idleDue |-> FALSE]
        /\ rec' = CleanedUp(rec) /\ UNCHANGED <<app, loops>>
    BY <1>5 DEF SignIn
  <2>2. rec' \in [Runtimes -> Entry]
    BY <2>1, Typed, RegistryTyped DEF CleanedUp
  <2>3. LoopsInv'
    <3> SUFFICES ASSUME NEW l \in Slots PROVE LoopGood(loops[l])'
      BY DEF LoopsInv
    <3>1. loops[l].generation <= idle'.generation
      BY <1>1, Typed, IdleCleanedUpTyped DEF LoopGood, LoopSet
    <3> QED  BY <2>1, <3>1, Typed DEF LoopGood
  <2>4. effect' \in [waits : {0} \cup Slots, deferredDue : BOOLEAN, idleDue : BOOLEAN]
    BY <2>1 DEF TInv, TypeOK
  <2>5. TypeOK'
    BY <1>1, <1>2, <1>4, <2>1, <2>2, <2>4, IdleCleanedUpTyped DEF TInv, TypeOK, Entry
  <2> QED  BY <1>3, <2>3, <2>5 DEF TInv
<1>6. CASE ~JoinsCritical(a)
  <2>1. PICK l \in FreeSlots :
          /\ effect' = [waits |-> l, deferredDue |-> TRUE, idleDue |-> FALSE]
          /\ loops' = [loops EXCEPT ![l] =
                         Loop("critical", a, idle'.generation, 1, "step", 0, 0)]
          /\ rec' = AppInstalled(CleanedUp(rec))
          /\ app' = [installed |-> TRUE, deferred |-> app.deferred,
                     deferredIn |-> app.deferredIn, criticalIn |-> l]
    BY <1>1, <1>6 DEF SignIn
  <2>2. l \in Slots /\ a \in MaybeActor /\ "critical" \in Kinds
    BY DEF FreeSlots, MaybeActor, Kinds
  <2>3. rec' \in [Runtimes -> Entry]
    BY <2>1, Typed, RegistryTyped DEF CleanedUp
  <2>4. /\ idle'.generation \in Nat /\ idle.generation <= idle'.generation
        /\ idle'.generation <= idle'.generation
    BY <1>1, Typed, IdleCleanedUpTyped
  <2>5. loops' \in [Slots -> LoopSet] /\ LoopsInv'
    BY <2>1, <2>2, <2>4, Placed
  <2>6. /\ effect' \in [waits : {0} \cup Slots, deferredDue : BOOLEAN, idleDue : BOOLEAN]
        /\ app' \in [installed : BOOLEAN, deferred : BOOLEAN,
                      deferredIn : {0} \cup Slots, criticalIn : {0} \cup Slots]
    BY <2>1, <2>2 DEF TInv, TypeOK
  <2>7. TypeOK'
    BY <1>1, <1>2, <1>4, <2>3, <2>5, <2>6, IdleCleanedUpTyped
    DEF TInv, TypeOK, Entry, LoopSet
  <2> QED  BY <1>3, <2>5, <2>7 DEF TInv
<1> QED  BY <1>5, <1>6

\* A sign-out keeps the types.
LEMMA SignOutTyped ==
    ASSUME TInv, SignOut
    PROVE  TInv'
<1>1. /\ session' = [actor |-> NoActor, epoch |-> session.epoch + 1]
      /\ session.epoch < MaxEpochs /\ ready' = 0 /\ effect' = NoEffect
      /\ idle' = NextGeneration /\ rec' = TearDownSession(rec)
      /\ UNCHANGED <<requests, app, loops>>
  BY DEF SignOut
<1>2. rec' \in [Runtimes -> Entry]
  BY <1>1, Typed, RegistryTyped
<1>3. LoopsInv'
  <2> SUFFICES ASSUME NEW l \in Slots PROVE LoopGood(loops[l])'
    BY DEF LoopsInv
  <2>1. loops[l].generation <= idle'.generation
    BY <1>1, Typed, NextGenerationTyped DEF LoopGood, LoopSet
  <2> QED  BY <1>1, <2>1, Typed DEF LoopGood
<1>4. session' \in [actor : MaybeActor, epoch : 1..MaxEpochs] /\ ready' \in 0..MaxEpochs
  BY <1>1, BootAssumption DEF TInv, TypeOK, MaybeActor
<1>5. TypeOK'
  BY <1>1, <1>2, <1>4, NextGenerationTyped DEF TInv, TypeOK, Entry, NoEffect
<1>6. EffectInv'
  BY <1>1 DEF EffectInv, NoEffect
<1> QED  BY <1>3, <1>5, <1>6 DEF TInv

\* Every step keeps the types and the shape of the installers.
LEMMA TInvNext == TInv /\ [Next]_vars => TInv'
<1> SUFFICES ASSUME TInv, [Next]_vars PROVE TInv'
  OBVIOUS
<1>1. ASSUME NEW l \in Slots, CriticalStep(l) PROVE TInv'
  BY <1>1, BeginTyped DEF CriticalStep, Kinds
<1>2. ASSUME NEW l \in Slots, CriticalEnd(l) PROVE TInv'
  BY <1>2, CriticalEndTyped
<1>3. ASSUME NEW l \in Slots, DeferredStep(l) PROVE TInv'
  BY <1>3, BeginTyped DEF DeferredStep, Kinds
<1>4. ASSUME NEW l \in Slots, DeferredEnd(l) PROVE TInv'
  <2>1. loops' \in [Slots -> LoopSet] /\ LoopsInv'
    BY <1>4, Freed DEF DeferredEnd
  <2>2. TypeOK'
    BY <1>4, <2>1 DEF DeferredEnd, TInv, TypeOK, LoopSet
  <2>3. EffectInv'
    BY <1>4 DEF DeferredEnd, TInv, EffectInv
  <2> QED  BY <2>1, <2>2, <2>3 DEF TInv
<1>5. ASSUME NEW l \in Slots, RendererTurn(l) PROVE TInv'
  <2> DEFINE n == [loops[l] EXCEPT !.pc = "step"]
  <2>1. /\ loops' = [loops EXCEPT ![l] = n] /\ loops[l].pc = "yield"
        /\ UNCHANGED <<rec, session, effect, ready, idle, requests, app>>
    BY <1>5, Typed DEF RendererTurn
  <2>2. loops[l] \in LoopSet /\ LoopGood(loops[l])
    BY Typed
  <2>3. /\ n \in LoopSet /\ n.pc = "step" /\ n.kind = loops[l].kind
        /\ n.pos = loops[l].pos /\ n.generation = loops[l].generation
    BY <2>2 DEF LoopSet
  <2> HIDE DEF n
  <2>4. /\ idle'.generation \in Nat /\ idle.generation <= idle'.generation
        /\ (n.pc = "free" <=> n.kind = "none") /\ (n.kind # "none" => n.pos >= 1)
        /\ n.pc # "await" /\ n.generation <= idle'.generation
    BY <2>1, <2>2, <2>3, Typed DEF LoopGood
  <2>5. loops' \in [Slots -> LoopSet] /\ LoopsInv'
    BY <2>1, <2>3, <2>4, Replaced, Zenon
  <2>6. TypeOK'
    BY <2>1, <2>5 DEF TInv, TypeOK, LoopSet
  <2>7. EffectInv'
    BY <2>1 DEF TInv, EffectInv
  <2> QED  BY <2>5, <2>6, <2>7 DEF TInv
<1>6. ASSUME NEW l \in Slots, IdleStep(l) PROVE TInv'
  BY <1>6, BeginTyped DEF IdleStep, Kinds
<1>7. ASSUME NEW l \in Slots, IdleEnd(l) PROVE TInv'
  BY <1>7, IdleEndTyped
<1>8. ASSUME NEW l \in Slots, NEW ok \in Outcomes, BootstrapAnswered(l, ok) PROVE TInv'
  <2> DEFINE n == Passed(loops[l])
             r == LoopRuntime(loops[l])
  <2>1. PICK e \in Entry : rec' = [rec EXCEPT ![r] = e]
    BY <1>8, AnswerShape
  <2>2. loops[l] \in LoopSet /\ loops[l].kind \in Kinds /\ loops' = [loops EXCEPT ![l] = n]
    BY <1>8, AnswerShape, Typed
  <2>3. /\ n \in LoopSet /\ n.kind = loops[l].kind /\ n.kind # "none"
        /\ n.pc # "free" /\ n.pc # "await" /\ n.pos >= 1
        /\ n.generation = loops[l].generation
    BY <2>2, PassedTyped DEF LoopSet, Kinds
  <2>4. UNCHANGED <<session, effect, ready, idle, requests, app>>
    BY <1>8 DEF BootstrapAnswered
  <2> HIDE DEF n, r
  <2> QED  BY <2>1, <2>2, <2>3, <2>4, LoopStep
<1>9. ASSUME NEW l \in Slots, BootstrapTimesOut(l) PROVE TInv'
  <2>1. /\ idle' = [idle EXCEPT !.status = "degraded"]
        /\ UNCHANGED <<rec, session, effect, ready, requests, app, loops>>
    BY <1>9 DEF BootstrapTimesOut
  <2>2. idle'.generation = idle.generation
    BY <2>1 DEF TInv, TypeOK
  <2>3. TypeOK'
    BY <2>1 DEF TInv, TypeOK
  <2>4. LoopsInv'
    BY <2>1, <2>2 DEF TInv, LoopsInv, LoopGood
  <2>5. EffectInv'
    BY <2>1 DEF TInv, EffectInv
  <2> QED  BY <2>3, <2>4, <2>5 DEF TInv
<1>10. CASE ChainedCall
  <2>1. requests \in Seq(RequestSet) /\ requests # <<>>
    BY <1>10 DEF ChainedCall, TInv, TypeOK, RequestSet
  <2>2. Head(requests).actor \in Actors /\ Tail(requests) \in Seq(RequestSet)
    <3>1. Head(requests) \in RequestSet /\ Tail(requests) \in Seq(RequestSet)
      BY <2>1
    <3> QED  BY <3>1 DEF RequestSet
  <2> QED  BY <1>10, <2>2, InstallTyped DEF ChainedCall
<1>11. CASE IdleCallback
  <2>1. requests \in Seq(RequestSet) /\ session.actor \in Actors
    BY <1>11 DEF IdleCallback, TInv, TypeOK, RequestSet, EffectInv
  <2> QED  BY <1>11, <2>1, InstallTyped DEF IdleCallback
<1>12. CASE DeferredCallback
  BY <1>12, DeferredCallbackTyped
<1>13. ASSUME NEW a \in Actors, SignIn(a) PROVE TInv'
  BY <1>13, SignInTyped
<1>14. CASE SignOut
  BY <1>14, SignOutTyped
<1>15. CASE UNCHANGED vars
  BY <1>15 DEF vars, TInv, TypeOK, LoopsInv, LoopGood, EffectInv
<1> QED
  BY <1>1, <1>2, <1>3, <1>4, <1>5, <1>6, <1>7, <1>8, <1>9, <1>10, <1>11, <1>12, <1>13,
     <1>14, <1>15 DEF Next, LoopNext

\* Every reachable state of the boot pipeline is typed: the registry, the module
\* variables of boot.ts and appRuntime.ts, and the running installers.
THEOREM BootTypeCorrect == Spec => []TypeOK
<1>1. TInv => TypeOK
  BY DEF TInv
<1> QED  BY TInvInit, TInvNext, <1>1, PTL DEF Spec

-----------------------------------------------------------------------------
(* The single flight of the idle installer.                                *)

FlightInv == \A l \in Slots : loops[l].kind = "idle" => idle.install = l

\* Replacing an installer by one that is idle only if the old one was.
LEMMA FlightKept ==
    ASSUME TInv, FlightInv, NEW l \in Slots, NEW n, loops' = [loops EXCEPT ![l] = n],
           n.kind = "idle" => loops[l].kind = "idle", idle'.install = idle.install
    PROVE  FlightInv'
  BY Typed DEF FlightInv

\* installIdleRuntimes starts an installer only when none is in flight.
LEMMA FlightInstall ==
    ASSUME TInv, FlightInv, NEW a, NEW calls, InstallIdleRuntimes(a, calls)
    PROVE  FlightInv'
<1>1. CASE UNCHANGED <<idle, loops>>
  BY <1>1 DEF FlightInv
<1>2. ASSUME idle.install = 0, NEW l \in FreeSlots,
             loops' = [loops EXCEPT ![l] = NewLoop("idle", a)], idle' = InFlight(l)
      PROVE  FlightInv'
  <2>1. \A m \in Slots : loops[m].kind # "idle"
    BY <1>2 DEF FlightInv, Slots
  <2>2. idle'.install = l
    BY <1>2 DEF InFlight
  <2>3. \A m \in Slots : m # l => loops'[m] = loops[m]
    BY <1>2, Typed DEF FreeSlots
  <2> QED  BY <2>1, <2>2, <2>3 DEF FlightInv
<1> QED  BY <1>1, <1>2, InstallShape

\* Every step keeps the single flight.
LEMMA FlightNext == TInv /\ FlightInv /\ [Next]_vars => FlightInv'
<1> SUFFICES ASSUME TInv, FlightInv, [Next]_vars PROVE FlightInv'
  OBVIOUS
<1>1. ASSUME NEW l \in Slots, loops[l].kind \in Kinds, ~AtEnd(loops[l]), BeginBootstrap(l),
             idle' = idle
      PROVE  FlightInv'
  <2>1. PICK e, n : /\ Begun(LoopRuntime(loops[l]), loops[l],
                            rec[LoopRuntime(loops[l])], e, n)
                    /\ loops' = [loops EXCEPT ![l] = n]
    BY <1>1, BeginShape
  <2>2. n.kind = loops[l].kind
    BY <2>1 DEF Begun
  <2> QED  BY <1>1, <2>1, <2>2, FlightKept
<1>2. ASSUME NEW l \in Slots, CriticalStep(l) \/ DeferredStep(l) \/ IdleStep(l)
      PROVE  FlightInv'
  BY <1>1, <1>2 DEF CriticalStep, DeferredStep, IdleStep, Kinds
<1>3. ASSUME NEW l \in Slots, CriticalEnd(l) \/ DeferredEnd(l) PROVE FlightInv'
  <2>1. loops' = [loops EXCEPT ![l] = Free] /\ idle' = idle
    BY <1>3 DEF CriticalEnd, DeferredEnd
  <2> QED  BY <2>1, FreeGood, FlightKept
<1>4. ASSUME NEW l \in Slots, RendererTurn(l) PROVE FlightInv'
  <2> DEFINE n == [loops[l] EXCEPT !.pc = "step"]
  <2>1. loops' = [loops EXCEPT ![l] = n] /\ idle' = idle
    BY <1>4, Typed DEF RendererTurn
  <2>2. n.kind = loops[l].kind
    BY Typed DEF LoopSet
  <2> QED  BY <2>1, <2>2, FlightKept
<1>5. ASSUME NEW l \in Slots, IdleEnd(l) PROVE FlightInv'
  <2>1. loops' = [loops EXCEPT ![l] = Free] /\ loops[l].kind = "idle"
    BY <1>5 DEF IdleEnd
  <2>2. \A m \in Slots : loops[m].kind = "idle" => m = l
    BY <2>1 DEF FlightInv
  <2>3. \A m \in Slots : loops'[m].kind # "idle"
    BY <2>1, <2>2, FreeGood, Typed
  <2> QED  BY <2>3 DEF FlightInv
<1>6. ASSUME NEW l \in Slots, NEW ok \in Outcomes, BootstrapAnswered(l, ok) PROVE FlightInv'
  <2>1. loops' = [loops EXCEPT ![l] = Passed(loops[l])] /\ idle' = idle
    BY <1>6 DEF BootstrapAnswered
  <2>2. Passed(loops[l]).kind = loops[l].kind
    BY Typed, PassedTyped
  <2> QED  BY <2>1, <2>2, FlightKept
<1>7. ASSUME NEW l \in Slots, BootstrapTimesOut(l) PROVE FlightInv'
  <2>1. idle'.install = idle.install /\ loops' = loops
    BY <1>7 DEF BootstrapTimesOut, TInv, TypeOK
  <2> QED  BY <2>1 DEF FlightInv
<1>8. CASE ChainedCall
  BY <1>8, FlightInstall DEF ChainedCall
<1>9. CASE IdleCallback
  BY <1>9, FlightInstall DEF IdleCallback
<1>10. CASE DeferredCallback
  <2>1. idle' = idle
    BY <1>10 DEF DeferredCallback
  <2>2. CASE loops' = loops
    BY <2>1, <2>2 DEF FlightInv
  <2>3. ASSUME NEW l \in FreeSlots,
               loops' = [loops EXCEPT ![l] = NewLoop("deferred", session.actor)]
        PROVE  FlightInv'
    BY <2>1, <2>3, FlightKept DEF NewLoop, Loop, FreeSlots
  <2> QED  BY <1>10, <2>2, <2>3 DEF DeferredCallback
<1>11. ASSUME NEW a \in Actors, SignIn(a) PROVE FlightInv'
  <2>1. idle'.install = idle.install
    BY <1>11, IdleCleanedUpTyped DEF SignIn
  <2>2. CASE loops' = loops
    BY <2>1, <2>2 DEF FlightInv
  <2>3. ASSUME NEW l \in FreeSlots,
               loops' = [loops EXCEPT ![l] =
                           Loop("critical", a, IdleCleanedUp.generation, 1, "step", 0, 0)]
        PROVE  FlightInv'
    BY <2>1, <2>3, FlightKept DEF Loop, FreeSlots
  <2> QED  BY <1>11, <2>2, <2>3 DEF SignIn
<1>12. CASE SignOut
  <2>1. idle'.install = idle.install /\ loops' = loops
    BY <1>12, NextGenerationTyped DEF SignOut
  <2> QED  BY <2>1 DEF FlightInv
<1>13. CASE UNCHANGED vars
  BY <1>13 DEF vars, FlightInv
<1> QED
  BY <1>2, <1>3, <1>4, <1>5, <1>6, <1>7, <1>8, <1>9, <1>10, <1>11, <1>12, <1>13
  DEF Next, LoopNext

\* Idle bootstraps are single-flight (installIdleRuntimes, boot.ts:175-210): over
\* every sequence of session edges, joined calls and chained calls, failures
\* included, at most one idle installer runs, the one the module variable names.
THEOREM BootSingleFlight == Spec => []SingleFlight
<1>1. Init => FlightInv
  BY FreeGood DEF Init, FlightInv
<1>2. FlightInv => SingleFlight
  <2> SUFFICES ASSUME FlightInv PROVE SingleFlight
    OBVIOUS
  <2>1. \A l \in IdleLoops : idle.install = l
    BY DEF FlightInv, IdleLoops
  <2>2. IdleLoops \in SUBSET {idle.install}
    BY <2>1
  <2>3. IsFiniteSet({idle.install}) /\ Cardinality({idle.install}) = 1
    BY FS_Singleton, Zenon
  <2>4. Cardinality(IdleLoops) <= Cardinality({idle.install})
    BY <2>2, <2>3, FS_Subset, Zenon
  <2>5. Cardinality(IdleLoops) <= 1
    BY <2>3, <2>4
  <2> QED  BY <2>1, <2>5 DEF SingleFlight
<1> QED  BY TInvInit, TInvNext, FlightNext, <1>1, <1>2, PTL DEF Spec

-----------------------------------------------------------------------------
(* The fence of a late bootstrap.                                          *)

(***************************************************************************)
(* A bootstrap in flight is at most the latest of its runtime, and the     *)
(* latest one was begun since the last teardown.                           *)
(***************************************************************************)
InFlightOK(lp) ==
    (lp.pc = "await" /\ LoopRuntime(lp) \in SessionRuntimes) =>
      /\ lp.seq <= rec[LoopRuntime(lp)].seq
      /\ lp.seq = rec[LoopRuntime(lp)].seq => lp.born = idle.generation

FenceInv == \A l \in Slots : InFlightOK(loops[l])

\* A session edge advances every session runtime and clears its marker; the
\* installation of the app touches none.
LEMMA SessionAfter ==
    ASSUME TInv, NEW rs \in [Runtimes -> Entry], NEW r \in SessionRuntimes
    PROVE  /\ r \in Runtimes
           /\ AppInstalled(rs)[r] = rs[r]
           /\ TearDownSession(rs)[r].seq = rs[r].seq + 1
           /\ TearDownSession(rs)[r].actor = NoActor
<1>1. r \in Runtimes
  BY DEF Runtimes
<1>2. r \notin Early /\ r # Social
  BY BootAssumption
<1>3. AppInstalled(rs)[r] = rs[r]
  BY <1>1, <1>2 DEF AppInstalled
<1>4. TearDownSession(rs)[r] = ResetBootstrap(TeardownRuntime(rs[r]))
  BY <1>1 DEF TearDownSession
<1>5. TeardownRuntime(rs[r]).seq = rs[r].seq
  BY <1>1 DEF TeardownRuntime, Entry
<1> QED  BY <1>1, <1>3, <1>4, <1>5 DEF ResetBootstrap

\* Session runtimes that are not advanced, one installer that does not await.
LEMMA FenceKept ==
    ASSUME TInv, FenceInv, NEW l \in Slots, NEW n, loops' = [loops EXCEPT ![l] = n],
           n.pc # "await", idle'.generation = idle.generation,
           \A r \in SessionRuntimes : rec'[r].seq = rec[r].seq
    PROVE  FenceInv'
<1> SUFFICES ASSUME NEW m \in Slots PROVE InFlightOK(loops[m])'
  BY DEF FenceInv
<1>1. CASE m = l
  BY <1>1, Typed DEF InFlightOK
<1>2. CASE m # l
  <2>1. loops'[m] = loops[m]
    BY <1>2, Typed
  <2> QED  BY <2>1 DEF FenceInv, InFlightOK
<1> QED  BY <1>1, <1>2

\* A bootstrap that begins is the latest of its runtime.
LEMMA FenceBegin ==
    ASSUME TInv, FenceInv, NEW l \in Slots, loops[l].kind \in Kinds, ~AtEnd(loops[l]),
           BeginBootstrap(l), idle' = idle
    PROVE  FenceInv'
<1> DEFINE r == LoopRuntime(loops[l])
<1>1. PICK e, n : /\ Begun(r, loops[l], rec[r], e, n)
                  /\ rec' = [rec EXCEPT ![r] = e] /\ loops' = [loops EXCEPT ![l] = n]
  BY BeginShape
<1>2. /\ rec \in [Runtimes -> Entry] /\ loops \in [Slots -> LoopSet]
      /\ \A m \in Slots : loops[m] \in LoopSet /\ LoopGood(loops[m])
  BY Typed
<1>3. r \in Runtimes /\ rec[r] \in Entry
  BY <1>2, StandsOn DEF LoopGood, Kinds
<1>4. /\ e \in Entry /\ n.kind = loops[l].kind
      /\ (e.seq = rec[r].seq + 1 \/ e.seq = rec[r].seq)
      /\ n.pc = "await" => n.pos = loops[l].pos /\ e.seq = rec[r].seq + 1
                           /\ n.seq = e.seq /\ n.born = idle.generation
      /\ n.pc # "await" => e.seq = rec[r].seq
  BY <1>1 DEF Begun
<1>5. n.pc = "await" => LoopRuntime(n) = r
  BY <1>4 DEF LoopRuntime
<1> SUFFICES ASSUME NEW m \in Slots PROVE InFlightOK(loops[m])'
  BY DEF FenceInv
<1>6. CASE m = l
  <2>1. loops'[m] = n
    BY <1>1, <1>2, <1>6
  <2>2. rec'[r] = e
    BY <1>1, <1>2, <1>3
  <2>3. e.seq \in Nat
    BY <1>4 DEF Entry
  <2> HIDE DEF r
  <2> QED  BY <1>4, <1>5, <2>1, <2>2, <2>3 DEF InFlightOK
<1>7. CASE m # l
  <2> DEFINE q == LoopRuntime(loops[m])
  <2>1. loops'[m] = loops[m] /\ InFlightOK(loops[m]) /\ loops[m].seq \in Nat
    BY <1>1, <1>2, <1>7 DEF FenceInv, LoopSet
  <2>2. CASE q # r
    <3>1. rec'[q] = rec[q]
      BY <1>1, <1>2, <2>2
    <3> QED  BY <2>1, <3>1 DEF InFlightOK
  <2>3. CASE q = r
    <3>1. rec'[q] = e /\ rec[q].seq \in Nat /\ e.seq \in Nat
      BY <1>1, <1>2, <1>3, <1>4, <2>3 DEF Entry
    <3> HIDE DEF q, r
    <3>2. LoopRuntime(loops[m]) = q
      BY DEF q
    <3> QED  BY <1>4, <2>1, <2>3, <3>1, <3>2 DEF InFlightOK
  <2> QED  BY <2>2, <2>3
<1> QED  BY <1>6, <1>7

\* After a session edge no bootstrap in flight is the latest one.
LEMMA FenceEdge ==
    ASSUME TInv, FenceInv,
           \A m \in Slots : loops'[m] = loops[m] \/ loops'[m].pc # "await",
           \A r \in SessionRuntimes : rec'[r].seq = rec[r].seq + 1
    PROVE  FenceInv'
<1> SUFFICES ASSUME NEW m \in Slots, loops'[m] = loops[m], loops[m].pc = "await",
                    LoopRuntime(loops[m]) \in SessionRuntimes
             PROVE  InFlightOK(loops[m])'
  BY DEF FenceInv, InFlightOK
<1> DEFINE r == LoopRuntime(loops[m])
<1>1. loops[m].seq <= rec[r].seq
  BY DEF FenceInv, InFlightOK
<1>2. rec'[r].seq = rec[r].seq + 1 /\ rec[r].seq \in Nat /\ loops[m].seq \in Nat
  BY Typed DEF Runtimes, Entry, LoopSet
<1> QED  BY <1>1, <1>2 DEF InFlightOK

\* The end of a session: a sign-out, or a sign-in in its place.
EndOfSession ==
    \/ SignOut
    \/ /\ session.actor # NoActor
       /\ \E a \in Actors : SignIn(a)

\* What a session edge leaves of the installers.
LEMMA EdgeLoops ==
    ASSUME TInv, SignOut \/ \E a \in Actors : SignIn(a)
    PROVE  \/ loops' = loops
           \/ \E l \in FreeSlots : \E n :
                /\ loops' = [loops EXCEPT ![l] = n]
                /\ n.pc = "step" /\ n.kind = "critical"
<1>1. loops' = loops \/ \E l \in FreeSlots, a \in Actors :
        loops' = [loops EXCEPT ![l] =
                    Loop("critical", a, IdleCleanedUp.generation, 1, "step", 0, 0)]
  BY DEF SignIn, SignOut
<1>2. ASSUME NEW a \in Actors, NEW g
      PROVE  /\ Loop("critical", a, g, 1, "step", 0, 0).pc = "step"
             /\ Loop("critical", a, g, 1, "step", 0, 0).kind = "critical"
  BY DEF Loop
<1> QED  BY <1>1, <1>2

\* The end of a session, seen from the registry and from the installers.
LEMMA EdgeShape ==
    ASSUME TInv, EndOfSession
    PROVE  /\ \A m \in Slots :
                \/ loops'[m] = loops[m]
                \/ /\ loops[m].pc = "free" /\ loops'[m].pc = "step"
                   /\ loops'[m].kind = "critical"
           /\ \A r \in SessionRuntimes : rec'[r].seq = rec[r].seq + 1 /\ rec'[r].actor = NoActor
           /\ idle' = NextGeneration
<1>1. rec \in [Runtimes -> Entry] /\ TearDownSession(rec) \in [Runtimes -> Entry]
  BY Typed, RegistryTyped
<1>2. idle' = NextGeneration
  BY DEF EndOfSession, SignIn, SignOut, IdleCleanedUp
<1>3. rec' = TearDownSession(rec) \/ rec' = AppInstalled(TearDownSession(rec))
  BY DEF EndOfSession, SignIn, SignOut, CleanedUp
<1>4. \A r \in SessionRuntimes : rec'[r].seq = rec[r].seq + 1 /\ rec'[r].actor = NoActor
  BY <1>1, <1>3, SessionAfter
<1>5. \/ loops' = loops
      \/ \E l \in FreeSlots : \E n :
           /\ loops' = [loops EXCEPT ![l] = n]
           /\ n.pc = "step" /\ n.kind = "critical"
  BY EdgeLoops DEF EndOfSession
<1>6. ASSUME NEW l \in FreeSlots, NEW n, NEW m \in Slots,
             loops' = [loops EXCEPT ![l] = n], n.pc = "step", n.kind = "critical"
      PROVE  \/ loops'[m] = loops[m]
             \/ /\ loops[m].pc = "free" /\ loops'[m].pc = "step"
                /\ loops'[m].kind = "critical"
  BY <1>6, Typed DEF FreeSlots
<1> QED  BY <1>2, <1>4, <1>5, <1>6

\* A sign-in over a signed-out session, whose effect has nothing left to clean up.
LEMMA SignedOutShape ==
    ASSUME TInv, session.actor = NoActor, NEW a \in Actors, SignIn(a)
    PROVE  /\ idle' = idle
           /\ \A r \in SessionRuntimes : rec'[r] = rec[r]
<1>1. idle' = idle /\ (rec' = rec \/ rec' = AppInstalled(rec))
  BY DEF SignIn, IdleCleanedUp, CleanedUp
<1> QED  BY <1>1, Typed, SessionAfter

\* Every step keeps the fence.
LEMMA FenceNext == TInv /\ FenceInv /\ [Next]_vars => FenceInv'
<1> SUFFICES ASSUME TInv, FenceInv, [Next]_vars PROVE FenceInv'
  OBVIOUS
<1>a. rec \in [Runtimes -> Entry] /\ \A r \in SessionRuntimes : r \in Runtimes
  BY Typed DEF Runtimes
<1>1. ASSUME NEW l \in Slots, CriticalStep(l) \/ DeferredStep(l) \/ IdleStep(l)
      PROVE  FenceInv'
  BY <1>1, FenceBegin DEF CriticalStep, DeferredStep, IdleStep, Kinds
<1>2. ASSUME NEW l \in Slots, CriticalEnd(l) \/ DeferredEnd(l) \/ IdleEnd(l)
      PROVE  FenceInv'
  <2>1. loops' = [loops EXCEPT ![l] = Free] /\ rec' = rec
    BY <1>2 DEF CriticalEnd, DeferredEnd, IdleEnd
  <2>2. idle'.generation = idle.generation
    BY <1>2 DEF CriticalEnd, DeferredEnd, IdleEnd
  <2> QED  BY <2>1, <2>2, FreeGood, FenceKept
<1>3. ASSUME NEW l \in Slots, RendererTurn(l) PROVE FenceInv'
  <2> DEFINE n == [loops[l] EXCEPT !.pc = "step"]
  <2>1. loops' = [loops EXCEPT ![l] = n] /\ idle' = idle /\ rec' = rec
    BY <1>3, Typed DEF RendererTurn
  <2>2. n.pc = "step"
    BY Typed DEF LoopSet
  <2> QED  BY <2>1, <2>2, FenceKept
<1>4. ASSUME NEW l \in Slots, NEW ok \in Outcomes, BootstrapAnswered(l, ok) PROVE FenceInv'
  <2> DEFINE r == LoopRuntime(loops[l])
  <2>1. PICK e \in Entry : rec' = [rec EXCEPT ![r] = e] /\ e.seq = rec[r].seq
    BY <1>4, AnswerShape
  <2>2. \A q \in SessionRuntimes : rec'[q].seq = rec[q].seq
    BY <1>a, <2>1
  <2>3. loops' = [loops EXCEPT ![l] = Passed(loops[l])] /\ idle' = idle
    BY <1>4 DEF BootstrapAnswered
  <2>4. Passed(loops[l]).pc # "await"
    BY Typed, PassedTyped
  <2> QED  BY <2>2, <2>3, <2>4, FenceKept
<1>5. ASSUME NEW l \in Slots, BootstrapTimesOut(l) PROVE FenceInv'
  <2>1. idle'.generation = idle.generation /\ loops' = loops /\ rec' = rec
    BY <1>5 DEF BootstrapTimesOut, TInv, TypeOK
  <2> QED  BY <2>1 DEF FenceInv, InFlightOK
<1>6. ASSUME NEW a, NEW calls, InstallIdleRuntimes(a, calls), rec' = rec
      PROVE  FenceInv'
  <2>1. CASE UNCHANGED <<idle, loops>>
    BY <1>6, <2>1 DEF FenceInv, InFlightOK
  <2>2. ASSUME NEW l \in FreeSlots, loops' = [loops EXCEPT ![l] = NewLoop("idle", a)],
               idle' = InFlight(l)
        PROVE  FenceInv'
    <3>1. NewLoop("idle", a).pc = "step" /\ idle'.generation = idle.generation /\ l \in Slots
      BY <2>2 DEF NewLoop, Loop, InFlight, FreeSlots
    <3> QED  BY <1>6, <2>2, <3>1, FenceKept
  <2> QED  BY <1>6, <2>1, <2>2, InstallShape
<1>7. CASE ChainedCall \/ IdleCallback
  BY <1>6, <1>7 DEF ChainedCall, IdleCallback
<1>8. CASE DeferredCallback
  <2>1. idle' = idle
    BY <1>8 DEF DeferredCallback
  <2>2. CASE UNCHANGED <<rec, loops>>
    BY <2>1, <2>2 DEF FenceInv, InFlightOK
  <2>3. ASSUME NEW l \in FreeSlots, rec' = AppInstalled(rec),
               loops' = [loops EXCEPT ![l] = NewLoop("deferred", session.actor)]
        PROVE  FenceInv'
    <3>1. \A r \in SessionRuntimes : rec'[r].seq = rec[r].seq
      BY <1>a, <2>3, SessionAfter
    <3>2. NewLoop("deferred", session.actor).pc = "step" /\ l \in Slots
      BY DEF NewLoop, Loop, FreeSlots
    <3> QED  BY <2>1, <2>3, <3>1, <3>2, FenceKept
  <2> QED  BY <1>8, <2>2, <2>3 DEF DeferredCallback
<1>9. CASE EndOfSession
  <2>1. \A m \in Slots : loops'[m] = loops[m] \/ loops'[m].pc # "await"
    BY <1>9, EdgeShape
  <2>2. \A r \in SessionRuntimes : rec'[r].seq = rec[r].seq + 1
    BY <1>9, EdgeShape
  <2> QED  BY <2>1, <2>2, FenceEdge
<1>10. ASSUME NEW a \in Actors, SignIn(a), session.actor = NoActor PROVE FenceInv'
  <2>1. idle' = idle /\ \A r \in SessionRuntimes : rec'[r].seq = rec[r].seq
    BY <1>10, SignedOutShape
  <2>2. CASE loops' = loops
    BY <2>1, <2>2 DEF FenceInv, InFlightOK
  <2>3. ASSUME NEW l \in FreeSlots, NEW n, loops' = [loops EXCEPT ![l] = n], n.pc = "step"
        PROVE  FenceInv'
    BY <2>1, <2>3, FenceKept DEF FreeSlots
  <2> QED  BY <1>10, <2>2, <2>3, EdgeLoops
<1>11. CASE UNCHANGED vars
  BY <1>11 DEF vars, FenceInv, InFlightOK
<1>12. CASE SignOut \/ \E a \in Actors : SignIn(a)
  BY <1>9, <1>10, <1>12, Zenon DEF EndOfSession
<1> QED
  BY <1>1, <1>2, <1>3, <1>4, <1>5, <1>7, <1>8, <1>11, <1>12 DEF Next, LoopNext

\* Who may set a marker: only the answer of the bootstrap the fence lets through.
LEMMA MarkerStep ==
    ASSUME TInv, FenceInv, [Next]_vars, NEW r \in SessionRuntimes,
           rec'[r].actor \notin {NoActor, rec[r].actor}
    PROVE  \E l \in Slots : /\ loops[l].pc = "await" /\ LoopRuntime(loops[l]) = r
                            /\ loops[l].born = idle.generation
<1>a. rec \in [Runtimes -> Entry] /\ r \in Runtimes
  BY Typed DEF Runtimes
<1>1. rec' # rec
  OBVIOUS
<1>2. ASSUME NEW l \in Slots, loops[l].kind \in Kinds, ~AtEnd(loops[l]), BeginBootstrap(l)
      PROVE  FALSE
  <2> DEFINE q == LoopRuntime(loops[l])
  <2>1. PICK e, n : Begun(q, loops[l], rec[q], e, n) /\ rec' = [rec EXCEPT ![q] = e]
    BY <1>2, BeginShape
  <2>2. e.actor = rec[q].actor
    BY <2>1 DEF Begun
  <2> QED  BY <1>a, <2>1, <2>2
<1>3. ASSUME NEW l \in Slots PROVE ~(CriticalStep(l) \/ DeferredStep(l) \/ IdleStep(l))
  BY <1>2 DEF CriticalStep, DeferredStep, IdleStep, Kinds
<1>4. ASSUME NEW l \in Slots
      PROVE  ~(CriticalEnd(l) \/ DeferredEnd(l) \/ IdleEnd(l) \/ RendererTurn(l)
               \/ BootstrapTimesOut(l))
  BY <1>1 DEF CriticalEnd, DeferredEnd, IdleEnd, RendererTurn, BootstrapTimesOut
<1>5. ~ChainedCall /\ ~IdleCallback
  BY <1>1 DEF ChainedCall, IdleCallback
<1>6. ~DeferredCallback
  <2>1. DeferredCallback => rec' = rec \/ rec' = AppInstalled(rec)
    BY DEF DeferredCallback
  <2> QED  BY <1>a, <2>1, SessionAfter
<1>7. ~SignOut /\ ~(\E a \in Actors : SignIn(a))
  <2>1. ~EndOfSession
    BY EdgeShape
  <2>2. ASSUME NEW a \in Actors, SignIn(a) PROVE FALSE
    <3>1. session.actor = NoActor
      BY <2>1, <2>2, Zenon DEF EndOfSession
    <3> QED  BY <2>2, <3>1, SignedOutShape
  <2> QED  BY <2>1, <2>2, Zenon DEF EndOfSession
<1>8. ASSUME NEW l \in Slots, NEW ok \in Outcomes, BootstrapAnswered(l, ok)
      PROVE  /\ loops[l].pc = "await" /\ LoopRuntime(loops[l]) = r
             /\ loops[l].born = idle.generation
  <2> DEFINE q == LoopRuntime(loops[l])
  <2>1. PICK e \in Entry :
          /\ rec' = [rec EXCEPT ![q] = e]
          /\ e.actor = rec[q].actor \/ rec[q].seq = loops[l].seq
    BY <1>8, AnswerShape
  <2>2. q = r
    BY <1>a, <2>1
  <2>3. rec[q].seq = loops[l].seq
    BY <1>a, <2>1, <2>2
  <2>4. loops[l].pc = "await"
    BY <1>8 DEF BootstrapAnswered
  <2> QED  BY <2>2, <2>3, <2>4 DEF FenceInv, InFlightOK
<1>9. ~UNCHANGED vars
  BY <1>1 DEF vars
<1> QED  BY <1>3, <1>4, <1>5, <1>6, <1>7, <1>8, <1>9 DEF Next, LoopNext

\* A bootstrap that was in flight when its session was torn down never marks its
\* runtime as bootstrapped (the sequence check of bootstrapRuntime, runtime.ts:178,
\* with the advance of resetSessionRuntimeBootstraps), however many answers are
\* late and in whatever order they come.
THEOREM BootStaleResultDiscarded == Spec => StaleResultDiscarded
<1>1. Init => FenceInv
  BY FreeGood DEF Init, FenceInv, InFlightOK
<1>2. TInv /\ FenceInv /\ [Next]_vars =>
        [\A r \in SessionRuntimes :
           rec'[r].actor \notin {NoActor, rec[r].actor} =>
             \E l \in Slots : /\ loops[l].pc = "await" /\ LoopRuntime(loops[l]) = r
                              /\ loops[l].born = idle.generation]_vars
  BY MarkerStep
<1> QED  BY TInvInit, TInvNext, FenceNext, <1>1, <1>2, PTL DEF Spec, StaleResultDiscarded

-----------------------------------------------------------------------------
(* What a ready pipeline holds, when nothing fails.                        *)

\* The runtimes only the idle installer bootstraps.
Own == Range(Idle) \ Range(Deferred)

Holds(rs, r, a) == rs[r].installed /\ rs[r].actor = a

(***************************************************************************)
(* The runtimes an idle installer of this generation has behind it hold    *)
(* its actor, and the bootstrap it awaits is the latest of its runtime.    *)
(***************************************************************************)
ProgressOK(lp) ==
    (lp.kind = "idle" /\ lp.generation = idle.generation) =>
      /\ \A i \in 1..Len(Idle) : (i < lp.pos /\ Idle[i] \in Own) => Holds(rec, Idle[i], lp.actor)
      /\ (lp.pc = "await" /\ Idle[lp.pos] \in Own) =>
            rec[Idle[lp.pos]].installed /\ rec[Idle[lp.pos]].seq = lp.seq

ReadyInv ==
    /\ IdleReadyIsBootstrapped
    /\ \A l \in Slots :
         (loops[l].kind = "idle" /\ loops[l].generation # idle.generation)
           => idle.ready = NoActor
    /\ \A l \in Slots : ProgressOK(loops[l])

\* Steps that touch no runtime of the idle installer and no idle installer, but
\* for one that stops awaiting.
LEMMA ReadyKept ==
    ASSUME TInv, ReadyInv,
           \A r \in Own : rec'[r] = rec[r],
           idle'.generation = idle.generation, idle'.ready = idle.ready,
           \A l \in Slots :
             /\ loops'[l].kind = "idle" <=> loops[l].kind = "idle"
             /\ loops[l].kind = "idle" =>
                  /\ loops'[l].generation = loops[l].generation
                  /\ loops'[l].actor = loops[l].actor /\ loops'[l].pos = loops[l].pos
                  /\ loops'[l].pc = "await" =>
                       loops[l].pc = "await" /\ loops'[l].seq = loops[l].seq
    PROVE  ReadyInv'
<1>1. IdleLoops' = IdleLoops
  BY DEF IdleLoops
<1>2. IdleReadyIsBootstrapped'
  BY <1>1 DEF ReadyInv, IdleReadyIsBootstrapped, Own
<1>3. \A l \in Slots : (loops'[l].kind = "idle" /\ loops'[l].generation # idle'.generation)
                         => idle'.ready = NoActor
  BY DEF ReadyInv
<1>4. ASSUME NEW l \in Slots PROVE ProgressOK(loops[l])'
  <2>1. ProgressOK(loops[l])
    BY DEF ReadyInv
  <2> SUFFICES ASSUME loops'[l].kind = "idle", loops'[l].generation = idle'.generation
               PROVE  /\ \A i \in 1..Len(Idle) :
                           (i < loops'[l].pos /\ Idle[i] \in Own)
                             => Holds(rec', Idle[i], loops'[l].actor)
                      /\ (loops'[l].pc = "await" /\ Idle[loops'[l].pos] \in Own) =>
                           /\ rec'[Idle[loops'[l].pos]].installed
                           /\ rec'[Idle[loops'[l].pos]].seq = loops'[l].seq
    BY DEF ProgressOK, Holds
  <2>2. /\ loops[l].kind = "idle" /\ loops[l].generation = idle.generation
        /\ loops'[l].actor = loops[l].actor /\ loops'[l].pos = loops[l].pos
        /\ loops'[l].pc = "await" => loops[l].pc = "await" /\ loops'[l].seq = loops[l].seq
    OBVIOUS
  <2> QED  BY <2>1, <2>2 DEF ProgressOK, Holds
<1> QED  BY <1>2, <1>3, <1>4 DEF ReadyInv

\* A loop of another kind stands on no runtime of the idle installer.
LEMMA OthersApart ==
    ASSUME NEW lp \in LoopSet, lp.kind \in {"critical", "deferred"}, lp.pos >= 1, ~AtEnd(lp)
    PROVE  LoopRuntime(lp) \notin Own
  BY StandsOn, BootAssumption DEF Own, Kinds, SessionRuntimes

\* One runtime and one installer of another kind change.
LEMMA ReadyOther ==
    ASSUME TInv, ReadyInv, NEW l \in Slots, NEW n, NEW r, NEW e, r \notin Own,
           rec' = [rec EXCEPT ![r] = e], loops' = [loops EXCEPT ![l] = n],
           idle'.generation = idle.generation, idle'.ready = idle.ready,
           loops[l].kind # "idle", n.kind # "idle"
    PROVE  ReadyInv'
<1>1. \A q \in Own : rec'[q] = rec[q]
  BY Typed
<1>2. loops \in [Slots -> LoopSet]
  BY Typed
<1>3. \A m \in Slots : m # l => loops'[m] = loops[m]
  BY <1>2
<1>4. loops'[l] = n
  BY <1>2
<1> QED  BY <1>1, <1>3, <1>4, ReadyKept

\* An idle installer begins a bootstrap, or passes a runtime that holds its actor.
LEMMA ReadyIdleStep ==
    ASSUME TInv, FlightInv, ReadyInv, ~Faults, NEW l \in Slots, IdleStep(l)
    PROVE  ReadyInv'
<1> DEFINE lp == loops[l]
           r == LoopRuntime(lp)
<1>1. /\ lp.kind = "idle" /\ lp.generation = idle.generation /\ ~AtEnd(lp)
      /\ BeginBootstrap(l) /\ idle' = idle /\ lp.kind \in Kinds
  BY DEF IdleStep, Fenced, Kinds
<1>2. /\ lp \in LoopSet /\ lp.pos >= 1 /\ lp.pos \in Nat
      /\ rec \in [Runtimes -> Entry] /\ loops \in [Slots -> LoopSet]
  BY <1>1, Typed DEF LoopGood, LoopSet
<1>3. r \in Runtimes /\ r = Idle[lp.pos] /\ r \in SessionRuntimes
  BY <1>1, <1>2, StandsOn DEF SessionRuntimes
<1>4. PICK e, n : /\ Begun(r, lp, rec[r], e, n)
                  /\ rec' = [rec EXCEPT ![r] = e] /\ loops' = [loops EXCEPT ![l] = n]
  BY <1>1, BeginShape
<1>5. /\ e.actor = rec[r].actor /\ (rec[r].installed => e.installed) /\ e.installed
      /\ n.kind = "idle" /\ n.actor = lp.actor /\ n.generation = idle.generation
  BY <1>1, <1>4 DEF Begun
<1>6. \/ n.pc = "await" /\ n.pos = lp.pos /\ n.seq = e.seq
      \/ n.pc # "await" /\ n.pos = lp.pos + 1 /\ rec[r].actor = lp.actor
  <2>1. ShortCircuits(r, BootActor(lp)) => rec[r].actor = lp.actor
    BY <1>1, <1>3 DEF ShortCircuits, BootActor
  <2> QED  BY <1>4, <2>1 DEF Begun
<1>7. /\ loops'[l] = n /\ rec'[r] = e
      /\ \A m \in Slots : m # l => loops'[m].kind # "idle"
      /\ \A q : q # r => rec'[q] = rec[q]
  BY <1>1, <1>2, <1>3, <1>4 DEF FlightInv
<1>8. IdleReadyIsBootstrapped'
  <2>1. l \in IdleLoops'
    BY <1>5, <1>7 DEF IdleLoops
  <2> QED  BY <2>1 DEF IdleReadyIsBootstrapped
<1>9. \A m \in Slots : (loops'[m].kind = "idle" /\ loops'[m].generation # idle'.generation)
                         => idle'.ready = NoActor
  BY <1>1, <1>5, <1>7
<1>10. ProgressOK(lp)
  BY DEF ReadyInv
<1> HIDE DEF r
<1>11. ASSUME NEW i \in 1..Len(Idle), i < n.pos, Idle[i] \in Own
       PROVE  Holds(rec', Idle[i], n.actor)
  <2>1. CASE i < lp.pos
    <3>1. Holds(rec, Idle[i], lp.actor)
      BY <1>1, <1>10, <1>11, <2>1 DEF ProgressOK
    <3>2. CASE Idle[i] = r
      BY <1>5, <1>7, <3>1, <3>2 DEF Holds
    <3>3. CASE Idle[i] # r
      BY <1>5, <1>7, <3>1, <3>3 DEF Holds
    <3> QED  BY <3>2, <3>3
  <2>2. CASE ~(i < lp.pos)
    <3>1. i = lp.pos /\ rec[r].actor = lp.actor
      BY <1>2, <1>6, <1>11, <2>2
    <3>2. Idle[i] = r
      BY <1>3, <3>1
    <3> QED  BY <1>5, <1>7, <3>1, <3>2 DEF Holds
  <2> QED  BY <2>1, <2>2
<1>12. n.pc = "await" => /\ Idle[n.pos] = r
                         /\ rec'[Idle[n.pos]].installed /\ rec'[Idle[n.pos]].seq = n.seq
  BY <1>3, <1>5, <1>6, <1>7
<1>13. ProgressOK(loops[l])'
  BY <1>5, <1>7, <1>11, <1>12 DEF ProgressOK, Holds
<1>14. \A m \in Slots : ProgressOK(loops[m])'
  BY <1>7, <1>13 DEF ProgressOK
<1> QED  BY <1>8, <1>9, <1>14 DEF ReadyInv

\* The answer of the bootstrap an idle installer awaits.
LEMMA ReadyIdleAnswered ==
    ASSUME TInv, FlightInv, ReadyInv, ~Faults, NEW l \in Slots, NEW ok \in Outcomes,
           BootstrapAnswered(l, ok), loops[l].kind = "idle"
    PROVE  ReadyInv'
<1> DEFINE lp == loops[l]
           r == LoopRuntime(lp)
           n == Passed(lp)
<1>1. /\ lp.pc = "await" /\ idle' = idle /\ lp.kind \in Kinds /\ lp.pos >= 1 /\ ~AtEnd(lp)
  BY AnswerShape DEF BootstrapAnswered
<1>2. /\ lp \in LoopSet /\ lp.pos \in Nat
      /\ rec \in [Runtimes -> Entry] /\ loops \in [Slots -> LoopSet]
  BY Typed DEF LoopSet
<1>3. r \in Runtimes /\ r = Idle[lp.pos] /\ BootActor(lp) = lp.actor
  BY <1>1, <1>2, StandsOn DEF BootActor
<1>4. PICK e \in Entry :
        /\ rec' = [rec EXCEPT ![r] = e] /\ e.installed = rec[r].installed
        /\ e.actor = rec[r].actor \/ e.actor = BootActor(lp)
        /\ rec[r].seq = lp.seq => e.actor = BootActor(lp)
  BY AnswerShape
<1>5. /\ n.kind = "idle" /\ n.actor = lp.actor /\ n.generation = lp.generation
      /\ n.pc # "await" /\ n.pos = lp.pos + 1 /\ loops' = [loops EXCEPT ![l] = n]
  BY <1>2, PassedTyped, AnswerShape
<1> HIDE DEF n
<1>6. /\ loops'[l] = n /\ rec'[r] = e
      /\ \A m \in Slots : m # l => loops'[m].kind # "idle"
      /\ \A q : q # r => rec'[q] = rec[q]
  BY <1>2, <1>3, <1>4, <1>5 DEF FlightInv
<1>7. IdleReadyIsBootstrapped'
  <2>1. l \in IdleLoops'
    BY <1>5, <1>6 DEF IdleLoops
  <2> QED  BY <2>1 DEF IdleReadyIsBootstrapped
<1>8. \A m \in Slots : (loops'[m].kind = "idle" /\ loops'[m].generation # idle'.generation)
                         => idle'.ready = NoActor
  BY <1>1, <1>5, <1>6 DEF ReadyInv
<1>9. ProgressOK(lp)
  BY DEF ReadyInv
<1> HIDE DEF r
<1>10. ASSUME NEW i \in 1..Len(Idle), i < n.pos, Idle[i] \in Own,
              lp.generation = idle.generation
       PROVE  Holds(rec', Idle[i], n.actor)
  <2>1. CASE i < lp.pos
    <3>1. Holds(rec, Idle[i], lp.actor)
      BY <1>9, <1>10, <2>1 DEF ProgressOK
    <3>2. CASE Idle[i] = r
      BY <1>3, <1>4, <1>5, <1>6, <3>1, <3>2 DEF Holds
    <3>3. CASE Idle[i] # r
      BY <1>5, <1>6, <3>1, <3>3 DEF Holds
    <3> QED  BY <3>2, <3>3
  <2>2. CASE ~(i < lp.pos)
    <3>1. i = lp.pos
      BY <1>2, <1>5, <1>10, <2>2
    <3>2. Idle[i] = r
      BY <1>3, <3>1
    <3>3. rec[r].installed /\ rec[r].seq = lp.seq
      BY <1>1, <1>9, <1>10, <3>1, <3>2 DEF ProgressOK
    <3> QED  BY <1>3, <1>4, <1>5, <1>6, <3>2, <3>3 DEF Holds
  <2> QED  BY <2>1, <2>2
<1>11. ProgressOK(loops[l])'
  BY <1>1, <1>5, <1>6, <1>10 DEF ProgressOK, Holds
<1>12. \A m \in Slots : ProgressOK(loops[m])'
  BY <1>6, <1>11 DEF ProgressOK
<1> QED  BY <1>7, <1>8, <1>12 DEF ReadyInv

\* The end of the idle installer: it was fenced, or all its runtimes hold its actor.
LEMMA ReadyIdleEnd ==
    ASSUME TInv, FlightInv, ReadyInv, NEW l \in Slots, IdleEnd(l)
    PROVE  ReadyInv'
<1> DEFINE lp == loops[l]
<1>1. /\ lp.kind = "idle" /\ loops' = [loops EXCEPT ![l] = Free] /\ rec' = rec
      /\ idle'.generation = idle.generation
  BY DEF IdleEnd
<1>2. \A m \in Slots : loops'[m].kind # "idle"
  BY <1>1, FreeGood, Typed DEF FlightInv
<1>3. ProgressOK(lp) /\ lp \in LoopSet
  BY Typed DEF ReadyInv
<1>4. CASE lp.generation # idle.generation
  <2>1. idle.ready = NoActor /\ idle'.ready = idle.ready
    BY <1>1, <1>4 DEF ReadyInv, IdleEnd, Fenced
  <2>2. IdleReadyIsBootstrapped'
    BY <2>1 DEF IdleReadyIsBootstrapped
  <2> QED  BY <1>2, <2>2 DEF ReadyInv, ProgressOK
<1>5. CASE lp.generation = idle.generation
  <2>1. AtEnd(lp) /\ idle'.ready = lp.actor
    BY <1>5 DEF IdleEnd, Fenced
  <2>2. lp.pos > Len(Idle) /\ lp.pos \in Nat
    BY <1>1, <1>3, <2>1 DEF AtEnd, LoopRuntimes, LoopSet
  <2>3. ASSUME NEW r \in Own PROVE Holds(rec, r, lp.actor)
    <3>1. PICK i \in DOMAIN Idle : r = Idle[i]
      BY DEF Own, Range
    <3>2. i \in 1..Len(Idle) /\ Len(Idle) \in Nat
      BY BootAssumption
    <3> QED  BY <1>1, <1>3, <1>5, <2>2, <3>1, <3>2 DEF ProgressOK
  <2>4. IdleReadyIsBootstrapped'
    BY <1>1, <2>1, <2>3 DEF IdleReadyIsBootstrapped, Holds, Own
  <2> QED  BY <1>2, <2>4 DEF ReadyInv, ProgressOK
<1> QED  BY <1>4, <1>5

\* installIdleRuntimes: a new installer has nothing behind it.
LEMMA ReadyInstall ==
    ASSUME TInv, FlightInv, ReadyInv, NEW a, NEW calls, InstallIdleRuntimes(a, calls),
           rec' = rec
    PROVE  ReadyInv'
<1>1. CASE UNCHANGED <<idle, loops>>
  <2>1. IdleReadyIsBootstrapped'
    BY <1>1 DEF ReadyInv, IdleReadyIsBootstrapped, IdleLoops
  <2>2. \A m \in Slots : ProgressOK(loops[m])'
    BY <1>1 DEF ReadyInv, ProgressOK, Holds
  <2> QED  BY <1>1, <2>1, <2>2 DEF ReadyInv
<1>2. ASSUME idle.install = 0, NEW l \in FreeSlots,
             loops' = [loops EXCEPT ![l] = NewLoop("idle", a)], idle' = InFlight(l)
      PROVE  ReadyInv'
  <2> DEFINE n == NewLoop("idle", a)
  <2>1. /\ n.kind = "idle" /\ n.pc = "step" /\ n.pos = 1 /\ n.generation = idle.generation
        /\ idle'.generation = idle.generation /\ l \in Slots
    BY <1>2 DEF NewLoop, Loop, InFlight, FreeSlots
  <2>2. loops'[l] = n /\ \A m \in Slots : m # l => loops'[m].kind # "idle"
    BY <1>2, <2>1, Typed DEF FlightInv, Slots
  <2> HIDE DEF n
  <2>3. IdleReadyIsBootstrapped'
    <3>1. l \in IdleLoops'
      BY <2>1, <2>2 DEF IdleLoops
    <3> QED  BY <3>1 DEF IdleReadyIsBootstrapped
  <2>4. \A m \in Slots : ProgressOK(loops[m])'
    BY <2>1, <2>2 DEF ProgressOK
  <2>5. \A m \in Slots : (loops'[m].kind = "idle" /\ loops'[m].generation # idle'.generation)
                           => idle'.ready = NoActor
    BY <2>1, <2>2
  <2> QED  BY <2>3, <2>4, <2>5 DEF ReadyInv
<1> QED  BY <1>1, <1>2, InstallShape

\* After the end of a session nobody is ready and every idle installer is fenced.
LEMMA ReadyEdge ==
    ASSUME TInv, EndOfSession
    PROVE  ReadyInv'
<1>1. idle' = NextGeneration
  BY EdgeShape
<1>2. idle'.ready = NoActor /\ \A l \in Slots : loops[l].generation # idle'.generation
  BY <1>1, NextGenerationTyped, Typed DEF LoopSet
<1>3. \A m \in Slots : loops'[m].kind = "idle" => loops'[m].generation # idle'.generation
  BY <1>2, EdgeShape
<1>4. \A m \in Slots : ProgressOK(loops[m])'
  BY <1>3 DEF ProgressOK
<1>5. IdleReadyIsBootstrapped'
  BY <1>2 DEF IdleReadyIsBootstrapped
<1> QED  BY <1>2, <1>4, <1>5 DEF ReadyInv

\* Without faults every step keeps what a ready pipeline holds.
LEMMA ReadyNext == ~Faults /\ TInv /\ FlightInv /\ ReadyInv /\ [Next]_vars => ReadyInv'
<1> SUFFICES ASSUME ~Faults, TInv, FlightInv, ReadyInv, [Next]_vars PROVE ReadyInv'
  OBVIOUS
<1>a. \A l \in Slots : LoopGood(loops[l]) /\ loops[l] \in LoopSet
  BY Typed
<1>1. ASSUME NEW l \in Slots, loops[l].kind \in {"critical", "deferred"}, ~AtEnd(loops[l]),
             BeginBootstrap(l), idle' = idle
      PROVE  ReadyInv'
  <2> DEFINE r == LoopRuntime(loops[l])
  <2>1. PICK e, n : /\ Begun(r, loops[l], rec[r], e, n)
                    /\ rec' = [rec EXCEPT ![r] = e] /\ loops' = [loops EXCEPT ![l] = n]
    BY <1>1, BeginShape DEF Kinds
  <2>2. n.kind = loops[l].kind /\ loops[l].kind # "idle"
    BY <1>1, <2>1 DEF Begun
  <2>3. r \notin Own
    BY <1>a, <1>1, OthersApart DEF LoopGood
  <2> HIDE DEF r
  <2> QED  BY <1>1, <2>1, <2>2, <2>3, ReadyOther
<1>2. ASSUME NEW l \in Slots, CriticalStep(l) \/ DeferredStep(l) PROVE ReadyInv'
  BY <1>1, <1>2 DEF CriticalStep, DeferredStep
<1>3. ASSUME NEW l \in Slots, CriticalEnd(l) \/ DeferredEnd(l) PROVE ReadyInv'
  <2>1. /\ loops' = [loops EXCEPT ![l] = Free] /\ rec' = rec /\ idle' = idle
        /\ loops[l].kind # "idle"
    BY <1>3 DEF CriticalEnd, DeferredEnd
  <2>2. \A m \in Slots : m # l => loops'[m] = loops[m]
    BY <2>1, Typed
  <2>3. loops'[l] = Free
    BY <2>1, Typed
  <2> QED  BY <2>1, <2>2, <2>3, FreeGood, ReadyKept
<1>4. ASSUME NEW l \in Slots, RendererTurn(l) PROVE ReadyInv'
  <2> DEFINE n == [loops[l] EXCEPT !.pc = "step"]
  <2>1. loops' = [loops EXCEPT ![l] = n] /\ idle' = idle /\ rec' = rec
    BY <1>4, Typed DEF RendererTurn
  <2>2. /\ n.kind = loops[l].kind /\ n.pc = "step" /\ n.actor = loops[l].actor
        /\ n.generation = loops[l].generation /\ n.pos = loops[l].pos
    BY <1>a DEF LoopSet
  <2> HIDE DEF n
  <2>3. loops'[l] = n /\ \A m \in Slots : m # l => loops'[m] = loops[m]
    BY <2>1, Typed
  <2> QED  BY <2>1, <2>2, <2>3, ReadyKept
<1>5. ASSUME NEW l \in Slots, IdleStep(l) PROVE ReadyInv'
  BY <1>5, ReadyIdleStep
<1>6. ASSUME NEW l \in Slots, IdleEnd(l) PROVE ReadyInv'
  BY <1>6, ReadyIdleEnd
<1>7. ASSUME NEW l \in Slots, NEW ok \in Outcomes, BootstrapAnswered(l, ok) PROVE ReadyInv'
  <2>1. CASE loops[l].kind = "idle"
    BY <1>7, <2>1, ReadyIdleAnswered
  <2>2. CASE loops[l].kind # "idle"
    <3> DEFINE r == LoopRuntime(loops[l])
               n == Passed(loops[l])
    <3>1. PICK e \in Entry : rec' = [rec EXCEPT ![r] = e]
      BY <1>7, AnswerShape
    <3>2. loops' = [loops EXCEPT ![l] = n] /\ idle' = idle
      BY <1>7 DEF BootstrapAnswered
    <3>3. n.kind # "idle"
      BY <1>a, <2>2, PassedTyped
    <3>4. r \notin Own
      BY <1>a, <1>7, <2>2, AnswerShape, OthersApart DEF Kinds
    <3> HIDE DEF r, n
    <3> QED  BY <2>2, <3>1, <3>2, <3>3, <3>4, ReadyOther
  <2> QED  BY <2>1, <2>2
<1>8. ASSUME NEW l \in Slots, BootstrapTimesOut(l) PROVE ReadyInv'
  <2>1. /\ idle'.generation = idle.generation /\ idle'.ready = idle.ready
        /\ loops' = loops /\ rec' = rec
    BY <1>8 DEF BootstrapTimesOut, TInv, TypeOK
  <2> QED  BY <2>1, ReadyKept
<1>9. CASE ChainedCall \/ IdleCallback
  BY <1>9, ReadyInstall DEF ChainedCall, IdleCallback
<1>10. CASE DeferredCallback
  <2>1. idle' = idle
    BY <1>10 DEF DeferredCallback
  <2>2. CASE UNCHANGED <<rec, loops>>
    BY <2>1, <2>2, ReadyKept
  <2>3. ASSUME NEW l \in FreeSlots, rec' = AppInstalled(rec),
               loops' = [loops EXCEPT ![l] = NewLoop("deferred", session.actor)]
        PROVE  ReadyInv'
    <3>1. \A r \in Own : rec'[r] = rec[r]
      BY <2>3, Typed, SessionAfter DEF Own, SessionRuntimes
    <3>2. /\ NewLoop("deferred", session.actor).kind = "deferred" /\ l \in Slots
          /\ loops[l].kind = "none"
      BY <1>a DEF NewLoop, Loop, FreeSlots, LoopGood
    <3>3. /\ loops'[l] = NewLoop("deferred", session.actor)
          /\ \A m \in Slots : m # l => loops'[m] = loops[m]
      BY <2>3, <3>2, Typed
    <3> QED  BY <2>1, <3>1, <3>2, <3>3, ReadyKept
  <2> QED  BY <1>10, <2>2, <2>3 DEF DeferredCallback
<1>11. CASE EndOfSession
  BY <1>11, ReadyEdge
<1>12. ASSUME NEW a \in Actors, SignIn(a), session.actor = NoActor PROVE ReadyInv'
  <2>1. idle' = idle /\ \A r \in Own : rec'[r] = rec[r]
    BY <1>12, SignedOutShape DEF Own, SessionRuntimes
  <2>2. CASE loops' = loops
    BY <2>1, <2>2, ReadyKept
  <2>3. ASSUME NEW l \in FreeSlots, NEW n, loops' = [loops EXCEPT ![l] = n],
               n.kind = "critical"
        PROVE  ReadyInv'
    <3>1. l \in Slots /\ loops[l].kind = "none"
      BY <1>a DEF FreeSlots, LoopGood
    <3>2. loops'[l] = n /\ \A m \in Slots : m # l => loops'[m] = loops[m]
      BY <2>3, <3>1, Typed
    <3> QED  BY <2>1, <2>3, <3>1, <3>2, ReadyKept
  <2> QED  BY <1>12, <2>2, <2>3, EdgeLoops
<1>13. CASE UNCHANGED vars
  BY <1>13, ReadyKept DEF vars
<1>14. CASE SignOut \/ \E a \in Actors : SignIn(a)
  BY <1>11, <1>12, <1>14, Zenon DEF EndOfSession
<1> QED
  BY <1>2, <1>3, <1>4, <1>5, <1>6, <1>7, <1>8, <1>9, <1>10, <1>13, <1>14 DEF Next, LoopNext

\* When install and bootstrap do not fail, an actor the pipeline reports ready
\* (getIdleRuntimeInstallStatus, boot.ts:247-259) while no idle installer runs is
\* the one whose projections the idle runtimes hold, after any number of session
\* edges, chained calls and late answers.
THEOREM BootIdleReady == ~Faults /\ Spec => []IdleReadyIsBootstrapped
<1>1. Init => FlightInv
  BY FreeGood DEF Init, FlightInv
<1>2. Init => ReadyInv
  <2> SUFFICES ASSUME Init PROVE ReadyInv
    OBVIOUS
  <2>1. idle.ready = NoActor /\ \A l \in Slots : loops[l].kind = "none"
    BY FreeGood DEF Init
  <2> QED  BY <2>1 DEF ReadyInv, IdleReadyIsBootstrapped, ProgressOK
<1>3. ReadyInv => IdleReadyIsBootstrapped
  BY DEF ReadyInv
<1>4. CASE Faults
  BY <1>4
<1>5. CASE ~Faults
  <2>1. TInv /\ FlightInv /\ ReadyInv /\ [Next]_vars => ReadyInv'
    BY <1>5, ReadyNext
  <2> QED  BY TInvInit, TInvNext, FlightNext, <1>1, <1>2, <1>3, <2>1, PTL DEF Spec
<1> QED  BY <1>4, <1>5
=============================================================================
