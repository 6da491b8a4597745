---------------------------- MODULE BootPipeline ----------------------------
(***************************************************************************)
(* The desktop boot pipeline: the runtime registry (kernel/runtime.ts),    *)
(* the idle installer (kernel/boot.ts), the critical and the deferred      *)
(* installers (services/appRuntime.ts) and the React effect that drives    *)
(* them on every session edge (hooks/useAppRuntime.ts).                    *)
(*                                                                         *)
(* Each installer is an async loop over a list of runtimes.  It runs       *)
(* without interruption from one await to the next; a session edge, an     *)
(* idle callback or the answer of another loop's bootstrap may come        *)
(* between.  A loop is a record in a slot: pc is "step" while its          *)
(* continuation is queued, "await" while it waits for a bootstrap, "yield" *)
(* while it waits for the renderer.                                        *)
(***************************************************************************)
EXTENDS Naturals, Sequences, FiniteSets, Functions

CONSTANTS
  Actors,      \* the accounts that may sign in
  NoActor,     \* the null actor
  Critical,    \* CRITICAL_SESSION_RUNTIME_IDS, a sequence
  Idle,        \* the other session-scope runtimes, in registration order
  Deferred,    \* deferredAppRuntimeIds(), a sequence
  Early,       \* the app-scope runtimes installAppRuntime bootstraps with null
  Social,      \* the social runtime
  MaxEpochs,   \* bound: session edges
  MaxLoops,    \* bound: installers running at once
  Faults       \* whether install() and bootstrap() may fail

SessionRuntimes == Range(Critical) \cup Range(Idle)

Runtimes == SessionRuntimes \cup Range(Deferred) \cup Early \cup {Social}

ASSUME BootAssumption ==
  /\ NoActor \notin Actors
  /\ Critical \in Seq(Range(Critical)) /\ Idle \in Seq(Range(Idle))
  /\ Deferred \in Seq(Range(Deferred))
  /\ Range(Critical) \cap Range(Idle) = {}
  /\ Social \notin SessionRuntimes /\ Early \cap SessionRuntimes = {}
  /\ MaxEpochs \in Nat \ {0} /\ MaxLoops \in Nat
  /\ Faults \in BOOLEAN

VARIABLES
  rec,        \* the registry: installed, bootstrapSequence, bootstrappedActorPtid
  session,    \* the session the effect last ran for: actor and epoch
  effect,     \* that effect's pending work
  ready,      \* criticalSessionEpoch, 0 for null
  idle,       \* generation, the install in flight, its status, the ready actor
  requests,   \* installIdleRuntimes calls chained behind another install
  app,        \* the module variables of appRuntime.ts
  loops       \* the installers that are running

vars == <<rec, session, effect, ready, idle, requests, app, loops>>

MaybeActor == Actors \cup {NoActor}
Slots == 1..MaxLoops

Loop(kind, actor, generation, pos, pc, seq, born) ==
  [kind |-> kind, actor |-> actor, generation |-> generation, pos |-> pos,
   pc |-> pc, seq |-> seq, born |-> born]

Free == Loop("none", NoActor, 0, 0, "free", 0, 0)

NoEffect == [waits |-> 0, deferredDue |-> FALSE, idleDue |-> FALSE]

Init ==
  /\ rec = [r \in Runtimes |-> [installed |-> FALSE, seq |-> 0, actor |-> NoActor]]
  /\ session = [actor |-> NoActor, epoch |-> 1]
  /\ effect = NoEffect
  /\ ready = 0
  /\ idle = [generation |-> 0, install |-> 0, status |-> "pending", ready |-> NoActor]
  /\ requests = <<>>
  /\ app = [installed |-> FALSE, deferred |-> FALSE, deferredIn |-> 0, criticalIn |-> 0]
  /\ loops = [l \in Slots |-> Free]

-----------------------------------------------------------------------------
(* The runtime registry.                                                   *)

\* Whether desc.install() returned or threw.
Outcomes == IF Faults THEN BOOLEAN ELSE {TRUE}

\* installRuntime: a runtime already installed is left alone.
InstallRuntime(entry, ok) ==
  [installed |-> entry.installed \/ ok, seq |-> entry.seq, actor |-> entry.actor]

\* teardownRuntime: the bootstrap sequence is not advanced.
TeardownRuntime(entry) ==
  IF entry.installed
  THEN [installed |-> FALSE, seq |-> entry.seq, actor |-> NoActor]
  ELSE entry

\* Mutation: a teardown does not advance the bootstrap sequence.
ResetBootstrapNoBump(entry) ==
  [installed |-> entry.installed, seq |-> entry.seq, actor |-> NoActor]

\* resetSessionRuntimeBootstraps, for one record.
ResetBootstrap(entry) ==
  [installed |-> entry.installed, seq |-> entry.seq + 1, actor |-> NoActor]

\* The two early returns of bootstrapRuntime.
ShortCircuits(r, a) ==
  \/ a # NoActor /\ rec[r].actor = a
  \/ r \notin SessionRuntimes /\ rec[r].actor # NoActor

\* The end of bootstrapRuntime: a result overtaken by a later bootstrap or by
\* a session reset is dropped.
BootstrapDone(entry, seq, a, ok) ==
  IF ok /\ entry.seq = seq THEN [entry EXCEPT !.actor = a] ELSE entry

-----------------------------------------------------------------------------
(* The installers.                                                         *)

\* The list each installer walks.
LoopRuntimes(kind) ==
  CASE kind = "critical" -> Critical
    [] kind = "idle"     -> Idle
    [] OTHER             -> <<Social>> \o Deferred

\* The deferred installer names the actor to the social runtime only.
BootActor(lp) ==
  IF lp.kind = "deferred" /\ lp.pos > 1 THEN NoActor ELSE lp.actor

LoopRuntime(lp) == LoopRuntimes(lp.kind)[lp.pos]

FreeSlots == {l \in Slots : loops[l].pc = "free"}

NewLoop(kind, a) == Loop(kind, a, idle.generation, 1, "step", 0, 0)

\* A loop that waits for the bootstrap of that sequence, or that has it behind it.
Awaiting(lp, seq) ==
  Loop(lp.kind, lp.actor, lp.generation, lp.pos, "await", seq, idle.generation)

Passed(lp) ==
  Loop(lp.kind, lp.actor, lp.generation, lp.pos + 1,
       IF lp.kind = "deferred" /\ lp.pos > 1 THEN "yield" ELSE "step", lp.seq, lp.born)

\* The state of the idle installer when one has started, and after a session edge.
InFlight(l) ==
  [generation |-> idle.generation, install |-> l, status |-> "running", ready |-> idle.ready]

NextGeneration ==
  [generation |-> idle.generation + 1, install |-> idle.install, status |-> idle.status,
   ready |-> NoActor]

\* A continuation queued as a microtask runs before the next callback, timer,
\* answer or render.
NoMicrotask ==
  /\ \A l \in Slots : loops[l].pc # "step"
  /\ \A i \in DOMAIN requests : requests[i].on # 0

\* bootstrapRuntime, up to its await.
BeginBootstrap(l) ==
  LET lp == loops[l]
      r  == LoopRuntime(lp)
  IN \E ok \in Outcomes :
       LET entry == InstallRuntime(rec[r], ok) IN
       IF ShortCircuits(r, BootActor(lp))
       THEN /\ rec' = [rec EXCEPT ![r] = entry]
            /\ loops' = [loops EXCEPT ![l] = Passed(lp)]
       ELSE /\ rec' = [rec EXCEPT ![r] =
                         [installed |-> entry.installed, seq |-> entry.seq + 1,
                          actor |-> entry.actor]]
            /\ loops' = [loops EXCEPT ![l] = Awaiting(lp, entry.seq + 1)]

AtEnd(lp) == lp.pos > Len(LoopRuntimes(lp.kind))

\* The critical installer: no generation is checked between two runtimes.
CriticalStep(l) ==
  /\ loops[l].pc = "step" /\ loops[l].kind = "critical" /\ ~AtEnd(loops[l])
  /\ BeginBootstrap(l)
  /\ UNCHANGED <<session, effect, ready, idle, requests, app>>

\* Its end: every caller that joined it goes on, unless its effect was
\* cancelled.
CriticalEnd(l) ==
  /\ loops[l].pc = "step" /\ loops[l].kind = "critical" /\ AtEnd(loops[l])
  /\ loops' = [loops EXCEPT ![l] = Free]
  /\ app' = [app EXCEPT !.criticalIn = IF @ = l THEN 0 ELSE @]
  /\ IF effect.waits = l
     THEN /\ ready' = session.epoch
          /\ effect' = [waits |-> 0, deferredDue |-> effect.deferredDue, idleDue |-> TRUE]
     ELSE UNCHANGED <<ready, effect>>
  /\ UNCHANGED <<rec, session, idle, requests>>

\* installDeferredAppRuntimeProjections: one runtime, then a turn of the
\* renderer.
DeferredStep(l) ==
  /\ loops[l].pc = "step" /\ loops[l].kind = "deferred" /\ ~AtEnd(loops[l])
  /\ BeginBootstrap(l)
  /\ UNCHANGED <<session, effect, ready, idle, requests, app>>

DeferredEnd(l) ==
  /\ loops[l].pc = "step" /\ loops[l].kind = "deferred" /\ AtEnd(loops[l])
  /\ loops' = [loops EXCEPT ![l] = Free]
  /\ app' = [installed |-> app.installed, deferred |-> TRUE, deferredIn |-> 0,
             criticalIn |-> app.criticalIn]
  /\ UNCHANGED <<rec, session, effect, ready, idle, requests>>

RendererTurn(l) ==
  /\ NoMicrotask /\ loops[l].pc = "yield"
  /\ loops' = [loops EXCEPT ![l].pc = "step"]
  /\ UNCHANGED <<rec, session, effect, ready, idle, requests, app>>

\* Mutation: an installer does not look at the generation between two runtimes.
NeverFenced(lp) == FALSE

\* The fence of installIdleRuntimesForActor, before and after each runtime.
Fenced(lp) == lp.generation # idle.generation

IdleStep(l) ==
  /\ loops[l].pc = "step" /\ loops[l].kind = "idle"
  /\ ~Fenced(loops[l]) /\ ~AtEnd(loops[l])
  /\ BeginBootstrap(l)
  /\ UNCHANGED <<session, effect, ready, idle, requests, app>>

\* The return, fenced or at the end of the list, and the finally that clears
\* the install in flight; the calls chained behind it become runnable.
IdleEnd(l) ==
  /\ loops[l].pc = "step" /\ loops[l].kind = "idle"
  /\ Fenced(loops[l]) \/ AtEnd(loops[l])
  /\ loops' = [loops EXCEPT ![l] = Free]
  /\ idle' = [generation |-> idle.generation,
              install |-> IF idle.install = l THEN 0 ELSE idle.install,
              status |-> IF idle.install = l THEN "pending" ELSE idle.status,
              ready |-> IF Fenced(loops[l]) THEN idle.ready ELSE loops[l].actor]
  /\ requests' = [i \in DOMAIN requests |->
                    [requests[i] EXCEPT !.on = IF @ = l THEN 0 ELSE @]]
  /\ UNCHANGED <<rec, session, effect, ready, app>>

\* The answer of the bootstrap a loop awaits.
BootstrapAnswered(l, ok) ==
  LET lp == loops[l]
      r  == LoopRuntime(lp)
  IN /\ NoMicrotask /\ lp.pc = "await"
     /\ rec' = [rec EXCEPT ![r] = BootstrapDone(@, lp.seq, BootActor(lp), ok)]
     /\ loops' = [loops EXCEPT ![l] = Passed(lp)]
     /\ UNCHANGED <<session, effect, ready, idle, requests, app>>

\* BOOTSTRAP_TIMEOUT_MS passes: the idle install is degraded and keeps
\* waiting for the same bootstrap.
BootstrapTimesOut(l) ==
  /\ NoMicrotask /\ idle.install = l /\ loops[l].pc = "await"
  /\ idle.status = "running"
  /\ idle' = [idle EXCEPT !.status = "degraded"]
  /\ UNCHANGED <<rec, session, effect, ready, requests, app, loops>>

-----------------------------------------------------------------------------
(* The callers.                                                            *)

\* installAppRuntime, once: the social runtime is installed and the early ones
\* are installed and bootstrapped with null, which leaves their marker null.
AppInstalled(rs) ==
  IF app.installed THEN rs
  ELSE [r \in Runtimes |->
          CASE r \in Early  -> [installed |-> TRUE, seq |-> rs[r].seq + 1, actor |-> NoActor]
            [] r = Social   -> [rs[r] EXCEPT !.installed = TRUE]
            [] OTHER        -> rs[r]]

\* Mutation: a call joins an install of any generation and actor.
InstallIdleRuntimesJoinsAny(a, calls) ==
  IF idle.ready = a \/ idle.install # 0
  THEN requests' = calls /\ UNCHANGED <<idle, loops>>
  ELSE \E l \in FreeSlots :
         /\ \A m \in FreeSlots : l <= m
         /\ loops' = [loops EXCEPT ![l] = NewLoop("idle", a)]
         /\ idle' = InFlight(l)
         /\ requests' = calls

\* Mutation: a new install does not wait for the one in flight.
InstallIdleRuntimesNow(a, calls) ==
  IF idle.ready = a THEN requests' = calls /\ UNCHANGED <<idle, loops>>
  ELSE \E l \in FreeSlots :
         /\ \A m \in FreeSlots : l <= m
         /\ loops' = [loops EXCEPT ![l] = NewLoop("idle", a)]
         /\ idle' = InFlight(l)
         /\ requests' = calls

\* installIdleRuntimes: nothing to do, join, chain behind the install in
\* flight, or start.  calls is what is left of the chained calls.
InstallIdleRuntimes(a, calls) ==
  LET current == idle.install
      joins   == /\ current # 0 /\ loops[current].actor = a
                 /\ loops[current].generation = idle.generation
  IN CASE idle.ready = a \/ joins ->
            requests' = calls /\ UNCHANGED <<idle, loops>>
       [] ~joins /\ idle.ready # a /\ current # 0 ->
            requests' = Append(calls, [actor |-> a, on |-> current])
            /\ UNCHANGED <<idle, loops>>
       [] OTHER ->
            \E l \in FreeSlots :
              /\ \A m \in FreeSlots : l <= m
              /\ loops' = [loops EXCEPT ![l] = NewLoop("idle", a)]
              /\ idle' = InFlight(l)
              /\ requests' = calls

\* A chained call runs again, in the order the calls were made.
ChainedCall ==
  /\ requests # <<>> /\ Head(requests).on = 0
  /\ InstallIdleRuntimes(Head(requests).actor, Tail(requests))
  /\ UNCHANGED <<rec, session, effect, ready, app>>

\* The idle callback the effect scheduled once the critical runtimes were up.
IdleCallback ==
  /\ NoMicrotask /\ effect.idleDue
  /\ InstallIdleRuntimes(session.actor, requests)
  /\ effect' = [effect EXCEPT !.idleDue = FALSE]
  /\ UNCHANGED <<rec, session, ready, app>>

\* The idle callback scheduled when the effect started.
DeferredCallback ==
  /\ NoMicrotask /\ effect.deferredDue
  /\ effect' = [effect EXCEPT !.deferredDue = FALSE]
  /\ IF app.deferred \/ app.deferredIn # 0
     THEN UNCHANGED <<rec, app, loops>>
     ELSE \E l \in FreeSlots :
            /\ \A m \in FreeSlots : l <= m
            /\ loops' = [loops EXCEPT ![l] = NewLoop("deferred", session.actor)]
            /\ rec' = AppInstalled(rec)
            /\ app' = [installed |-> TRUE, deferred |-> app.deferred,
                       deferredIn |-> l, criticalIn |-> app.criticalIn]
  /\ UNCHANGED <<session, ready, idle, requests>>

\* tearDownSessionRuntimes.
TearDownSession(rs) ==
  [r \in Runtimes |->
     IF r \in SessionRuntimes THEN ResetBootstrap(TeardownRuntime(rs[r])) ELSE rs[r]]

\* Whether an installer for this actor is already in flight.
JoinsCritical(a) == app.criticalIn # 0 /\ loops[app.criticalIn].actor = a

\* The cleanup of the effect of an authenticated session; a signed-out one has torn
\* down in its body and returns no cleanup.
CleanedUp(rs) == IF session.actor = NoActor THEN rs ELSE TearDownSession(rs)

IdleCleanedUp == IF session.actor = NoActor THEN idle ELSE NextGeneration

\* A session edge commits: the old effect is cleaned up (its callbacks are
\* cancelled and the session runtimes torn down), then the effect runs for the
\* new session and starts, or joins, the critical installer.
SignIn(a) ==
  /\ NoMicrotask /\ session.epoch < MaxEpochs
  /\ session' = [actor |-> a, epoch |-> session.epoch + 1]
  /\ ready' = 0
  /\ idle' = IdleCleanedUp
  /\ IF JoinsCritical(a)
     THEN /\ effect' = [waits |-> app.criticalIn, deferredDue |-> TRUE, idleDue |-> FALSE]
          /\ rec' = CleanedUp(rec)
          /\ UNCHANGED <<app, loops>>
     ELSE \E l \in FreeSlots :
            /\ \A m \in FreeSlots : l <= m
            /\ effect' = [waits |-> l, deferredDue |-> TRUE, idleDue |-> FALSE]
            /\ loops' = [loops EXCEPT ![l] =
                 Loop("critical", a, IdleCleanedUp.generation, 1, "step", 0, 0)]
            /\ rec' = AppInstalled(CleanedUp(rec))
            /\ app' = [installed |-> TRUE, deferred |-> app.deferred,
                       deferredIn |-> app.deferredIn, criticalIn |-> l]
  /\ UNCHANGED requests

\* The cleanup of the old effect and the body of the new one, which tear down alike.
SignOut ==
  /\ NoMicrotask /\ session.epoch < MaxEpochs /\ session.actor # NoActor
  /\ session' = [actor |-> NoActor, epoch |-> session.epoch + 1]
  /\ ready' = 0
  /\ effect' = NoEffect
  /\ idle' = NextGeneration
  /\ rec' = TearDownSession(rec)
  /\ UNCHANGED <<requests, app, loops>>

-----------------------------------------------------------------------------

LoopNext(l) ==
  \/ CriticalStep(l)
  \/ CriticalEnd(l)
  \/ DeferredStep(l)
  \/ DeferredEnd(l)
  \/ RendererTurn(l)
  \/ IdleStep(l)
  \/ IdleEnd(l)
  \/ \E ok \in Outcomes : BootstrapAnswered(l, ok)

Next ==
  \/ \E l \in Slots : LoopNext(l) \/ BootstrapTimesOut(l)
  \/ ChainedCall
  \/ IdleCallback
  \/ DeferredCallback
  \/ \E a \in Actors : SignIn(a)
  \/ SignOut

Spec == Init /\ [][Next]_vars

\* Fairness: a queued continuation runs, an idle callback has a timeout, and a
\* bootstrap is a bounded transport operation that answers or fails.  Session
\* edges and timeouts need not happen.
FairSpec ==
  /\ Spec
  /\ \A l \in Slots : WF_vars(LoopNext(l))
  /\ WF_vars(ChainedCall) /\ WF_vars(IdleCallback) /\ WF_vars(DeferredCallback)

-----------------------------------------------------------------------------
(* Properties.                                                             *)

\* TypeOK: the shape of the registry, of the pipeline's module variables and of
\* the running installers.
TypeOK ==
  /\ rec \in [Runtimes -> [installed : BOOLEAN, seq : Nat, actor : MaybeActor]]
  /\ session \in [actor : MaybeActor, epoch : 1..MaxEpochs]
  /\ effect \in [waits : {0} \cup Slots, deferredDue : BOOLEAN, idleDue : BOOLEAN]
  /\ ready \in 0..MaxEpochs
  /\ idle \in [generation : Nat, install : {0} \cup Slots,
               status : {"pending", "running", "degraded"}, ready : MaybeActor]
  /\ requests \in Seq([actor : Actors, on : {0} \cup Slots])
  /\ app \in [installed : BOOLEAN, deferred : BOOLEAN,
              deferredIn : {0} \cup Slots, criticalIn : {0} \cup Slots]
  /\ loops \in [Slots -> [kind : {"none", "critical", "idle", "deferred"},
                          actor : MaybeActor, generation : Nat, pos : Nat,
                          pc : {"free", "step", "await", "yield"},
                          seq : Nat, born : Nat]]

\* The idle installers that have not returned.
IdleLoops == {l \in Slots : loops[l].kind = "idle"}

\* Idle bootstraps are single-flight: over any sequence of session edges, of
\* calls that join and of calls chained behind an older install, at most one
\* idle installer runs, and it is the one the module variable names
\* (installIdleRuntimes, boot.ts:175-210).
SingleFlight ==
  /\ Cardinality(IdleLoops) <= 1
  /\ \A l \in IdleLoops : idle.install = l

\* When the pipeline reports an actor as ready and no idle installer runs, every
\* idle runtime that only the idle installer bootstraps is installed and holds
\* that actor's projection, whatever older installs, chained calls and session
\* edges came in between (getIdleRuntimeInstallStatus, boot.ts:247-259).  It is
\* stated for runs without faults: a failed bootstrap is logged and skipped.
IdleReadyIsBootstrapped ==
  (IdleLoops = {} /\ idle.ready # NoActor) =>
     \A r \in Range(Idle) \ Range(Deferred) :
        rec[r].installed /\ rec[r].actor = idle.ready

\* A bootstrap that was in flight when the session was torn down never marks
\* its runtime as bootstrapped: a marker is only ever set by a bootstrap begun
\* since the last teardown (runtime.ts:57-58, 174-179, 229-236).
StaleResultDiscarded ==
  [][\A r \in SessionRuntimes :
       rec'[r].actor \notin {NoActor, rec[r].actor} =>
         \E l \in Slots : /\ loops[l].pc = "await" /\ LoopRuntime(loops[l]) = r
                          /\ loops[l].born = idle.generation]_vars

\* After the last session edge the critical runtimes come up and the idle
\* pipeline comes to rest with an actor reported ready: no call that had to
\* queue behind installs of earlier sessions is lost or waits for ever
\* (useAppRuntime.ts:51-89, boot.ts:188-190).
PipelineSettles ==
  (session.actor # NoActor /\ session.epoch = MaxEpochs)
    ~> [](/\ ready = MaxEpochs /\ idle.ready # NoActor
          /\ IdleLoops = {} /\ requests = <<>>)
=============================================================================
