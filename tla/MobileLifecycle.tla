--------------------------- MODULE MobileLifecycle ---------------------------
(***************************************************************************)
(* The mobile lifecycle kernel (app/lifecycle/MobileLifecycleKernel.ts)    *)
(* with its reducer, the launch states, and the readiness updates that     *)
(* the runtimes send at any time.  Operations are serialised by one queue: *)
(* op is the one that runs, and a step is what it does between two awaits. *)
(* Every call of a runtime or of the native host may fail or time out.     *)
(***************************************************************************)
EXTENDS Naturals, Sequences, FiniteSets

CONSTANTS
  Order,       \* bootOrder: the runtime IDs, dependencies first
  Deps,        \* dependsOn of each runtime
  Critical,    \* SHELL_BLOCKING_RUNTIME_IDS
  MaxGen,      \* bound: native generations
  MaxGraphs,   \* bound: graph registrations
  MaxUpdates,  \* bound: readiness updates
  MaxUpdateGen \* bound: the last native generation in which one is begun

Runtimes == {Order[k] : k \in 1..Len(Order)}

ASSUME GraphAssumption ==
  /\ Order \in Seq(Runtimes)
  /\ \A j, k \in 1..Len(Order) : Order[j] = Order[k] => j = k
  /\ Deps \in [Runtimes -> SUBSET Runtimes]
  /\ \A k \in 1..Len(Order) : Deps[Order[k]] \subseteq {Order[j] : j \in 1..(k - 1)}
  /\ Critical \subseteq Runtimes
  /\ MaxGen \in Nat /\ MaxGraphs \in Nat /\ MaxUpdates \in Nat /\ MaxUpdateGen \in Nat

VARIABLES
  phase,      \* state.phase
  launch,     \* state.launchState
  gen,        \* state.generation
  status,     \* state.runtimes: status of each
  readiness,  \* state.runtimes: readiness of each
  graph,      \* graphIncarnation
  revision,   \* readinessRevision
  updates,    \* readinessUpdates: revision of each runtime, 0 for none
  contexts,   \* the contexts handed out by runtimeContext
  open,       \* the readiness updates begun and not settled
  op,         \* the operation at the head of operationQueue
  native,     \* the generation of the native host
  fenced,     \* the generation fenceProjections was last called with
  granted     \* an access decision and a session admit the shell

vars == <<phase, launch, gen, status, readiness, graph, revision, updates,
          contexts, open, op, native, fenced, granted>>
table == <<status, readiness, graph>>
late == <<revision, contexts, open>>

Phases == {"COLD", "BOOTSTRAPPING", "ACTIVE", "SUSPENDING", "SUSPENDED", "RESUMING",
           "TEARDOWN", "TEARDOWN_FAILED"}
LaunchStates == {"app-boot", "station-selection", "station-handshake", "access-gate-chain",
                 "runtime-critical", "shell", "station-change", "logout", "background",
                 "resume"}
Statuses == {"pending", "bootstrapping", "ready", "suspended", "resuming",
             "tearing-down", "torn-down", "failed"}
Kinds == {"none", "start", "stop", "restart", "scope", "clear", "suspend", "resume",
          "reconcile"}
Contexts == [runtime : Runtimes, gen : Nat, graph : Nat]

-----------------------------------------------------------------------------
(* Launch states.                                                          *)

ValidLaunchTransitions ==
  [l \in LaunchStates |->
    CASE l = "app-boot"          -> {"station-selection"}
      [] l = "station-selection" -> {"station-handshake", "runtime-critical"}
      [] l = "station-handshake" -> {"station-selection", "access-gate-chain",
                                     "runtime-critical"}
      [] l = "access-gate-chain" -> {"station-selection", "station-handshake",
                                     "runtime-critical"}
      [] l = "runtime-critical"  -> {"station-selection", "access-gate-chain", "shell"}
      [] l = "shell"             -> {"station-change", "logout", "background"}
      [] l = "station-change"    -> {"station-selection"}
      [] l = "logout"            -> {"station-selection", "station-handshake",
                                     "access-gate-chain"}
      [] l = "background"        -> {"resume"}
      [] l = "resume"            -> {"station-selection", "access-gate-chain",
                                     "runtime-critical", "shell"}]

IsValidLaunch(from, to) == from = to \/ to \in ValidLaunchTransitions[from]

\* transitionToResolvedLaunchState: where the walk to the target ends, which is
\* short of it when the last transition is refused.
Resolved(from, target) ==
  LET l1 == IF from # "shell" THEN from
            ELSE IF target = "station-selection" THEN "station-change" ELSE "logout"
      l2 == IF \/ l1 = "station-change" /\ target # "station-selection"
               \/ l1 = "app-boot"
               \/ l1 = "logout" /\ target = "shell"
            THEN "station-selection" ELSE l1
      l3 == IF l2 = "station-selection" /\ target = "access-gate-chain"
            THEN "station-handshake" ELSE l2
      l4 == IF /\ target = "shell"
               /\ l3 \in {"station-selection", "access-gate-chain", "station-handshake"}
            THEN "runtime-critical" ELSE l3
  IN IF from = target \/ IsValidLaunch(l4, target) THEN target ELSE l4

-----------------------------------------------------------------------------
(* Operations.  at is the index of the runtime in turn.                    *)

Op(kind, pc, at, failed, g, ok) ==
  [kind |-> kind, pc |-> pc, at |-> at, failed |-> failed, gen |-> g, ok |-> ok]

Call(kind, pc) == Op(kind, pc, 0, {}, 0, TRUE)

NoOp == Call("none", "idle")
Idle == op.pc = "idle"

\* The operation returns or rejects: the queue goes on either way.
Return == op' = NoOp

NoUpdates == [r \in Runtimes |-> 0]

Turn == Order[op.at]

Init ==
  /\ phase = "COLD" /\ launch = "app-boot" /\ gen = 0
  /\ status = [r \in Runtimes |-> "pending"]
  /\ readiness = [r \in Runtimes |-> "none"]
  /\ graph = 0 /\ revision = 0 /\ updates = NoUpdates
  /\ contexts = {} /\ open = {}
  /\ op = NoOp
  /\ native \in {0, 1} /\ fenced = 0
  /\ granted \in BOOLEAN

\* teardownRuntimes up to its loop.
BeginTeardown(kind) ==
  /\ phase' = "TEARDOWN"
  /\ updates' = NoUpdates
  /\ op' = Op(kind, "teardown", Len(Order), {}, 0, TRUE)

StartRuntimeGraph ==
  /\ Idle /\ phase = "COLD" /\ graph < MaxGraphs
  /\ op' = Call("start", "read")
  /\ UNCHANGED <<phase, launch, gen, table, updates, late, native, fenced, granted>>

StopRuntimeGraph ==
  /\ Idle /\ phase # "COLD"
  /\ BeginTeardown("stop")
  /\ UNCHANGED <<launch, gen, table, late, native, fenced, granted>>

RestartRuntimeGraph ==
  /\ Idle /\ graph < MaxGraphs
  /\ op' = Call("restart", "advance")
  /\ UNCHANGED <<phase, launch, gen, table, updates, late, native, fenced, granted>>

\* Mutation: the transition stays in the shell until it is over.
TransitionScopeInShell ==
  /\ Idle /\ graph < MaxGraphs
  /\ \E kind \in {"scope", "clear"} : op' = Call(kind, "advance")
  /\ UNCHANGED <<phase, launch, gen, table, updates, late, native, fenced, granted>>

\* transitionScope, with enterScopeLaunchTransition.  "clear" is restart: false.
TransitionScope ==
  /\ Idle /\ graph < MaxGraphs
  /\ \E kind \in {"scope", "clear"} : op' = Call(kind, "advance")
  /\ IF launch = "shell" THEN launch' \in {"station-change", "logout"}
                         ELSE UNCHANGED launch
  /\ UNCHANGED <<phase, gen, table, updates, late, native, fenced, granted>>

\* suspend, up to the loop of suspendRuntimes or the refusal of its phase.
Suspend ==
  /\ Idle /\ phase # "SUSPENDED"
  /\ launch' = IF launch = "shell" THEN "background" ELSE launch
  /\ IF phase = "ACTIVE"
     THEN /\ phase' = "SUSPENDING"
          /\ updates' = NoUpdates
          /\ op' = Op("suspend", "suspend", Len(Order), {}, 0, TRUE)
     ELSE UNCHANGED <<phase, updates, op>>
  /\ UNCHANGED <<gen, table, late, native, fenced, granted>>

Resume ==
  /\ Idle /\ phase # "ACTIVE" /\ graph < MaxGraphs
  /\ launch' = IF launch = "background" THEN "resume" ELSE launch
  /\ op' = Call("resume", "read")
  /\ UNCHANGED <<phase, gen, table, updates, late, native, fenced, granted>>

ReconcileLaunchState ==
  /\ Idle
  /\ op' = Call("reconcile", "snapshot")
  /\ UNCHANGED <<phase, launch, gen, table, updates, late, native, fenced, granted>>

-----------------------------------------------------------------------------
(* Generations.                                                            *)

\* dependencies.readGeneration answers; the native host may have advanced.
ReadGeneration ==
  /\ op.pc = "read"
  /\ LET stale == IF op.kind = "start" THEN native = 0 ELSE native <= gen
     IN op' = Op(op.kind, IF stale THEN "advance" ELSE "apply", 0, {}, native, TRUE)
  /\ UNCHANGED <<phase, launch, gen, table, updates, late, native, fenced, granted>>

AdvanceGeneration ==
  /\ op.pc = "advance" /\ native < MaxGen
  /\ native' = native + 1
  /\ op' = Op(op.kind, "apply", 0, {}, native + 1, TRUE)
  /\ UNCHANGED <<phase, launch, gen, table, updates, late, fenced, granted>>

\* A call of the native host, of the owner's mutation or of resolveLaunchState
\* rejects or times out, possibly after it has had its effect.
CallFails ==
  /\ op.pc \in {"read", "advance", "apply", "mutate", "snapshot", "resolve"}
  /\ granted' \in IF op.pc = "mutate" THEN {granted, FALSE} ELSE {granted}
  /\ Return
  /\ UNCHANGED <<phase, launch, gen, table, updates, late, native, fenced>>

\* The guard of applyGeneration.
GenerationValid(g, requireAdvance) == IF requireAdvance THEN g > gen ELSE g >= gen

\* applyGeneration in startRuntimeGraph.
ApplyStart ==
  /\ op.pc = "apply" /\ op.kind = "start"
  /\ IF GenerationValid(op.gen, FALSE)
     THEN /\ gen' = op.gen /\ updates' = NoUpdates
          /\ op' = Call("start", "register")
     ELSE Return /\ UNCHANGED <<gen, updates>>
  /\ UNCHANGED <<phase, launch, table, late, native, fenced, granted>>

\* What follows a successful teardown, or none because the phase is COLD.
AfterTeardown(kind) ==
  op' = CASE kind = "stop" -> NoOp
          [] kind \in {"scope", "clear"} -> Call(kind, "mutate")
          [] OTHER -> Call(kind, "register")

\* Mutation: the projections are not fenced.
ApplyNoFence ==
  /\ op.pc = "apply" /\ op.kind \in {"restart", "scope", "clear"}
  /\ IF ~GenerationValid(op.gen, TRUE)
     THEN Return /\ UNCHANGED <<phase, gen, updates>>
     ELSE /\ gen' = op.gen
          /\ IF phase = "COLD"
             THEN AfterTeardown(op.kind) /\ updates' = NoUpdates /\ UNCHANGED phase
             ELSE BeginTeardown(op.kind)
  /\ UNCHANGED <<launch, table, late, native, fenced, granted>>

\* fenceAndTeardown.
ApplyFence ==
  /\ op.pc = "apply" /\ op.kind \in {"restart", "scope", "clear"}
  /\ IF ~GenerationValid(op.gen, TRUE)
     THEN Return /\ UNCHANGED <<phase, gen, updates, fenced>>
     ELSE /\ gen' = op.gen /\ fenced' = op.gen
          /\ IF phase = "COLD"
             THEN AfterTeardown(op.kind) /\ updates' = NoUpdates /\ UNCHANGED phase
             ELSE BeginTeardown(op.kind)
  /\ UNCHANGED <<launch, table, late, native, granted>>

AnyFailed == \E r \in Runtimes : status[r] = "failed" \/ readiness[r] = "failed"

\* resume after its generation: rebuild, resume or refuse.
ApplyResume ==
  /\ op.pc = "apply" /\ op.kind = "resume"
  /\ IF ~GenerationValid(op.gen, TRUE)
     THEN Return /\ UNCHANGED <<phase, gen, updates, fenced>>
     ELSE /\ gen' = op.gen /\ fenced' = op.gen
          /\ CASE AnyFailed /\ phase # "COLD" -> BeginTeardown("resume")
               [] ~AnyFailed /\ phase = "SUSPENDED" ->
                    /\ phase' = "RESUMING"
                    /\ op' = Op("resume", "resume", 1, {}, 0, TRUE)
                    /\ updates' = NoUpdates
               [] OTHER -> Return /\ updates' = NoUpdates /\ UNCHANGED phase
  /\ UNCHANGED <<launch, table, late, native, granted>>

-----------------------------------------------------------------------------
(* The runtime graph.                                                      *)

\* reset and registerRuntimes, up to the loop of bootstrapRuntimes.
RegisterRuntimes ==
  /\ op.pc = "register"
  /\ graph' = graph + 1
  /\ status' = [r \in Runtimes |-> "pending"]
  /\ readiness' = [r \in Runtimes |-> "none"]
  /\ updates' = NoUpdates
  /\ phase' = "BOOTSTRAPPING"
  /\ op' = Op(op.kind, "bootstrap", 1, {}, 0, TRUE)
  /\ UNCHANGED <<launch, gen, late, native, fenced, granted>>

\* The index after the one in turn, with what has failed so far.
Next1(failed) == Op(op.kind, op.pc, op.at + 1, failed, op.gen, op.ok)

\* runtimeContext.
Context(r) == [runtime |-> r, gen |-> gen, graph |-> graph]

\* A runtime whose dependency failed is not called.
SkipDependent(pc, as) ==
  /\ op.pc = pc /\ op.at <= Len(Order)
  /\ Deps[Turn] \cap op.failed # {}
  /\ status' = [status EXCEPT ![Turn] = as]
  /\ op' = Next1(op.failed \cup {Turn})
  /\ UNCHANGED <<phase, launch, gen, readiness, graph, updates, late, native, fenced, granted>>

SkipBootstrap == SkipDependent("bootstrap", "failed")

CallBootstrap ==
  /\ op.pc = "bootstrap" /\ op.at <= Len(Order)
  /\ status[Turn] = "pending"
  /\ Deps[Turn] \cap op.failed = {}
  /\ status' = [status EXCEPT ![Turn] = "bootstrapping"]
  /\ contexts' = contexts \cup {Context(Turn)}
  /\ UNCHANGED <<phase, launch, gen, readiness, graph, revision, updates, open, op,
                 native, fenced, granted>>

\* A bootstrap or a resume has ended, well or not; a body that timed out keeps
\* its context.
Succeed(pc, while) ==
  /\ op.pc = pc /\ op.at <= Len(Order) /\ status[Turn] = while
  /\ status' = [status EXCEPT ![Turn] = "ready"]
  /\ op' = Next1(op.failed)
  /\ UNCHANGED <<phase, launch, gen, readiness, graph, updates, late, native, fenced, granted>>

Break(pc, while, as) ==
  /\ op.pc = pc /\ op.at <= Len(Order) /\ status[Turn] = while
  /\ status' = [status EXCEPT ![Turn] = as]
  /\ updates' = [updates EXCEPT ![Turn] = 0]
  /\ op' = Next1(op.failed \cup {Turn})
  /\ UNCHANGED <<phase, launch, gen, readiness, graph, late, native, fenced, granted>>

BootstrapSucceeds == Succeed("bootstrap", "bootstrapping")
BootstrapFails == Break("bootstrap", "bootstrapping", "failed")

BootstrapComplete ==
  /\ op.pc = "bootstrap" /\ op.at > Len(Order)
  /\ phase' = "ACTIVE"
  /\ op' = Call(op.kind, "snapshot")
  /\ UNCHANGED <<launch, gen, table, updates, late, native, fenced, granted>>

\* One turn of suspendRuntimes: a runtime that cannot suspend counts as suspended.
SuspendRuntime ==
  /\ op.pc = "suspend" /\ op.at > 0
  /\ status' = [status EXCEPT ![Turn] = IF @ = "ready" THEN "suspended" ELSE @]
  /\ op' = Op(op.kind, op.pc, op.at - 1, {}, 0, TRUE)
  /\ UNCHANGED <<phase, launch, gen, readiness, graph, updates, late, native, fenced, granted>>

SuspendComplete ==
  /\ op.pc = "suspend" /\ op.at = 0
  /\ phase' = "SUSPENDED"
  /\ Return
  /\ UNCHANGED <<launch, gen, table, updates, late, native, fenced, granted>>

\* The turn of a runtime that is not suspended.
PassResume ==
  /\ op.pc = "resume" /\ op.at <= Len(Order)
  /\ status[Turn] \notin {"suspended", "resuming"}
  /\ op' = Next1(op.failed)
  /\ UNCHANGED <<phase, launch, gen, table, updates, late, native, fenced, granted>>

SkipResume ==
  /\ op.pc = "resume" /\ op.at <= Len(Order) /\ status[Turn] = "suspended"
  /\ SkipDependent("resume", "suspended")

\* Mutation: a failed dependency does not hold its dependents back.
CallResumeAnyway ==
  /\ op.pc = "resume" /\ op.at <= Len(Order)
  /\ status[Turn] = "suspended"
  /\ status' = [status EXCEPT ![Turn] = "resuming"]
  /\ readiness' = [readiness EXCEPT ![Turn] = "none"]
  /\ contexts' = contexts \cup {Context(Turn)}
  /\ UNCHANGED <<phase, launch, gen, graph, revision, updates, open, op, native, fenced,
                 granted>>

CallResume ==
  /\ op.pc = "resume" /\ op.at <= Len(Order)
  /\ status[Turn] = "suspended"
  /\ Deps[Turn] \cap op.failed = {}
  /\ status' = [status EXCEPT ![Turn] = "resuming"]
  /\ readiness' = [readiness EXCEPT ![Turn] = "none"]
  /\ contexts' = contexts \cup {Context(Turn)}
  /\ UNCHANGED <<phase, launch, gen, graph, revision, updates, open, op, native, fenced,
                 granted>>

ResumeSucceeds == Succeed("resume", "resuming")

ResumeFails == Break("resume", "resuming", "suspended")

ResumeComplete ==
  /\ op.pc = "resume" /\ op.at > Len(Order)
  /\ IF op.failed = {}
     THEN phase' = "ACTIVE" /\ op' = Call(op.kind, "snapshot")
     ELSE phase' = "SUSPENDED" /\ Return
  /\ UNCHANGED <<launch, gen, table, updates, late, native, fenced, granted>>

\* One turn of teardownRuntimes.
Down(ok) == Op(op.kind, op.pc, op.at - 1, {}, 0, ok)

\* Mutation: a runtime that failed is not torn down.
PassTeardownFailed ==
  /\ op.pc = "teardown" /\ op.at > 0
  /\ status[Turn] \in {"pending", "torn-down", "failed"}
  /\ op' = Down(op.ok)
  /\ UNCHANGED <<phase, launch, gen, table, updates, late, native, fenced, granted>>

PassTeardown ==
  /\ op.pc = "teardown" /\ op.at > 0
  /\ status[Turn] \in {"pending", "torn-down"}
  /\ op' = Down(op.ok)
  /\ UNCHANGED <<phase, launch, gen, table, updates, late, native, fenced, granted>>

CallTeardown ==
  /\ op.pc = "teardown" /\ op.at > 0
  /\ status[Turn] \notin {"pending", "torn-down", "tearing-down"}
  /\ status' = [status EXCEPT ![Turn] = "tearing-down"]
  /\ UNCHANGED <<phase, launch, gen, readiness, graph, updates, late, op, native, fenced,
                 granted>>

\* Mutation: a runtime whose teardown failed is called again at once, until it is
\* torn down.
TeardownRetries ==
  /\ op.pc = "teardown" /\ op.at > 0 /\ status[Turn] = "tearing-down"
  /\ \E ok \in BOOLEAN :
       /\ status' = [status EXCEPT ![Turn] = IF ok THEN "torn-down" ELSE "failed"]
       /\ op' = IF ok THEN Down(op.ok) ELSE op
  /\ UNCHANGED <<phase, launch, gen, readiness, graph, updates, late, native, fenced, granted>>

TeardownReturns ==
  /\ op.pc = "teardown" /\ op.at > 0 /\ status[Turn] = "tearing-down"
  /\ \E ok \in BOOLEAN :
       /\ status' = [status EXCEPT ![Turn] = IF ok THEN "torn-down" ELSE "failed"]
       /\ op' = Down(op.ok /\ ok)
  /\ UNCHANGED <<phase, launch, gen, readiness, graph, updates, late, native, fenced, granted>>

TeardownComplete ==
  /\ op.pc = "teardown" /\ op.at = 0
  /\ phase' = IF op.ok THEN "COLD" ELSE "TEARDOWN_FAILED"
  /\ IF op.ok THEN AfterTeardown(op.kind) ELSE Return
  /\ UNCHANGED <<launch, gen, table, updates, late, native, fenced, granted>>

-----------------------------------------------------------------------------
(* The owner's mutation and the launch state.                              *)

\* await transition(): every caller ends the session.
Mutate ==
  /\ op.pc = "mutate"
  /\ granted' = FALSE
  /\ op' = Call(op.kind, IF op.kind = "scope" THEN "register" ELSE "snapshot")
  /\ UNCHANGED <<phase, launch, gen, table, updates, late, native, fenced>>

\* readRuntimeAvailability: a runtime is available when it and what it depends on
\* is ready and has not withdrawn.
Withdrawn(r) == status[r] # "ready" \/ readiness[r] \in {"pending", "failed"}

Available(r) ==
  LET Below[k \in 0..Len(Order)] ==
        IF k = 0 THEN {r}
        ELSE LET d == Order[Len(Order) + 1 - k]
             IN IF d \in Below[k - 1] THEN Below[k - 1] \cup Deps[d] ELSE Below[k - 1]
  IN \A d \in Below[Len(Order)] : ~Withdrawn(d)

\* resolveMobileLaunchState takes the snapshot before it awaits the registry ...
Snapshot ==
  /\ op.pc = "snapshot"
  /\ op' = Op(op.kind, "resolve", 0, {}, 0,
              phase = "ACTIVE" /\ \A r \in Critical : Available(r))
  /\ UNCHANGED <<phase, launch, gen, table, updates, late, native, fenced, granted>>

Targets == IF ~granted THEN {"station-selection", "access-gate-chain"}
           ELSE {"runtime-critical"} \cup (IF op.ok THEN {"shell"} ELSE {})

\* ... and reads the session after it; then reconcileLaunchStateAfterRuntime.
Resolve ==
  /\ op.pc = "resolve"
  /\ \E target \in Targets : launch' = Resolved(launch, target)
  /\ Return
  /\ UNCHANGED <<phase, gen, table, updates, late, native, fenced, granted>>

\* showStationSelection calls transitionLaunchState outside the queue.
ShowStationSelection ==
  /\ launch \in {"shell"} \cup
       {l \in LaunchStates : "station-selection" \in ValidLaunchTransitions[l]}
  /\ launch' = "station-selection"
  /\ UNCHANGED <<phase, gen, table, updates, late, op, native, fenced, granted>>

\* startAccessGateChainFor does so twice: before it verifies the station, and when
\* the access decision is not granted.  A transition that is refused throws.
StartAccessGateChain ==
  /\ launch' \in {"station-handshake", "access-gate-chain"}
  /\ launch' \in ValidLaunchTransitions[launch]
  /\ UNCHANGED <<phase, gen, table, updates, late, op, native, fenced, granted>>

-----------------------------------------------------------------------------
(* Readiness updates, and the environment.                                 *)

\* Mutation: a context is known by its generation alone.
ContextOfGeneration(c) ==
  /\ c.gen = gen
  /\ status[c.runtime] \in {"bootstrapping", "ready", "resuming"}
  /\ phase \in {"BOOTSTRAPPING", "ACTIVE", "RESUMING"}

ContextCurrent(c) ==
  /\ c.gen = gen
  /\ c.graph = graph
  /\ status[c.runtime] \in {"bootstrapping", "ready", "resuming"}
  /\ phase \in {"BOOTSTRAPPING", "ACTIVE", "RESUMING"}

IsCurrent(u) == ContextCurrent(u.context) /\ updates[u.context.runtime] = u.revision

\* beginReadinessUpdate, of any context a runtime ever got.
BeginUpdate ==
  /\ revision < MaxUpdates /\ native <= MaxUpdateGen
  /\ revision' = revision + 1
  /\ \E c \in contexts :
       /\ open' = open \cup {[context |-> c, revision |-> revision + 1]}
       /\ IF ContextCurrent(c)
          THEN /\ updates' = [updates EXCEPT ![c.runtime] = revision + 1]
               /\ readiness' = [readiness EXCEPT ![c.runtime] = "pending"]
          ELSE UNCHANGED <<updates, readiness>>
  /\ UNCHANGED <<phase, launch, gen, status, graph, contexts, op, native, fenced, granted>>

\* settle, by ready(), by fail() or by the deadline of the update.
SettleUpdate ==
  /\ \E u \in open, result \in {"ready", "failed"} :
       /\ IsCurrent(u)
       /\ open' = open \ {u}
       /\ readiness' = [readiness EXCEPT ![u.context.runtime] = result]
  /\ UNCHANGED <<phase, launch, gen, status, graph, revision, updates, contexts, op,
                 native, fenced, granted>>

\* The native host advances its generation when the app comes to the foreground.
NativeForeground ==
  /\ native < MaxGen
  /\ native' = native + 1
  /\ UNCHANGED <<phase, launch, gen, table, updates, late, op, fenced, granted>>

\* The access gate admits a session.
AccessGranted ==
  /\ ~granted /\ granted' = TRUE
  /\ UNCHANGED <<phase, launch, gen, table, updates, late, op, native, fenced>>

Begin == StartRuntimeGraph \/ StopRuntimeGraph \/ RestartRuntimeGraph \/ TransitionScope
         \/ Suspend \/ Resume \/ ReconcileLaunchState

\* What the running operation does.
Step == ReadGeneration \/ AdvanceGeneration \/ CallFails
        \/ ApplyStart \/ ApplyFence \/ ApplyResume
        \/ RegisterRuntimes \/ SkipBootstrap \/ CallBootstrap \/ BootstrapSucceeds
        \/ BootstrapFails \/ BootstrapComplete
        \/ SuspendRuntime \/ SuspendComplete
        \/ PassResume \/ SkipResume \/ CallResume \/ ResumeSucceeds \/ ResumeFails
        \/ ResumeComplete
        \/ PassTeardown \/ CallTeardown \/ TeardownReturns \/ TeardownComplete
        \/ Mutate \/ Snapshot \/ Resolve

Outside == ShowStationSelection \/ StartAccessGateChain \/ BeginUpdate \/ SettleUpdate
           \/ NativeForeground \/ AccessGranted

Next == Begin \/ Step \/ Outside

Spec == Init /\ [][Next]_vars

\* Every await of the kernel is bounded by withTimeout, except the owner's mutation.
FairSpec == Spec /\ WF_vars(Step /\ op.pc # "mutate")

-----------------------------------------------------------------------------
(* Properties.                                                             *)

\* Types.
TypeOK ==
  /\ phase \in Phases /\ launch \in LaunchStates
  /\ gen \in Nat /\ graph \in Nat /\ revision \in Nat /\ native \in Nat /\ fenced \in Nat
  /\ status \in [Runtimes -> Statuses]
  /\ readiness \in [Runtimes -> {"none", "pending", "ready", "failed"}]
  /\ updates \in [Runtimes -> Nat]
  /\ contexts \subseteq Contexts
  /\ open \subseteq [context : Contexts, revision : Nat]
  /\ op \in [kind : Kinds,
             pc : {"idle", "read", "advance", "apply", "register", "bootstrap", "suspend",
                   "resume", "teardown", "mutate", "snapshot", "resolve"},
             at : 0..(Len(Order) + 1), failed : SUBSET Runtimes, gen : Nat, ok : BOOLEAN]
  /\ granted \in BOOLEAN

\* The owner's mutation runs, and a new graph is registered, only over a graph in
\* which every runtime that was ever called has been torn down (transitionScope,
\* restartRuntimeGraph, resume), whatever failed, timed out or was retried before.
ReplacedIsTornDown ==
  op.pc \in {"mutate", "register"} =>
    phase = "COLD" /\ \A r \in Runtimes : status[r] \in {"pending", "torn-down"}

\* While the owner's mutation runs, projections are fenced at the generation of the
\* kernel, and every context a runtime holds is of an earlier one, so that nothing
\* a late body reports can be current again (transitionScope).
ScopeMutationFenced ==
  op.pc = "mutate" => fenced = gen /\ \A c \in contexts : c.gen < gen

\* A runtime that is being bootstrapped or resumed, or that is ready, has all its
\* dependencies ready, through partial failures of bootstrap, suspend and resume
\* and in the reverse order of suspend and teardown.
LiveNeedsDependencies ==
  \A r \in Runtimes : status[r] \in {"bootstrapping", "ready", "resuming"} =>
    \A d \in Deps[r] : status[d] = "ready"

NewestOf(r, c) ==
  /\ c.runtime = r
  /\ \A b \in contexts : b.runtime = r => b.gen <= c.gen /\ b.graph <= c.graph

\* A result is recorded only for the newest update of the newest context of its
\* runtime, and only once: not after a restart at the same generation, a resume, a
\* fence, or a later update (isCurrent, settle).
StaleUpdateRejected ==
  [][\A r \in Runtimes :
       readiness'[r] # readiness[r] /\ readiness'[r] \in {"ready", "failed"} =>
         /\ readiness[r] = "pending"
         /\ \E u \in open \ open' :
              /\ NewestOf(r, u.context)
              /\ \A v \in open : v.context = u.context => v.revision <= u.revision]_vars

\* An identity transition leaves the shell before it fences and tears down, and the
\* shell is entered again only over an active graph and an admitted session; so a
\* cleanup that fails keeps the app outside the shell (enterScopeLaunchTransition,
\* reconcileLaunchStateAfterRuntime).
FailedCleanupOutsideShell ==
  [][/\ op.kind \in {"scope", "clear"} /\ launch' = "shell" => op.pc = "resolve"
     /\ launch' = "shell" /\ launch # "shell" => phase = "ACTIVE" /\ granted]_vars

\* An operation ends, so that the queue goes on, unless the owner's mutation hangs:
\* its await alone has no timeout (enqueueOperation, withTimeout).
OperationEnds == op.pc # "idle" ~> op.pc \in {"idle", "mutate"}
=============================================================================
