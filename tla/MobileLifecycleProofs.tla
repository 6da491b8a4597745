------------------------ MODULE MobileLifecycleProofs ------------------------
(***************************************************************************)
(* Theorems about MobileLifecycle, for every graph of runtimes and every   *)
(* bound.  Types come first, with the range of the index of each loop;     *)
(* then what each phase and each loop says of the statuses; then fences.   *)
(***************************************************************************)
EXTENDS MobileLifecycle, TLAPS

N == Len(Order)

\* The constants, as the proofs use them.
LEMMA OrderFacts ==
  /\ N \in Nat
  /\ \A k \in 1..N : Order[k] \in Runtimes
  /\ \A r \in Runtimes : \E k \in 1..N : r = Order[k]
  /\ \A j, k \in 1..N : Order[j] = Order[k] => j = k
  /\ \A k \in 1..N : \A d \in Deps[Order[k]] : \E j \in 1..(k - 1) : d = Order[j]
  /\ Deps \in [Runtimes -> SUBSET Runtimes]
<1>1. N \in Nat
  BY GraphAssumption DEF N
<1>2. \A k \in 1..N : Order[k] \in Runtimes
  BY DEF N, Runtimes
<1>3. \A r \in Runtimes : \E k \in 1..N : r = Order[k]
  BY DEF N, Runtimes
<1>4. \A k \in 1..N : \A d \in Deps[Order[k]] : \E j \in 1..(k - 1) : d = Order[j]
  BY GraphAssumption DEF N
<1> QED
  BY <1>1, <1>2, <1>3, <1>4, GraphAssumption DEF N

\* The index of a loop.
LoopOK ==
  /\ op.pc \in {"bootstrap", "resume"} => op.at \in 1..(N + 1)
  /\ op.pc \in {"suspend", "teardown"} => op.at \in 0..N

Pcs == {"idle", "read", "advance", "apply", "register", "bootstrap", "suspend",
        "resume", "teardown", "mutate", "snapshot", "resolve"}

OpSet == [kind : Kinds, pc : Pcs, at : 0..(N + 1), failed : SUBSET Runtimes,
          gen : Nat, ok : BOOLEAN]

OpOK == op \in OpSet /\ LoopOK

\* A call is an operation outside every loop.
LEMMA CallTyped ==
  ASSUME NEW kind \in Kinds, NEW pc \in Pcs
  PROVE  /\ Call(kind, pc) \in OpSet
         /\ Call(kind, pc).pc = pc /\ Call(kind, pc).kind = kind
<1>1. 0 \in 0..(N + 1)
  BY OrderFacts
<1> QED
  BY <1>1 DEF Call, OpSet, Op, Kinds, Pcs

StartsAt(pc) ==
  pc \in Pcs \ {"bootstrap", "resume", "suspend", "teardown"}

\* The initial operation is none.
LEMMA OpInit == Init => OpOK
<1> SUFFICES ASSUME Init PROVE OpOK
  OBVIOUS
<1>1. op = Call("none", "idle")
  BY DEF Init, NoOp
<1> QED
  BY <1>1, CallTyped DEF OpOK, LoopOK, Kinds, Pcs

\* Every step keeps the operation typed and its index in range.
LEMMA OpStep == native \in Nat /\ OpOK /\ [Next]_vars => OpOK'
<1> SUFFICES ASSUME native \in Nat, OpOK, [Next]_vars PROVE OpOK'
  OBVIOUS
<1> USE DEF Pcs, Kinds
<1>n. N \in Nat
  BY OrderFacts
<1>t. /\ op.kind \in Kinds /\ op.pc \in Pcs /\ op.at \in 0..(N + 1)
      /\ op.failed \in SUBSET Runtimes /\ op.gen \in Nat /\ op.ok \in BOOLEAN
  BY DEF OpOK, OpSet
<1>turn. op.at \in 1..N => Turn \in Runtimes
  BY OrderFacts DEF Turn
<1>call. ASSUME NEW kind \in Kinds, NEW pc \in Pcs, StartsAt(pc), op' = Call(kind, pc)
         PROVE  OpOK'
  BY <1>call, CallTyped DEF OpOK, LoopOK, StartsAt
<1>ret. ASSUME Return PROVE OpOK'
  BY <1>ret, <1>call DEF Return, NoOp, StartsAt
<1>loop. ASSUME NEW kind \in Kinds, NEW pc \in Pcs, NEW at \in 0..(N + 1),
                NEW failed \in SUBSET Runtimes, NEW g \in Nat, NEW ok \in BOOLEAN,
                pc \in {"bootstrap", "resume"} => at \in 1..(N + 1),
                pc \in {"suspend", "teardown"} => at \in 0..N,
                op' = Op(kind, pc, at, failed, g, ok)
         PROVE  OpOK'
  <2>1. op' = [kind |-> kind, pc |-> pc, at |-> at, failed |-> failed, gen |-> g, ok |-> ok]
    BY <1>loop DEF Op
  <2>2. op' \in OpSet
    BY <2>1 DEF OpSet
  <2>3. op'.pc = pc /\ op'.at = at
    BY <2>1
  <2> QED
    BY <1>loop, <2>2, <2>3 DEF OpOK, LoopOK
<1>down. ASSUME NEW kind \in Kinds, BeginTeardown(kind) PROVE OpOK'
  <2>1. N \in 0..(N + 1) /\ N \in 0..N
    BY <1>n
  <2>2. op' = Op(kind, "teardown", N, {}, 0, TRUE)
    BY <1>down DEF BeginTeardown, N
  <2>3. {} \in SUBSET Runtimes /\ 0 \in Nat /\ TRUE \in BOOLEAN /\ "teardown" \in Pcs
    OBVIOUS
  <2> QED
    BY <1>loop, <2>1, <2>2, <2>3
<1>after. ASSUME NEW kind \in Kinds, AfterTeardown(kind) PROVE OpOK'
  <2>1. \E pc \in {"mutate", "register"} : op' = NoOp \/ op' = Call(kind, pc)
    BY <1>after DEF AfterTeardown
  <2> QED
    BY <2>1, <1>call DEF NoOp, StartsAt
<1>next. ASSUME NEW failed \in SUBSET Runtimes, op.pc \in {"bootstrap", "resume"},
                op.at <= N, op' = Next1(failed)
         PROVE  OpOK'
  <2>1. op.at \in 1..N
    BY <1>n, <1>t, <1>next DEF OpOK, LoopOK
  <2>2. op.at + 1 \in 1..(N + 1) /\ op.at + 1 \in 0..(N + 1)
    BY <1>n, <2>1
  <2>3. op' = Op(op.kind, op.pc, op.at + 1, failed, op.gen, op.ok)
    BY <1>next DEF Next1
  <2> QED
    BY <1>loop, <1>t, <1>next, <2>2, <2>3
<1>prev. ASSUME NEW ok \in BOOLEAN, op.pc \in {"suspend", "teardown"}, op.at > 0,
                op' = Op(op.kind, op.pc, op.at - 1, {}, 0, ok)
         PROVE  OpOK'
  <2>1. op.at \in 1..N
    BY <1>n, <1>t, <1>prev DEF OpOK, LoopOK
  <2>2. op.at - 1 \in 0..N /\ op.at - 1 \in 0..(N + 1)
    BY <1>n, <2>1
  <2>3. {} \in SUBSET Runtimes /\ 0 \in Nat
    OBVIOUS
  <2> QED
    BY <1>loop, <1>t, <1>prev, <2>2, <2>3
<1>same. ASSUME UNCHANGED op PROVE OpOK'
  BY <1>same DEF OpOK, LoopOK
<1>1. CASE StartRuntimeGraph \/ RestartRuntimeGraph \/ TransitionScope \/ Resume
           \/ ReconcileLaunchState
  BY <1>1, <1>call DEF StartRuntimeGraph, RestartRuntimeGraph, TransitionScope, Resume,
     ReconcileLaunchState, StartsAt
<1>2. CASE StopRuntimeGraph
  BY <1>2, <1>down DEF StopRuntimeGraph
<1>3. CASE Suspend
  <2>1. CASE phase = "ACTIVE"
    <3>1. op' = Op("suspend", "suspend", N, {}, 0, TRUE)
      BY <1>3, <2>1 DEF Suspend, N
    <3>2. N \in 0..(N + 1) /\ N \in 0..N
      BY <1>n
    <3>3. {} \in SUBSET Runtimes /\ 0 \in Nat /\ TRUE \in BOOLEAN
      OBVIOUS
    <3> QED
      BY <1>loop, <3>1, <3>2, <3>3
  <2>2. CASE phase # "ACTIVE"
    BY <1>3, <2>2, <1>same DEF Suspend
  <2> QED
    BY <2>1, <2>2
<1>4. CASE ReadGeneration \/ AdvanceGeneration \/ Snapshot
  <2>1. 0 \in 0..(N + 1) /\ {} \in SUBSET Runtimes /\ 0 \in Nat /\ TRUE \in BOOLEAN
    BY <1>n
  <2>2. CASE ReadGeneration
    <3>1. PICK pc \in {"advance", "apply"} : op' = Op(op.kind, pc, 0, {}, native, TRUE)
      BY <2>2 DEF ReadGeneration
    <3> QED
      BY <1>loop, <1>t, <2>1, <3>1
  <2>3. CASE AdvanceGeneration
    <3>1. op' = Op(op.kind, "apply", 0, {}, native + 1, TRUE) /\ native + 1 \in Nat
      BY <2>3 DEF AdvanceGeneration
    <3> QED
      BY <1>loop, <1>t, <2>1, <3>1
  <2>4. CASE Snapshot
    <3> DEFINE ok == phase = "ACTIVE" /\ \A r \in Critical : Available(r)
    <3>1. op' = Op(op.kind, "resolve", 0, {}, 0, ok)
      BY <2>4 DEF Snapshot
    <3>2. ok \in BOOLEAN
      OBVIOUS
    <3> HIDE DEF ok
    <3> QED
      BY <1>loop, <1>t, <2>1, <3>1, <3>2
  <2> QED
    BY <1>4, <2>2, <2>3, <2>4
<1>5. CASE CallFails \/ SuspendComplete \/ Resolve
  BY <1>5, <1>ret DEF CallFails, SuspendComplete, Resolve
<1>6. CASE ApplyStart
  BY <1>6, <1>ret, <1>call DEF ApplyStart, StartsAt
<1>7. CASE ApplyFence
  BY <1>7, <1>t, <1>ret, <1>after, <1>down DEF ApplyFence
<1>8. CASE ApplyResume
  <2>1. CASE Return
    BY <2>1, <1>ret
  <2>2. CASE BeginTeardown("resume")
    BY <2>2, <1>down
  <2>3. CASE op' = Op("resume", "resume", 1, {}, 0, TRUE)
    <3>1. 1 \in 0..(N + 1) /\ 1 \in 1..(N + 1) /\ {} \in SUBSET Runtimes /\ 0 \in Nat
      BY <1>n
    <3> QED
      BY <1>loop, <2>3, <3>1
  <2> QED
    BY <1>8, <2>1, <2>2, <2>3 DEF ApplyResume
<1>9. CASE RegisterRuntimes
  <2>1. op' = Op(op.kind, "bootstrap", 1, {}, 0, TRUE)
    BY <1>9 DEF RegisterRuntimes
  <2>2. 1 \in 0..(N + 1) /\ 1 \in 1..(N + 1) /\ {} \in SUBSET Runtimes /\ 0 \in Nat
    BY <1>n
  <2> QED
    BY <1>loop, <1>t, <2>1, <2>2
<1>10. CASE SkipBootstrap \/ SkipResume \/ BootstrapFails \/ ResumeFails
  <2>1. /\ op.pc \in {"bootstrap", "resume"} /\ op.at <= N
        /\ op' = Next1(op.failed \cup {Turn})
    BY <1>10 DEF SkipBootstrap, SkipResume, SkipDependent, BootstrapFails, ResumeFails,
       Break, N
  <2>2. op.at \in 1..N
    BY <1>n, <1>t, <2>1 DEF OpOK, LoopOK
  <2>3. op.failed \cup {Turn} \in SUBSET Runtimes
    BY <1>t, <1>turn, <2>2
  <2> QED
    BY <1>next, <2>1, <2>3
<1>11. CASE BootstrapSucceeds \/ ResumeSucceeds \/ PassResume
  <2>1. op.pc \in {"bootstrap", "resume"} /\ op.at <= N /\ op' = Next1(op.failed)
    BY <1>11 DEF BootstrapSucceeds, ResumeSucceeds, Succeed, PassResume, N
  <2> QED
    BY <1>t, <1>next, <2>1
<1>12. CASE BootstrapComplete
  BY <1>12, <1>t, <1>call DEF BootstrapComplete, StartsAt
<1>13. CASE ResumeComplete
  BY <1>13, <1>t, <1>call, <1>ret DEF ResumeComplete, StartsAt
<1>14. CASE SuspendRuntime
  <2>1. TRUE \in BOOLEAN
    OBVIOUS
  <2> QED
    BY <1>14, <1>prev, <2>1 DEF SuspendRuntime
<1>15. CASE PassTeardown
  BY <1>15, <1>t, <1>prev DEF PassTeardown, Down
<1>16. CASE TeardownReturns
  <2>1. PICK ok \in BOOLEAN : op' = Op(op.kind, op.pc, op.at - 1, {}, 0, op.ok /\ ok)
    BY <1>16 DEF TeardownReturns, Down
  <2>2. (op.ok /\ ok) \in BOOLEAN
    OBVIOUS
  <2> QED
    BY <1>16, <1>prev, <2>1, <2>2 DEF TeardownReturns
<1>17. CASE TeardownComplete
  BY <1>17, <1>t, <1>after, <1>ret DEF TeardownComplete
<1>18. CASE Mutate
  <2>1. \E pc \in {"register", "snapshot"} : op' = Call(op.kind, pc)
    BY <1>18 DEF Mutate
  <2> QED
    BY <1>t, <1>call, <2>1 DEF StartsAt
<1>19. CASE CallBootstrap \/ CallResume \/ CallTeardown \/ Outside \/ UNCHANGED vars
  BY <1>19, <1>same DEF CallBootstrap, CallResume, CallTeardown, Outside,
     ShowStationSelection, StartAccessGateChain, BeginUpdate, SettleUpdate, NativeForeground, AccessGranted, vars
<1> QED
  BY <1>1, <1>2, <1>3, <1>4, <1>5, <1>6, <1>7, <1>8, <1>9, <1>10, <1>11, <1>12, <1>13,
     <1>14, <1>15, <1>16, <1>17, <1>18, <1>19 DEF Next, Begin, Step

-----------------------------------------------------------------------------
(* Types.                                                                  *)

TypeInv == TypeOK /\ LoopOK

\* Types, as the lemmas about the operation use them.
LEMMA TypeIsOp == TypeOK /\ LoopOK => OpOK /\ native \in Nat
  BY DEF TypeOK, OpOK, OpSet, Pcs, N

\* The initial state is typed.
LEMMA TypeInit == Init => TypeInv
<1> SUFFICES ASSUME Init PROVE TypeInv
  OBVIOUS
<1>1. op \in OpSet /\ LoopOK
  BY OpInit DEF OpOK
<1> QED
  BY <1>1 DEF Init, TypeInv, TypeOK, OpSet, Pcs, N, Phases, LaunchStates, Statuses,
     NoUpdates

\* The walk to a launch state ends in one.
LEMMA ResolvedTyped ==
  ASSUME NEW from \in LaunchStates, NEW target \in LaunchStates
  PROVE  Resolved(from, target) \in LaunchStates
  BY DEF Resolved, LaunchStates

\* Every step keeps what is outside the operation typed.
LEMMA TypeStep == TypeInv /\ [Next]_vars => TypeInv'
<1> SUFFICES ASSUME TypeInv, [Next]_vars PROVE TypeInv'
  OBVIOUS
<1>op. OpOK' /\ OpOK /\ native \in Nat
  BY OpStep, TypeIsOp DEF TypeInv
<1>t. TypeOK
  BY DEF TypeInv
<1>turn. /\ op.pc \in {"bootstrap", "resume"} /\ op.at <= N => Turn \in Runtimes
         /\ op.pc \in {"suspend", "teardown"} /\ op.at > 0 => Turn \in Runtimes
  <2>1. op.at \in 0..(N + 1) /\ N \in Nat
    BY <1>op, OrderFacts DEF OpOK, OpSet
  <2>2. op.at \in 1..N => Turn \in Runtimes
    BY OrderFacts DEF Turn
  <2> QED
    BY <1>op, <2>1, <2>2 DEF OpOK, LoopOK
<1> USE DEF Next, vars, table, late, Begin, Step, Outside, StartRuntimeGraph,
       StopRuntimeGraph, RestartRuntimeGraph, TransitionScope, Suspend, Resume,
       ReconcileLaunchState, BeginTeardown, ReadGeneration, AdvanceGeneration, CallFails,
       ApplyStart, ApplyFence, ApplyResume, RegisterRuntimes, SkipBootstrap, SkipDependent,
       CallBootstrap, BootstrapSucceeds, Succeed, BootstrapFails, Break, BootstrapComplete,
       SuspendRuntime, SuspendComplete, PassResume, SkipResume, CallResume, ResumeSucceeds,
       ResumeFails, ResumeComplete, PassTeardown, CallTeardown, TeardownReturns,
       TeardownComplete, Mutate, Snapshot, Resolve, ShowStationSelection, StartAccessGateChain, BeginUpdate,
       SettleUpdate, NativeForeground, AccessGranted
<1>1. (phase \in Phases)'
  <2>1. phase \in Phases
    BY <1>t DEF TypeOK
  <2> QED
    BY <2>1 DEF Phases
<1>2. (launch \in LaunchStates)'
  <2>1. launch \in LaunchStates
    BY <1>t DEF TypeOK
  <2>2. CASE Resolve
    <3>1. PICK target \in Targets : launch' = Resolved(launch, target)
      BY <2>2
    <3>2. target \in LaunchStates
      BY <3>1 DEF Targets, LaunchStates
    <3> QED
      BY <2>1, <3>1, <3>2, ResolvedTyped
  <2>3. CASE ~Resolve
    BY <2>1, <2>3 DEF LaunchStates
  <2> QED
    BY <2>2, <2>3
<1>3. (gen \in Nat /\ fenced \in Nat)'
  <2>1. gen \in Nat /\ fenced \in Nat /\ op.gen \in Nat
    BY <1>t DEF TypeOK
  <2> QED
    BY <2>1
<1>4. (graph \in Nat /\ revision \in Nat /\ native \in Nat)'
  <2>1. graph \in Nat /\ revision \in Nat /\ native \in Nat
    BY <1>t DEF TypeOK
  <2>2. UNCHANGED graph \/ graph' = graph + 1
    OBVIOUS
  <2>3. UNCHANGED revision \/ revision' = revision + 1
    OBVIOUS
  <2>4. UNCHANGED native \/ native' = native + 1
    OBVIOUS
  <2> HIDE DEF Next
  <2> QED
    BY <2>1, <2>2, <2>3, <2>4
<1>5. (granted \in BOOLEAN)'
  BY <1>t DEF TypeOK
<1>6. (status \in [Runtimes -> Statuses])'
  <2>1. status \in [Runtimes -> Statuses]
    BY <1>t DEF TypeOK
  <2>2. CASE SkipBootstrap \/ SkipResume \/ BootstrapSucceeds \/ ResumeSucceeds
             \/ BootstrapFails \/ ResumeFails \/ CallBootstrap \/ CallResume \/ CallTeardown
    <3>1. \E s \in Statuses : status' = [status EXCEPT ![Turn] = s]
      BY <2>2 DEF Statuses
    <3> QED
      BY <2>1, <3>1
  <2>3. CASE SuspendRuntime
    BY <2>1, <2>3 DEF Statuses
  <2>4. CASE TeardownReturns
    BY <2>1, <2>4 DEF Statuses
  <2>5. CASE RegisterRuntimes
    BY <2>5 DEF Statuses
  <2>6. \/ UNCHANGED status
        \/ SkipBootstrap \/ SkipResume \/ BootstrapSucceeds \/ ResumeSucceeds
        \/ BootstrapFails \/ ResumeFails \/ CallBootstrap \/ CallResume \/ CallTeardown
        \/ SuspendRuntime \/ TeardownReturns \/ RegisterRuntimes
    OBVIOUS
  <2> QED
    BY <2>1, <2>2, <2>3, <2>4, <2>5, <2>6
<1>7. (readiness \in [Runtimes -> {"none", "pending", "ready", "failed"}])'
  <2>1. readiness \in [Runtimes -> {"none", "pending", "ready", "failed"}]
    BY <1>t DEF TypeOK
  <2> QED
    BY <2>1
<1>8. (updates \in [Runtimes -> Nat])'
  <2>1. updates \in [Runtimes -> Nat] /\ revision \in Nat
    BY <1>t DEF TypeOK
  <2>2. NoUpdates \in [Runtimes -> Nat]
    BY DEF NoUpdates
  <2>3. CASE BeginUpdate
    BY <2>1, <2>3
  <2>4. CASE BootstrapFails \/ ResumeFails
    BY <2>1, <2>4
  <2>5. \/ UNCHANGED updates \/ updates' = NoUpdates
        \/ BeginUpdate \/ BootstrapFails \/ ResumeFails
    OBVIOUS
  <2> QED
    BY <2>1, <2>2, <2>3, <2>4, <2>5
<1>9. (contexts \subseteq Contexts)'
  <2>1. contexts \subseteq Contexts /\ gen \in Nat /\ graph \in Nat
    BY <1>t DEF TypeOK
  <2>2. CASE CallBootstrap \/ CallResume
    <3>1. contexts' = contexts \cup {Context(Turn)} /\ Turn \in Runtimes
      BY <1>turn, <2>2 DEF N
    <3>2. Context(Turn) \in Contexts
      BY <2>1, <3>1 DEF Context, Contexts
    <3> QED
      BY <2>1, <3>1, <3>2
  <2>3. CASE ~(CallBootstrap \/ CallResume)
    <3>1. UNCHANGED contexts
      BY <2>3
    <3> QED
      BY <2>1, <3>1
  <2> QED
    BY <2>2, <2>3
<1>10. (open \subseteq [context : Contexts, revision : Nat])'
  <2>1. contexts \subseteq Contexts /\ revision \in Nat
        /\ open \subseteq [context : Contexts, revision : Nat]
    BY <1>t DEF TypeOK
  <2>2. CASE BeginUpdate
    BY <2>1, <2>2
  <2>3. CASE ~BeginUpdate
    <3>1. open' \subseteq open
      BY <2>3
    <3> QED
      BY <2>1, <3>1
  <2> QED
    BY <2>2, <2>3
<1> QED
  BY <1>op, <1>1, <1>2, <1>3, <1>4, <1>5, <1>6, <1>7, <1>8, <1>9, <1>10
     DEF TypeInv, TypeOK, OpOK, OpSet, Pcs, N

\* Every variable keeps its type, and the loops of the kernel stay within the boot
\* order, for every graph of runtimes.
THEOREM MobileTypeCorrect == Spec => []TypeOK
<1>1. TypeInv => TypeOK
  BY DEF TypeInv
<1> QED
  BY <1>1, TypeInit, TypeStep, PTL DEF Spec

-----------------------------------------------------------------------------
(* Phases, loops and statuses.  Runtimes are named by their place in the   *)
(* boot order, which a dependency precedes.                                *)

St(k) == status[Order[k]]
DepOf(j, k) == Order[j] \in Deps[Order[k]]
Live == {"bootstrapping", "ready", "resuming"}

PhaseOfLoop ==
  /\ op.pc = "bootstrap" => phase = "BOOTSTRAPPING"
  /\ op.pc = "suspend" => phase = "SUSPENDING"
  /\ op.pc = "resume" => phase = "RESUMING"
  /\ op.pc = "teardown" => phase = "TEARDOWN"
  /\ op.pc \in {"mutate", "register"} => phase = "COLD"
  /\ op.kind = "start" /\ op.pc \in {"read", "advance", "apply"} => phase = "COLD"

StatusOfPhase ==
  /\ phase = "COLD" => \A k \in 1..N : St(k) \in {"pending", "torn-down"}
  /\ phase = "ACTIVE" => \A k \in 1..N : St(k) \in {"ready", "failed"}
  /\ phase = "SUSPENDED" => \A k \in 1..N : St(k) \in {"ready", "suspended", "failed"}

\* What the loops have done, and what they have still to do.
BootLoop ==
  op.pc = "bootstrap" => \A k \in 1..N :
    /\ k < op.at => St(k) = "ready" \/ (St(k) = "failed" /\ Order[k] \in op.failed)
    /\ k >= op.at => St(k) \in {"pending", "bootstrapping"}

SuspendLoop ==
  op.pc = "suspend" => \A k \in 1..N :
    /\ St(k) \in {"ready", "suspended", "failed"}
    /\ k > op.at => St(k) # "ready"

ResumeLoop ==
  op.pc = "resume" => \A k \in 1..N :
    /\ St(k) \in {"ready", "suspended", "resuming"}
    /\ k < op.at => St(k) = "ready" \/ (St(k) = "suspended" /\ Order[k] \in op.failed)
    /\ k > op.at => St(k) # "resuming"

TeardownLoop ==
  op.pc = "teardown" => \A k \in 1..N : k > op.at =>
    /\ St(k) \in {"pending", "torn-down", "failed"}
    /\ op.ok => St(k) # "failed"

LiveInv ==
  \A j, k \in 1..N : DepOf(j, k) /\ St(k) \in Live => St(j) = "ready"

GraphInv == PhaseOfLoop /\ StatusOfPhase /\ BootLoop /\ SuspendLoop /\ ResumeLoop
            /\ TeardownLoop /\ LiveInv

\* A dependency comes earlier in the boot order.
LEMMA DepEarlier == \A j, k \in 1..N : DepOf(j, k) => j < k
<1> SUFFICES ASSUME NEW j \in 1..N, NEW k \in 1..N, DepOf(j, k) PROVE j < k
  OBVIOUS
<1>1. N \in Nat
  BY OrderFacts
<1>2. PICK i \in 1..(k - 1) : Order[j] = Order[i]
  BY OrderFacts DEF DepOf
<1>3. i \in 1..N /\ i < k
  BY <1>1, <1>2
<1>4. i = j
  BY <1>2, <1>3, OrderFacts
<1> QED
  BY <1>3, <1>4

\* Nothing has been called when the kernel starts.
LEMMA GraphInit == Init => GraphInv
<1> SUFFICES ASSUME Init PROVE GraphInv
  OBVIOUS
<1>1. \A k \in 1..N : St(k) = "pending"
  BY OrderFacts DEF Init, St
<1>2. op.pc = "idle" /\ phase = "COLD"
  BY DEF Init, NoOp, Call, Op
<1> QED
  BY <1>1, <1>2 DEF GraphInv, PhaseOfLoop, StatusOfPhase, BootLoop, SuspendLoop,
     ResumeLoop, TeardownLoop, LiveInv, Live

\* An operation that is in no loop, over statuses and a phase that stay.
Apart(o, p) ==
  /\ o.pc \notin {"bootstrap", "suspend", "resume", "teardown"}
  /\ o.pc \in {"mutate", "register"} => p = "COLD"
  /\ o.kind = "start" /\ o.pc \in {"read", "advance", "apply"} => p = "COLD"

\* Every step keeps what the loops say of the statuses: the calls of a loop change
\* the status of the runtime in turn alone.
LEMMA GraphStep == TypeInv /\ GraphInv /\ [Next]_vars => GraphInv'
<1> SUFFICES ASSUME TypeInv, GraphInv, [Next]_vars PROVE GraphInv'
  OBVIOUS
<1> USE DEF GraphInv
<1>n. N \in Nat
  BY OrderFacts
<1>op. /\ op.kind \in Kinds /\ op.pc \in Pcs /\ op.at \in 0..(N + 1)
       /\ op.failed \in SUBSET Runtimes /\ op.ok \in BOOLEAN /\ LoopOK
  BY DEF TypeInv, TypeOK, Pcs, N
<1>st. status \in [Runtimes -> Statuses] /\ phase \in Phases
  BY DEF TypeInv, TypeOK
<1>f. ASSUME NEW kind, NEW pc, NEW at, NEW failed, NEW g, NEW ok \in BOOLEAN,
             op' = Op(kind, pc, at, failed, g, ok)
      PROVE  /\ op'.kind = kind /\ op'.pc = pc /\ op'.at = at /\ op'.failed = failed
             /\ op'.ok = ok
  BY <1>f DEF Op
<1>call. ASSUME NEW kind, NEW pc, op' = Call(kind, pc)
         PROVE  op'.kind = kind /\ op'.pc = pc
  BY <1>call, <1>f DEF Call
<1>none. op' = NoOp => op'.pc = "idle" /\ op'.kind = "none"
  BY <1>call DEF NoOp
<1>one. ASSUME NEW i \in 1..N, NEW s, status' = [status EXCEPT ![Order[i]] = s]
        PROVE  \A k \in 1..N : St(k)' = IF k = i THEN s ELSE St(k)
  BY <1>one, <1>st, OrderFacts DEF St
<1>same. UNCHANGED status => \A k \in 1..N : St(k)' = St(k)
  BY DEF St
<1>dep. \A j, k \in 1..N : DepOf(j, k)' = DepOf(j, k)
  BY DEF DepOf
<1>apart. ASSUME UNCHANGED <<status, phase>>, Apart(op', phase) PROVE GraphInv'
  <2>1. \A k \in 1..N : St(k)' = St(k)
    BY <1>apart, <1>same
  <2>2. op'.pc \notin {"bootstrap", "suspend", "resume", "teardown"}
    BY <1>apart DEF Apart
  <2>3. PhaseOfLoop'
    BY <1>apart, <2>2 DEF Apart, PhaseOfLoop
  <2>4. StatusOfPhase'
    BY <1>apart, <2>1 DEF StatusOfPhase
  <2>5. LiveInv'
    BY <1>dep, <2>1 DEF LiveInv
  <2> QED
    BY <2>2, <2>3, <2>4, <2>5 DEF BootLoop, SuspendLoop, ResumeLoop, TeardownLoop
<1>stay. ASSUME UNCHANGED <<status, phase, op>> PROVE GraphInv'
  <2>1. \A k \in 1..N : St(k)' = St(k)
    BY <1>stay, <1>same
  <2> QED
    BY <1>stay, <1>dep, <2>1 DEF PhaseOfLoop, StatusOfPhase, BootLoop, SuspendLoop, ResumeLoop,
       TeardownLoop, LiveInv
<1>down. ASSUME NEW kind, BeginTeardown(kind), UNCHANGED status PROVE GraphInv'
  <2>1. op'.pc = "teardown" /\ op'.at = N /\ phase' = "TEARDOWN"
    BY <1>down, <1>f DEF BeginTeardown, N
  <2>2. \A k \in 1..N : St(k)' = St(k)
    BY <1>down, <1>same
  <2>3. LiveInv'
    BY <1>dep, <2>2 DEF LiveInv
  <2>4. \A k \in 1..N : ~(k > N)
    BY <1>n
  <2> QED
    BY <2>1, <2>3, <2>4 DEF PhaseOfLoop, StatusOfPhase, BootLoop, SuspendLoop, ResumeLoop,
       TeardownLoop
<1>1. CASE StartRuntimeGraph \/ RestartRuntimeGraph \/ TransitionScope \/ Resume
           \/ ReconcileLaunchState
  <2>1. UNCHANGED <<status, phase>>
    BY <1>1 DEF StartRuntimeGraph, RestartRuntimeGraph, TransitionScope, Resume,
       ReconcileLaunchState, table
  <2>2. \/ op' = Call("start", "read") /\ phase = "COLD"
        \/ op' = Call("restart", "advance") \/ op' = Call("scope", "advance")
        \/ op' = Call("clear", "advance") \/ op' = Call("resume", "read")
        \/ op' = Call("reconcile", "snapshot")
    BY <1>1 DEF StartRuntimeGraph, RestartRuntimeGraph, TransitionScope, Resume,
       ReconcileLaunchState
  <2>3. Apart(op', phase)
    BY <2>2, <1>call DEF Apart
  <2> QED
    BY <1>apart, <2>1, <2>3
<1>2. CASE StopRuntimeGraph
  BY <1>2, <1>down DEF StopRuntimeGraph, table
<1>3. CASE Suspend
  <2>1. CASE phase # "ACTIVE"
    BY <1>3, <2>1, <1>stay DEF Suspend, table
  <2>2. CASE phase = "ACTIVE"
    <3>1. phase' = "SUSPENDING" /\ UNCHANGED status
      BY <1>3, <2>2 DEF Suspend, table
    <3>2. op'.pc = "suspend" /\ op'.at = N
      BY <1>3, <2>2, <1>f DEF Suspend, N
    <3>3. \A k \in 1..N : St(k)' = St(k) /\ St(k) \in {"ready", "failed"} /\ ~(k > N)
      BY <1>n, <1>same, <2>2, <3>1 DEF StatusOfPhase
    <3>4. LiveInv'
      BY <1>dep, <3>3 DEF LiveInv
    <3> QED
      BY <3>1, <3>2, <3>3, <3>4 DEF PhaseOfLoop, StatusOfPhase, BootLoop, SuspendLoop,
         ResumeLoop, TeardownLoop
  <2> QED
    BY <2>1, <2>2
<1>4. CASE ReadGeneration \/ AdvanceGeneration
  <2>1. UNCHANGED <<status, phase>> /\ op.pc \in {"read", "advance"}
    BY <1>4 DEF ReadGeneration, AdvanceGeneration, table
  <2>2. PICK pc \in {"advance", "apply"}, g \in {native, native + 1} :
          op' = Op(op.kind, pc, 0, {}, g, TRUE)
    BY <1>4 DEF ReadGeneration, AdvanceGeneration
  <2>3. op'.pc \in {"advance", "apply"} /\ op'.kind = op.kind
    BY <1>f, <2>2
  <2>4. Apart(op', phase)
    BY <2>1, <2>3 DEF Apart, PhaseOfLoop
  <2> QED
    BY <1>apart, <2>1, <2>4
<1>5. CASE CallFails \/ Resolve
  <2>1. UNCHANGED <<status, phase>> /\ op' = NoOp
    BY <1>5 DEF CallFails, Resolve, Return, table
  <2> QED
    BY <1>apart, <1>none, <2>1 DEF Apart
<1>6. CASE Snapshot
  <2> DEFINE ok == phase = "ACTIVE" /\ \A r \in Critical : Available(r)
  <2>1. op' = Op(op.kind, "resolve", 0, {}, 0, ok) /\ UNCHANGED <<status, phase>>
    BY <1>6 DEF Snapshot, table
  <2>2. ok \in BOOLEAN
    OBVIOUS
  <2> HIDE DEF ok
  <2>3. op'.pc = "resolve"
    BY <1>f, <2>1, <2>2
  <2> QED
    BY <1>apart, <2>1, <2>3 DEF Apart
<1>7. CASE ApplyStart
  <2>1. UNCHANGED <<status, phase>> /\ phase = "COLD"
    BY <1>7 DEF ApplyStart, PhaseOfLoop, table
  <2>2. op' = NoOp \/ op' = Call("start", "register")
    BY <1>7 DEF ApplyStart, Return
  <2> QED
    BY <1>apart, <1>none, <1>call, <2>1, <2>2 DEF Apart
<1>after. ASSUME AfterTeardown(op.kind) PROVE op'.pc \in {"idle", "mutate", "register"}
  BY <1>after, <1>call, <1>none DEF AfterTeardown
<1>8. CASE ApplyFence
  <2>1. CASE Return /\ UNCHANGED <<status, phase>>
    BY <2>1, <1>apart, <1>none DEF Apart, Return
  <2>2. CASE phase = "COLD" /\ AfterTeardown(op.kind) /\ UNCHANGED <<status, phase>>
    BY <2>2, <1>apart, <1>after DEF Apart
  <2>3. CASE BeginTeardown(op.kind) /\ UNCHANGED status
    BY <2>3, <1>down
  <2> QED
    BY <1>8, <2>1, <2>2, <2>3 DEF ApplyFence, table
<1>9. CASE ApplyResume
  <2>1. CASE Return /\ UNCHANGED <<status, phase>>
    BY <2>1, <1>apart, <1>none DEF Apart, Return
  <2>2. CASE BeginTeardown("resume") /\ UNCHANGED status
    BY <2>2, <1>down
  <2>3. CASE /\ ~AnyFailed /\ phase = "SUSPENDED" /\ phase' = "RESUMING"
             /\ op' = Op("resume", "resume", 1, {}, 0, TRUE) /\ UNCHANGED status
    <3>1. op'.pc = "resume" /\ op'.at = 1
      BY <1>f, <2>3
    <3>2. \A k \in 1..N : St(k)' = St(k) /\ St(k) \in {"ready", "suspended"} /\ ~(k < 1)
      BY <1>same, <2>3, OrderFacts DEF StatusOfPhase, AnyFailed, St
    <3>3. LiveInv'
      BY <1>dep, <3>2 DEF LiveInv
    <3> QED
      BY <2>3, <3>1, <3>2, <3>3 DEF PhaseOfLoop, StatusOfPhase, BootLoop, SuspendLoop,
         ResumeLoop, TeardownLoop
  <2> QED
    BY <1>9, <2>1, <2>2, <2>3 DEF ApplyResume, table
<1>10. CASE RegisterRuntimes
  <2>1. phase' = "BOOTSTRAPPING" /\ op' = Op(op.kind, "bootstrap", 1, {}, 0, TRUE)
    BY <1>10 DEF RegisterRuntimes
  <2>2. op'.pc = "bootstrap" /\ op'.at = 1
    BY <1>f, <2>1
  <2>3. \A k \in 1..N : St(k)' = "pending" /\ ~(k < 1)
    BY <1>10, OrderFacts DEF RegisterRuntimes, St
  <2>4. LiveInv'
    BY <2>3 DEF LiveInv, Live
  <2> QED
    BY <2>1, <2>2, <2>3, <2>4 DEF PhaseOfLoop, StatusOfPhase, BootLoop, SuspendLoop,
       ResumeLoop, TeardownLoop
<1>up. ASSUME op.pc \in {"bootstrap", "resume"}, op.at <= N
       PROVE  /\ op.at \in 1..N /\ Turn = Order[op.at]
              /\ \A k \in 1..N : (k < op.at + 1 <=> k < op.at \/ k = op.at)
                                 /\ (k >= op.at + 1 <=> k > op.at)
  BY <1>up, <1>n, <1>op DEF LoopOK, Turn
<1>next. ASSUME NEW failed, op' = Next1(failed)
         PROVE  op'.pc = op.pc /\ op'.at = op.at + 1 /\ op'.failed = failed
  <2>1. op' = Op(op.kind, op.pc, op.at + 1, failed, op.gen, op.ok)
    BY <1>next DEF Next1
  <2> QED
    BY <1>f, <1>op, <2>1
\* The statuses that a turn of the loop leaves live: no runtime depends on the one in
\* turn, unless it is ready.
<1>live. ASSUME NEW i \in 1..N, NEW s, status' = [status EXCEPT ![Order[i]] = s],
                St(i) # "ready" \/ (\A k \in 1..N : k > i => St(k) \notin Live),
                s \in Live => \A j \in 1..N : DepOf(j, i) => St(j) = "ready"
         PROVE  LiveInv'
  <2>1. \A k \in 1..N : St(k)' = IF k = i THEN s ELSE St(k)
    BY <1>live, <1>one
  <2> SUFFICES ASSUME NEW j \in 1..N, NEW k \in 1..N, DepOf(j, k), St(k)' \in Live
               PROVE  St(j)' = "ready"
    BY <1>dep DEF LiveInv
  <2>2. j < k
    BY DepEarlier
  <2>3. CASE k = i
    BY <1>live, <2>1, <2>2, <2>3
  <2>4. CASE k # i
    <3>1. St(k) \in Live /\ St(j) = "ready"
      BY <2>1, <2>4 DEF LiveInv
    <3>2. j # i
      BY <1>live, <2>2, <3>1
    <3> QED
      BY <2>1, <3>1, <3>2
  <2> QED
    BY <2>3, <2>4
\* The dependencies of the runtime in turn that have not failed are ready.
<1>ready. ASSUME op.pc \in {"bootstrap", "resume"}, op.at <= N, Deps[Turn] \cap op.failed = {}
          PROVE  \A j \in 1..N : DepOf(j, op.at) => St(j) = "ready"
  <2> SUFFICES ASSUME NEW j \in 1..N, DepOf(j, op.at) PROVE St(j) = "ready"
    OBVIOUS
  <2>1. op.at \in 1..N /\ Turn = Order[op.at]
    BY <1>ready, <1>up
  <2>2. j < op.at
    BY <2>1, DepEarlier
  <2>3. Order[j] \notin op.failed
    BY <1>ready, <2>1 DEF DepOf
  <2> QED
    BY <1>ready, <2>2, <2>3 DEF BootLoop, ResumeLoop
<1>11. CASE CallBootstrap
  <2>1. /\ op.pc = "bootstrap" /\ op.at <= N /\ status[Turn] = "pending"
        /\ Deps[Turn] \cap op.failed = {} /\ UNCHANGED <<phase, op>>
        /\ status' = [status EXCEPT ![Turn] = "bootstrapping"]
    BY <1>11 DEF CallBootstrap, N
  <2>2. op.at \in 1..N /\ Turn = Order[op.at] /\ St(op.at) = "pending"
    BY <1>up, <2>1 DEF St
  <2>3. LiveInv'
    BY <1>live, <1>ready, <2>1, <2>2
  <2>4. \A k \in 1..N : St(k)' = IF k = op.at THEN "bootstrapping" ELSE St(k)
    BY <1>one, <2>1, <2>2
  <2>5. BootLoop'
    BY <2>1, <2>2, <2>4 DEF BootLoop
  <2>6. PhaseOfLoop' /\ StatusOfPhase'
    BY <2>1 DEF PhaseOfLoop, StatusOfPhase
  <2> QED
    BY <2>1, <2>3, <2>5, <2>6 DEF SuspendLoop, ResumeLoop, TeardownLoop
<1>12. CASE SkipBootstrap \/ BootstrapSucceeds \/ BootstrapFails
  <2>1. op.pc = "bootstrap" /\ op.at <= N /\ UNCHANGED phase
    BY <1>12 DEF SkipBootstrap, SkipDependent, BootstrapSucceeds, Succeed, BootstrapFails,
       Break, N
  <2>2. op.at \in 1..N /\ Turn = Order[op.at]
    BY <1>up, <2>1
  <2>3. PICK s \in {"ready", "failed"}, failed \in {op.failed, op.failed \cup {Turn}} :
          /\ status' = [status EXCEPT ![Turn] = s] /\ op' = Next1(failed)
          /\ s = "ready" => status[Turn] = "bootstrapping"
          /\ s = "failed" => Turn \in failed
    BY <1>12 DEF SkipBootstrap, SkipDependent, BootstrapSucceeds, Succeed, BootstrapFails, Break
  <2>4. op'.pc = "bootstrap" /\ op'.at = op.at + 1 /\ op'.failed = failed
    BY <1>next, <2>1, <2>3
  <2>5. St(op.at) \in {"pending", "bootstrapping"}
    BY <2>1, <2>2 DEF BootLoop
  <2>6. s \in Live => \A j \in 1..N : DepOf(j, op.at) => St(j) = "ready"
    BY <2>2, <2>3 DEF LiveInv, Live, St
  <2>7. LiveInv'
    BY <1>live, <2>2, <2>3, <2>5, <2>6
  <2>8. \A k \in 1..N : St(k)' = IF k = op.at THEN s ELSE St(k)
    BY <1>one, <2>2, <2>3
  <2>9. ASSUME NEW k \in 1..N
        PROVE  /\ k < op.at + 1 => St(k)' = "ready" \/ (St(k)' = "failed" /\ Order[k] \in failed)
               /\ k >= op.at + 1 => St(k)' \in {"pending", "bootstrapping"}
    <3>1. CASE k = op.at
      BY <2>2, <2>3, <2>8, <3>1
    <3>2. CASE k < op.at
      BY <1>up, <2>1, <2>2, <2>3, <2>8, <3>2 DEF BootLoop
    <3>3. CASE k > op.at
      BY <1>up, <2>1, <2>2, <2>8, <3>3 DEF BootLoop
    <3> QED
      BY <2>2, <3>1, <3>2, <3>3
  <2>10. BootLoop'
    BY <2>4, <2>9 DEF BootLoop
  <2>11. PhaseOfLoop' /\ StatusOfPhase'
    BY <2>1, <2>4 DEF PhaseOfLoop, StatusOfPhase
  <2> QED
    BY <2>4, <2>7, <2>10, <2>11 DEF SuspendLoop, ResumeLoop, TeardownLoop
<1>13. CASE BootstrapComplete
  <2>1. op.pc = "bootstrap" /\ op.at > N /\ phase' = "ACTIVE" /\ UNCHANGED status
        /\ op'.pc = "snapshot"
    BY <1>13, <1>call DEF BootstrapComplete, N, table
  <2>2. \A k \in 1..N : St(k)' = St(k) /\ St(k) \in {"ready", "failed"}
    BY <1>n, <1>op, <1>same, <2>1 DEF BootLoop
  <2>3. LiveInv'
    BY <1>dep, <2>2 DEF LiveInv
  <2> QED
    BY <2>1, <2>2, <2>3 DEF PhaseOfLoop, StatusOfPhase, BootLoop, SuspendLoop, ResumeLoop,
       TeardownLoop
<1>14. CASE SuspendRuntime
  <2> DEFINE s == IF status[Turn] = "ready" THEN "suspended" ELSE status[Turn]
  <2>1. /\ op.pc = "suspend" /\ op.at > 0 /\ UNCHANGED phase
        /\ op' = Op(op.kind, op.pc, op.at - 1, {}, 0, TRUE)
        /\ status' = [status EXCEPT ![Turn] = s]
    BY <1>14, <1>st DEF SuspendRuntime
  <2>2. op.at \in 1..N /\ Turn = Order[op.at] /\ status[Turn] = St(op.at)
    BY <1>n, <1>op, <2>1 DEF LoopOK, Turn, St
  <2>3. op'.pc = "suspend" /\ op'.at = op.at - 1
    BY <2>1 DEF Op
  <2>4. \A k \in 1..N : St(k) \in {"ready", "suspended", "failed"}
                        /\ (k > op.at => St(k) # "ready")
    BY <2>1 DEF SuspendLoop
  <2>5. s \in {"suspended", "failed"}
    BY <2>2, <2>4
  <2> HIDE DEF s
  <2>6. \A k \in 1..N : St(k)' = IF k = op.at THEN s ELSE St(k)
    BY <1>one, <2>1, <2>2
  <2>7. LiveInv'
    BY <1>live, <2>1, <2>2, <2>4, <2>5 DEF Live
  <2>8. SuspendLoop'
    BY <2>2, <2>3, <2>4, <2>5, <2>6 DEF SuspendLoop
  <2>9. PhaseOfLoop' /\ StatusOfPhase'
    BY <2>1, <2>3 DEF PhaseOfLoop, StatusOfPhase
  <2> QED
    BY <2>3, <2>7, <2>8, <2>9 DEF BootLoop, ResumeLoop, TeardownLoop
<1>15. CASE SuspendComplete
  <2>1. op.pc = "suspend" /\ phase' = "SUSPENDED" /\ UNCHANGED status /\ op'.pc = "idle"
    BY <1>15, <1>none DEF SuspendComplete, Return, table
  <2>2. \A k \in 1..N : St(k)' = St(k) /\ St(k) \in {"ready", "suspended", "failed"}
    BY <1>same, <2>1 DEF SuspendLoop
  <2>3. LiveInv'
    BY <1>dep, <2>2 DEF LiveInv
  <2> QED
    BY <2>1, <2>2, <2>3 DEF PhaseOfLoop, StatusOfPhase, BootLoop, SuspendLoop, ResumeLoop,
       TeardownLoop
<1>16. CASE CallResume
  <2>1. /\ op.pc = "resume" /\ op.at <= N /\ status[Turn] = "suspended"
        /\ Deps[Turn] \cap op.failed = {} /\ UNCHANGED <<phase, op>>
        /\ status' = [status EXCEPT ![Turn] = "resuming"]
    BY <1>16 DEF CallResume, N
  <2>2. op.at \in 1..N /\ Turn = Order[op.at] /\ St(op.at) = "suspended"
    BY <1>up, <2>1 DEF St
  <2>3. LiveInv'
    BY <1>live, <1>ready, <2>1, <2>2
  <2>4. \A k \in 1..N : St(k)' = IF k = op.at THEN "resuming" ELSE St(k)
    BY <1>one, <2>1, <2>2
  <2>5. ResumeLoop'
    BY <2>1, <2>2, <2>4 DEF ResumeLoop
  <2>6. PhaseOfLoop' /\ StatusOfPhase'
    BY <2>1 DEF PhaseOfLoop, StatusOfPhase
  <2> QED
    BY <2>1, <2>3, <2>5, <2>6 DEF SuspendLoop, BootLoop, TeardownLoop
<1>17. CASE PassResume \/ SkipResume \/ ResumeSucceeds \/ ResumeFails
  <2>1. op.pc = "resume" /\ op.at <= N /\ UNCHANGED phase
    BY <1>17 DEF PassResume, SkipResume, SkipDependent, ResumeSucceeds, Succeed, ResumeFails,
       Break, N
  <2>2. op.at \in 1..N /\ Turn = Order[op.at] /\ Turn \in Runtimes
    BY <1>up, <2>1, OrderFacts
  <2>0. St(op.at) \in {"ready", "suspended", "resuming"} /\ St(op.at) = status[Turn]
    BY <2>1, <2>2 DEF ResumeLoop, St
  <2>3. PICK s \in {"ready", "suspended"}, failed \in {op.failed, op.failed \cup {Turn}} :
          /\ status' = [status EXCEPT ![Turn] = s] /\ op' = Next1(failed)
          /\ s = "ready" => status[Turn] \in {"ready", "resuming"}
          /\ s = "suspended" => Turn \in failed /\ status[Turn] # "ready"
    <3>1. CASE PassResume
      <4>1. status[Turn] = "ready" /\ status' = status /\ op' = Next1(op.failed)
        BY <2>0, <3>1 DEF PassResume, table
      <4>2. status' = [status EXCEPT ![Turn] = "ready"]
        BY <1>st, <2>2, <4>1
      <4> QED
        BY <4>1, <4>2
    <3>2. CASE SkipResume \/ ResumeSucceeds \/ ResumeFails
      BY <3>2 DEF SkipResume, SkipDependent, ResumeSucceeds, Succeed, ResumeFails, Break
    <3> QED
      BY <1>17, <3>1, <3>2
  <2>4. op'.pc = "resume" /\ op'.at = op.at + 1 /\ op'.failed = failed
    BY <1>next, <2>1, <2>3
  <2>5. LiveInv'
    <3>1. \A k \in 1..N : St(k)' = IF k = op.at THEN s ELSE St(k)
      BY <1>one, <2>2, <2>3
    <3>2. St(op.at) = "ready" => s = "ready"
      BY <2>0, <2>3
    <3>3. s \in Live => \A j \in 1..N : DepOf(j, op.at) => St(j) = "ready"
      BY <2>0, <2>2, <2>3 DEF LiveInv, Live
    <3>4. CASE St(op.at) = "ready"
      <4>1. \A k \in 1..N : St(k)' = St(k)
        BY <3>1, <3>2, <3>4
      <4> QED
        BY <1>dep, <4>1 DEF LiveInv
    <3>5. CASE St(op.at) # "ready"
      BY <1>live, <2>2, <2>3, <3>3, <3>5
    <3> QED
      BY <3>4, <3>5
  <2>6. \A k \in 1..N : St(k)' = IF k = op.at THEN s ELSE St(k)
    BY <1>one, <2>2, <2>3
  <2>7. ASSUME NEW k \in 1..N
        PROVE  /\ St(k)' \in {"ready", "suspended", "resuming"}
               /\ k < op.at + 1 => St(k)' = "ready" \/ (St(k)' = "suspended" /\ Order[k] \in failed)
               /\ k > op.at + 1 => St(k)' # "resuming"
    <3>1. CASE k = op.at
      BY <2>2, <2>3, <2>6, <3>1
    <3>2. CASE k < op.at
      BY <1>up, <2>1, <2>2, <2>3, <2>6, <3>2 DEF ResumeLoop
    <3>3. CASE k > op.at
      BY <1>up, <2>1, <2>2, <2>6, <3>3 DEF ResumeLoop
    <3> QED
      BY <2>2, <3>1, <3>2, <3>3
  <2>8. ResumeLoop'
    BY <2>4, <2>7 DEF ResumeLoop
  <2>9. PhaseOfLoop' /\ StatusOfPhase'
    BY <2>1, <2>4 DEF PhaseOfLoop, StatusOfPhase
  <2> QED
    BY <2>4, <2>5, <2>8, <2>9 DEF SuspendLoop, BootLoop, TeardownLoop
<1>18. CASE ResumeComplete
  <2>1. op.pc = "resume" /\ op.at > N /\ UNCHANGED status
    BY <1>18 DEF ResumeComplete, N, table
  <2>2. \A k \in 1..N : St(k)' = St(k) /\ St(k) \in {"ready", "suspended"}
                        /\ (St(k) = "ready" \/ Order[k] \in op.failed)
    BY <1>n, <1>op, <1>same, <2>1 DEF ResumeLoop
  <2>3. LiveInv'
    BY <1>dep, <2>2 DEF LiveInv
  <2>4. \/ op.failed = {} /\ phase' = "ACTIVE" /\ op'.pc = "snapshot"
        \/ phase' = "SUSPENDED" /\ op'.pc = "idle"
    BY <1>18, <1>call, <1>none DEF ResumeComplete, Return
  <2> QED
    BY <2>2, <2>3, <2>4 DEF PhaseOfLoop, StatusOfPhase, BootLoop, SuspendLoop, ResumeLoop,
       TeardownLoop
<1>td. ASSUME op.pc = "teardown", op.at > 0
       PROVE  op.at \in 1..N /\ Turn = Order[op.at]
  BY <1>td, <1>n, <1>op DEF LoopOK, Turn
<1>19. CASE CallTeardown
  <2>1. /\ op.pc = "teardown" /\ op.at > 0 /\ UNCHANGED <<phase, op>>
        /\ status' = [status EXCEPT ![Turn] = "tearing-down"]
    BY <1>19 DEF CallTeardown
  <2>2. op.at \in 1..N /\ Turn = Order[op.at]
    BY <1>td, <2>1
  <2>3. \A k \in 1..N : k > op.at => St(k) \notin Live
    BY <2>1 DEF TeardownLoop, Live
  <2>4. LiveInv'
    BY <1>live, <2>1, <2>2, <2>3 DEF Live
  <2>5. \A k \in 1..N : St(k)' = IF k = op.at THEN "tearing-down" ELSE St(k)
    BY <1>one, <2>1, <2>2
  <2>6. TeardownLoop'
    BY <2>1, <2>2, <2>5 DEF TeardownLoop
  <2>7. PhaseOfLoop' /\ StatusOfPhase'
    BY <2>1 DEF PhaseOfLoop, StatusOfPhase
  <2> QED
    BY <2>1, <2>4, <2>6, <2>7 DEF BootLoop, SuspendLoop, ResumeLoop
<1>20. CASE PassTeardown \/ TeardownReturns
  <2>1. op.pc = "teardown" /\ op.at > 0 /\ UNCHANGED phase
    BY <1>20 DEF PassTeardown, TeardownReturns
  <2>2. op.at \in 1..N /\ Turn = Order[op.at] /\ St(op.at) = status[Turn]
    BY <1>td, <2>1 DEF St
  <2>3. PICK s \in {"pending", "torn-down", "failed"}, ok \in BOOLEAN :
          /\ status' = [status EXCEPT ![Turn] = s]
          /\ op' = Op(op.kind, "teardown", op.at - 1, {}, 0, ok)
          /\ ok => op.ok /\ s # "failed"
    <3>1. CASE PassTeardown
      <4>1. /\ status[Turn] \in {"pending", "torn-down"} /\ status' = status
            /\ op' = Op(op.kind, "teardown", op.at - 1, {}, 0, op.ok)
        BY <3>1, <2>1 DEF PassTeardown, Down, table
      <4>2. status' = [status EXCEPT ![Turn] = status[Turn]]
        BY <1>st, <4>1
      <4> QED
        BY <1>op, <4>1, <4>2
    <3>2. CASE TeardownReturns
      <4>1. PICK ok \in BOOLEAN :
              /\ status' = [status EXCEPT ![Turn] = IF ok THEN "torn-down" ELSE "failed"]
              /\ op' = Op(op.kind, op.pc, op.at - 1, {}, 0, op.ok /\ ok)
        BY <3>2 DEF TeardownReturns, Down
      <4> DEFINE both == op.ok /\ ok
      <4>2. both \in BOOLEAN /\ (both => op.ok /\ ok)
        BY <1>op
      <4>3. op' = Op(op.kind, "teardown", op.at - 1, {}, 0, both)
        BY <4>1, <2>1
      <4> HIDE DEF both
      <4>4. CASE ok
        BY <4>1, <4>2, <4>3, <4>4
      <4>5. CASE ~ok
        BY <4>1, <4>2, <4>3, <4>5
      <4> QED
        BY <4>4, <4>5
    <3> QED
      BY <1>20, <3>1, <3>2
  <2>4. op'.pc = "teardown" /\ op'.at = op.at - 1 /\ op'.ok = ok
    BY <1>f, <2>3
  <2>5. \A k \in 1..N : k > op.at => St(k) \notin Live
    BY <2>1 DEF TeardownLoop, Live
  <2>6. LiveInv'
    BY <1>live, <2>2, <2>3, <2>5 DEF Live
  <2>7. \A k \in 1..N : St(k)' = IF k = op.at THEN s ELSE St(k)
    BY <1>one, <2>2, <2>3
  <2>8. ASSUME NEW k \in 1..N, k > op.at - 1
        PROVE  St(k)' \in {"pending", "torn-down", "failed"} /\ (ok => St(k)' # "failed")
    <3>1. CASE k = op.at
      BY <2>3, <2>7, <3>1
    <3>2. CASE k > op.at
      BY <2>1, <2>2, <2>3, <2>7, <3>2 DEF TeardownLoop
    <3> QED
      BY <2>2, <2>8, <3>1, <3>2
  <2>9. TeardownLoop'
    BY <2>4, <2>8 DEF TeardownLoop
  <2>10. PhaseOfLoop' /\ StatusOfPhase'
    BY <2>1, <2>4 DEF PhaseOfLoop, StatusOfPhase
  <2> QED
    BY <2>4, <2>6, <2>9, <2>10 DEF BootLoop, SuspendLoop, ResumeLoop
<1>21. CASE TeardownComplete
  <2>1. op.pc = "teardown" /\ op.at = 0 /\ UNCHANGED status
    BY <1>21 DEF TeardownComplete, table
  <2>2. \A k \in 1..N : St(k)' = St(k) /\ (op.ok => St(k) \in {"pending", "torn-down"})
    BY <1>same, <2>1 DEF TeardownLoop
  <2>3. LiveInv'
    BY <1>dep, <2>2 DEF LiveInv
  <2>4. \/ op.ok /\ phase' = "COLD" /\ op'.pc \in {"idle", "mutate", "register"}
        \/ phase' = "TEARDOWN_FAILED" /\ op'.pc = "idle"
    BY <1>21, <1>after, <1>none DEF TeardownComplete, Return
  <2> QED
    BY <2>2, <2>3, <2>4 DEF PhaseOfLoop, StatusOfPhase, BootLoop, SuspendLoop, ResumeLoop,
       TeardownLoop
<1>22. CASE Mutate
  <2>1. UNCHANGED <<status, phase>> /\ op.pc = "mutate"
    BY <1>22 DEF Mutate, table
  <2>2. PICK pc \in {"register", "snapshot"} : op' = Call(op.kind, pc)
    BY <1>22 DEF Mutate
  <2>3. op'.pc \in {"register", "snapshot"}
    BY <1>call, <2>2
  <2>4. Apart(op', phase)
    BY <2>1, <2>3 DEF Apart, PhaseOfLoop
  <2> QED
    BY <1>apart, <2>1, <2>4
<1>23. CASE Outside \/ UNCHANGED vars
  BY <1>23, <1>stay DEF Outside, ShowStationSelection, StartAccessGateChain, BeginUpdate, SettleUpdate,
     NativeForeground, AccessGranted, vars, table
<1> QED
  BY <1>1, <1>2, <1>3, <1>4, <1>5, <1>6, <1>7, <1>8, <1>9, <1>10, <1>11, <1>12, <1>13,
     <1>14, <1>15, <1>16, <1>17, <1>18, <1>19, <1>20, <1>21, <1>22, <1>23
     DEF Next, Begin, Step

\* A mutation of the scope runs, and a graph is registered, only over runtimes that are
\* all torn down or were never called (transitionScope, restartRuntimeGraph, resume).
THEOREM MobileReplacedIsTornDown == Spec => []ReplacedIsTornDown
<1>1. TypeInv /\ GraphInv => ReplacedIsTornDown
  BY OrderFacts DEF GraphInv, PhaseOfLoop, StatusOfPhase, ReplacedIsTornDown, St
<1> QED
  BY <1>1, TypeInit, TypeStep, GraphInit, GraphStep, PTL DEF Spec

\* A runtime that is called or ready has all its dependencies ready, through every
\* partial failure of bootstrap, suspend, resume and teardown.
THEOREM MobileLiveNeedsDependencies == Spec => []LiveNeedsDependencies
<1>1. TypeInv /\ GraphInv => LiveNeedsDependencies
  <2> SUFFICES ASSUME LiveInv, NEW r \in Runtimes, NEW d \in Deps[r], status[r] \in Live
               PROVE  status[d] = "ready"
    BY DEF GraphInv, LiveNeedsDependencies, Live
  <2>1. PICK k \in 1..N : r = Order[k]
    BY OrderFacts
  <2>2. d \in Runtimes
    BY OrderFacts
  <2>3. PICK j \in 1..N : d = Order[j]
    BY <2>2, OrderFacts
  <2> QED
    BY <2>1, <2>3 DEF LiveInv, DepOf, St
<1> QED
  BY <1>1, TypeInit, TypeStep, GraphInit, GraphStep, PTL DEF Spec

-----------------------------------------------------------------------------
(* Fences.                                                                 *)

\* No context is ahead of the kernel; a scope transition that has applied its
\* generation has fenced it, and no context of that generation exists until the next
\* graph is registered.
FenceInv ==
  /\ \A c \in contexts : c.gen <= gen
  /\ op.kind \in {"scope", "clear"} /\ op.pc \in {"teardown", "mutate"} =>
       fenced = gen /\ \A c \in contexts : c.gen < gen

\* No context exists when the kernel starts.
LEMMA FenceInit == Init => FenceInv
<1> SUFFICES ASSUME Init PROVE FenceInv
  OBVIOUS
<1>1. op.kind = "none"
  BY DEF Init, NoOp, Call, Op
<1> QED
  BY <1>1 DEF Init, FenceInv

\* Generations only grow, and contexts are handed out in the loops of bootstrap and of
\* resume alone, so that every step keeps the fence.
LEMMA FenceStep == TypeInv /\ FenceInv /\ [Next]_vars => FenceInv'
<1> SUFFICES ASSUME TypeInv, FenceInv, [Next]_vars PROVE FenceInv'
  OBVIOUS
<1> DEFINE Fenced(o) == o.kind \in {"scope", "clear"} /\ o.pc \in {"teardown", "mutate"}
<1>t. /\ gen \in Nat /\ op.gen \in Nat /\ op.kind \in Kinds /\ op.pc \in Pcs
      /\ op.ok \in BOOLEAN
      /\ contexts \subseteq Contexts /\ \A c \in contexts : c.gen \in Nat
  BY DEF TypeInv, TypeOK, Contexts, Pcs
<1>f. ASSUME NEW kind, NEW pc, NEW at, NEW failed, NEW g, NEW ok \in BOOLEAN,
             op' = Op(kind, pc, at, failed, g, ok)
      PROVE  op'.kind = kind /\ op'.pc = pc
  BY <1>f DEF Op
<1>call. ASSUME NEW kind, NEW pc, op' = Call(kind, pc)
         PROVE  op'.kind = kind /\ op'.pc = pc
  BY <1>call, <1>f DEF Call
<1>none. op' = NoOp => op'.kind = "none"
  BY <1>call DEF NoOp
\* Steps that stay below the fence, and steps that are not of a fenced operation.
<1>keep. ASSUME UNCHANGED <<gen, fenced, contexts>>, Fenced(op') => Fenced(op)
         PROVE  FenceInv'
  BY <1>keep DEF FenceInv
<1>stay. ASSUME UNCHANGED <<gen, fenced, contexts, op>>
         PROVE  FenceInv'
  BY <1>stay DEF FenceInv
<1>1. CASE StartRuntimeGraph \/ RestartRuntimeGraph \/ TransitionScope \/ Resume
           \/ ReconcileLaunchState
  <2>1. UNCHANGED <<gen, fenced, contexts>>
    BY <1>1 DEF StartRuntimeGraph, RestartRuntimeGraph, TransitionScope, Resume,
       ReconcileLaunchState, late
  <2>2. \E kind \in Kinds, pc \in {"read", "advance", "snapshot"} : op' = Call(kind, pc)
    BY <1>1 DEF StartRuntimeGraph, RestartRuntimeGraph, TransitionScope, Resume,
       ReconcileLaunchState, Kinds
  <2> QED
    BY <1>keep, <1>call, <2>1, <2>2
<1>2. CASE StopRuntimeGraph \/ Suspend
  <2>1. UNCHANGED <<gen, fenced, contexts>>
    BY <1>2 DEF StopRuntimeGraph, Suspend, late
  <2>2. \/ op' = op \/ op' = Op("stop", "teardown", Len(Order), {}, 0, TRUE)
        \/ op' = Op("suspend", "suspend", Len(Order), {}, 0, TRUE)
    BY <1>2 DEF StopRuntimeGraph, Suspend, BeginTeardown
  <2>3. op' = op \/ op'.kind \in {"stop", "suspend"}
    BY <2>2 DEF Op
  <2> QED
    BY <1>keep, <1>stay, <2>1, <2>3
<1>3. CASE ReadGeneration \/ AdvanceGeneration \/ Snapshot
  <2>1. UNCHANGED <<gen, fenced, contexts>>
    BY <1>3 DEF ReadGeneration, AdvanceGeneration, Snapshot, late
  <2>2. op'.pc \in {"advance", "apply", "resolve"}
    BY <1>3 DEF ReadGeneration, AdvanceGeneration, Snapshot, Op
  <2> QED
    BY <1>keep, <2>1, <2>2
<1>4. CASE CallFails \/ Resolve \/ SuspendComplete
  BY <1>4, <1>keep, <1>none DEF CallFails, Resolve, SuspendComplete, Return, late
<1>5. CASE ApplyStart
  <2>1. UNCHANGED contexts /\ gen' \in {gen, op.gen} /\ gen' >= gen
    BY <1>5, <1>t DEF ApplyStart, GenerationValid, late
  <2>2. op'.kind \in {"none", "start"}
    BY <1>5, <1>none, <1>call DEF ApplyStart, Return
  <2> QED
    BY <1>t, <2>1, <2>2 DEF FenceInv
<1>6. CASE ApplyFence \/ ApplyResume
  <2>1. UNCHANGED contexts
    BY <1>6 DEF ApplyFence, ApplyResume, late
  <2>2. \/ UNCHANGED <<gen, fenced>> /\ op' = NoOp
        \/ gen' = op.gen /\ fenced' = op.gen /\ op.gen > gen
    BY <1>6 DEF ApplyFence, ApplyResume, GenerationValid, Return
  <2>3. CASE UNCHANGED <<gen, fenced>> /\ op' = NoOp
    BY <1>keep, <1>none, <2>1, <2>3
  <2>4. CASE gen' = op.gen /\ fenced' = op.gen /\ op.gen > gen
    BY <1>t, <2>1, <2>4 DEF FenceInv
  <2> QED
    BY <2>2, <2>3, <2>4
<1>7. CASE RegisterRuntimes
  <2>1. UNCHANGED <<gen, fenced, contexts>> /\ op'.pc = "bootstrap"
    BY <1>7 DEF RegisterRuntimes, Op, late
  <2> QED
    BY <1>keep, <2>1
<1>8. CASE CallBootstrap \/ CallResume
  <2>1. /\ UNCHANGED <<gen, op>> /\ op.pc \in {"bootstrap", "resume"}
        /\ contexts' = contexts \cup {Context(Turn)}
    BY <1>8 DEF CallBootstrap, CallResume
  <2>2. Context(Turn).gen = gen
    BY DEF Context
  <2> QED
    BY <1>t, <2>1, <2>2 DEF FenceInv
<1>9. CASE SkipBootstrap \/ BootstrapSucceeds \/ BootstrapFails \/ PassResume \/ SkipResume
           \/ ResumeSucceeds \/ ResumeFails
  <2>1. UNCHANGED <<gen, fenced, contexts>> /\ op.pc \in {"bootstrap", "resume"}
    BY <1>9 DEF SkipBootstrap, SkipDependent, BootstrapSucceeds, Succeed, BootstrapFails,
       Break, PassResume, SkipResume, ResumeSucceeds, ResumeFails, late
  <2>2. \E failed : op' = Next1(failed)
    BY <1>9 DEF SkipBootstrap, SkipDependent, BootstrapSucceeds, Succeed, BootstrapFails,
       Break, PassResume, SkipResume, ResumeSucceeds, ResumeFails
  <2>3. op'.pc = op.pc
    BY <2>2 DEF Next1, Op
  <2> QED
    BY <1>keep, <2>1, <2>3
<1>10. CASE BootstrapComplete \/ ResumeComplete
  <2>1. UNCHANGED <<gen, fenced, contexts>>
    BY <1>10 DEF BootstrapComplete, ResumeComplete, late
  <2>2. op' = Call(op.kind, "snapshot") \/ op' = NoOp
    BY <1>10 DEF BootstrapComplete, ResumeComplete, Return
  <2> QED
    BY <1>keep, <1>call, <1>none, <2>1, <2>2
<1>11. CASE SuspendRuntime
  <2>1. UNCHANGED <<gen, fenced, contexts>> /\ op'.pc = "suspend"
    BY <1>11 DEF SuspendRuntime, Op, late
  <2> QED
    BY <1>keep, <2>1
<1>12. CASE PassTeardown \/ TeardownReturns
  <2>1. UNCHANGED <<gen, fenced, contexts>> /\ op.pc = "teardown"
    BY <1>12 DEF PassTeardown, TeardownReturns, late
  <2>2. op'.kind = op.kind
    BY <1>12 DEF PassTeardown, TeardownReturns, Down, Op
  <2> QED
    BY <1>keep, <2>1, <2>2
<1>13. CASE TeardownComplete
  <2>1. UNCHANGED <<gen, fenced, contexts>> /\ op.pc = "teardown"
    BY <1>13 DEF TeardownComplete, late
  <2>2. \/ op' = NoOp \/ op' = Call(op.kind, "mutate") \/ op' = Call(op.kind, "register")
    BY <1>13 DEF TeardownComplete, AfterTeardown, Return
  <2> QED
    BY <1>keep, <1>call, <1>none, <2>1, <2>2
<1>14. CASE Mutate
  <2>1. UNCHANGED <<gen, fenced, contexts>>
    BY <1>14 DEF Mutate, late
  <2>2. op' = Call(op.kind, "register") \/ op' = Call(op.kind, "snapshot")
    BY <1>14 DEF Mutate
  <2> QED
    BY <1>keep, <1>call, <2>1, <2>2
<1>15. CASE CallTeardown \/ Outside \/ UNCHANGED vars
  BY <1>15, <1>stay DEF CallTeardown, Outside, ShowStationSelection, StartAccessGateChain, BeginUpdate,
     SettleUpdate, NativeForeground, AccessGranted, vars, late
<1> QED
  BY <1>1, <1>2, <1>3, <1>4, <1>5, <1>6, <1>7, <1>8, <1>9, <1>10, <1>11, <1>12, <1>13,
     <1>14, <1>15 DEF Next, Begin, Step

\* A mutation of the scope needs an operation that mutates: only those of transitionScope
\* do.
MutateKind == op.pc = "mutate" => op.kind \in {"scope", "clear"}

\* Only fenceAndTeardown of a scope transition leads to the mutation.
LEMMA MutateKindStep == TypeInv /\ MutateKind /\ [Next]_vars => MutateKind'
<1> SUFFICES ASSUME TypeInv, [Next]_vars, op'.pc = "mutate", op'.kind \notin {"scope", "clear"}
             PROVE  op' = op
  BY DEF MutateKind
<1>1. op.pc \in Pcs /\ op.ok \in BOOLEAN
  BY DEF TypeInv, TypeOK, Pcs
<1>2. CASE TeardownComplete \/ ApplyFence
  <2>1. \/ op' = NoOp \/ AfterTeardown(op.kind) \/ BeginTeardown(op.kind)
    BY <1>2 DEF TeardownComplete, ApplyFence, Return
  <2>2. CASE op' = NoOp
    BY <2>2 DEF NoOp, Call, Op
  <2>3. CASE AfterTeardown(op.kind)
    <3>1. \/ op' = NoOp \/ op' = Call(op.kind, "register")
          \/ op.kind \in {"scope", "clear"} /\ op' = Call(op.kind, "mutate")
      BY <2>3 DEF AfterTeardown
    <3> QED
      BY <3>1 DEF NoOp, Call, Op
  <2>4. CASE BeginTeardown(op.kind)
    BY <2>4 DEF BeginTeardown, Op
  <2> QED
    BY <2>1, <2>2, <2>3, <2>4
<1>3. CASE ~(TeardownComplete \/ ApplyFence)
  <2> USE DEF Return, NoOp, Call, Op
  <2>1. CASE Begin
    BY <2>1 DEF Begin, StartRuntimeGraph, StopRuntimeGraph, RestartRuntimeGraph,
       TransitionScope, Suspend, Resume, ReconcileLaunchState, BeginTeardown
  <2>2. CASE Outside \/ UNCHANGED vars
    BY <2>2 DEF Outside, ShowStationSelection, StartAccessGateChain, BeginUpdate, SettleUpdate, NativeForeground,
       AccessGranted, vars
  <2>3. CASE ReadGeneration \/ AdvanceGeneration \/ CallFails \/ ApplyStart
             \/ RegisterRuntimes \/ Mutate \/ Resolve
    <3>1. CASE ReadGeneration \/ AdvanceGeneration \/ RegisterRuntimes
      BY <3>1 DEF ReadGeneration, AdvanceGeneration, RegisterRuntimes
    <3>2. CASE CallFails \/ ApplyStart \/ Resolve
      <4> HIDE DEF NoOp, Call, Op
      <4>1. op' = NoOp \/ op' = Call("start", "register")
        BY <3>2 DEF CallFails, ApplyStart, Resolve
      <4> QED
        BY <4>1 DEF NoOp, Call, Op
    <3>3. CASE Mutate
      BY <3>3 DEF Mutate
    <3> QED
      BY <2>3, <3>1, <3>2, <3>3
  <2>7. CASE ApplyResume
    <3>1. \/ op' = NoOp \/ BeginTeardown("resume")
          \/ op' = Op("resume", "resume", 1, {}, 0, TRUE)
      BY <2>7 DEF ApplyResume
    <3> QED
      BY <3>1 DEF BeginTeardown
  <2>8. CASE Snapshot
    <3>1. op'.pc = "resolve"
      BY <2>8 DEF Snapshot
    <3> QED
      BY <3>1
  <2>4. CASE SkipBootstrap \/ CallBootstrap \/ BootstrapSucceeds \/ BootstrapFails
             \/ BootstrapComplete \/ SuspendRuntime \/ SuspendComplete
    BY <2>4 DEF SkipBootstrap, SkipDependent, CallBootstrap, BootstrapSucceeds, Succeed,
       BootstrapFails, Break, BootstrapComplete, SuspendRuntime, SuspendComplete, Next1
  <2>5. CASE PassResume \/ SkipResume \/ CallResume \/ ResumeSucceeds \/ ResumeFails
             \/ ResumeComplete
    BY <2>5 DEF PassResume, SkipResume, SkipDependent, CallResume, ResumeSucceeds, Succeed,
       ResumeFails, Break, ResumeComplete, Next1
  <2>6. CASE PassTeardown \/ CallTeardown \/ TeardownReturns
    BY <2>6 DEF PassTeardown, CallTeardown, TeardownReturns, Down
  <2> QED
    BY <1>3, <2>1, <2>2, <2>3, <2>4, <2>5, <2>6, <2>7, <2>8 DEF Next, Step
<1> QED
  BY <1>2, <1>3

\* While the owner's mutation runs, the projections are fenced at the generation of the
\* kernel and no runtime holds a context of that generation (transitionScope).
THEOREM MobileScopeMutationFenced == Spec => []ScopeMutationFenced
<1>1. FenceInv /\ MutateKind => ScopeMutationFenced
  BY DEF FenceInv, MutateKind, ScopeMutationFenced
<1>2. Init => MutateKind
  BY DEF Init, MutateKind, NoOp, Call, Op
<1> QED
  BY <1>1, <1>2, TypeInit, TypeStep, FenceInit, FenceStep, MutateKindStep, PTL DEF Spec

-----------------------------------------------------------------------------
(* The launch state.                                                       *)

\* What each step may change, besides the operation.
LEMMA Frame ==
  ASSUME [Next]_vars
  PROVE  /\ UNCHANGED contexts \/ CallBootstrap \/ CallResume
         /\ UNCHANGED <<open, revision>> \/ BeginUpdate \/ SettleUpdate
         /\ \/ UNCHANGED readiness \/ RegisterRuntimes \/ CallResume
            \/ BeginUpdate \/ SettleUpdate
         /\ \/ UNCHANGED updates \/ updates' = NoUpdates
            \/ BeginUpdate \/ BootstrapFails \/ ResumeFails
         /\ UNCHANGED gen \/ ApplyStart \/ ApplyFence \/ ApplyResume
         /\ UNCHANGED graph \/ RegisterRuntimes
         /\ \/ UNCHANGED status
            \/ SkipBootstrap \/ SkipResume \/ BootstrapSucceeds \/ ResumeSucceeds
            \/ BootstrapFails \/ ResumeFails \/ CallBootstrap \/ CallResume \/ CallTeardown
            \/ SuspendRuntime \/ TeardownReturns \/ RegisterRuntimes
         /\ \/ UNCHANGED phase \/ BootstrapComplete \/ ResumeComplete \/ RegisterRuntimes
            \/ phase' \in {"COLD", "TEARDOWN_FAILED", "SUSPENDED"}
            \/ phase' \in {"SUSPENDING", "TEARDOWN"} /\ updates' = NoUpdates
            \/ ApplyResume /\ gen' > gen
         /\ launch' = "shell" /\ launch # "shell" => Resolve
  <1> USE DEF Next, vars, table, late, Begin, Step, Outside, StartRuntimeGraph,
         StopRuntimeGraph, RestartRuntimeGraph, TransitionScope, Suspend, Resume,
         ReconcileLaunchState, BeginTeardown, ReadGeneration, AdvanceGeneration, CallFails,
         ApplyStart, ApplyFence, ApplyResume, RegisterRuntimes, SkipBootstrap, SkipDependent,
         CallBootstrap, BootstrapSucceeds, Succeed, BootstrapFails, Break, BootstrapComplete,
         SuspendRuntime, SuspendComplete, PassResume, SkipResume, CallResume, ResumeSucceeds,
         ResumeFails, ResumeComplete, PassTeardown, CallTeardown, TeardownReturns,
         TeardownComplete, Mutate, Snapshot, Resolve, ShowStationSelection, StartAccessGateChain, BeginUpdate,
         SettleUpdate, NativeForeground, AccessGranted, GenerationValid
  <1>1. UNCHANGED contexts \/ CallBootstrap \/ CallResume
    OBVIOUS
  <1>2. UNCHANGED <<open, revision>> \/ BeginUpdate \/ SettleUpdate
    OBVIOUS
  <1>3. \/ UNCHANGED readiness \/ RegisterRuntimes \/ CallResume
        \/ BeginUpdate \/ SettleUpdate
    OBVIOUS
  <1>4. \/ UNCHANGED updates \/ updates' = NoUpdates
        \/ BeginUpdate \/ BootstrapFails \/ ResumeFails
    OBVIOUS
  <1>5. UNCHANGED gen \/ ApplyStart \/ ApplyFence \/ ApplyResume
    OBVIOUS
  <1>6. UNCHANGED graph \/ RegisterRuntimes
    OBVIOUS
  <1>7. \/ UNCHANGED status
        \/ SkipBootstrap \/ SkipResume \/ BootstrapSucceeds \/ ResumeSucceeds
        \/ BootstrapFails \/ ResumeFails \/ CallBootstrap \/ CallResume \/ CallTeardown
        \/ SuspendRuntime \/ TeardownReturns \/ RegisterRuntimes
    OBVIOUS
  <1>8. \/ UNCHANGED phase \/ BootstrapComplete \/ ResumeComplete \/ RegisterRuntimes
        \/ phase' \in {"COLD", "TEARDOWN_FAILED", "SUSPENDED"}
        \/ phase' \in {"SUSPENDING", "TEARDOWN"} /\ updates' = NoUpdates
        \/ ApplyResume /\ gen' > gen
    OBVIOUS
  <1>9. launch' = "shell" /\ launch # "shell" => Resolve
    OBVIOUS
  <1> HIDE DEF Next
  <1> QED
    BY <1>1, <1>2, <1>3, <1>4, <1>5, <1>6, <1>7, <1>8, <1>9

\* The walk to a launch state enters the shell only when that is the target.
LEMMA ResolvedShell ==
  ASSUME NEW from, NEW target, from # "shell", Resolved(from, target) = "shell"
  PROVE  target = "shell"
  BY DEF Resolved

\* An identity transition is outside the shell while it runs; a resolution that may
\* answer with the shell was begun over an active graph, which stays active.
LaunchInv ==
  /\ op.kind \in {"scope", "clear"} => launch # "shell"
  /\ op.pc = "resolve" /\ op.ok => phase = "ACTIVE"

\* No operation runs when the kernel starts.
LEMMA LaunchInit == Init => LaunchInv
  BY DEF Init, LaunchInv, NoOp, Call, Op

\* How each step changes what LaunchInv says of the operation.
LEMMA LaunchOp ==
  ASSUME TypeInv, [Next]_vars
  PROVE  /\ op'.kind = op.kind \/ op'.kind \notin {"scope", "clear"} \/ TransitionScope
         /\ op'.pc # "resolve" \/ UNCHANGED <<op, phase>> \/ Snapshot
  <1>1. op.kind \in Kinds /\ op.pc \in Pcs /\ op.ok \in BOOLEAN
    BY DEF TypeInv, TypeOK, Pcs
  <1>2. ASSUME NEW kind, NEW pc, op' = Call(kind, pc) PROVE op'.kind = kind /\ op'.pc = pc
    BY <1>2 DEF Call, Op
  <1>3. op' = NoOp => op'.kind = "none" /\ op'.pc = "idle"
    BY <1>2 DEF NoOp
  <1>4. ASSUME NEW kind, BeginTeardown(kind) PROVE op'.kind = kind /\ op'.pc = "teardown"
    BY <1>4 DEF BeginTeardown, Op
  <1>5. ASSUME NEW kind, AfterTeardown(kind)
        PROVE  op' = NoOp \/ (op'.kind = kind /\ op'.pc \in {"mutate", "register"})
    <2>1. op' = NoOp \/ op' = Call(kind, "mutate") \/ op' = Call(kind, "register")
      BY <1>5 DEF AfterTeardown
    <2> QED
      BY <2>1, <1>2
  <1>6. ASSUME NEW failed, op' = Next1(failed) PROVE op'.kind = op.kind /\ op'.pc = op.pc
    BY <1>6 DEF Next1, Op
  <1>7. CASE StartRuntimeGraph \/ RestartRuntimeGraph \/ Resume \/ ReconcileLaunchState
             \/ TransitionScope
    BY <1>7, <1>2 DEF StartRuntimeGraph, RestartRuntimeGraph, Resume, ReconcileLaunchState,
       TransitionScope
  <1>8. CASE StopRuntimeGraph
    BY <1>8, <1>4 DEF StopRuntimeGraph
  <1>9. CASE Suspend
    <2>1. (op'.kind = "suspend" /\ op'.pc = "suspend") \/ UNCHANGED <<op, phase>>
      BY <1>9 DEF Suspend, Op
    <2> QED
      BY <2>1
  <1>10. CASE ReadGeneration \/ AdvanceGeneration \/ RegisterRuntimes \/ SuspendRuntime
              \/ PassTeardown \/ TeardownReturns
    <2>1. /\ op'.kind = op.kind
          /\ op'.pc \in {"advance", "apply", "bootstrap", "suspend", "teardown"}
      BY <1>10 DEF ReadGeneration, AdvanceGeneration, RegisterRuntimes, SuspendRuntime,
         PassTeardown, TeardownReturns, Down, Op
    <2> QED
      BY <2>1
  <1>11. CASE CallFails \/ SuspendComplete \/ Resolve
    BY <1>11, <1>3 DEF CallFails, SuspendComplete, Resolve, Return
  <1>12. CASE ApplyStart
    <2>1. op' = NoOp \/ op' = Call("start", "register")
      BY <1>12 DEF ApplyStart, Return
    <2> QED
      BY <2>1, <1>2, <1>3
  <1>13. CASE ApplyFence
    BY <1>13, <1>3, <1>4, <1>5 DEF ApplyFence, Return
  <1>14. CASE ApplyResume
    <2>1. \/ op' = NoOp \/ BeginTeardown("resume")
          \/ op' = Op("resume", "resume", 1, {}, 0, TRUE)
      BY <1>14 DEF ApplyResume, Return
    <2>2. op' = Op("resume", "resume", 1, {}, 0, TRUE) => op'.kind = "resume" /\ op'.pc = "resume"
      BY DEF Op
    <2>3. CASE BeginTeardown("resume")
      BY <2>3, <1>4
    <2>4. CASE ~BeginTeardown("resume")
      BY <2>1, <2>2, <2>4, <1>3
    <2> QED
      BY <2>3, <2>4
  <1>15. CASE SkipBootstrap \/ BootstrapSucceeds \/ BootstrapFails \/ PassResume \/ SkipResume
              \/ ResumeSucceeds \/ ResumeFails
    <2>1. op.pc # "resolve" /\ \E failed : op' = Next1(failed)
      BY <1>15 DEF SkipBootstrap, SkipDependent, BootstrapSucceeds, Succeed, BootstrapFails,
         Break, PassResume, SkipResume, ResumeSucceeds, ResumeFails
    <2> QED
      BY <2>1, <1>6
  <1>16. CASE BootstrapComplete \/ ResumeComplete
    BY <1>16, <1>2, <1>3 DEF BootstrapComplete, ResumeComplete, Return
  <1>17. CASE TeardownComplete
    BY <1>17, <1>3, <1>5 DEF TeardownComplete, Return
  <1>18. CASE Mutate
    BY <1>18, <1>2 DEF Mutate
  <1>19. CASE Snapshot
    BY <1>19 DEF Snapshot, Op
  <1>20. CASE CallBootstrap \/ CallResume \/ CallTeardown \/ Outside \/ UNCHANGED vars
    BY <1>20 DEF CallBootstrap, CallResume, CallTeardown, Outside, ShowStationSelection, StartAccessGateChain,
       BeginUpdate, SettleUpdate, NativeForeground, AccessGranted, vars
  <1> QED
    BY <1>7, <1>8, <1>9, <1>10, <1>11, <1>12, <1>13, <1>14, <1>15, <1>16, <1>17, <1>18,
       <1>19, <1>20 DEF Next, Begin, Step

\* Every step keeps the launch state of a transition outside the shell.
LEMMA LaunchStep == TypeInv /\ LaunchInv /\ [Next]_vars => LaunchInv'
  <1> SUFFICES ASSUME TypeInv, LaunchInv, [Next]_vars PROVE LaunchInv'
    OBVIOUS
  <1>1. op'.kind \in {"scope", "clear"} => launch' # "shell"
    <2> SUFFICES ASSUME op'.kind \in {"scope", "clear"}, launch' = "shell" PROVE FALSE
      OBVIOUS
    <2>1. CASE TransitionScope
      BY <2>1 DEF TransitionScope
    <2>2. CASE ~TransitionScope
      <3>1. launch # "shell"
        BY <2>2, LaunchOp DEF LaunchInv
      <3>2. Resolve
        BY <3>1, Frame
      <3>3. op'.kind = "none"
        BY <3>2 DEF Resolve, Return, NoOp, Call, Op
      <3> QED
        BY <3>3
    <2> QED
      BY <2>1, <2>2
  <1>2. op'.pc = "resolve" /\ op'.ok => phase' = "ACTIVE"
    <2>1. CASE Snapshot
      <3> DEFINE ok == phase = "ACTIVE" /\ \A r \in Critical : Available(r)
      <3>1. op' = Op(op.kind, "resolve", 0, {}, 0, ok) /\ UNCHANGED phase
        BY <2>1 DEF Snapshot
      <3>2. ok \in BOOLEAN /\ (ok => phase = "ACTIVE")
        OBVIOUS
      <3> HIDE DEF ok
      <3>3. op'.ok = ok
        BY <3>1, <3>2 DEF Op
      <3> QED
        BY <3>1, <3>2, <3>3
    <2>2. CASE UNCHANGED <<op, phase>>
      BY <2>2 DEF LaunchInv
    <2> QED
      BY <2>1, <2>2, LaunchOp
  <1> QED
    BY <1>1, <1>2 DEF LaunchInv

\* An identity transition never shows the shell before it has resolved where to go,
\* and the shell is entered only over an active graph and an admitted session, so
\* that a cleanup that failed keeps the app outside it (enterScopeLaunchTransition,
\* reconcileLaunchStateAfterRuntime).
THEOREM MobileFailedCleanupOutsideShell == Spec => FailedCleanupOutsideShell
  <1>1. TypeInv /\ LaunchInv /\ [Next]_vars =>
          [/\ op.kind \in {"scope", "clear"} /\ launch' = "shell" => op.pc = "resolve"
           /\ launch' = "shell" /\ launch # "shell" => phase = "ACTIVE" /\ granted]_vars
    <2> SUFFICES ASSUME TypeInv, LaunchInv, [Next]_vars, launch' = "shell", launch # "shell"
                 PROVE  op.pc = "resolve" /\ phase = "ACTIVE" /\ granted
      BY DEF LaunchInv
    <2>1. Resolve
      BY Frame
    <2>2. PICK target \in Targets : launch' = Resolved(launch, target)
      BY <2>1 DEF Resolve
    <2>3. target = "shell"
      BY <2>2, ResolvedShell
    <2>4. granted /\ op.ok
      BY <2>2, <2>3 DEF Targets
    <2> QED
      BY <2>1, <2>4 DEF Resolve, LaunchInv
  <1> QED
    BY <1>1, TypeInit, TypeStep, LaunchInit, LaunchStep, PTL DEF Spec, FailedCleanupOutsideShell

-----------------------------------------------------------------------------
(* Contexts and readiness updates.                                         *)

\* No context is ahead of the kernel.  A runtime that waits for its bootstrap has no
\* context of this graph, and one that waits for its turn to resume none of this
\* generation.
ContextInv ==
  /\ \A c \in contexts : c.gen <= gen /\ c.graph <= graph
  /\ \A c \in contexts : status[c.runtime] = "pending" => c.graph < graph
  /\ op.pc = "resume" => \A k \in 1..N : k >= op.at /\ St(k) = "suspended" =>
       \A c \in contexts : c.runtime = Order[k] => c.gen < gen

\* No context exists when the kernel starts.
LEMMA ContextInit == Init => ContextInv
  <1> SUFFICES ASSUME Init PROVE ContextInv
    OBVIOUS
  <1>1. op.pc = "idle"
    BY DEF Init, NoOp, Call, Op
  <1> QED
    BY <1>1 DEF Init, ContextInv

\* Generations and graphs only grow.
LEMMA ClocksGrow ==
  ASSUME TypeInv, [Next]_vars
  PROVE  /\ gen \in Nat /\ gen' \in Nat /\ graph \in Nat /\ graph' \in Nat
         /\ gen <= gen' /\ graph <= graph'
         /\ RegisterRuntimes => graph' = graph + 1
  <1>1. gen \in Nat /\ op.gen \in Nat /\ graph \in Nat /\ gen' \in Nat /\ graph' \in Nat
    BY TypeStep DEF TypeInv, TypeOK
  <1>2. gen <= gen'
    <2>1. UNCHANGED gen \/ ApplyStart \/ ApplyFence \/ ApplyResume
      BY Frame
    <2>2. CASE ApplyStart
      BY <1>1, <2>2 DEF ApplyStart, GenerationValid
    <2>3. CASE ApplyFence
      BY <1>1, <2>3 DEF ApplyFence, GenerationValid
    <2>4. CASE ApplyResume
      <3>1. UNCHANGED gen \/ (gen' = op.gen /\ op.gen > gen)
        BY <2>4, Zenon DEF ApplyResume, GenerationValid
      <3> QED
        BY <1>1, <3>1
    <2> QED
      BY <1>1, <2>1, <2>2, <2>3, <2>4
  <1>3. RegisterRuntimes => graph' = graph + 1
    BY DEF RegisterRuntimes
  <1> QED
    BY <1>1, <1>2, <1>3, Frame

\* A context that is handed out is of the runtime in turn.
LEMMA NewContext ==
  ASSUME TypeInv, [Next]_vars, NEW c \in contexts', c \notin contexts
  PROVE  /\ c = Context(Turn) /\ UNCHANGED <<gen, graph, op>> /\ op.at \in 1..N
         /\ c.runtime = Turn /\ c.gen = gen /\ c.graph = graph /\ Turn \in Runtimes
         /\ status'[Turn] \in {"bootstrapping", "resuming"}
         /\ status' = [status EXCEPT ![Turn] = status'[Turn]]
  <1>1. CallBootstrap \/ CallResume
    BY Frame
  <1>2. /\ c = Context(Turn) /\ UNCHANGED <<gen, graph, op>>
        /\ op.pc \in {"bootstrap", "resume"} /\ op.at <= N
    BY <1>1 DEF CallBootstrap, CallResume, N
  <1>3. op.at \in 1..N
    BY <1>2, OrderFacts DEF TypeInv, LoopOK
  <1>4. Turn \in Runtimes /\ status \in [Runtimes -> Statuses]
    BY <1>3, OrderFacts DEF Turn, TypeInv, TypeOK
  <1>5. c.runtime = Turn /\ c.gen = gen /\ c.graph = graph
    BY <1>2 DEF Context
  <1>6. \E s \in {"bootstrapping", "resuming"} : status' = [status EXCEPT ![Turn] = s]
    BY <1>1 DEF CallBootstrap, CallResume
  <1> QED
    BY <1>2, <1>3, <1>4, <1>5, <1>6

\* A step that is not a registration changes the status of the runtime in turn alone.
LEMMA OneStatus ==
  ASSUME TypeInv, [Next]_vars, ~RegisterRuntimes
  PROVE  \/ UNCHANGED status
         \/ /\ op.at \in 1..N /\ Turn \in Runtimes
            /\ op.pc \in {"bootstrap", "resume", "suspend", "teardown"}
            /\ \E s \in Statuses \ {"pending"} : \/ status' = [status EXCEPT ![Turn] = s]
                                                \/ UNCHANGED status
  <1> SUFFICES ASSUME status' # status PROVE
            /\ op.at \in 1..N /\ Turn \in Runtimes
            /\ op.pc \in {"bootstrap", "resume", "suspend", "teardown"}
            /\ \E s \in Statuses \ {"pending"} : status' = [status EXCEPT ![Turn] = s]
    OBVIOUS
  <1>0. N \in Nat /\ op.at \in 0..(N + 1) /\ LoopOK /\ status \in [Runtimes -> Statuses]
    BY OrderFacts DEF TypeInv, TypeOK, N
  <1>1. CASE SkipBootstrap \/ SkipResume \/ BootstrapSucceeds \/ ResumeSucceeds
             \/ BootstrapFails \/ ResumeFails \/ CallBootstrap \/ CallResume
    <2>1. op.pc \in {"bootstrap", "resume"} /\ op.at <= N
      BY <1>1 DEF SkipBootstrap, SkipDependent, SkipResume, BootstrapSucceeds, ResumeSucceeds,
         Succeed, BootstrapFails, ResumeFails, Break, CallBootstrap, CallResume, N
    <2>2. op.at \in 1..N
      BY <1>0, <2>1 DEF LoopOK
    <2>3. \E s \in Statuses \ {"pending"} : status' = [status EXCEPT ![Turn] = s]
      BY <1>1 DEF SkipBootstrap, SkipDependent, SkipResume, BootstrapSucceeds, ResumeSucceeds,
         Succeed, BootstrapFails, ResumeFails, Break, CallBootstrap, CallResume, Statuses
    <2> QED
      BY <2>1, <2>2, <2>3, OrderFacts DEF Turn
  <1>2. CASE CallTeardown \/ SuspendRuntime \/ TeardownReturns
    <2>1. op.pc \in {"suspend", "teardown"} /\ op.at > 0
      BY <1>2 DEF CallTeardown, SuspendRuntime, TeardownReturns
    <2>2. op.at \in 1..N
      BY <1>0, <2>1 DEF LoopOK
    <2>3. Turn \in Runtimes
      BY <2>2, OrderFacts DEF Turn
    <2>4. \E s \in Statuses \ {"pending"} : status' = [status EXCEPT ![Turn] = s]
      <3>1. CASE CallTeardown
        BY <3>1 DEF CallTeardown, Statuses
      <3>2. CASE TeardownReturns
        BY <3>2 DEF TeardownReturns, Statuses
      <3>3. CASE SuspendRuntime
        <4>1. status' = [status EXCEPT ![Turn] = IF @ = "ready" THEN "suspended" ELSE @]
          BY <3>3 DEF SuspendRuntime
        <4>2. status[Turn] = "ready"
          BY <1>0, <2>3, <4>1
        <4>3. status' = [status EXCEPT ![Turn] = "suspended"]
          BY <4>1, <4>2, <1>0
        <4> QED
          BY <4>3 DEF Statuses
      <3> QED
        BY <1>2, <3>1, <3>2, <3>3
    <2> QED
      BY <2>1, <2>2, <2>3, <2>4
  <1> QED
    BY <1>1, <1>2, Frame

\* How a resume loop goes on: it starts at a new generation, and its index grows.
LEMMA ResumeOp ==
  ASSUME TypeInv, [Next]_vars, op'.pc = "resume"
  PROVE  \/ ApplyResume /\ gen' > gen /\ UNCHANGED contexts
         \/ /\ op.pc = "resume" /\ UNCHANGED gen /\ op'.at >= op.at
            /\ UNCHANGED status \/ op'.at = op.at + 1 \/ CallResume
  <1>0. op.at \in Nat /\ op'.at \in Nat /\ op.pc \in Pcs /\ op.ok \in BOOLEAN
    BY TypeStep, OrderFacts DEF TypeInv, TypeOK, Pcs, N
  <1>1. ASSUME NEW kind, NEW pc \in Pcs \ {"resume"}, op' = Call(kind, pc) PROVE FALSE
    BY <1>1 DEF Call, Op
  <1>2. op' # NoOp
    BY <1>1 DEF NoOp, Pcs
  <1>3. ASSUME NEW kind, BeginTeardown(kind) PROVE FALSE
    BY <1>3 DEF BeginTeardown, Op
  <1>4. ASSUME NEW kind, AfterTeardown(kind) PROVE FALSE
    <2>1. op' = NoOp \/ op' = Call(kind, "mutate") \/ op' = Call(kind, "register")
      BY <1>4 DEF AfterTeardown
    <2> QED
      BY <2>1, <1>1, <1>2 DEF Pcs
  <1>5. CASE Begin
    <2>1. CASE Suspend
      <3>1. UNCHANGED op
        BY <2>1 DEF Suspend, Op
      <3> QED
        BY <3>1, <2>1 DEF Suspend, Idle
    <2>2. CASE StopRuntimeGraph
      BY <2>2, <1>3 DEF StopRuntimeGraph
    <2>3. CASE ~Suspend /\ ~StopRuntimeGraph
      <3>1. \E kind, pc : pc \in {"read", "advance", "snapshot"} /\ op' = Call(kind, pc)
        BY <1>5, <2>3 DEF Begin, StartRuntimeGraph, RestartRuntimeGraph, TransitionScope,
           Resume, ReconcileLaunchState
      <3> QED
        BY <3>1, <1>1 DEF Pcs
    <2> QED
      BY <2>1, <2>2, <2>3
  <1>6. CASE ReadGeneration \/ AdvanceGeneration \/ RegisterRuntimes \/ SuspendRuntime
              \/ PassTeardown \/ TeardownReturns \/ Snapshot
    <2>1. op'.pc \in {"advance", "apply", "bootstrap", "suspend", "teardown", "resolve"}
      BY <1>6 DEF ReadGeneration, AdvanceGeneration, RegisterRuntimes, SuspendRuntime,
         PassTeardown, TeardownReturns, Down, Op, Snapshot
    <2> QED
      BY <2>1
  <1>7. CASE CallFails \/ SuspendComplete \/ Resolve
    BY <1>7, <1>2 DEF CallFails, SuspendComplete, Resolve, Return
  <1>8. CASE ApplyStart \/ Mutate \/ BootstrapComplete \/ ResumeComplete
    <2>1. \/ op' = NoOp
          \/ \E kind, pc : pc \in {"register", "snapshot"} /\ op' = Call(kind, pc)
      BY <1>8 DEF ApplyStart, Return, Mutate, BootstrapComplete, ResumeComplete
    <2> QED
      BY <2>1, <1>1, <1>2 DEF Pcs
  <1>9. CASE ApplyFence \/ TeardownComplete
    BY <1>9, <1>2, <1>3, <1>4 DEF ApplyFence, TeardownComplete, Return
  <1>10. CASE ApplyResume
    BY <1>10, <1>2 DEF ApplyResume, Return, late, GenerationValid
  <1>11. CASE SkipBootstrap \/ BootstrapSucceeds \/ BootstrapFails \/ PassResume \/ SkipResume
              \/ ResumeSucceeds \/ ResumeFails
    <2>1. UNCHANGED gen /\ \E failed : op' = Next1(failed)
      BY <1>11 DEF SkipBootstrap, SkipDependent, BootstrapSucceeds, Succeed, BootstrapFails,
         Break, PassResume, SkipResume, ResumeSucceeds, ResumeFails
    <2>2. op'.pc = op.pc /\ op'.at = op.at + 1
      BY <2>1 DEF Next1, Op
    <2> QED
      BY <2>1, <2>2, <1>0
  <1>12. CASE CallBootstrap \/ CallResume \/ CallTeardown \/ Outside \/ UNCHANGED vars
    <2>1. UNCHANGED <<op, gen>>
      BY <1>12 DEF CallBootstrap, CallResume, CallTeardown, Outside, ShowStationSelection, StartAccessGateChain,
         BeginUpdate, SettleUpdate, NativeForeground, AccessGranted, vars
    <2>2. UNCHANGED status \/ CallResume
      BY <1>12, <2>1 DEF CallBootstrap, CallTeardown, Outside, ShowStationSelection, StartAccessGateChain,
         BeginUpdate, SettleUpdate, NativeForeground, AccessGranted, vars, table
    <2> QED
      BY <2>1, <2>2, <1>0
  <1> QED
    BY <1>5, <1>6, <1>7, <1>8, <1>9, <1>10, <1>11, <1>12 DEF Next, Step

\* Every step keeps what is known of the contexts.
LEMMA ContextStep == TypeInv /\ ContextInv /\ [Next]_vars => ContextInv'
  <1> SUFFICES ASSUME TypeInv, ContextInv, [Next]_vars PROVE ContextInv'
    OBVIOUS
  <1>0. /\ gen \in Nat /\ gen' \in Nat /\ graph \in Nat /\ graph' \in Nat
        /\ gen <= gen' /\ graph <= graph'
        /\ RegisterRuntimes => graph' = graph + 1
    BY ClocksGrow
  <1>t. /\ status \in [Runtimes -> Statuses] /\ status' \in [Runtimes -> Statuses]
        /\ op.at \in Nat /\ op'.at \in Nat /\ N \in Nat
        /\ \A c \in contexts \cup contexts' :
              c.gen \in Nat /\ c.graph \in Nat /\ c.runtime \in Runtimes
    BY TypeStep, OrderFacts DEF TypeInv, TypeOK, N, Contexts
  <1>1. ASSUME NEW c \in contexts' PROVE c.gen <= gen' /\ c.graph <= graph'
    <2>1. CASE c \in contexts
      <3>1. c.gen <= gen /\ c.graph <= graph
        BY <2>1 DEF ContextInv
      <3> QED
        BY <3>1, <1>0, <1>t
    <2>2. CASE c \notin contexts
      BY <2>2, <1>0, <1>t, NewContext
    <2> QED
      BY <2>1, <2>2
  <1>2. ASSUME NEW c \in contexts', status'[c.runtime] = "pending" PROVE c.graph < graph'
    <2>1. CASE c \in contexts /\ RegisterRuntimes
      <3>1. c.graph <= graph
        BY <2>1 DEF ContextInv
      <3> QED
        BY <2>1, <3>1, <1>0, <1>t
    <2>2. CASE c \in contexts /\ ~RegisterRuntimes
      <3>1. status[c.runtime] = "pending"
        BY <1>2, <2>2, <1>t, OneStatus
      <3>2. c.graph < graph
        BY <2>2, <3>1 DEF ContextInv
      <3> QED
        BY <3>2, <1>0, <1>t
    <2>3. CASE c \notin contexts
      BY <2>3, <1>2, NewContext
    <2> QED
      BY <2>1, <2>2, <2>3
  <1>3. ASSUME op'.pc = "resume", NEW k \in 1..N, k >= op'.at, St(k)' = "suspended",
               NEW c \in contexts', c.runtime = Order[k]
        PROVE  c.gen < gen'
    <2>1. CASE gen' > gen /\ UNCHANGED contexts
      <3>1. c.gen <= gen
        BY <2>1 DEF ContextInv
      <3> QED
        BY <2>1, <3>1, <1>0, <1>t
    <2>2. CASE /\ op.pc = "resume" /\ UNCHANGED gen /\ op'.at >= op.at
               /\ UNCHANGED status \/ op'.at = op.at + 1 \/ CallResume
      <3>1. k >= op.at
        BY <1>3, <2>2, <1>t
      <3>2. Order[k] # Turn => St(k) = "suspended"
        <4>1. ~RegisterRuntimes
          BY <2>2 DEF RegisterRuntimes
        <4>2. Order[k] \in Runtimes
          BY OrderFacts
        <4> QED
          BY <1>3, <4>1, <4>2, <1>t, OneStatus DEF St
      <3>3. St(k) = "suspended"
        <4>1. CASE UNCHANGED status
          BY <4>1, <1>3 DEF St
        <4>2. CASE op'.at = op.at + 1
          <5>1. k # op.at /\ op.at \in 1..N
            BY <4>2, <1>3, <1>t, <2>2 DEF TypeInv, LoopOK
          <5> QED
            BY <5>1, <3>2, OrderFacts DEF Turn
        <4>3. CASE CallResume
          <5>1. Order[k] \in Runtimes /\ status'[Order[k]] = "suspended"
            BY <1>3, OrderFacts DEF St
          <5>2. Order[k] # Turn
            BY <4>3, <5>1, <1>t DEF CallResume
          <5> QED
            BY <5>2, <3>2
        <4> QED
          BY <2>2, <4>1, <4>2, <4>3
      <3>4. CASE c \in contexts
        BY <3>1, <3>3, <3>4, <2>2, <1>3 DEF ContextInv
      <3>5. CASE c \notin contexts
        <4>1. Order[k] = Turn /\ status'[Turn] \in {"bootstrapping", "resuming"}
          BY <3>5, <1>3, NewContext
        <4> QED
          BY <4>1, <1>3 DEF St
      <3> QED
        BY <3>4, <3>5
    <2> QED
      BY <1>3, <2>1, <2>2, ResumeOp
  <1> QED
    BY <1>1, <1>2, <1>3 DEF ContextInv

\* A context that is not current never becomes current again: to be live a second
\* time its runtime needs a new graph, or a resume at a new generation.
LEMMA StaleForever ==
  ASSUME TypeInv, GraphInv, ContextInv, [Next]_vars, NEW c \in contexts, ContextCurrent(c)'
  PROVE  ContextCurrent(c)
  <1>0. /\ gen \in Nat /\ gen' \in Nat /\ graph \in Nat /\ graph' \in Nat
        /\ gen <= gen' /\ graph <= graph'
        /\ RegisterRuntimes => graph' = graph + 1
    BY ClocksGrow
  <1>t. /\ status \in [Runtimes -> Statuses] /\ N \in Nat /\ op.at \in Nat
        /\ c.gen \in Nat /\ c.graph \in Nat /\ c.runtime \in Runtimes
    BY OrderFacts DEF TypeInv, TypeOK, N, Contexts
  <1>1. /\ c.gen = gen' /\ c.graph = graph'
        /\ status'[c.runtime] \in Live
        /\ phase' \in {"BOOTSTRAPPING", "ACTIVE", "RESUMING"}
    BY DEF ContextCurrent, Live
  <1>2. gen' = gen /\ graph' = graph /\ ~RegisterRuntimes
    <2>1. c.gen <= gen /\ c.graph <= graph
      BY DEF ContextInv
    <2> QED
      BY <2>1, <1>0, <1>1, <1>t
  <1>3. phase \in {"BOOTSTRAPPING", "ACTIVE", "RESUMING"}
    <2>1. CASE UNCHANGED phase
      BY <2>1, <1>1
    <2>2. CASE BootstrapComplete \/ ResumeComplete
      BY <2>2 DEF BootstrapComplete, ResumeComplete, GraphInv, PhaseOfLoop
    <2> QED
      BY <1>0, <1>1, <1>2, <2>1, <2>2, Frame
  <1>4. status[c.runtime] \in Live
    <2> SUFFICES ASSUME status[c.runtime] \notin Live PROVE FALSE
      OBVIOUS
    <2>1. CASE CallBootstrap
      <3>1. c.runtime = Turn /\ status[Turn] = "pending"
        BY <2>1, <1>1, <1>t DEF CallBootstrap
      <3>2. c.graph < graph
        BY <3>1 DEF ContextInv
      <3> QED
        BY <3>2, <1>0, <1>1, <1>2
    <2>2. CASE CallResume
      <3>1. c.runtime = Turn /\ St(op.at) = "suspended"
        BY <2>2, <1>1, <1>t DEF CallResume, Turn, St
      <3>2. op.pc = "resume" /\ op.at \in 1..N
        BY <2>2, <1>t DEF CallResume, TypeInv, LoopOK, N
      <3>3. c.gen < gen
        BY <3>1, <3>2, <1>t DEF ContextInv, Turn
      <3> QED
        BY <3>3, <1>0, <1>1, <1>2
    <2>3. CASE BootstrapSucceeds \/ ResumeSucceeds
      <3>1. status[Turn] \in Live /\ status' = [status EXCEPT ![Turn] = "ready"]
        BY <2>3 DEF BootstrapSucceeds, ResumeSucceeds, Succeed, Live
      <3> QED
        BY <3>1, <1>1, <1>t
    <2>4. CASE UNCHANGED status
      BY <2>4, <1>1
    <2>5. CASE SuspendRuntime
      BY <2>5, <1>1, <1>t DEF SuspendRuntime, Live
    <2>6. CASE SkipBootstrap \/ SkipResume \/ BootstrapFails \/ ResumeFails \/ CallTeardown
               \/ TeardownReturns
      <3>1. \E s \in Statuses \ Live : status' = [status EXCEPT ![Turn] = s]
        BY <2>6 DEF SkipBootstrap, SkipDependent, SkipResume, BootstrapFails, ResumeFails,
           Break, CallTeardown, TeardownReturns, Statuses, Live
      <3> QED
        BY <3>1, <1>1, <1>t
    <2> QED
      BY <1>2, <2>1, <2>2, <2>3, <2>4, <2>5, <2>6, Frame
  <1> QED
    BY <1>1, <1>2, <1>3, <1>4 DEF ContextCurrent, Live

\* What the readiness table holds: an open update is of a known context and has a
\* revision of its own; a runtime that is suspended has none; the update a runtime
\* waits for is pending, and a current update is the last one of its context.
UpdateInv ==
  /\ \A u \in open : u.context \in contexts /\ u.revision \in 1..revision
  /\ \A u, v \in open : u.revision = v.revision => u = v
  /\ \A r \in Runtimes : updates[r] <= revision
  /\ \A r \in Runtimes :
       status[r] = "suspended" \/ phase \in {"SUSPENDING", "TEARDOWN"} => updates[r] = 0
  /\ \A u \in open : \A r \in Runtimes : updates[r] = u.revision =>
       u.context.runtime = r /\ readiness[r] = "pending"
  /\ \A u, v \in open : u.context = v.context /\ IsCurrent(u) => v.revision <= u.revision

\* No update exists when the kernel starts.
LEMMA UpdateInit == Init => UpdateInv
  BY DEF Init, UpdateInv, NoUpdates

\* A step that neither begins nor settles an update keeps each table entry or clears it.
LEMMA UpdateElsewhere ==
  ASSUME TypeInv, GraphInv, UpdateInv, [Next]_vars, ~BeginUpdate, ~SettleUpdate
  PROVE  /\ UNCHANGED <<open, revision>>
         /\ \A r \in Runtimes : updates'[r] = 0 \/ (updates'[r] = updates[r]
                                                    /\ readiness'[r] = readiness[r])
         /\ \A r \in Runtimes :
              status'[r] = "suspended" \/ phase' \in {"SUSPENDING", "TEARDOWN"}
                => updates'[r] = 0
  <1>t. /\ updates \in [Runtimes -> Nat] /\ readiness \in [Runtimes -> {"none", "pending", "ready", "failed"}]
        /\ status \in [Runtimes -> Statuses] /\ N \in Nat /\ op.at \in Nat
    BY OrderFacts DEF TypeInv, TypeOK, N
  <1>1. UNCHANGED <<open, revision>>
    BY Frame
  <1>2. updates' = NoUpdates => \A r \in Runtimes : updates'[r] = 0
    BY DEF NoUpdates
  <1>3. ASSUME NEW r \in Runtimes
        PROVE  updates'[r] = 0 \/ (updates'[r] = updates[r] /\ readiness'[r] = readiness[r])
    <2>1. CASE RegisterRuntimes
      BY <2>1, <1>2 DEF RegisterRuntimes
    <2>2. CASE CallResume
      <3>1. /\ UNCHANGED updates /\ status[Turn] = "suspended"
            /\ readiness' = [readiness EXCEPT ![Turn] = "none"]
        BY <2>2 DEF CallResume
      <3>2. r = Turn => updates[r] = 0
        BY <3>1 DEF UpdateInv
      <3>3. r # Turn => readiness'[r] = readiness[r]
        BY <3>1, <1>t
      <3> QED
        BY <3>1, <3>2, <3>3
    <2>3. CASE BootstrapFails \/ ResumeFails
      <3>1. updates' = [updates EXCEPT ![Turn] = 0] /\ UNCHANGED readiness
        BY <2>3 DEF BootstrapFails, ResumeFails, Break
      <3> QED
        BY <3>1, <1>t
    <2>4. CASE updates' = NoUpdates
      BY <2>4, <1>2
    <2>5. CASE UNCHANGED <<updates, readiness>>
      BY <2>5
    <2> QED
      BY <2>1, <2>2, <2>3, <2>4, <2>5, Frame
  <1>4. ASSUME NEW r \in Runtimes, status'[r] = "suspended" PROVE updates'[r] = 0
    <2>1. CASE status[r] = "suspended"
      BY <2>1, <1>3 DEF UpdateInv
    <2>2. CASE status[r] # "suspended"
      <3>1. CASE ResumeFails \/ SkipResume \/ SuspendRuntime
        <4>1. r = Turn
          BY <1>4, <2>2, <3>1, <1>t DEF ResumeFails, SkipResume, SkipDependent, Break,
             SuspendRuntime
        <4>2. CASE ResumeFails
          BY <4>1, <4>2, <1>t DEF ResumeFails, Break
        <4>3. CASE SkipResume
          BY <4>1, <4>3, <2>2 DEF SkipResume
        <4>4. CASE SuspendRuntime
          <5>1. phase = "SUSPENDING" /\ UNCHANGED updates
            BY <4>4 DEF SuspendRuntime, GraphInv, PhaseOfLoop
          <5> QED
            BY <5>1 DEF UpdateInv
        <4> QED
          BY <3>1, <4>2, <4>3, <4>4
      <3>2. CASE ~(ResumeFails \/ SkipResume \/ SuspendRuntime)
        <4>1. CASE UNCHANGED status
          BY <4>1, <1>4, <2>2
        <4>2. CASE RegisterRuntimes
          BY <4>2, <1>2 DEF RegisterRuntimes
        <4>3. CASE SkipBootstrap \/ BootstrapSucceeds \/ ResumeSucceeds
                   \/ BootstrapFails \/ CallBootstrap \/ CallResume \/ CallTeardown
                   \/ TeardownReturns
          <5>1. \E s \in Statuses \ {"suspended"} : status' = [status EXCEPT ![Turn] = s]
            BY <4>3 DEF SkipBootstrap, SkipDependent, BootstrapSucceeds, ResumeSucceeds, Succeed,
               BootstrapFails, Break, CallBootstrap, CallResume, CallTeardown, TeardownReturns,
               Statuses
          <5> QED
            BY <5>1, <1>4, <2>2, <1>t
        <4> QED
          BY <3>2, <4>1, <4>2, <4>3, Frame
      <3> QED
        BY <3>1, <3>2
    <2> QED
      BY <2>1, <2>2
  <1>5. ASSUME NEW r \in Runtimes, phase' \in {"SUSPENDING", "TEARDOWN"} PROVE updates'[r] = 0
    <2>1. CASE UNCHANGED phase
      BY <2>1, <1>3, <1>5 DEF UpdateInv
    <2>2. CASE updates' = NoUpdates
      BY <2>2, <1>2
    <2>3. CASE BootstrapComplete \/ ResumeComplete \/ RegisterRuntimes
      BY <2>3, <1>5 DEF BootstrapComplete, ResumeComplete, RegisterRuntimes
    <2>4. CASE ApplyResume
      BY <2>4, <2>1, <1>2 DEF ApplyResume, BeginTeardown
    <2> QED
      BY <2>1, <2>2, <2>3, <2>4, <1>5, Frame
  <1> QED
    BY <1>1, <1>3, <1>4, <1>5

\* Every step keeps the readiness table.
LEMMA UpdateStep == TypeInv /\ GraphInv /\ ContextInv /\ UpdateInv /\ [Next]_vars => UpdateInv'
  <1> SUFFICES ASSUME TypeInv, GraphInv, ContextInv, UpdateInv, [Next]_vars PROVE UpdateInv'
    OBVIOUS
  <1>t. /\ updates \in [Runtimes -> Nat] /\ updates' \in [Runtimes -> Nat]
        /\ readiness \in [Runtimes -> {"none", "pending", "ready", "failed"}]
        /\ revision \in Nat /\ revision' \in Nat
        /\ contexts \subseteq Contexts
        /\ \A u \in open \cup open' : u.revision \in Nat
        /\ \A c \in contexts : c.runtime \in Runtimes
    BY TypeStep DEF TypeInv, TypeOK, Contexts
  <1>c. contexts \subseteq contexts'
    BY Frame DEF CallBootstrap, CallResume
  <1>s. \A u \in open : IsCurrent(u)' => ContextCurrent(u.context)
    <2> SUFFICES ASSUME NEW u \in open, IsCurrent(u)' PROVE ContextCurrent(u.context)
      OBVIOUS
    <2> DEFINE c == u.context
    <2>1. c \in contexts /\ ContextCurrent(c)'
      BY DEF UpdateInv, IsCurrent, ContextCurrent
    <2> HIDE DEF c
    <2>2. ContextCurrent(c)
      BY <2>1, StaleForever
    <2> QED
      BY <2>2 DEF c
  <1>1. CASE ~BeginUpdate /\ ~SettleUpdate
    <2>1. /\ UNCHANGED <<open, revision>>
          /\ \A r \in Runtimes : updates'[r] = 0 \/ (updates'[r] = updates[r]
                                                     /\ readiness'[r] = readiness[r])
          /\ \A r \in Runtimes :
               status'[r] = "suspended" \/ phase' \in {"SUSPENDING", "TEARDOWN"}
                 => updates'[r] = 0
      BY <1>1, UpdateElsewhere
    <2>2. ASSUME NEW u \in open', NEW v \in open', u.context = v.context, IsCurrent(u)'
          PROVE  v.revision <= u.revision
      <3>1. u \in open /\ v \in open /\ u.revision # 0 /\ u.context.runtime \in Runtimes
        BY <2>1, <2>2, <1>t DEF UpdateInv
      <3>2. updates'[u.context.runtime] = u.revision
        BY <2>2 DEF IsCurrent
      <3>3. updates[u.context.runtime] = u.revision
        BY <2>1, <3>1, <3>2
      <3>4. IsCurrent(u)
        BY <3>1, <3>3, <2>2, <1>s DEF IsCurrent
      <3> QED
        BY <3>1, <3>4, <2>2 DEF UpdateInv
    <2>3. \A u \in open' : u.context \in contexts' /\ u.revision \in 1..revision'
      BY <2>1, <1>c DEF UpdateInv
    <2>4. \A u, v \in open' : u.revision = v.revision => u = v
      BY <2>1 DEF UpdateInv
    <2>5. \A r \in Runtimes : updates'[r] <= revision'
      BY <2>1, <1>t DEF UpdateInv
    <2>6. \A u \in open' : \A r \in Runtimes : updates'[r] = u.revision =>
            u.context.runtime = r /\ readiness'[r] = "pending"
      BY <2>1, <2>3, <1>t DEF UpdateInv
    <2> QED
      BY <2>1, <2>2, <2>3, <2>4, <2>5, <2>6 DEF UpdateInv
  <1>2. CASE BeginUpdate
    <2>1. PICK c \in contexts :
            /\ open' = open \cup {[context |-> c, revision |-> revision + 1]}
            /\ IF ContextCurrent(c)
               THEN /\ updates' = [updates EXCEPT ![c.runtime] = revision + 1]
                    /\ readiness' = [readiness EXCEPT ![c.runtime] = "pending"]
               ELSE UNCHANGED <<updates, readiness>>
      BY <1>2 DEF BeginUpdate
    <2>2. /\ revision' = revision + 1
          /\ UNCHANGED <<phase, gen, status, graph, contexts>>
      BY <1>2 DEF BeginUpdate
    <2> DEFINE new == [context |-> c, revision |-> revision + 1]
    <2>3. /\ new.context = c /\ new.revision = revision + 1 /\ open' = open \cup {new}
          /\ c.runtime \in Runtimes
      BY <2>1, <1>t
    <2> HIDE DEF new
    <2>4. \A u \in open : u.revision \in 1..revision /\ u.context \in contexts
      BY DEF UpdateInv
    <2>5. \A r \in Runtimes : updates[r] <= revision /\ updates[r] \in Nat
      BY <1>t DEF UpdateInv
    <2>6. \A u \in open' : u.context \in contexts' /\ u.revision \in 1..revision'
      BY <2>2, <2>3, <2>4, <1>t
    <2>7. \A u, v \in open' : u.revision = v.revision => u = v
      <3>1. \A u, v \in open : u.revision = v.revision => u = v
        BY DEF UpdateInv
      <3>2. \A u \in open : u.revision # new.revision
        BY <2>3, <2>4, <1>t
      <3> QED
        BY <2>3, <3>1, <3>2
    <2>8. \A r \in Runtimes : updates'[r] <= revision'
      BY <2>1, <2>2, <2>5, <1>t
    <2>9. ASSUME NEW r \in Runtimes,
                 status'[r] = "suspended" \/ phase' \in {"SUSPENDING", "TEARDOWN"}
          PROVE  updates'[r] = 0
      <3>1. updates[r] = 0
        BY <2>2, <2>9 DEF UpdateInv
      <3>2. CASE ContextCurrent(c)
        <4>1. r # c.runtime
          BY <3>2, <2>2, <2>9 DEF ContextCurrent
        <4> QED
          BY <4>1, <3>1, <3>2, <2>1, <1>t
      <3>3. CASE ~ContextCurrent(c)
        BY <3>1, <3>3, <2>1
      <3> QED
        BY <3>2, <3>3
    <2>10. ASSUME NEW u \in open', NEW r \in Runtimes, updates'[r] = u.revision
           PROVE  u.context.runtime = r /\ readiness'[r] = "pending"
      <3>1. CASE ContextCurrent(c)
        <4>1. /\ updates' = [updates EXCEPT ![c.runtime] = revision + 1]
              /\ readiness' = [readiness EXCEPT ![c.runtime] = "pending"]
          BY <3>1, <2>1
        <4>2. CASE r = c.runtime
          <5>1. u.revision = revision + 1 /\ readiness'[r] = "pending"
            BY <4>1, <4>2, <2>10, <1>t
          <5>2. u = new
            BY <5>1, <2>3, <2>4, <1>t
          <5> QED
            BY <5>1, <5>2, <2>3, <4>2
        <4>3. CASE r # c.runtime
          <5>1. updates'[r] = updates[r] /\ readiness'[r] = readiness[r]
            BY <4>1, <4>3, <1>t
          <5>2. u \in open
            <6>1. u.revision <= revision /\ new.revision = revision + 1
              BY <5>1, <2>10, <2>3, <2>5
            <6> QED
              BY <6>1, <2>3, <1>t
          <5> QED
            BY <5>1, <5>2, <2>10 DEF UpdateInv
        <4> QED
          BY <4>2, <4>3
      <3>2. CASE ~ContextCurrent(c)
        <4>1. UNCHANGED <<updates, readiness>>
          BY <3>2, <2>1
        <4>2. u \in open
          BY <4>1, <2>10, <2>3, <2>5, <1>t
        <4> QED
          BY <4>1, <4>2, <2>10 DEF UpdateInv
      <3> QED
        BY <3>1, <3>2
    <2>11. ASSUME NEW u \in open', NEW v \in open', u.context = v.context, IsCurrent(u)'
           PROVE  v.revision <= u.revision
      <3>1. updates'[u.context.runtime] = u.revision /\ u.context \in contexts
        BY <2>11, <2>2, <2>6 DEF IsCurrent
      <3>2. ContextCurrent(u.context)
        <4> DEFINE d == u.context
        <4>1. d \in contexts /\ ContextCurrent(d)'
          BY <3>1, <2>11 DEF IsCurrent, ContextCurrent
        <4> HIDE DEF d
        <4>2. ContextCurrent(d)
          BY <4>1, StaleForever
        <4> QED
          BY <4>2 DEF d
      <3>3. CASE v = new
        <4>1. u.context = c /\ ContextCurrent(c)
          BY <3>2, <3>3, <2>3, <2>11
        <4>2. updates'[c.runtime] = revision + 1
          BY <4>1, <2>1, <2>3, <1>t
        <4> QED
          BY <3>1, <3>3, <4>1, <4>2, <2>3, <1>t
      <3>4. CASE u = new
        BY <3>4, <2>2, <2>3, <2>6, <1>t
      <3>5. CASE u \in open /\ v \in open /\ u # new /\ v # new
        <4>1. updates[u.context.runtime] = u.revision
          <5>1. u.context.runtime \in Runtimes /\ u.revision # revision + 1
            BY <3>1, <3>5, <2>4, <1>t
          <5> QED
            BY <5>1, <3>1, <2>1, <2>3, <1>t
        <4>2. IsCurrent(u)
          BY <4>1, <3>2 DEF IsCurrent
        <4> QED
          BY <4>2, <3>5, <2>11 DEF UpdateInv
      <3> QED
        BY <2>3, <3>3, <3>4, <3>5
    <2> QED
      BY <2>6, <2>7, <2>8, <2>9, <2>10, <2>11 DEF UpdateInv
  <1>3. CASE SettleUpdate
    <2>1. PICK u \in open, result \in {"ready", "failed"} :
            /\ IsCurrent(u)
            /\ open' = open \ {u}
            /\ readiness' = [readiness EXCEPT ![u.context.runtime] = result]
      BY <1>3 DEF SettleUpdate
    <2>2. UNCHANGED <<phase, gen, status, graph, revision, updates, contexts>>
      BY <1>3 DEF SettleUpdate
    <2>3. updates[u.context.runtime] = u.revision
      BY <2>1 DEF IsCurrent
    <2>4. ASSUME NEW v \in open', NEW r \in Runtimes, updates'[r] = v.revision
          PROVE  v.context.runtime = r /\ readiness'[r] = "pending"
      <3>1. v \in open /\ v # u /\ updates[r] = v.revision
        BY <2>1, <2>2, <2>4
      <3>2. v.context.runtime = r /\ readiness[r] = "pending"
        BY <3>1 DEF UpdateInv
      <3>3. r # u.context.runtime
        BY <3>1, <2>3 DEF UpdateInv
      <3> QED
        BY <3>2, <3>3, <2>1, <1>t
    <2>5. ASSUME NEW v \in open', NEW w \in open', v.context = w.context, IsCurrent(v)'
          PROVE  w.revision <= v.revision
      <3>1. IsCurrent(v)
        BY <2>2, <2>5 DEF IsCurrent, ContextCurrent
      <3> QED
        BY <3>1, <2>1, <2>5 DEF UpdateInv
    <2>6. /\ \A v \in open' : v.context \in contexts' /\ v.revision \in 1..revision'
          /\ \A v, w \in open' : v.revision = w.revision => v = w
          /\ \A r \in Runtimes : updates'[r] <= revision'
          /\ \A r \in Runtimes :
               status'[r] = "suspended" \/ phase' \in {"SUSPENDING", "TEARDOWN"}
                 => updates'[r] = 0
      BY <2>1, <2>2 DEF UpdateInv
    <2> QED
      BY <2>4, <2>5, <2>6 DEF UpdateInv
  <1> QED
    BY <1>1, <1>2, <1>3

\* A readiness result is recorded once, and only for the newest update of the newest
\* context of its runtime, after any order of restarts, resumes, fences and updates
\* (isCurrent, settle).
THEOREM MobileStaleUpdateRejected == Spec => StaleUpdateRejected
  <1>1. TypeInv /\ ContextInv /\ UpdateInv /\ [Next]_vars =>
          [\A r \in Runtimes :
             readiness'[r] # readiness[r] /\ readiness'[r] \in {"ready", "failed"} =>
               /\ readiness[r] = "pending"
               /\ \E u \in open \ open' :
                    /\ NewestOf(r, u.context)
                    /\ \A v \in open : v.context = u.context => v.revision <= u.revision]_vars
    <2> SUFFICES ASSUME TypeInv, ContextInv, UpdateInv, [Next]_vars, NEW r \in Runtimes,
                        readiness'[r] # readiness[r], readiness'[r] \in {"ready", "failed"}
                 PROVE  /\ readiness[r] = "pending"
                        /\ \E u \in open \ open' :
                             /\ NewestOf(r, u.context)
                             /\ \A v \in open : v.context = u.context => v.revision <= u.revision
      OBVIOUS
    <2>t. readiness \in [Runtimes -> {"none", "pending", "ready", "failed"}]
      BY DEF TypeInv, TypeOK
    <2>1. SettleUpdate
      <3>1. ~RegisterRuntimes
        BY DEF RegisterRuntimes
      <3>2. ~CallResume
        BY <2>t DEF CallResume
      <3>3. ~BeginUpdate
        BY <2>t DEF BeginUpdate
      <3> QED
        BY <3>1, <3>2, <3>3, Frame
    <2>2. PICK u \in open, result \in {"ready", "failed"} :
            /\ IsCurrent(u)
            /\ open' = open \ {u}
            /\ readiness' = [readiness EXCEPT ![u.context.runtime] = result]
      BY <2>1 DEF SettleUpdate
    <2>3. u.context.runtime = r
      BY <2>2, <2>t
    <2>4. updates[r] = u.revision /\ ContextCurrent(u.context)
      BY <2>2, <2>3 DEF IsCurrent
    <2>5. readiness[r] = "pending"
      BY <2>4 DEF UpdateInv
    <2>6. NewestOf(r, u.context)
      BY <2>3, <2>4 DEF NewestOf, ContextCurrent, ContextInv
    <2>7. \A v \in open : v.context = u.context => v.revision <= u.revision
      BY <2>2 DEF UpdateInv
    <2> QED
      BY <2>2, <2>5, <2>6, <2>7
  <1> QED
    BY <1>1, TypeInit, TypeStep, GraphInit, GraphStep, ContextInit, ContextStep,
       UpdateInit, UpdateStep, PTL DEF Spec, StaleUpdateRejected
=============================================================================
