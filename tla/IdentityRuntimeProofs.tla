------------------------ MODULE IdentityRuntimeProofs ------------------------
(***************************************************************************)
(* Theorems about IdentityRuntime, for every set of accounts and every     *)
(* number of operations in flight: types, the profile a session shows, and *)
(* the fences that tell a late answer.                                     *)
(***************************************************************************)
EXTENDS IdentityRuntime, TLAPS

(***************************************************************************)
(* A fence that names a session names its actor, the session was not begun *)
(* after the one of epoch e, and the operations that will commit a         *)
(* session, or paint a phase, know whose it is.                            *)
(***************************************************************************)
GoodFences(e) == {f \in Fences : f.epoch =< e /\ (f.actor = NoActor => f = NoFence)}

TaskSet == [op : Ops \cup {"none"}, pc : Pcs \cup {"none"}, actor : Users, fence : Fences]

Named(v) == v.op \in UserOps \cup {"complete"} \/ v.pc = "rbind" => v.actor \in Actors

GoodTasks(e) == {v \in TaskSet : v.fence \in GoodFences(e) /\ Named(v)}

SessionSet == [user : Users, epoch : Nat, profile : Fences]

IInv ==
    /\ TypeOK
    /\ \A t \in Tasks : task[t] \in GoodTasks(session.epoch)
    /\ pending.fence \in GoodFences(session.epoch)
    /\ LateProfileDropped

\* The fence of a session is a good one, with the epoch of the session.
LEMMA FenceOfGood ==
    ASSUME NEW s \in SessionSet, NEW e \in Nat, s.epoch =< e
    PROVE  /\ FenceOf(s) \in GoodFences(e)
           /\ s.user # NoActor => FenceOf(s).epoch = s.epoch /\ FenceOf(s).actor = s.user
           /\ s.user = NoActor => FenceOf(s) = NoFence /\ FenceOf(s).epoch = 0
  BY DEF SessionSet, FenceOf, GoodFences, Fences, NoFence, Users

\* Building tasks.
LEMMA TaskBuilt ==
    ASSUME NEW e, NEW op \in Ops, NEW pc \in Pcs, NEW actor \in Users,
           NEW fence \in GoodFences(e),
           op \in UserOps \cup {"complete"} \/ pc = "rbind" => actor \in Actors
    PROVE  [op |-> op, pc |-> pc, actor |-> actor, fence |-> fence] \in GoodTasks(e)
  BY DEF GoodTasks, GoodFences, TaskSet, Named

\* The null fence and the free slot are good.
LEMMA ConstantsGood ==
    ASSUME NEW e \in Nat PROVE NoFence \in GoodFences(e) /\ NoTask \in GoodTasks(e)
  BY DEF NoFence, NoTask, GoodFences, Fences, GoodTasks, TaskSet, Named, Users, UserOps

\* Replacing one task by a good one.
LEMMA Replaced ==
    ASSUME NEW G, NEW f, f \in [Tasks -> G], NEW x, NEW v \in G
    PROVE  [f EXCEPT ![x] = v] \in [Tasks -> G]
  OBVIOUS

\* Types as the steps use them, for the epoch of the session and any later one.
LEMMA Typed ==
    ASSUME IInv, NEW e \in Nat, session.epoch =< e
    PROVE  /\ task \in [Tasks -> GoodTasks(e)]
           /\ session \in SessionSet /\ CaptureSessionFence \in GoodFences(e)
           /\ bound \in Users /\ active \in Users
           /\ pending.fence \in GoodFences(e)
           /\ \A t \in Tasks : /\ task[t].op \in Ops \cup {"none"} /\ task[t].actor \in Users
                               /\ task[t].fence \in GoodFences(e) /\ Named(task[t])
<1>1. task \in [Tasks -> TaskSet] /\ \A t \in Tasks : task[t] \in GoodTasks(session.epoch)
  BY DEF IInv, TypeOK, TaskSet
<1>3. session \in SessionSet /\ session.epoch \in Nat
  BY DEF IInv, TypeOK, SessionSet
<1>2. ASSUME NEW f \in GoodFences(session.epoch) PROVE f \in GoodFences(e)
  BY <1>3 DEF GoodFences, Fences
<1>4. CaptureSessionFence \in GoodFences(e)
  BY <1>3, FenceOfGood DEF CaptureSessionFence
<1>5. \A t \in Tasks : /\ task[t].op \in Ops \cup {"none"} /\ task[t].actor \in Users
                       /\ task[t].fence \in GoodFences(e) /\ Named(task[t])
  BY <1>1, <1>2 DEF GoodTasks, TaskSet
<1>6. task \in [Tasks -> GoodTasks(e)]
  BY <1>1, <1>5 DEF GoodTasks
<1> QED
  BY <1>2, <1>3, <1>4, <1>5, <1>6 DEF IInv, TypeOK

\* The same for the session as it is.
LEMMA TypedNow ==
    ASSUME IInv
    PROVE  /\ session \in SessionSet /\ session.epoch \in Nat
           /\ bound \in Users /\ active \in Users
           /\ pending.fence \in GoodFences(session.epoch)
           /\ \A t \in Tasks : /\ task[t].op \in Ops \cup {"none"} /\ task[t].actor \in Users
                               /\ task[t].fence \in GoodFences(session.epoch)
                               /\ Named(task[t])
<1>1. session.epoch \in Nat /\ session.epoch =< session.epoch
  BY DEF IInv, TypeOK
<1> QED
  BY <1>1, Typed

-----------------------------------------------------------------------------
(* The session mirror.                                                     *)

\* What a step may do to the session.
SessionChanges ==
    \/ UNCHANGED session
    \/ ResetSession
    \/ \E user \in Actors : CommitAuthenticatedSession(user)
    \/ \E t \in Tasks, actor \in Users :
         FenceIsLive(task[t].fence) /\ UpdateProfile([epoch |-> task[t].fence.epoch, actor |-> actor])

\* A session is committed for an actor, reset, or given the profile its own fence asked
\* for: no step does anything else to it.
LEMMA SessionStep == ASSUME IInv, [Next]_vars PROVE SessionChanges
<1>1. CASE \E user \in Actors : BootApplet(user)
  BY <1>1 DEF BootApplet, SessionChanges
<1>2. CASE \E t \in Tasks : TaskStep(t)
  <2> PICK t \in Tasks : TaskStep(t)
    BY <1>2
  <2>n. /\ Named(task[t]) /\ task[t].actor \in Users
        /\ task[t].fence \in GoodFences(session.epoch)
    BY TypedNow
  <2>1. CASE RestoreBound(t) \/ SignInBound(t) \/ ActivateAuthenticatedSession(t)
    <3>1. task[t].actor \in Actors
      BY <2>1, <2>n DEF RestoreBound, SignInBound, ActivateAuthenticatedSession, At, Named,
         UserOps
    <3>2. CommitAuthenticatedSession(task[t].actor)
      BY <2>1 DEF RestoreBound, SignInBound, ActivateAuthenticatedSession
    <3> QED
      BY <3>1, <3>2 DEF SessionChanges
  <2>2. CASE RestoreUnauthorized(t) \/ SwitchDetached(t) \/ LogoutAnswered(t)
             \/ SwitchValidated(t) \/ UnlockAuthenticated(t) \/ RestoreBindFailed(t)
    BY <2>2 DEF RestoreUnauthorized, RestoreBindFailed, SwitchDetached, LogoutAnswered, SwitchValidated,
       UnlockAuthenticated, ClearOtherActor, SessionChanges
  <2>3. CASE ProfileSynced(t)
    BY <2>3, <2>n DEF ProfileSynced, SessionChanges
  <2>5. CASE FallbackAvatarSynced(t)
    <3>1. task[t].fence = [epoch |-> task[t].fence.epoch, actor |-> task[t].fence.actor]
          /\ task[t].fence.actor \in Users
      BY <2>n DEF GoodFences, Fences
    <3> QED
      BY <2>5, <3>1 DEF FallbackAvatarSynced, SessionChanges
  <2>4. CASE ~(\/ RestoreBound(t) \/ SignInBound(t) \/ ActivateAuthenticatedSession(t)
               \/ RestoreUnauthorized(t) \/ SwitchDetached(t) \/ LogoutAnswered(t)
               \/ SwitchValidated(t) \/ UnlockAuthenticated(t) \/ ProfileSynced(t)
               \/ RestoreBindFailed(t) \/ FallbackAvatarSynced(t))
    BY <2>4 DEF TaskStep, RestoreAnswered, RestoreFailed, OAuthAcknowledgementPending,
       OAuthAcknowledgementRetry, ResolveBound, ResolveBindFailed,
       SignInAuthenticated, SignInBindFailed, PipelineTail, SwitchLoaded,
       SwitchAuthenticated, SignInRefused, SignInAborted, CompletionBound,
       CompletionBindFailed, DecodeSettled, ClosureSettled, ProfileSyncFailed,
       FallbackAvatarFailed, AccountsRefreshed,
       AccountRefreshFailed, GateLoaded, SessionChanges
  <2> QED
    BY <2>1, <2>2, <2>3, <2>4, <2>5
<1>3. CASE SessionRevoked \/ IdentityChanged
  BY <1>3 DEF SessionRevoked, IdentityChanged, RevokeSession, RunIdentityPipeline,
     SessionChanges
<1>4. CASE \/ Boot \/ RevalidateIfNeeded \/ CompleteCurrentSession \/ RefreshCurrentProfile
           \/ Logout \/ UNCHANGED vars
           \/ \E op \in UserOps, user \in Actors : StartSignIn(op, user)
           \/ \E reason \in Reasons, actor \in Users : RemoteChange(reason, actor)
  BY <1>4 DEF Boot, RevalidateIfNeeded, CompleteCurrentSession, RefreshCurrentProfile,
     Logout, StartSignIn, RemoteChange, vars, SessionChanges
<1> QED
  BY <1>1, <1>2, <1>3, <1>4 DEF Next

\* The session stays typed and its profile its own, and sessions are counted up.  A
\* session that stays as it was counted keeps its user.
LEMMA SessionGood ==
    ASSUME IInv, [Next]_vars
    PROVE  /\ session' \in SessionSet /\ LateProfileDropped'
           /\ session.epoch =< session'.epoch
           /\ session'.epoch = session.epoch => session'.user = session.user
<1>s. session \in SessionSet /\ session.epoch \in Nat
  BY TypedNow
<1>1. CASE UNCHANGED session
  BY <1>1, <1>s DEF IInv, LateProfileDropped, FenceOf
<1>2. CASE ResetSession
  <2>1. session' = [user |-> NoActor, epoch |-> session.epoch + 1, profile |-> NoFence]
    BY <1>2 DEF ResetSession
  <2> QED
    BY <1>s, <2>1 DEF SessionSet, LateProfileDropped, FenceOf, NoFence, Fences, Users
<1>3. CASE \E user \in Actors : CommitAuthenticatedSession(user)
  <2>1. PICK user \in Actors :
          session' = [user |-> user, epoch |-> session.epoch + 1,
                      profile |-> [epoch |-> session.epoch + 1, actor |-> user]]
    BY <1>3 DEF CommitAuthenticatedSession
  <2>2. user # NoActor
    BY IdentityAssumption
  <2> QED
    BY <1>s, <2>1, <2>2 DEF SessionSet, LateProfileDropped, FenceOf, Fences, Users
<1>4. CASE \E t \in Tasks, actor \in Users :
             /\ FenceIsLive(task[t].fence)
             /\ UpdateProfile([epoch |-> task[t].fence.epoch, actor |-> actor])
  <2>1. PICK t \in Tasks, actor \in Users :
               /\ FenceIsLive(task[t].fence)
               /\ session' = [session EXCEPT !.profile =
                                [epoch |-> task[t].fence.epoch, actor |-> actor]]
    BY <1>4 DEF UpdateProfile
  <2>2. task[t].fence \in GoodFences(session.epoch)
    BY TypedNow
  <2>3. session.epoch = task[t].fence.epoch /\ session.user # NoActor
    BY <2>1, <2>2 DEF FenceIsLive, GoodFences
  <2>4. session' = [user |-> session.user, epoch |-> session.epoch,
                    profile |-> [epoch |-> session.epoch, actor |-> actor]]
    BY <1>s, <2>1, <2>3 DEF SessionSet
  <2> QED
    BY <1>s, <2>2, <2>3, <2>4 DEF SessionSet, LateProfileDropped, FenceOf, Fences
<1> QED
  BY <1>1, <1>2, <1>3, <1>4, SessionStep DEF SessionChanges

-----------------------------------------------------------------------------
(* The operations in flight.                                               *)

\* A step that moves, ends, replaces or starts an operation leaves good ones.
LEMMA TaskStepGood ==
    ASSUME IInv, NEW t \in Tasks, TaskStep(t), NEW e \in Nat, session.epoch =< e,
           session' \in SessionSet, session'.epoch =< e
    PROVE  task' \in [Tasks -> GoodTasks(e)]
<1>t. /\ task \in [Tasks -> GoodTasks(e)] /\ session \in SessionSet
      /\ bound \in Users /\ active \in Users /\ pending.fence \in GoodFences(e)
      /\ task[t].actor \in Users /\ task[t].fence \in GoodFences(e)
      /\ NoTask \in GoodTasks(e)
  BY Typed, ConstantsGood
<1> USE <1>t
<1>ops. task[t].op \in Ops \cup {"none"} /\ Named(task[t])
  BY Typed
<1>end. End(t) => task' \in [Tasks -> GoodTasks(e)]
  BY Replaced DEF End
<1>move. ASSUME NEW pc \in Pcs, NEW actor \in Users, NEW fence \in GoodFences(e),
                task[t].op \in Ops, Move(t, pc, actor, fence),
                task[t].op \in UserOps \cup {"complete"} \/ pc = "rbind" => actor \in Actors
         PROVE  task' \in [Tasks -> GoodTasks(e)]
  <2>1. [op |-> task[t].op, pc |-> pc, actor |-> actor, fence |-> fence] \in GoodTasks(e)
    BY <1>move, TaskBuilt
  <2> QED
    BY <1>move, <2>1, Replaced DEF Move
<1>goto. ASSUME NEW pc \in Pcs, pc # "rbind", task[t].op \in Ops, Goto(t, pc)
         PROVE  task' \in [Tasks -> GoodTasks(e)]
  <2>1. Move(t, pc, task[t].actor, task[t].fence)
    BY <1>goto DEF Goto
  <2>2. task[t].op \in UserOps \cup {"complete"} => task[t].actor \in Actors
    BY <1>ops DEF Named
  <2> QED
    BY <1>goto, <1>move, <2>1, <2>2
<1>rec. ASSUME NEW fence \in GoodFences(e), task' = [task EXCEPT ![t] = Sync("reconcile", fence)]
        PROVE  task' \in [Tasks -> GoodTasks(e)]
  <2>1. Sync("reconcile", fence) \in GoodTasks(e)
    BY <1>rec, TaskBuilt DEF Sync, Ops, SyncOps, Pcs, UserOps
  <2> QED
    BY <1>rec, <2>1, Replaced
<1>edge. ASSUME NEW kind, NEW user, NEW s \in SessionSet, s.epoch =< e,
                AcceptAuthenticatedEdge(t, kind, user, s)
         PROVE  task' \in [Tasks -> GoodTasks(e)]
  <2>1. task' = [task EXCEPT ![t] = Sync("reconcile", FenceOf(s))]
    BY <1>edge DEF AcceptAuthenticatedEdge
  <2> QED
    BY <2>1, <1>edge, <1>rec, FenceOfGood
<1>from. ASSUME NEW kind, NEW s \in SessionSet, s.epoch =< e,
                AcceptEdgeFromSession(t, kind, s)
         PROVE  task' \in [Tasks -> GoodTasks(e)]
  BY <1>from, <1>edge, <1>end DEF AcceptEdgeFromSession
<1> USE DEF Ops, UserOps, SyncOps, RestoreOps, Pcs
<1>1. CASE RestoreAnswered(t)
  <2>1. active \in Actors
    BY <1>1 DEF RestoreAnswered, Users
  <2> QED
    BY <1>1, <2>1, <1>move DEF RestoreAnswered, At
<1>2. CASE FallbackAvatarFailed(t) \/ DecodeSettled(t) \/ ClosureSettled(t)
           \/ ResolveBindFailed(t) \/ SignInBindFailed(t) \/ SignInRefused(t)
           \/ SwitchDetached(t) \/ SignInAborted(t) \/ CompletionBindFailed(t)
           \/ AccountsRefreshed(t) \/ AccountRefreshFailed(t) \/ GateLoaded(t)
  BY <1>2, <1>end DEF FallbackAvatarFailed, DecodeSettled, ClosureSettled,
     ResolveBindFailed, SignInBindFailed, SignInRefused, SwitchDetached, SignInAborted,
     CompletionBindFailed, AccountsRefreshed, AccountRefreshFailed, GateLoaded
<1>3. CASE OAuthAcknowledgementPending(t) \/ OAuthAcknowledgementRetry(t)
           \/ SignInAuthenticated(t) \/ SignInBound(t) \/ SwitchAuthenticated(t)
           \/ UnlockAuthenticated(t) \/ ActivateAuthenticatedSession(t)
           \/ LogoutAnswered(t)
  <2>1. \E pc \in Pcs : pc # "rbind" /\ Goto(t, pc) /\ task[t].op \in Ops
    BY <1>3 DEF OAuthAcknowledgementPending, OAuthAcknowledgementRetry, SignInAuthenticated,
       SignInBound, SwitchAuthenticated, UnlockAuthenticated, ActivateAuthenticatedSession,
       LogoutAnswered, At
  <2> QED
    BY <2>1, <1>goto
<1>4. CASE RestoreBound(t)
  <2>2. \/ AcceptEdgeFromSession(t, task[t].op, session') \/ End(t)
        \/ Goto(t, "bind") /\ task[t].op \in Ops
    BY <1>4 DEF RestoreBound
  <2> QED
    BY <2>2, <1>from, <1>end, <1>goto
<1>5. CASE ResolveBound(t) \/ SwitchLoaded(t)
  BY <1>5, <1>from DEF ResolveBound, SwitchLoaded
<1>6. CASE PipelineTail(t)
  <2>1. \/ AcceptEdgeFromSession(t, task[t].op, session) \/ End(t)
        \/ Goto(t, "restore") /\ task[t].op \in Ops
    BY <1>6 DEF PipelineTail, At
  <2> QED
    BY <2>1, <1>from, <1>end, <1>goto
<1>7. CASE SwitchValidated(t)
  <2>1. bound \in Actors
    BY <1>7 DEF SwitchValidated, Users
  <2> QED
    BY <1>7, <2>1, <1>move DEF SwitchValidated, At
<1>8. CASE CompletionBound(t)
  <2>1. task[t].op = "complete" /\ task[t].actor \in Actors
    BY <1>8, <1>ops DEF CompletionBound, At, Named
  <2>2. \/ AcceptAuthenticatedEdge(t, "completed_login", task[t].actor, session)
        \/ End(t)
        \/ \E pc \in {"avatar", "closure"} : Move(t, pc, task[t].actor, pending.fence)
    BY <1>8 DEF CompletionBound
  <2> QED
    BY <2>1, <2>2, <1>edge, <1>end, <1>move
<1>9. CASE RestoreUnauthorized(t) \/ RestoreFailed(t) \/ RestoreBindFailed(t)
  <2>1. \E s \in {session, session'} :
          AcceptEdgeFromSession(t, task[t].op, s) \/ End(t)
    BY <1>9 DEF RestoreUnauthorized, RestoreFailed, RestoreBindFailed, AfterFailedRestore
  <2> QED
    BY <2>1, <1>from, <1>end
<1>10. CASE ProfileSynced(t) \/ ProfileSyncFailed(t) \/ FallbackAvatarSynced(t)
  <2>1. \/ End(t)
        \/ \E pc \in {"load", "fallback"} : Goto(t, pc) /\ task[t].op \in Ops
    BY <1>10 DEF ProfileSynced, ProfileSyncFailed, FallbackAvatarSynced, At
  <2> QED
    BY <2>1, <1>end, <1>goto
<1> QED
  BY <1>1, <1>2, <1>3, <1>4, <1>5, <1>6, <1>7, <1>8, <1>9, <1>10 DEF TaskStep

\* Every other step starts an operation, cancels a timer, or leaves them all.
LEMMA TasksGood ==
    ASSUME IInv, [Next]_vars PROVE task' \in [Tasks -> GoodTasks(session'.epoch)]
<1> DEFINE e == session'.epoch
<1>e. session' \in SessionSet /\ e \in Nat /\ session.epoch =< e
  BY SessionGood DEF SessionSet
<1> SUFFICES task' \in [Tasks -> GoodTasks(e)]
  BY DEF e
<1> HIDE DEF e
<1>t. /\ task \in [Tasks -> GoodTasks(e)] /\ session \in SessionSet
      /\ CaptureSessionFence \in GoodFences(e)
      /\ bound \in Users /\ NoTask \in GoodTasks(e) /\ NoFence \in GoodFences(e)
  BY <1>e, Typed, ConstantsGood
<1> USE <1>t
<1>spawn. ASSUME NEW op \in Ops, NEW pc \in Pcs, NEW actor \in Users, Spawn(op, pc, actor),
                 op \in UserOps \cup {"complete"} \/ pc = "rbind" => actor \in Actors
          PROVE  task' \in [Tasks -> GoodTasks(e)]
  <2>1. [op |-> op, pc |-> pc, actor |-> actor, fence |-> NoFence] \in GoodTasks(e)
    BY <1>spawn, TaskBuilt
  <2> QED
    BY <1>spawn, <2>1, Replaced DEF Spawn
<1>cancel. CancelRetry \in [Tasks -> GoodTasks(e)]
  BY DEF CancelRetry
<1>retry. ASSUME NEW op \in {"resolve", "logout"}, NEW pc \in {"restore", "auth"},
                 SpawnCancellingRetry(op, pc)
          PROVE  task' \in [Tasks -> GoodTasks(e)]
  <2>1. [op |-> op, pc |-> pc, actor |-> NoActor, fence |-> NoFence] \in GoodTasks(e)
    BY TaskBuilt DEF Ops, UserOps, Pcs, Users
  <2> QED
    BY <1>retry, <1>cancel, <2>1, Replaced DEF SpawnCancellingRetry
<1>revoke. RevokeSession => task' \in [Tasks -> GoodTasks(e)]
  BY <1>spawn DEF RevokeSession, Ops, UserOps, Pcs, Users
<1>1. CASE Boot \/ RevalidateIfNeeded
  BY <1>1, <1>retry DEF Boot, RevalidateIfNeeded, ResolveSession
<1>2. CASE Logout
  BY <1>2, <1>retry DEF Logout
<1>3. CASE \E op \in UserOps, user \in Actors : StartSignIn(op, user)
  BY <1>3, <1>spawn DEF StartSignIn, Ops, Pcs, Users
<1>4. CASE CompleteCurrentSession
  <2>1. session.user \in Actors
    BY <1>4 DEF CompleteCurrentSession, SessionSet, Users
  <2> QED
    BY <1>4, <2>1, <1>spawn DEF CompleteCurrentSession, Ops, Pcs, Users
<1>5. CASE RefreshCurrentProfile
  <2>1. Sync("refresh", CaptureSessionFence) \in GoodTasks(e)
    BY TaskBuilt DEF Sync, Ops, SyncOps, Pcs, UserOps
  <2> QED
    BY <1>5, <2>1, Replaced DEF RefreshCurrentProfile
<1>6. CASE SessionRevoked
  BY <1>6, <1>revoke DEF SessionRevoked
<1>7. CASE IdentityChanged
  <2>1. UNCHANGED task \/ RevokeSession \/ Spawn("pipeline", "tail", NoActor)
    BY <1>7 DEF IdentityChanged, RunIdentityPipeline
  <2> QED
    BY <2>1, <1>revoke, <1>spawn DEF Ops, UserOps, Pcs, Users
<1>8. CASE \E t \in Tasks : TaskStep(t)
  <2>1. session'.epoch =< e
    BY <1>e DEF e
  <2> QED
    BY <1>8, <1>e, <2>1, TaskStepGood
<1>9. CASE \/ \E user \in Actors : BootApplet(user)
           \/ \E reason \in Reasons, actor \in Users : RemoteChange(reason, actor)
           \/ UNCHANGED vars
  BY <1>9 DEF BootApplet, RemoteChange, vars
<1> QED
  BY <1>1, <1>2, <1>3, <1>4, <1>5, <1>6, <1>7, <1>8, <1>9 DEF Next

-----------------------------------------------------------------------------
(* Phases, completions and the native side.                                *)

PhaseSet == [kind : PhaseKinds, user : Users, avatar : Fences]

PhaseOK ==
    /\ phase \in PhaseSet
    /\ phase.user # NoActor <=> IsAuthenticated(phase)
    /\ phase.avatar # NoFence => IsAuthenticated(phase)

PendingOK ==
    /\ pending \in [fence : Fences, policy : {"none", "local-decode", "network-sync"}]
    /\ pending.fence \in GoodFences(session.epoch)

\* What a step may do to the phase and to the pending completion.
PhaseChanges ==
    \/ UNCHANGED phase
    \/ \E kind \in PhaseKinds \ {"authenticated", "authenticatedPendingCompletion"} : Enter(kind)
    \/ \E kind \in {"authenticated", "authenticatedPendingCompletion"}, user \in Actors,
          avatar \in Fences :
         phase' = [kind |-> kind, user |-> user, avatar |-> avatar]
    \/ IsAuthenticated(phase) /\ \E user \in Actors, avatar \in Fences :
         phase' = [phase EXCEPT !.user = user, !.avatar = avatar]

PendingChanges ==
    \/ UNCHANGED pending
    \/ pending' = NoPending
    \/ \E fence \in GoodFences(session'.epoch), policy \in {"local-decode", "network-sync"} :
         pending' = [fence |-> fence, policy |-> policy]

\* An edge enters an authenticated phase for the actor it is told.
LEMMA EdgeChanges ==
    ASSUME NEW t, NEW kind, NEW s \in SessionSet, session'.epoch \in Nat,
           s.epoch =< session'.epoch
    PROVE  /\ \A user \in Actors : AcceptAuthenticatedEdge(t, kind, user, s)
                                   => PhaseChanges /\ PendingChanges
           /\ AcceptEdgeFromSession(t, kind, s) => PhaseChanges /\ PendingChanges
<1>1. ASSUME NEW user \in Actors, AcceptAuthenticatedEdge(t, kind, user, s)
      PROVE  PhaseChanges /\ PendingChanges
  <2>1. PhaseChanges
    BY <1>1 DEF AcceptAuthenticatedEdge, Authenticated, Phase, NoFence, Fences, Users,
       PhaseChanges
  <2>2. PendingChanges
    BY <1>1, FenceOfGood DEF AcceptAuthenticatedEdge, PendingChanges
  <2> QED
    BY <2>1, <2>2
<1>2. ASSUME AcceptEdgeFromSession(t, kind, s) PROVE PhaseChanges /\ PendingChanges
  <2>1. CASE s.user = NoActor
    BY <1>2, <2>1 DEF AcceptEdgeFromSession, PhaseChanges, PendingChanges
  <2>2. CASE s.user # NoActor
    <3>1. s.user \in Actors
      BY <2>2 DEF SessionSet, Users
    <3> QED
      BY <1>1, <1>2, <2>2, <3>1 DEF AcceptEdgeFromSession
  <2> QED
    BY <2>1, <2>2
<1> QED
  BY <1>1, <1>2

\* No step does anything else to the phase or to the pending completion.
LEMMA PhaseStep == ASSUME IInv, [Next]_vars PROVE PhaseChanges /\ PendingChanges
<1>s. /\ session \in SessionSet /\ session' \in SessionSet
      /\ session'.epoch \in Nat /\ session.epoch =< session'.epoch
  BY SessionGood, TypedNow DEF SessionSet
<1>p. phase \in PhaseSet /\ (phase.user # NoActor <=> IsAuthenticated(phase))
  BY DEF IInv, TypeOK, PhaseSet
<1>c. CaptureSessionFence \in Fences
  BY <1>s DEF CaptureSessionFence, FenceOf, NoFence, Fences, SessionSet, Users
<1>upd. ASSUME NEW user \in Actors, UpdateAuthenticated(user) PROVE PhaseChanges
  BY <1>upd, <1>c DEF UpdateAuthenticated, PhaseChanges
<1>enter. ASSUME NEW kind \in PhaseKinds \ {"authenticated", "authenticatedPendingCompletion"},
                 Enter(kind)
          PROVE  PhaseChanges
  BY <1>enter DEF PhaseChanges
<1>kinds. {"resolvingSession", "accountGate", "pinGate", "revoked", "loggingOut"}
            \subseteq PhaseKinds \ {"authenticated", "authenticatedPendingCompletion"}
  BY DEF PhaseKinds, AuthGateKinds
<1>gate. LoadAuthGate => PhaseChanges
  BY <1>enter, <1>kinds DEF LoadAuthGate
<1>same. UNCHANGED pending => PendingChanges
  BY DEF PendingChanges
<1>stay. UNCHANGED phase => PhaseChanges
  BY DEF PhaseChanges
<1>1. CASE \E t \in Tasks : TaskStep(t)
  <2> PICK t \in Tasks : TaskStep(t)
    BY <1>1
  <2>n. /\ Named(task[t]) /\ task[t].fence \in GoodFences(session.epoch)
        /\ task[t].actor \in Users
    BY TypedNow
  <2>live. FenceIsLive(task[t].fence)
             => session.user \in Actors /\ task[t].fence.actor \in Actors
    BY <1>s, <2>n DEF FenceIsLive, GoodFences, SessionSet, Users
  <2>1. CASE RestoreBound(t)
    <3>2. \/ AcceptEdgeFromSession(t, task[t].op, session')
          \/ UNCHANGED <<phase, pending>>
      BY <2>1 DEF RestoreBound
    <3> QED
      BY <1>s, <1>same, <1>stay, <3>2, EdgeChanges
  <2>2. CASE ResolveBound(t) \/ SwitchLoaded(t) \/ PipelineTail(t)
    <3>1. \/ \E kind : AcceptEdgeFromSession(t, kind, session)
          \/ UNCHANGED <<phase, pending>>
      BY <2>2 DEF ResolveBound, SwitchLoaded, PipelineTail
    <3> QED
      BY <1>s, <1>same, <1>stay, <3>1, EdgeChanges
  <2>paint. ASSUME NEW fence \in Fences, phase' = Painted(phase, fence) PROVE PhaseChanges
    <3>1. CASE IsAuthenticated(phase)
      <4>1. phase.user \in Actors
        BY <1>p, <3>1 DEF PhaseSet, Users
      <4>2. phase' = [phase EXCEPT !.user = phase.user, !.avatar = fence]
        BY <1>p, <2>paint, <3>1 DEF Painted, PhaseSet
      <4> QED
        BY <3>1, <4>1, <4>2 DEF PhaseChanges
    <3> QED
      BY <2>paint, <3>1, <1>stay DEF Painted
  <2>done. ASSUME NEW fence \in Fences, NEW user \in Actors,
                  phase' = LoginCompleted(Painted(phase, fence), user)
           PROVE  PhaseChanges
    <3>1. CASE phase.kind = "authenticatedPendingCompletion"
      <4> DEFINE who == IF session.user = NoActor THEN user ELSE session.user
      <4>1. who \in Actors
        BY <1>s DEF SessionSet, Users
      <4>2. phase' = [kind |-> "authenticated", user |-> who, avatar |-> fence]
        BY <1>p, <2>done, <3>1 DEF Painted, LoginCompleted, IsAuthenticated, PhaseSet
      <4> HIDE DEF who
      <4> QED
        BY <4>1, <4>2 DEF PhaseChanges
    <3>2. CASE phase.kind # "authenticatedPendingCompletion"
      <4>1. phase' = Painted(phase, fence)
        BY <1>p, <2>done, <3>2 DEF Painted, LoginCompleted, PhaseSet
      <4> QED
        BY <4>1, <2>paint
    <3> QED
      BY <3>1, <3>2
  <2>f. NoFence \in Fences /\ task[t].fence \in Fences
    BY <2>n DEF NoFence, Fences, Users, GoodFences
  <2>3. CASE CompletionBound(t) \/ DecodeSettled(t) \/ ClosureSettled(t)
    <3>1. task[t].actor \in Actors
      BY <2>3, <2>n DEF CompletionBound, DecodeSettled, ClosureSettled, At, Named
    <3>2. \/ AcceptAuthenticatedEdge(t, "completed_login", task[t].actor, session)
          \/ /\ \/ UNCHANGED phase
                \/ \E fence \in Fences : \/ phase' = Painted(phase, fence)
                                         \/ phase' = LoginCompleted(Painted(phase, fence), task[t].actor)
             /\ pending' = NoPending \/ UNCHANGED pending
      BY <2>3, <2>f DEF CompletionBound, DecodeSettled, ClosureSettled
    <3>3. CASE AcceptAuthenticatedEdge(t, "completed_login", task[t].actor, session)
      BY <1>s, <3>1, <3>3, EdgeChanges
    <3>4. CASE /\ \/ UNCHANGED phase
                  \/ \E fence \in Fences : \/ phase' = Painted(phase, fence)
                                           \/ phase' = LoginCompleted(Painted(phase, fence), task[t].actor)
               /\ pending' = NoPending \/ UNCHANGED pending
      BY <1>stay, <2>done, <2>paint, <3>1, <3>4 DEF PendingChanges
    <3> QED
      BY <3>2, <3>3, <3>4
  <2>4. CASE ProfileSynced(t) \/ FallbackAvatarSynced(t) \/ AccountsRefreshed(t)
    <3>1. UNCHANGED pending
      BY <2>4 DEF ProfileSynced, FallbackAvatarSynced, AccountsRefreshed
    <3>2. \/ UNCHANGED phase
          \/ task[t].actor # NoActor /\ UpdateAuthenticated(task[t].actor)
          \/ FenceIsLive(task[t].fence) /\ UpdateAuthenticated(session.user)
          \/ FenceIsLive(task[t].fence) /\ UpdateAuthenticated(task[t].fence.actor)
      BY <2>4 DEF ProfileSynced, FallbackAvatarSynced, AccountsRefreshed
    <3>3. task[t].actor # NoActor => task[t].actor \in Actors
      BY <2>n DEF Users
    <3> QED
      BY <1>same, <1>stay, <1>upd, <2>live, <3>1, <3>2, <3>3
  <2>5. CASE ResolveBindFailed(t) \/ SwitchDetached(t) \/ GateLoaded(t)
    <3>1. UNCHANGED pending /\ LoadAuthGate
      BY <2>5 DEF ResolveBindFailed, SwitchDetached, GateLoaded
    <3> QED
      BY <1>same, <1>gate, <3>1
  <2>8. CASE RestoreUnauthorized(t) \/ RestoreFailed(t) \/ RestoreBindFailed(t)
    <3>1. \/ \E s \in {session, session'} : AcceptEdgeFromSession(t, task[t].op, s)
          \/ UNCHANGED pending /\ (UNCHANGED phase \/ LoadAuthGate)
      BY <2>8 DEF RestoreUnauthorized, RestoreFailed, RestoreBindFailed, AfterFailedRestore
    <3>2. session'.epoch =< session'.epoch
      BY <1>s
    <3> QED
      BY <1>s, <1>same, <1>stay, <1>gate, <3>1, <3>2, EdgeChanges
  <2>6. CASE OAuthAcknowledgementRetry(t) \/ SignInRefused(t)
    <3>1. UNCHANGED pending /\ (UNCHANGED phase \/ Enter("resolvingSession") \/ Enter("pinGate"))
      BY <2>6 DEF OAuthAcknowledgementRetry, SignInRefused
    <3> QED
      BY <1>same, <1>stay, <1>enter, <1>kinds, <3>1
  <2>7. CASE RestoreAnswered(t) \/ OAuthAcknowledgementPending(t) \/ SignInAuthenticated(t)
             \/ SignInBound(t) \/ SignInBindFailed(t) \/ SwitchAuthenticated(t)
             \/ SwitchValidated(t) \/ UnlockAuthenticated(t)
             \/ ActivateAuthenticatedSession(t) \/ SignInAborted(t)
             \/ CompletionBindFailed(t) \/ ProfileSyncFailed(t)
             \/ FallbackAvatarFailed(t) \/ AccountRefreshFailed(t) \/ LogoutAnswered(t)
    <3>1. UNCHANGED <<phase, pending>>
      BY <2>7 DEF RestoreAnswered, OAuthAcknowledgementPending, SignInAuthenticated,
         SignInBound, SignInBindFailed, SwitchAuthenticated, SwitchValidated,
         UnlockAuthenticated, ActivateAuthenticatedSession, SignInAborted,
         CompletionBindFailed, ProfileSyncFailed, FallbackAvatarFailed, AccountRefreshFailed,
         LogoutAnswered
    <3> QED
      BY <1>same, <1>stay, <3>1
  <2> QED
    BY <2>1, <2>2, <2>3, <2>4, <2>5, <2>6, <2>7, <2>8 DEF TaskStep
<1>2. CASE \E user \in Actors : BootApplet(user)
  BY <1>2, <1>same DEF BootApplet, Authenticated, Phase, NoFence, Fences, Users,
     PhaseChanges
<1>3. CASE \/ Boot \/ RevalidateIfNeeded \/ Logout \/ SessionRevoked
           \/ \E op \in UserOps, user \in Actors : StartSignIn(op, user)
  <2>1. UNCHANGED pending /\ (\/ UNCHANGED phase \/ Enter("resolvingSession")
                             \/ Enter("revoked") \/ Enter("loggingOut"))
    BY <1>3 DEF Boot, RevalidateIfNeeded, ResolveSession, StartSignIn, SessionRevoked,
       RevokeSession, Logout
  <2> QED
    BY <1>same, <1>stay, <1>enter, <1>kinds, <2>1
<1>4. CASE IdentityChanged
  <2>1. UNCHANGED pending /\ (UNCHANGED phase \/ Enter("revoked"))
    BY <1>4 DEF IdentityChanged, RevokeSession, RunIdentityPipeline
  <2> QED
    BY <1>same, <1>stay, <1>enter, <1>kinds, <2>1
<1>5. CASE \/ CompleteCurrentSession \/ RefreshCurrentProfile \/ UNCHANGED vars
           \/ \E reason \in Reasons, actor \in Users : RemoteChange(reason, actor)
  <2>1. UNCHANGED <<phase, pending>>
    BY <1>5 DEF CompleteCurrentSession, RefreshCurrentProfile, RemoteChange, vars
  <2> QED
    BY <1>same, <1>stay, <2>1
<1> QED
  BY <1>1, <1>2, <1>3, <1>4, <1>5 DEF Next

\* Only an authenticated phase has a user, and a pending completion names a session.
LEMMA PhaseGood == ASSUME IInv, [Next]_vars PROVE PhaseOK' /\ PendingOK'
<1>t. PhaseOK /\ pending \in [fence : Fences, policy : {"none", "local-decode", "network-sync"}]
  BY DEF IInv, TypeOK, PhaseOK, PhaseSet
<1>f. NoFence \in Fences /\ NoActor \in Users
  BY DEF NoFence, Fences, Users
<1>1. PhaseOK'
  <2>1. CASE UNCHANGED phase
    BY <2>1, <1>t DEF PhaseOK, IsAuthenticated
  <2>2. CASE \E kind \in PhaseKinds \ {"authenticated", "authenticatedPendingCompletion"} :
               Enter(kind)
    BY <2>2, <1>f DEF Enter, Phase, PhaseOK, PhaseSet, IsAuthenticated
  <2>3. CASE \E kind \in {"authenticated", "authenticatedPendingCompletion"}, user \in Actors,
                avatar \in Fences :
               phase' = [kind |-> kind, user |-> user, avatar |-> avatar]
    BY <2>3, IdentityAssumption DEF PhaseOK, PhaseSet, IsAuthenticated, Users, PhaseKinds
  <2>4. CASE IsAuthenticated(phase) /\ \E user \in Actors, avatar \in Fences :
               phase' = [phase EXCEPT !.user = user, !.avatar = avatar]
    BY <2>4, <1>t, IdentityAssumption DEF PhaseOK, PhaseSet, IsAuthenticated, Users
  <2> QED
    BY <2>1, <2>2, <2>3, <2>4, PhaseStep DEF PhaseChanges
<1>2. PendingOK'
  <2>0. session'.epoch \in Nat /\ session.epoch =< session'.epoch
    BY SessionGood DEF SessionSet
  <2>1. CASE UNCHANGED pending
    BY <1>t, <2>0, <2>1, Typed DEF PendingOK
  <2>2. CASE pending' = NoPending
    BY <1>f, <2>0, <2>2, ConstantsGood DEF PendingOK, NoPending
  <2>3. CASE \E fence \in GoodFences(session'.epoch), policy \in {"local-decode", "network-sync"} :
               pending' = [fence |-> fence, policy |-> policy]
    BY <2>3 DEF PendingOK, GoodFences
  <2> QED
    BY <2>1, <2>2, <2>3, PhaseStep DEF PendingChanges
<1> QED
  BY <1>1, <1>2

\* The native side, the broadcasts and the counters.
LEMMA RestGood ==
    ASSUME IInv, [Next]_vars
    PROVE  /\ flag' \in BOOLEAN /\ bound' \in Users /\ active' \in Users
           /\ bus' \in Seq([reason : Reasons, actor : Users, local : BOOLEAN])
           /\ count' \in [flows : 0..MaxFlows, revokes : 0..MaxRevokes, remote : 0..MaxRemote]
<1>t. /\ flag \in BOOLEAN /\ bound \in Users /\ active \in Users
      /\ bus \in Seq([reason : Reasons, actor : Users, local : BOOLEAN])
      /\ count \in [flows : 0..MaxFlows, revokes : 0..MaxRevokes, remote : 0..MaxRemote]
      /\ \A t \in Tasks : task[t].actor \in Users
  BY TypedNow DEF IInv, TypeOK
<1>no. NoActor \in Users
  BY DEF Users
<1> DEFINE Message == [reason : Reasons, actor : Users, local : BOOLEAN]
<1>send. ASSUME NEW reason \in Reasons, NEW actor \in Users, NEW local \in BOOLEAN,
                Broadcast(reason, actor, local)
         PROVE  bus' \in Seq(Message)
  BY <1>send, <1>t DEF Broadcast
<1>bind. ASSUME NEW op \in UserOps, NEW actor \in Users, NativeBind(op, actor)
         PROVE  bound' \in Users /\ active' \in Users /\ bus' \in Seq(Message)
  <2>1. ReasonOf(op) \in Reasons
    BY DEF ReasonOf, Reasons, UserOps
  <2> QED
    BY <1>bind, <1>send, <2>1 DEF NativeBind
<1>out. NativeLogout => bound' \in Users /\ active' \in Users /\ bus' \in Seq(Message)
  BY <1>t, <1>no, <1>send DEF NativeLogout, Reasons
<1>keep. NativeUnchanged => bound' \in Users /\ active' \in Users /\ bus' \in Seq(Message)
  BY <1>t DEF NativeUnchanged
<1>flow. CountFlow => count' \in [flows : 0..MaxFlows, revokes : 0..MaxRevokes, remote : 0..MaxRemote]
  BY <1>t, IdentityAssumption DEF CountFlow
<1>1. CASE \E t \in Tasks : TaskStep(t)
  <2> PICK t \in Tasks : TaskStep(t)
    BY <1>1
  <2>1. UNCHANGED count /\ flag' \in BOOLEAN
    BY <1>t DEF TaskStep, RestoreAnswered, RestoreUnauthorized, RestoreFailed,
       OAuthAcknowledgementPending, OAuthAcknowledgementRetry, RestoreBound,
       RestoreBindFailed, ResolveBound, ResolveBindFailed, SignInAuthenticated, SignInBound,
       SignInBindFailed, PipelineTail, SwitchLoaded, SwitchAuthenticated, SwitchValidated,
       UnlockAuthenticated, ActivateAuthenticatedSession, SignInRefused, SwitchDetached,
       SignInAborted, CompletionBound, CompletionBindFailed, DecodeSettled,
       ClosureSettled, ProfileSynced, ProfileSyncFailed, FallbackAvatarSynced,
       FallbackAvatarFailed, AccountsRefreshed, AccountRefreshFailed,
       LogoutAnswered, GateLoaded
  <2>2. \/ NativeUnchanged \/ NativeLogout
        \/ \E op \in UserOps : NativeBind(op, task[t].actor)
        \/ /\ bound' \in {NoActor, active} /\ active' \in {active, task[t].actor}
           /\ UNCHANGED bus
    BY DEF TaskStep, RestoreAnswered, RestoreUnauthorized, RestoreFailed,
       OAuthAcknowledgementPending, OAuthAcknowledgementRetry, RestoreBound,
       RestoreBindFailed, ResolveBound, ResolveBindFailed, SignInAuthenticated, SignInBound,
       SignInBindFailed, PipelineTail, SwitchLoaded, SwitchAuthenticated, SwitchValidated,
       UnlockAuthenticated, ActivateAuthenticatedSession, SignInRefused, SwitchDetached,
       SignInAborted, CompletionBound, CompletionBindFailed, DecodeSettled,
       ClosureSettled, ProfileSynced, ProfileSyncFailed, FallbackAvatarSynced,
       FallbackAvatarFailed, AccountsRefreshed, AccountRefreshFailed,
       LogoutAnswered, GateLoaded, At, UserOps
  <2> QED
    BY <1>t, <1>no, <1>keep, <1>out, <1>bind, <2>1, <2>2
<1>2. CASE Boot \/ RevalidateIfNeeded \/ \E user \in Actors : BootApplet(user)
  BY <1>2, <1>t, <1>keep DEF Boot, RevalidateIfNeeded, BootApplet
<1>3. CASE \/ CompleteCurrentSession \/ RefreshCurrentProfile \/ Logout
           \/ \E op \in UserOps, user \in Actors : StartSignIn(op, user)
  <2>1. CountFlow /\ NativeUnchanged /\ flag' \in BOOLEAN
    BY <1>3, <1>t DEF CompleteCurrentSession, RefreshCurrentProfile, Logout, StartSignIn
  <2> QED
    BY <1>flow, <1>keep, <2>1
<1>4. CASE SessionRevoked
  <2>1. count' \in [flows : 0..MaxFlows, revokes : 0..MaxRevokes, remote : 0..MaxRemote]
    BY <1>4, <1>t, IdentityAssumption DEF SessionRevoked
  <2> QED
    BY <1>4, <1>t, <1>keep, <2>1 DEF SessionRevoked
<1>5. CASE \E reason \in Reasons, actor \in Users : RemoteChange(reason, actor)
  <2>1. count' \in [flows : 0..MaxFlows, revokes : 0..MaxRevokes, remote : 0..MaxRemote]
    BY <1>5, <1>t, IdentityAssumption DEF RemoteChange
  <2> QED
    BY <1>5, <1>t, <1>send, <2>1 DEF RemoteChange
<1>6. CASE IdentityChanged
  <2>1. bus # <<>> /\ bus' = Tail(bus) /\ flag' = FALSE /\ UNCHANGED <<bound, active, count>>
    BY <1>6 DEF IdentityChanged
  <2>2. bus' \in Seq(Message)
    BY <1>t, <2>1
  <2> QED
    BY <1>t, <2>1, <2>2
<1>7. CASE UNCHANGED vars
  BY <1>7, <1>t DEF vars
<1> QED
  BY <1>1, <1>2, <1>3, <1>4, <1>5, <1>6, <1>7 DEF Next

\* The invariant is inductive.
LEMMA InvInit == Init => IInv
<1> SUFFICES ASSUME Init PROVE IInv
  OBVIOUS
<1>c. /\ session.epoch = 0 /\ NoFence \in GoodFences(0) /\ NoTask \in GoodTasks(0)
      /\ NoActor \in Users /\ NoFence \in Fences
  BY ConstantsGood DEF Init, Users, NoFence, Fences
<1>1. \A t \in Tasks : task[t] \in GoodTasks(session.epoch)
  BY <1>c DEF Init
<1>2. pending.fence \in GoodFences(session.epoch) /\ LateProfileDropped
  BY <1>c DEF Init, NoPending, LateProfileDropped, FenceOf, NoFence
<1>3. task \in [Tasks -> TaskSet]
  BY <1>c DEF Init, GoodTasks
<1>4. bus \in Seq([reason : Reasons, actor : Users, local : BOOLEAN])
  BY DEF Init
<1>5. count \in [flows : 0..MaxFlows, revokes : 0..MaxRevokes, remote : 0..MaxRemote]
  BY IdentityAssumption DEF Init
<1>6. PhaseOK
  BY <1>c DEF Init, Phase, PhaseOK, PhaseSet, PhaseKinds, IsAuthenticated
<1>7. /\ session \in [user : Users, epoch : Nat, profile : Fences]
      /\ pending \in [fence : Fences, policy : {"none", "local-decode", "network-sync"}]
  BY <1>c DEF Init, NoPending
<1> QED
  BY <1>c, <1>1, <1>2, <1>3, <1>4, <1>5, <1>6, <1>7 DEF IInv, TypeOK, PhaseOK, PhaseSet,
     Init, TaskSet

\* Each part by the lemma about it.
LEMMA InvStep == IInv /\ [Next]_vars => IInv'
<1> SUFFICES ASSUME IInv, [Next]_vars PROVE IInv'
  OBVIOUS
<1>1. task' \in [Tasks -> GoodTasks(session'.epoch)]
  BY TasksGood
<1>2. task' \in [Tasks -> TaskSet] /\ \A t \in Tasks : task'[t] \in GoodTasks(session'.epoch)
  BY <1>1 DEF GoodTasks
<1>3. session' \in SessionSet /\ LateProfileDropped'
  BY SessionGood
<1>4. PhaseOK' /\ PendingOK'
  BY PhaseGood
<1> QED
  BY <1>2, <1>3, <1>4, RestGood DEF IInv, TypeOK, TaskSet, SessionSet, PhaseOK, PhaseSet,
     PendingOK

\* Every variable keeps its type, and only an authenticated phase has a user.
THEOREM IdentityTypeCorrect == Spec => []TypeOK
<1>1. IInv => TypeOK
  BY DEF IInv
<1> QED
  BY <1>1, InvInit, InvStep, PTL DEF Spec

\* The profile a session shows was asked for by that same session: late answers are
\* dropped, whatever signs in, out or in again meanwhile (reconcileAuthenticatedIdentity).
THEOREM IdentityLateProfileDropped == Spec => []LateProfileDropped
<1>1. IInv => LateProfileDropped
  BY DEF IInv
<1> QED
  BY <1>1, InvInit, InvStep, PTL DEF Spec

-----------------------------------------------------------------------------
(* Fences.                                                                 *)

\* No operation in flight and no pending completion ever finds the session it was
\* started for again, once that is gone (captureSessionFence, fenceIsLive).  It rests on
\* the invariant that none of them holds the fence of a session that is still to come,
\* and on sessions being counted up by every commit and every reset.
THEOREM IdentityFencesStayStale == Spec => StaleFenceStaysStale
<1> DEFINE Stale == \A fence \in HeldFences \ {NoFence} :
                      fence # CaptureSessionFence => fence # CaptureSessionFence'
<1>1. ASSUME IInv, [Next]_vars PROVE Stale
  <2> SUFFICES ASSUME NEW fence \in HeldFences \ {NoFence}, fence = CaptureSessionFence'
               PROVE  fence = CaptureSessionFence
    OBVIOUS
  <2>1. fence \in GoodFences(session.epoch)
    BY <1>1, TypedNow DEF HeldFences
  <2>2. /\ session.epoch \in Nat /\ session'.epoch \in Nat /\ session.epoch =< session'.epoch
        /\ session'.epoch = session.epoch => session'.user = session.user
    BY <1>1, SessionGood, TypedNow DEF SessionSet
  <2>3. fence.epoch \in Nat /\ fence.epoch =< session.epoch
    BY <2>1 DEF GoodFences, Fences
  <2>4. /\ session'.user # NoActor
        /\ fence = [epoch |-> session'.epoch, actor |-> session'.user]
    BY DEF CaptureSessionFence, FenceOf
  <2>5. session'.epoch = session.epoch
    BY <2>2, <2>3, <2>4
  <2> QED
    BY <2>2, <2>4, <2>5 DEF CaptureSessionFence, FenceOf
<1>2. Spec => []IInv
  BY InvInit, InvStep, PTL DEF Spec
<1>3. IInv /\ [Next]_vars => [Stale]_vars
  BY <1>1
<1> QED
  BY <1>2, <1>3, PTL DEF Spec, StaleFenceStaysStale
=============================================================================
