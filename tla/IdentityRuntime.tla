--------------------------- MODULE IdentityRuntime ---------------------------
(***************************************************************************)
(* Who is signed in to one desktop window: the phase machine of            *)
(* identityRuntime.ts, the session mirror of store/session.ts, the         *)
(* identity pipeline and its handlers, and the bridge that receives the    *)
(* auth:identity-changed broadcasts of every window.                       *)
(*                                                                         *)
(* Granularity.  The renderer is one JavaScript thread and every operation *)
(* is an async function: a step is what runs between two awaits.  A task   *)
(* is an operation in flight, and its pc names the answer it awaits:       *)
(*   auth      the native command that changes the identity                *)
(*   validate  auth_validate_token                                         *)
(*   bind      station_binding_complete                                    *)
(*   tail      the asynchronous rest of the identity pipeline              *)
(*   restore   auth_restore_session, and rbind the binding it completes    *)
(*   retry     the timer that resolves again after a pending OAuth         *)
(*   load      the account list                                            *)
(*   avatar    the local decode of a fresh password login, or its budget   *)
(*   closure   the same of a fresh OAuth login, with its profile           *)
(*   profile   sync_user_profile                                           *)
(*   fallback  account_sync_avatar, after a profile that failed            *)
(* The phase keeps, of its readiness, which session's avatar it shows; the *)
(* other substates and the known-account list are presentation, and left   *)
(* out, as are the decodes that repaint the avatar later in the background *)
(* while their fence is live.                                              *)
(***************************************************************************)
EXTENDS Integers, FiniteSets, Sequences, FiniteSetsExt

CONSTANTS
    Actors,       \* the accounts of this device
    NoActor,      \* nobody
    MaxTasks,     \* bound on the operations in flight
    MaxFlows,     \* bound on the operations the user starts
    MaxUserFlows, \* bound on the sign-in operations in flight together
    MaxRevokes,   \* bound on the session_revoked answers
    MaxRemote,    \* bound on the identity changes made by other windows
    MaxEvents,    \* bound on these three together
    Faults        \* whether native commands may fail

ASSUME IdentityAssumption ==
    /\ NoActor \notin Actors
    /\ {MaxTasks, MaxFlows, MaxUserFlows, MaxRevokes, MaxRemote, MaxEvents}
         \subseteq Nat
    /\ Faults \in BOOLEAN

VARIABLES
    session,   \* the session mirror: currentUser, its profile, sessionEpoch
    phase,     \* IdentityRuntime.phase
    pending,   \* IdentityRuntime.pendingCompletion
    task,      \* the operations in flight
    flag,      \* localIdentityActionPending
    bound,     \* the actor the native side has bound to this window
    active,    \* the active account of the session vault, shared by all windows
    bus,       \* auth:identity-changed broadcasts not yet received
    count      \* operations, revocations and remote changes so far

vars == <<session, phase, pending, task, flag, bound, active, bus, count>>

Tasks == 1..MaxTasks

Users == Actors \cup {NoActor}

AuthGateKinds == {"accountGate", "pinGate", "revoked"}

PhaseKinds == AuthGateKinds \cup {"booting", "resolvingSession", "loggingOut",
                                  "authenticatedPendingCompletion", "authenticated"}

Reasons == {"login", "oauth_bridge", "switch", "unlock", "logout"}

UserOps == {"login", "oauth", "switch", "unlock"}

SyncOps == {"reconcile", "refresh"}

Ops == UserOps \cup SyncOps \cup {"logout", "resolve", "revoke", "complete", "pipeline"}

Pcs == {"auth", "validate", "bind", "tail", "restore", "rbind", "retry", "load", "avatar",
        "closure", "profile", "fallback"}

(***************************************************************************)
(* A fence names a session: its epoch and its actor.  The profile a        *)
(* session shows is named by the session that asked for it.                *)
(***************************************************************************)
NoFence == [epoch |-> 0, actor |-> NoActor]

Fences == [epoch : Nat, actor : Users]

NoPending == [fence |-> NoFence, policy |-> "none"]

NoTask == [op |-> "none", pc |-> "none", actor |-> NoActor, fence |-> NoFence]

FenceOf(s) ==
    IF s.user = NoActor THEN NoFence ELSE [epoch |-> s.epoch, actor |-> s.user]

CaptureSessionFence == FenceOf(session)

\* Mutation: a fence that compares the actor only
FenceIsLiveForActor(fence) == fence # NoFence /\ session.user = fence.actor

FenceIsLive(fence) ==
    /\ fence # NoFence
    /\ session.epoch = fence.epoch
    /\ session.user = fence.actor

(***************************************************************************)
(* The session mirror.                                                     *)
(***************************************************************************)
CommitAuthenticatedSession(user) ==
    session' = [user |-> user, epoch |-> session.epoch + 1,
                profile |-> [epoch |-> session.epoch + 1, actor |-> user]]

\* Mutation: the reset store starts counting sessions from the beginning
ResetSessionCounter ==
    session' = [user |-> NoActor, epoch |-> 0, profile |-> NoFence]

ResetSession ==
    session' = [user |-> NoActor, epoch |-> session.epoch + 1, profile |-> NoFence]

UpdateProfile(answer) == session' = [session EXCEPT !.profile = answer]

(***************************************************************************)
(* The phase machine.  Only an authenticated phase has a user, and an      *)
(* avatar presentation: the fence of the session that painted it last, no  *)
(* fence while none has.                                                   *)
(***************************************************************************)
Phase(kind, user) == [kind |-> kind, user |-> user, avatar |-> NoFence]

Enter(kind) == phase' = Phase(kind, NoActor)

Authenticated(user) == phase' = Phase("authenticated", user)

IsAuthenticated(p) == p.kind \in {"authenticated", "authenticatedPendingCompletion"}

\* the user's profile, with the avatar it has
UpdateAuthenticated(user) ==
    phase' = IF IsAuthenticated(phase)
               THEN [phase EXCEPT !.user = user, !.avatar = CaptureSessionFence]
               ELSE phase

\* AVATAR_PRESENTATION_UPDATED patches whatever authenticated phase p is there
Painted(p, fence) == IF IsAuthenticated(p) THEN [p EXCEPT !.avatar = fence] ELSE p

LoadAuthGate == Enter("accountGate")

(***************************************************************************)
(* Tasks.                                                                  *)
(***************************************************************************)
Idle == {t \in Tasks : task[t] = NoTask}

Running(ops) == {t \in Tasks : task[t].op \in ops}

Spawn(op, pc, actor) ==
    /\ Idle # {}
    /\ task' = [task EXCEPT ![Min(Idle)] =
                  [op |-> op, pc |-> pc, actor |-> actor, fence |-> NoFence]]

\* clearTimeout(oauthAcknowledgementRetryTimer)
CancelRetry == [t \in Tasks |-> IF task[t].pc = "retry" THEN NoTask ELSE task[t]]

SpawnCancellingRetry(op, pc) ==
    /\ Idle # {}
    /\ task' = [CancelRetry EXCEPT ![Min(Idle)] =
                  [op |-> op, pc |-> pc, actor |-> NoActor, fence |-> NoFence]]

Move(t, pc, actor, fence) ==
    task' = [task EXCEPT ![t] =
               [op |-> task[t].op, pc |-> pc, actor |-> actor, fence |-> fence]]

Goto(t, pc) == Move(t, pc, task[t].actor, task[t].fence)

End(t) == task' = [task EXCEPT ![t] = NoTask]

At(t, ops, pc) == task[t].op \in ops /\ task[t].pc = pc

(***************************************************************************)
(* reconcileAuthenticatedIdentity and refreshCurrentProfile ask for the    *)
(* profile of the window's bound actor, on behalf of the session the fence *)
(* names.                                                                  *)
(***************************************************************************)
Sync(op, fence) == [op |-> op, pc |-> "profile", actor |-> bound, fence |-> fence]

(***************************************************************************)
(* acceptAuthenticatedEdge: enter the authenticated phase and reconcile in *)
(* the background.  A fresh login also records the pending completion the  *)
(* login page will settle.  The task that reaches the edge, with session   *)
(* s in the mirror, carries the reconciliation on.                         *)
(***************************************************************************)
AcceptAuthenticatedEdge(t, kind, user, s) ==
    /\ IF kind \in {"login", "oauth"}
         THEN /\ phase' = Phase("authenticatedPendingCompletion", user)
              /\ pending' = IF FenceOf(s) = NoFence THEN NoPending
                            ELSE [fence |-> FenceOf(s),
                                  policy |-> IF kind = "login" THEN "local-decode"
                                                               ELSE "network-sync"]
         ELSE Authenticated(user) /\ UNCHANGED pending
    /\ task' = [task EXCEPT ![t] = Sync("reconcile", FenceOf(s))]

AcceptEdgeFromSession(t, kind, s) ==
    IF s.user = NoActor
      THEN End(t) /\ UNCHANGED <<phase, pending>>
      ELSE AcceptAuthenticatedEdge(t, kind, s.user, s)

(***************************************************************************)
(* The native side: a successful command binds the window, makes the       *)
(* account the vault's active one and broadcasts the change to every       *)
(* window.                                                                 *)
(***************************************************************************)
ReasonOf(op) == IF op = "oauth" THEN "oauth_bridge" ELSE op

Broadcast(reason, actor, local) ==
    bus' = Append(bus, [reason |-> reason, actor |-> actor, local |-> local])

NativeBind(op, actor) ==
    /\ bound' = actor
    /\ active' = actor
    /\ Broadcast(ReasonOf(op), actor, TRUE)

NativeLogout ==
    /\ bound' = NoActor
    /\ active' \in IF Faults THEN {NoActor, active} ELSE {NoActor}
    /\ Broadcast("logout", NoActor, TRUE)

NativeUnchanged == UNCHANGED <<bound, active, bus>>

TypeOK ==
    /\ session \in [user : Users, epoch : Nat, profile : Fences]
    /\ phase \in [kind : PhaseKinds, user : Users, avatar : Fences]
    /\ phase.user # NoActor <=> IsAuthenticated(phase)
    /\ phase.avatar # NoFence => IsAuthenticated(phase)
    /\ pending \in [fence : Fences, policy : {"none", "local-decode", "network-sync"}]
    /\ task \in [Tasks -> [op : Ops \cup {"none"}, pc : Pcs \cup {"none"},
                           actor : Users, fence : Fences]]
    /\ flag \in BOOLEAN
    /\ bound \in Users
    /\ active \in Users
    /\ bus \in Seq([reason : Reasons, actor : Users, local : BOOLEAN])
    /\ count \in [flows : 0..MaxFlows, revokes : 0..MaxRevokes, remote : 0..MaxRemote]

Init ==
    /\ session = [user |-> NoActor, epoch |-> 0, profile |-> NoFence]
    /\ phase = Phase("booting", NoActor)
    /\ pending = NoPending
    /\ task = [t \in Tasks |-> NoTask]
    /\ flag = FALSE
    /\ bound = NoActor
    /\ active \in Users
    /\ bus = <<>>
    /\ count = [flows |-> 0, revokes |-> 0, remote |-> 0]

MayCount == count.flows + count.revokes + count.remote < MaxEvents

CountFlow ==
    /\ MayCount
    /\ count.flows < MaxFlows
    /\ count' = [count EXCEPT !.flows = @ + 1]

(***************************************************************************)
(* boot and resolveSession.                                                *)
(***************************************************************************)
ResolveSession ==
    /\ SpawnCancellingRetry("resolve", "restore")
    /\ Enter("resolvingSession")

Boot ==
    /\ phase.kind = "booting"
    /\ ResolveSession
    /\ UNCHANGED <<session, pending, flag, count>>
    /\ NativeUnchanged

BootApplet(user) ==
    /\ phase.kind = "booting"
    /\ CommitAuthenticatedSession(user)
    /\ Authenticated(user)
    /\ UNCHANGED <<pending, task, flag, count>>
    /\ NativeUnchanged

RevalidateIfNeeded ==
    /\ phase.kind = "authenticated"
    /\ session.user = NoActor
    /\ ResolveSession
    /\ UNCHANGED <<session, pending, flag, count>>
    /\ NativeUnchanged

(***************************************************************************)
(* restoreSession, awaited by resolveSession, by the pipeline of a login   *)
(* and by the pipeline of a remote login.  Afterwards resolveSession binds *)
(* once more or opens the account gate, a login reaches its edge, and a    *)
(* remote pipeline is done.                                                *)
(***************************************************************************)
RestoreOps == {"resolve", "login", "oauth", "pipeline"}

RestoreAnswered(t) ==
    /\ At(t, RestoreOps, "restore")
    /\ active # NoActor
    /\ bound' = active
    /\ Move(t, "rbind", active, task[t].fence)
    /\ UNCHANGED <<session, phase, pending, flag, active, bus, count>>

\* with session s in the mirror: the pipeline swallows the error of its handler
AfterFailedRestore(t, s) ==
    IF task[t].op \in {"login", "oauth"} THEN AcceptEdgeFromSession(t, task[t].op, s)
    ELSE /\ End(t)
         /\ IF task[t].op = "resolve" THEN LoadAuthGate ELSE UNCHANGED phase
         /\ UNCHANGED pending

RestoreUnauthorized(t) ==
    /\ At(t, RestoreOps, "restore")
    /\ ResetSession
    /\ AfterFailedRestore(t, session')
    /\ UNCHANGED <<flag, count>>
    /\ NativeUnchanged

RestoreFailed(t) ==
    /\ Faults
    /\ At(t, RestoreOps, "restore")
    /\ AfterFailedRestore(t, session)
    /\ UNCHANGED <<session, flag, count>>
    /\ NativeUnchanged

OAuthAcknowledgementPending(t) ==
    /\ Faults
    /\ At(t, {"resolve"}, "restore")
    /\ Goto(t, "retry")
    /\ UNCHANGED <<session, phase, pending, flag, count>>
    /\ NativeUnchanged

OAuthAcknowledgementRetry(t) ==
    /\ At(t, {"resolve"}, "retry")
    /\ Goto(t, "restore")
    /\ Enter("resolvingSession")
    /\ UNCHANGED <<session, pending, flag, count>>
    /\ NativeUnchanged

RestoreBound(t) ==
    /\ At(t, RestoreOps, "rbind")
    /\ CommitAuthenticatedSession(task[t].actor)
    /\ IF task[t].op \in {"login", "oauth"}
         THEN AcceptEdgeFromSession(t, task[t].op, session')
         ELSE /\ IF task[t].op = "resolve" THEN Goto(t, "bind") ELSE End(t)
              /\ UNCHANGED <<phase, pending>>
    /\ UNCHANGED <<flag, count>>
    /\ NativeUnchanged

\* the binding is rolled back; an UNAUTHORIZED one also loses the session
RestoreBindFailed(t) ==
    /\ Faults
    /\ At(t, RestoreOps, "rbind")
    /\ NativeLogout
    /\ ResetSession \/ UNCHANGED session
    /\ AfterFailedRestore(t, session')
    /\ UNCHANGED <<flag, count>>

ResolveBound(t) ==
    /\ At(t, {"resolve"}, "bind")
    /\ AcceptEdgeFromSession(t, "restored_session", session)
    /\ UNCHANGED <<session, flag, count>>
    /\ NativeUnchanged

ResolveBindFailed(t) ==
    /\ Faults
    /\ At(t, {"resolve"}, "bind")
    /\ LoadAuthGate
    /\ End(t)
    /\ UNCHANGED <<session, pending, flag, count>>
    /\ NativeUnchanged

(***************************************************************************)
(* The sign-in operations of the login page: accessSubmitLogin,            *)
(* loginWithOAuth, switchAccount and unlockWithPin.  Each marks the        *)
(* identity change as local before the native command.                     *)
(***************************************************************************)
StartSignIn(op, user) ==
    /\ phase.kind \in AuthGateKinds
    /\ Cardinality(Running(UserOps)) < MaxUserFlows
    /\ op # "switch" => Running({op}) = {}
    /\ CountFlow
    /\ Spawn(op, "auth", user)
    /\ flag' = TRUE
    /\ IF op = "unlock" THEN Enter("resolvingSession") ELSE UNCHANGED phase
    /\ UNCHANGED <<session, pending>>
    /\ NativeUnchanged

\* a login or an OAuth bridge activates the session once the Station is bound
SignInAuthenticated(t) ==
    /\ At(t, {"login", "oauth"}, "auth")
    /\ NativeBind(task[t].op, task[t].actor)
    /\ Goto(t, "bind")
    /\ UNCHANGED <<session, phase, pending, flag, count>>

SignInBound(t) ==
    /\ At(t, {"login", "oauth"}, "bind")
    /\ CommitAuthenticatedSession(task[t].actor)
    /\ Goto(t, "tail")
    /\ UNCHANGED <<phase, pending, flag, count>>
    /\ NativeUnchanged

SignInBindFailed(t) ==
    /\ Faults
    /\ At(t, {"login", "oauth"}, "bind")
    /\ NativeLogout
    /\ End(t)
    /\ UNCHANGED <<session, phase, pending, flag, count>>

\* the pipeline's last handler restores a session that was lost meanwhile;
\* otherwise a login reaches its fresh edge
PipelineTail(t) ==
    /\ At(t, {"login", "oauth", "pipeline"}, "tail")
    /\ IF session.user = NoActor THEN Goto(t, "restore") /\ UNCHANGED <<phase, pending>>
       ELSE IF task[t].op = "pipeline" THEN End(t) /\ UNCHANGED <<phase, pending>>
       ELSE AcceptEdgeFromSession(t, task[t].op, session)
    /\ UNCHANGED <<session, flag, count>>
    /\ NativeUnchanged

\* the restored edge of a switch or an unlock
SwitchLoaded(t) ==
    /\ At(t, {"switch", "unlock"}, "load")
    /\ AcceptEdgeFromSession(t, task[t].op, session)
    /\ UNCHANGED <<session, flag, count>>
    /\ NativeUnchanged

\* switch and unlock: the pipeline clears another actor's session first
ClearOtherActor(user) ==
    IF session.user # user THEN ResetSession ELSE UNCHANGED session

SwitchAuthenticated(t) ==
    /\ At(t, {"switch"}, "auth")
    /\ NativeBind("switch", task[t].actor)
    /\ Goto(t, "validate")
    /\ UNCHANGED <<session, phase, pending, flag, count>>

SwitchValidated(t) ==
    /\ At(t, {"switch"}, "validate")
    /\ bound # NoActor
    /\ ClearOtherActor(bound)
    /\ Move(t, "bind", bound, task[t].fence)
    /\ UNCHANGED <<phase, pending, flag, count>>
    /\ NativeUnchanged

UnlockAuthenticated(t) ==
    /\ At(t, {"unlock"}, "auth")
    /\ NativeBind("unlock", task[t].actor)
    /\ ClearOtherActor(task[t].actor)
    /\ Goto(t, "bind")
    /\ UNCHANGED <<phase, pending, flag, count>>

ActivateAuthenticatedSession(t) ==
    /\ At(t, {"switch", "unlock"}, "bind")
    /\ CommitAuthenticatedSession(task[t].actor)
    /\ Goto(t, "load")
    /\ UNCHANGED <<phase, pending, flag, count>>
    /\ NativeUnchanged

\* the native command is refused: only switch and unlock take the mark back
SignInRefused(t) ==
    /\ Faults
    /\ At(t, UserOps, "auth")
    /\ flag' = IF task[t].op \in {"switch", "unlock"} THEN FALSE ELSE flag
    /\ IF task[t].op = "unlock" THEN Enter("pinGate") ELSE UNCHANGED phase
    /\ End(t)
    /\ UNCHANGED <<session, pending, count>>
    /\ NativeUnchanged

\* a switch that detached the old actor and then failed, before or after it made
\* the new account the active one
SwitchDetached(t) ==
    /\ Faults
    /\ At(t, {"switch"}, "auth")
    /\ flag' = FALSE
    /\ bound' = NoActor
    /\ active' \in {active, task[t].actor}
    /\ ResetSession
    /\ LoadAuthGate
    /\ End(t)
    /\ UNCHANGED <<pending, bus, count>>

\* the validation of a switch, or the binding of a switch or an unlock, fails
SignInAborted(t) ==
    /\ Faults
    /\ \/ At(t, {"switch"}, "validate")
       \/ At(t, {"switch", "unlock"}, "bind")
    /\ End(t)
    /\ UNCHANGED <<session, phase, pending, flag, count>>
    /\ NativeUnchanged

(***************************************************************************)
(* completeCurrentSession, called from the login page: one completion at a *)
(* time, for the user the session had when it began.                       *)
(***************************************************************************)
CompleteCurrentSession ==
    /\ phase.kind \in AuthGateKinds \cup {"authenticatedPendingCompletion"}
    /\ session.user # NoActor
    /\ Running({"complete"}) = {}
    /\ CountFlow
    /\ Spawn("complete", "bind", session.user)
    /\ UNCHANGED <<session, phase, pending, flag>>
    /\ NativeUnchanged

\* LOGIN_COMPLETED takes phase p out of pending, and leaves any other as it is
LoginCompleted(p, user) ==
    IF p.kind = "authenticatedPendingCompletion"
      THEN [p EXCEPT !.kind = "authenticated",
                     !.user = IF session.user = NoActor THEN user ELSE session.user]
      ELSE p

CompletionBound(t) ==
    /\ At(t, {"complete"}, "bind")
    /\ IF phase.kind # "authenticatedPendingCompletion"
         THEN AcceptAuthenticatedEdge(t, "completed_login", task[t].actor, session)
         ELSE /\ pending' = NoPending
              /\ IF pending = NoPending
                   THEN /\ phase' = LoginCompleted(Painted(phase, NoFence), task[t].actor)
                        /\ End(t)
                 ELSE IF ~FenceIsLive(pending.fence) THEN End(t) /\ UNCHANGED phase
                 ELSE /\ Move(t, IF pending.policy = "local-decode" THEN "avatar" ELSE "closure",
                              task[t].actor, pending.fence)
                      /\ UNCHANGED phase
    /\ UNCHANGED <<session, flag, count>>
    /\ NativeUnchanged

CompletionBindFailed(t) ==
    /\ Faults
    /\ At(t, {"complete"}, "bind")
    /\ End(t)
    /\ UNCHANGED <<session, phase, pending, flag, count>>
    /\ NativeUnchanged

\* a password login paints its avatar before it looks at the fence again
DecodeSettled(t) ==
    /\ At(t, {"complete"}, "avatar")
    /\ LET painted == Painted(phase, task[t].fence) IN
         phase' = IF FenceIsLive(task[t].fence) THEN LoginCompleted(painted, task[t].actor)
                                                ELSE painted
    /\ End(t)
    /\ UNCHANGED <<session, pending, flag, count>>
    /\ NativeUnchanged

\* an OAuth login looks at the fence first
ClosureSettled(t) ==
    /\ At(t, {"complete"}, "closure")
    /\ phase' = IF FenceIsLive(task[t].fence)
                  THEN LoginCompleted(Painted(phase, task[t].fence), task[t].actor)
                  ELSE phase
    /\ End(t)
    /\ UNCHANGED <<session, pending, flag, count>>
    /\ NativeUnchanged

(***************************************************************************)
(* reconcileAuthenticatedIdentity and refreshCurrentProfile: the profile   *)
(* answer, then the account list, each dropped unless the fence is live.   *)
(***************************************************************************)
RefreshCurrentProfile ==
    /\ phase.kind = "authenticated"
    /\ session.user # NoActor
    /\ CountFlow
    /\ Idle # {}
    /\ task' = [task EXCEPT ![Min(Idle)] = Sync("refresh", CaptureSessionFence)]
    /\ UNCHANGED <<session, phase, pending, flag>>
    /\ NativeUnchanged

ProfileSynced(t) ==
    /\ At(t, SyncOps, "profile")
    /\ task[t].actor # NoActor
    /\ IF FenceIsLive(task[t].fence)
         THEN /\ UpdateProfile([epoch |-> task[t].fence.epoch, actor |-> task[t].actor])
              /\ UpdateAuthenticated(task[t].actor)
              /\ Goto(t, "load")
         ELSE End(t) /\ UNCHANGED <<session, phase>>
    /\ UNCHANGED <<pending, flag, count>>
    /\ NativeUnchanged

\* a reconciliation goes on; a refresh ends, or asks for the avatar it was given
ProfileSyncFailed(t) ==
    /\ Faults \/ task[t].actor = NoActor
    /\ At(t, SyncOps, "profile")
    /\ \/ ~FenceIsLive(task[t].fence) /\ End(t)
       \/ FenceIsLive(task[t].fence) /\ task[t].op = "reconcile" /\ Goto(t, "load")
       \/ FenceIsLive(task[t].fence) /\ task[t].op = "refresh" /\ (End(t) \/ Goto(t, "fallback"))
    /\ UNCHANGED <<session, phase, pending, flag, count>>
    /\ NativeUnchanged

\* the avatar is written over the profile of the user the refresh began with
FallbackAvatarSynced(t) ==
    /\ At(t, {"refresh"}, "fallback")
    /\ IF FenceIsLive(task[t].fence)
         THEN /\ UpdateProfile(task[t].fence)
              /\ UpdateAuthenticated(task[t].fence.actor)
              /\ Goto(t, "load")
         ELSE End(t) /\ UNCHANGED <<session, phase>>
    /\ UNCHANGED <<pending, flag, count>>
    /\ NativeUnchanged

FallbackAvatarFailed(t) ==
    /\ Faults
    /\ At(t, {"refresh"}, "fallback")
    /\ End(t)
    /\ UNCHANGED <<session, phase, pending, flag, count>>
    /\ NativeUnchanged

AccountsRefreshed(t) ==
    /\ At(t, SyncOps, "load")
    /\ IF FenceIsLive(task[t].fence) THEN UpdateAuthenticated(session.user)
                                     ELSE UNCHANGED phase
    /\ End(t)
    /\ UNCHANGED <<session, pending, flag, count>>
    /\ NativeUnchanged

AccountRefreshFailed(t) ==
    /\ Faults
    /\ At(t, SyncOps, "load")
    /\ End(t)
    /\ UNCHANGED <<session, phase, pending, flag, count>>
    /\ NativeUnchanged

(***************************************************************************)
(* revokeSession and logout end at the account gate.                       *)
(***************************************************************************)
RevokeSession ==
    /\ Enter("revoked")
    /\ ResetSession
    /\ Spawn("revoke", "tail", NoActor)

\* some native command was answered session_revoked
SessionRevoked ==
    /\ phase.kind # "booting"
    /\ MayCount
    /\ count.revokes < MaxRevokes
    /\ count' = [count EXCEPT !.revokes = @ + 1]
    /\ RevokeSession
    /\ UNCHANGED <<pending, flag>>
    /\ NativeUnchanged

Logout ==
    /\ phase.kind = "authenticated"
    /\ CountFlow
    /\ SpawnCancellingRetry("logout", "auth")
    /\ Enter("loggingOut")
    /\ flag' = TRUE
    /\ UNCHANGED <<session, pending>>
    /\ NativeUnchanged

\* Mutation: the cleanup error propagates before the gate is loaded
LogoutAnsweredNoGate(t) ==
    /\ At(t, {"logout"}, "auth")
    /\ NativeLogout
    /\ ResetSession
    /\ End(t)
    /\ UNCHANGED <<phase, pending, flag, count>>

LogoutAnswered(t) ==
    /\ At(t, {"logout"}, "auth")
    /\ NativeLogout
    /\ ResetSession
    /\ Goto(t, "tail")
    /\ UNCHANGED <<phase, pending, flag, count>>

GateLoaded(t) ==
    /\ At(t, {"logout", "revoke"}, "tail")
    /\ LoadAuthGate
    /\ End(t)
    /\ UNCHANGED <<session, pending, flag, count>>
    /\ NativeUnchanged

(***************************************************************************)
(* The bridge.  Another window changes its identity, and the vault's       *)
(* active account with it; every window then receives the broadcast.       *)
(***************************************************************************)
RemoteChange(reason, actor) ==
    /\ MayCount
    /\ count.remote < MaxRemote
    /\ count' = [count EXCEPT !.remote = @ + 1]
    /\ reason = "logout" <=> actor = NoActor
    /\ active' = actor
    /\ Broadcast(reason, actor, FALSE)
    /\ UNCHANGED <<session, phase, pending, task, flag, bound>>

LoginLike(reason) == reason \in {"login", "switch", "oauth_bridge"}

\* what the pipeline does to the session of a window that did not ask for it
RunIdentityPipeline(event) ==
    /\ IF event.reason = "logout" \/ session.user # event.actor THEN ResetSession
                                                               ELSE UNCHANGED session
    /\ IF event.reason \in {"login", "oauth_bridge"} THEN Spawn("pipeline", "tail", NoActor)
                                                     ELSE UNCHANGED task
    /\ UNCHANGED phase

SkipPipeline == flag

IdentityChanged ==
    /\ bus # <<>>
    /\ phase.kind # "booting"
    /\ bus' = Tail(bus)
    /\ flag' = FALSE
    /\ LET event == Head(bus)
           kicked == LoginLike(event.reason) /\ session.user = event.actor
           ignored == LoginLike(event.reason) /\ session.user \notin {NoActor, event.actor}
       IN  IF SkipPipeline \/ ignored THEN UNCHANGED <<session, phase, task>>
           ELSE IF kicked THEN RevokeSession
           ELSE RunIdentityPipeline(event)
    /\ UNCHANGED <<pending, bound, active, count>>

TaskStep(t) ==
    \/ RestoreAnswered(t) \/ RestoreUnauthorized(t) \/ RestoreFailed(t)
    \/ OAuthAcknowledgementPending(t) \/ OAuthAcknowledgementRetry(t)
    \/ RestoreBound(t) \/ RestoreBindFailed(t)
    \/ ResolveBound(t) \/ ResolveBindFailed(t)
    \/ SignInAuthenticated(t) \/ SignInBound(t) \/ SignInBindFailed(t)
    \/ PipelineTail(t) \/ SwitchLoaded(t)
    \/ SwitchAuthenticated(t) \/ SwitchValidated(t) \/ UnlockAuthenticated(t)
    \/ ActivateAuthenticatedSession(t) \/ SignInRefused(t) \/ SwitchDetached(t)
    \/ SignInAborted(t)
    \/ CompletionBound(t) \/ CompletionBindFailed(t) \/ DecodeSettled(t)
    \/ ClosureSettled(t)
    \/ ProfileSynced(t) \/ ProfileSyncFailed(t) \/ FallbackAvatarSynced(t)
    \/ FallbackAvatarFailed(t) \/ AccountsRefreshed(t) \/ AccountRefreshFailed(t)
    \/ LogoutAnswered(t) \/ GateLoaded(t)

Next ==
    \/ Boot
    \/ \E user \in Actors : BootApplet(user)
    \/ RevalidateIfNeeded
    \/ \E op \in UserOps, user \in Actors : StartSignIn(op, user)
    \/ CompleteCurrentSession
    \/ RefreshCurrentProfile
    \/ SessionRevoked
    \/ Logout
    \/ \E reason \in Reasons, actor \in Users : RemoteChange(reason, actor)
    \/ IdentityChanged
    \/ \E t \in Tasks : TaskStep(t)

Spec == Init /\ [][Next]_vars

(***************************************************************************)
(* Every command sent is answered, every broadcast is received, and React  *)
(* runs the effect that revalidates.                                       *)
(***************************************************************************)
FairSpec ==
    /\ Spec
    /\ \A t \in Tasks : WF_vars(TaskStep(t))
    /\ WF_vars(IdentityChanged)
    /\ WF_vars(RevalidateIfNeeded)

(***************************************************************************)
(* Properties.                                                             *)
(***************************************************************************)

(***************************************************************************)
(* The profile a session shows was asked for by that same session: an      *)
(* answer that was on its way while the window signed in again, even as    *)
(* the same actor, never lands in the newer session (the fences of         *)
(* reconcileAuthenticatedIdentity and refreshCurrentProfile).              *)
(***************************************************************************)
LateProfileDropped == session.profile.epoch = FenceOf(session).epoch

(***************************************************************************)
(* The session an operation in flight or a pending completion was started  *)
(* for, once it is gone, is gone for good: no sequence of sign-outs,       *)
(* revocations and sign-ins, of the same actor too, makes its fence live   *)
(* again, so that what an await brings back late can be told from what the *)
(* window's session asked for (captureSessionFence, fenceIsLive and the    *)
(* epochs of commitAuthenticatedSession and reset).                        *)
(***************************************************************************)
HeldFences == {task[t].fence : t \in Tasks} \cup {pending.fence}

StaleFenceStaysStale ==
    [][\A fence \in HeldFences \ {NoFence} :
         fence # CaptureSessionFence => fence # CaptureSessionFence']_vars

(***************************************************************************)
(* In between: the window signs out or was revoked, or its shell shows an  *)
(* authenticated actor whose session is gone (a logout broadcast by        *)
(* another window).                                                        *)
(***************************************************************************)
InBetween ==
    \/ phase.kind \in {"loggingOut", "revoked"}
    \/ phase.kind = "authenticated" /\ session.user = NoActor

(***************************************************************************)
(* No window stays in between, whatever native command fails: signing out  *)
(* and a revocation end at a gate, and revalidateIfNeeded restores the     *)
(* session that is gone or opens the account gate.                         *)
(***************************************************************************)
InBetweenEnds == InBetween ~> ~InBetween

=============================================================================
