-------------------------- MODULE MCIdentityRuntime --------------------------
(* The accounts are model values; the bounds are the configuration's.          *)
EXTENDS IdentityRuntime

-----------------------------------------------------------------------------
(* What comments, documents and tests of the repository say and the code does *)
(* not do: TLC refutes each of these (README, section 6).                     *)

(***************************************************************************)
(* updateProfile updates the projection of the current actor: the profile  *)
(* a session shows is its own actor's.                                     *)
(***************************************************************************)
ProfileOfCurrentActor == session.profile.actor = session.user

(***************************************************************************)
(* completeCurrentSession authenticates the phase for the actor the        *)
(* session has: a completion that outlived its session never completes or  *)
(* paints the old actor.                                                   *)
(***************************************************************************)
NeverCompletesOldActor ==
    [][\A t \in Tasks :
         /\ At(t, {"complete"}, "bind")
         /\ task'[t] # task[t]
         /\ phase'.kind = "authenticated"
         => phase'.user = session.user]_vars

(***************************************************************************)
(* "A lapsed budget or a late older session enters the shell degraded      *)
(* without dispatching stale state" (identityRuntime.ts:551-552): no step  *)
(* paints the avatar of a session that is not the window's.                *)
(***************************************************************************)
NeverPaintsStaleAvatar ==
    [][phase'.avatar \notin {phase.avatar, NoFence} => phase'.avatar = CaptureSessionFence']_vars

(***************************************************************************)
(* The resuming view is shown while a session is being validated: some     *)
(* operation that will leave it is still in flight.                        *)
(***************************************************************************)
ResumingIsValidating ==
    phase.kind = "resolvingSession" => Running({"resolve", "unlock"}) # {}

(***************************************************************************)
(* Only the broadcast of this window's own change is kept from the         *)
(* pipeline by the mark of a local identity action.                        *)
(***************************************************************************)
OnlyLocalChangesSkipped ==
    [][bus # <<>> /\ bus' = Tail(bus) /\ ~Head(bus).local => ~SkipPipeline]_vars

(***************************************************************************)
(* A login in another window does not sign this window in: the pipeline of *)
(* a remote change never commits a session.                                *)
(***************************************************************************)
RemoteLoginNeverHydrates ==
    [][\A t \in Tasks : At(t, {"pipeline"}, "rbind") /\ task'[t] # task[t]
                         => session' = session]_vars
=============================================================================
