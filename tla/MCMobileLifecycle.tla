-------------------------- MODULE MCMobileLifecycle --------------------------
(***************************************************************************)
(* Instances of MobileLifecycle for TLC.                                   *)
(***************************************************************************)
EXTENDS MobileLifecycle

\* Messaging depends on the session.
MCPair == <<"session", "messaging">>
MCPairDeps == [r \in {"session", "messaging"} |->
                 IF r = "messaging" THEN {"session"} ELSE {}]

-----------------------------------------------------------------------------
(* What comments, documents and tests of the repository say and the code does *)
(* not do: TLC refutes each of these (README, section 6).                     *)

\* In SUSPENDED no runtime works (the comment of LifecyclePhase).
SuspendedIsQuiet ==
  Idle /\ phase = "SUSPENDED" => \A r \in Runtimes : status[r] # "ready"

\* A runtime of an active graph that waits for its readiness has an update that can
\* still settle, by its deadline at the latest (beginReadinessUpdate).
PendingHasDeadline ==
  Idle /\ phase = "ACTIVE" =>
    \A r \in Runtimes : status[r] = "ready" /\ readiness[r] = "pending" =>
      \E u \in open : u.context.runtime = r /\ IsCurrent(u)

\* An active graph without an admitted session is not shown as the shell, which App
\* renders for three launch states.
ShellNeedsSession ==
  Idle /\ phase = "ACTIVE" /\ launch \in {"shell", "background", "resume"} => granted

\* A restart whose critical runtimes do not come up shows runtime-critical, and does
\* not leave the app in the launch state of a logout.
RestartNeverLogsOut ==
  [][op.kind = "restart" /\ launch # "logout" => launch' # "logout"]_vars
=============================================================================
