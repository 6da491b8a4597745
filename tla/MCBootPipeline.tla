--------------------------- MODULE MCBootPipeline ---------------------------
(* A small instance of BootPipeline: one critical runtime, and two idle ones *)
(* of which the second is also in the deferred list, as federation is.        *)
EXTENDS BootPipeline

MCCritical == <<"messaging">>
MCIdle == <<"settings", "federation">>
MCDeferred == <<"federation">>
MCEarly == {"xConfig"}

\* Two critical runtimes, for what goes wrong between them; one idle runtime, for
\* longer histories.
MCTwoCritical == <<"recovery", "messaging">>
MCOneIdle == <<"settings">>
MCNoDeferred == <<>>

-----------------------------------------------------------------------------
(* What comments, documents and tests of the repository say and the code does *)
(* not do: TLC refutes each of these (README, section 6).                     *)

\* The idle runtimes are bootstrapped "for the active actor" (boot.ts:171-172):
\* once sessions stop changing, the pipeline settles on the signed-in actor.
LastSessionStaysReady ==
  \A a \in Actors :
    (session.actor = a /\ session.epoch = MaxEpochs) ~> [](idle.ready = a)

\* After sign-out the session runtimes stay torn down ("teardown runs on logout
\* / actor switch", runtime.ts:30-33): no critical runtime is installed while
\* nobody is signed in.
CriticalStaysTornDown ==
  session.actor = NoActor => \A r \in Range(Critical) : ~rec[r].installed

\* The interface is released for a session only when the critical runtimes are
\* installed and bootstrapped for its actor ("MUST finish install/bootstrap
\* before Agent turn commands are exposed", runtime-projections.md:189).
CriticalReadyIsBootstrapped ==
  (session.actor # NoActor /\ ready = session.epoch) =>
     \A r \in Range(Critical) : rec[r].installed /\ rec[r].actor = session.actor

\* Idle session bootstraps are actor-scoped (runtime-projections.md:245): an
\* idle installer that is not fenced works for the signed-in actor.
IdleIsActorScoped ==
  \A l \in IdleLoops :
    (loops[l].pc = "await" /\ ~Fenced(loops[l])) => loops[l].actor = session.actor

\* The registry guards against duplicate concurrent bootstraps of one runtime
\* for one actor (runtime-projections.md:177), both begun since the last
\* teardown.
NoDuplicateBootstrap ==
  \A l, m \in Slots :
    (/\ l # m /\ loops[l].pc = "await" /\ loops[m].pc = "await"
     /\ loops[l].born = idle.generation /\ loops[m].born = idle.generation
     /\ LoopRuntime(loops[l]) = LoopRuntime(loops[m]))
      => BootActor(loops[l]) # BootActor(loops[m])
=============================================================================
