-------------------------- MODULE MCAppletRuntime --------------------------
(* Finite instances of AppletRuntime for TLC. *)
EXTENDS AppletRuntime, TLC

AppletPermutations == Permutations(Applets)

-----------------------------------------------------------------------------
(* What comments, documents and tests of the repository say and the code does *)
(* not do: TLC refutes each of these (README, section 6).                     *)

\* Reclaiming memory never destroys the applet on screen.
VisibleStaysInteractive ==
    [][\A a \in Applets, t \in Timers :
            registry[a].state = "visible" => unloading'[a][t] <= unloading[a][t]]_vars

\* Only the page the shell shows has a visible applet: one whose load ends after
\* the user went elsewhere does not count as on screen, where no sweep could
\* reclaim it.
VisibleIsForeground ==
    \A a \in Applets : registry[a].state = "visible" => foreground = a

\* Opening the page of a reclaimed applet is a cold start: an instance is there
\* or a load is on its way.
ReopenIsColdStart ==
    [][\A a \in Applets : page # a /\ page' = a => Registered(a)' \/ load'[a] # "idle"]_vars

\* There is one unload path and no double unload.
NoDoubleUnload ==
    \A a \in Applets, o, p \in Origins :
        unloading[a][o] > 0 /\ unloading[a][p] > 0 => o = p /\ unloading[a][o] = 1

\* A visible applet that nobody is destroying talks to the gateway with the
\* session the gateway created for it.
VisibleSessionIsLive ==
    \A a \in Applets :
        registry[a].state = "visible" /\ ~InFlight(a) => surface[a].host = manager[a]
============================================================================
