--------------------------- MODULE AppletRuntime ---------------------------
(***************************************************************************)
(* The desktop applet host: the page leases of appletsRuntime.ts, the      *)
(* applet kernel (instance registry, orchestrator, scheduler), the surface *)
(* manager and the capability sessions of AppletManager, composed.         *)
(*                                                                         *)
(* Granularity.  The host is one JavaScript thread.  A step is what runs   *)
(* between two macrotask awaits: the surface commands are synchronous, so  *)
(* every dispatch except a destroy is one step, whereas loading an applet  *)
(* (integrity fetch, then the gateway call that creates the session) and   *)
(* destroying its session (one gateway call) are split at those awaits.    *)
(***************************************************************************)
EXTENDS AppletScheduler

CONSTANTS
    NoApplet,       \* no applet page
    MaxNow,         \* bound on the clock
    MaxSession,     \* bound on the capability sessions the gateway mints
    MaxWaiting,     \* bound on the acquires that await one load
    MaxUnloads,     \* bound on the unloads of one applet and origin in flight
    PressureLevels  \* the memory pressure levels the monitor may sample

ASSUME RuntimeAssumption ==
    /\ NoApplet \notin Applets
    /\ MaxNow \in Nat
    /\ MaxSession \in Nat
    /\ MaxWaiting \in Nat
    /\ MaxUnloads \in Nat
    /\ PressureLevels \subseteq MemoryPressureLevels

VARIABLES
    registry,     \* DefaultInstanceRegistry.instances
    order,        \* its insertion order: the pairs <<a, b>> with a inserted before b
    surface,      \* SurfaceManager.records
    manager,      \* AppletManager.appletInstances: the session of each applet, 0 if none
    adopted,      \* DesktopSessionBackend.appletBySession: the sessions it knows
    load,         \* progress of the one load in flight per applet (loadAppletInFlight)
    waiting,      \* acquireAppletPage calls that await that load
    unloading,    \* AppletManager.unloadApplet calls in flight, by who issued them
    lease,        \* activeAppletPageIds
    foreground,   \* foregroundAppletPageId
    page,         \* the applet page the shell routes to
    closing,      \* explicit closes whose release waits for an animation frame
    batch,        \* the events each timer's dispatchAll has still to dispatch
    busy,         \* the timers whose dispatchAll awaits a destroy
    now,          \* Date.now()
    minted        \* number of sessions the gateway has created

vars == <<registry, order, surface, manager, adopted, load, waiting, unloading, lease,
          foreground, page, closing, batch, busy, now, minted>>

NoSession == 0

\* An instance record: its lifecycle state ("cold": not in the registry), its
\* session and the two times the scheduler looks at.
NoInstance ==
    [state |-> "cold", session |-> NoSession, lastHiddenAt |-> 0, lastTouchedAt |-> 0]

\* A host record: the session its <lynx-host> was created with (NoSession: no
\* host), whether it is displayed, whether its <lynx-view> was dropped.  The
\* flags of a record without a host, such as the one a show that throws leaves
\* behind, are never read; the page's slot is left out.
NoSurface == [host |-> NoSession, visible |-> FALSE, detached |-> FALSE]

\* The sweep timer and the memory monitor each run at most one dispatchAll at a
\* time here; the two overlap freely.
Timers == {"sweep", "memory"}

\* Who awaits an unload: a store unload, a kernel destroy of a page, a kernel
\* destroy of a timer's dispatchAll.
Origins == {"store", "kernel"} \cup Timers

Registered(a) == registry[a].state # "cold"

\* What an insertion order is when only the records of S remain.
Among(ord, S) == {e \in ord : e[1] \in S /\ e[2] \in S}

\* dispatchAll of timer t is about to dispatch its next event.
Ready(t) == batch[t] # <<>> /\ t \notin busy

\* A dispatchAll runs on without yielding until it awaits a gateway call.
Yielded == \A t \in Timers : ~Ready(t)

---------------------------------------------------------------------------
(* The initial state: the runtime is installed, no applet was opened. *)

Init ==
    /\ registry = [a \in Applets |-> NoInstance]
    /\ order = {}
    /\ surface = [a \in Applets |-> NoSurface]
    /\ manager = [a \in Applets |-> NoSession]
    /\ adopted = {}
    /\ load = [a \in Applets |-> "idle"]
    /\ waiting = [a \in Applets |-> 0]
    /\ unloading = [a \in Applets |-> [o \in Origins |-> 0]]
    /\ lease = {}
    /\ foreground = NoApplet
    /\ page = NoApplet
    /\ closing = {}
    /\ batch = [t \in Timers |-> <<>>]
    /\ busy = {}
    /\ now = 0
    /\ minted = 0

---------------------------------------------------------------------------
(* The surface manager: what a command leaves of a host record. *)

ShowSurface(rec, session) ==
    [host |-> IF rec.host = NoSession THEN session ELSE rec.host,
     visible |-> TRUE, detached |-> FALSE]

HideSurface(rec) == IF rec.host = NoSession THEN rec ELSE [rec EXCEPT !.visible = FALSE]

DetachSurface(rec) ==
    IF rec.host = NoSession THEN rec
    ELSE [host |-> rec.host, visible |-> FALSE, detached |-> TRUE]

\* createHost throws when the applet has no session.
SurfaceFails(event, rec, session) ==
    event \in {"show", "resume", "restore"} /\ rec.host = NoSession /\ session = NoSession

\* Mutation: a suspended applet is hidden, its view is kept.
SurfaceAfterKept(event, rec, session) ==
    CASE event \in {"show", "resume", "restore"} -> ShowSurface(rec, session)
      [] event \in {"hide", "suspend"} -> HideSurface(rec)
      [] OTHER -> rec

SurfaceAfter(event, rec, session) ==
    CASE event \in {"show", "resume", "restore"} -> ShowSurface(rec, session)
      [] event = "hide" -> HideSurface(rec)
      [] event = "suspend" -> DetachSurface(rec)
      [] OTHER -> rec

---------------------------------------------------------------------------
(* The orchestrator. *)

\* registry.setState
SetState(inst, state, at) ==
    [state |-> state, session |-> inst.session,
     lastHiddenAt |-> IF state = "hidden-warm" THEN at ELSE inst.lastHiddenAt,
     lastTouchedAt |-> at]

\* A dispatch of event to a, whose session in the manager is given, goes through:
\* the instance exists, the table allows the transition and the surface command
\* does not throw.
Accepted(a, event, session) ==
    /\ Registered(a)
    /\ IsValidTransition(registry[a].state, event)
    /\ ~SurfaceFails(event, surface[a], session)

\* Dispatch ev[a] to every applet a of the function ev's domain, at time `at'.
DispatchWith(ev, sessions, at) ==
    LET accepted == {a \in DOMAIN ev : Accepted(a, ev[a], sessions[a])}
    IN  /\ registry' = [a \in Applets |->
                          IF a \in accepted
                          THEN SetState(registry[a], NextState(ev[a]), at)
                          ELSE registry[a]]
        /\ surface' = [a \in Applets |->
                          IF a \in accepted
                          THEN SurfaceAfter(ev[a], surface[a], sessions[a])
                          ELSE surface[a]]

DispatchEach(ev, at) == DispatchWith(ev, manager, at)

Dispatch(a, event, at) == DispatchEach([x \in {a} |-> event], at)

\* AppletManager.unloadApplet reaches the gateway only for a loaded applet; the
\* kernel reaches unloadApplet only for a session the backend knows.
NeedsGateway(a, origin) ==
    /\ manager[a] # NoSession
    /\ origin # "store" => registry[a].session \in adopted

CallGateway(calls, origin) ==
    unloading' = [a \in Applets |->
                    IF a \in calls
                    THEN [unloading[a] EXCEPT ![origin[a]] = @ + 1]
                    ELSE unloading[a]]

\* Begin the destroy of the registered applets of origin's domain and the store
\* unload of the others: surfaces go first, then the session; a destroy that
\* needs no gateway call also removes its record in the same step.
Reclaim(origin) ==
    LET destroyed == {a \in DOMAIN origin : origin[a] # "store"}
        calls == {a \in DOMAIN origin : NeedsGateway(a, origin[a])}
        removed == destroyed \ calls
    IN  /\ surface' = [a \in Applets |-> IF a \in destroyed THEN NoSurface ELSE surface[a]]
        /\ adopted' = adopted \ {registry[a].session : a \in destroyed}
        /\ registry' = [a \in Applets |-> IF a \in removed THEN NoInstance ELSE registry[a]]
        /\ order' = Among(order, Applets \ removed)
        /\ CallGateway(calls, origin)

---------------------------------------------------------------------------
(* Pages: acquire, activate, close, release. *)

\* acquireAppletPage up to its first await.
AcquirePage(a) ==
    IF a \in lease
    THEN UNCHANGED <<lease, load, waiting>>
    ELSE /\ lease' = lease \cup {a}
         /\ load' = IF load[a] = "idle" THEN [load EXCEPT ![a] = "verify"] ELSE load
         /\ waiting' = [waiting EXCEPT ![a] = @ + 1]

\* notifyActiveAppletPage: hide the leaving applet, show the entering one.
NotifyActivePage(next) ==
    IF foreground = next
    THEN UNCHANGED <<registry, surface, foreground>>
    ELSE LET leaving == {a \in Applets : a = foreground /\ registry[a].state = "visible"}
             entering == {a \in Applets : /\ a = next
                                          /\ Registered(a)
                                          /\ registry[a].state # "visible"}
         IN  /\ DispatchEach([a \in leaving \cup entering |->
                                IF a \in leaving THEN "hide" ELSE "show"], now)
             /\ foreground' = next

\* The shell routes to the page of applet a (PageHost acquires the lease in a
\* child effect, ReadyView notifies in a parent effect).
OpenPage(a) ==
    /\ Yielded
    /\ page # a
    /\ waiting[a] < MaxWaiting
    /\ \A o \in Origins : unloading[a][o] < MaxUnloads
    /\ page' = a
    /\ AcquirePage(a)
    /\ NotifyActivePage(a)
    /\ UNCHANGED <<order, manager, adopted, unloading, closing, batch, busy, now, minted>>

\* The shell routes to a page that is no applet; handleClose also requests the
\* release of the page it leaves.
LeavePage(close) ==
    /\ Yielded
    /\ page # NoApplet
    /\ page' = NoApplet
    /\ closing' = IF close THEN closing \cup {page} ELSE closing
    /\ NotifyActivePage(NoApplet)
    /\ UNCHANGED <<order, manager, adopted, load, waiting, unloading, lease, batch,
                   busy, now, minted>>

\* releaseAppletPage: an explicit close, or PageHost evicts a page it hides.
ReleasePage(a) ==
    /\ Yielded
    /\ a \in closing \/ (a \in lease /\ a # page)
    /\ closing' = closing \ {a}
    /\ lease' = lease \ {a}
    /\ foreground' = IF foreground = a THEN NoApplet ELSE foreground
    /\ Reclaim([x \in {a} |-> IF Registered(a) THEN "kernel" ELSE "store"])
    /\ UNCHANGED <<manager, load, waiting, page, batch, busy, now, minted>>

\* appletsRuntime.teardown; the shell that routes to pages goes with it.  The
\* runtime is installed again when the shell mounts again, and the acquires
\* queued meanwhile are replayed then.
Teardown ==
    /\ Yielded
    /\ lease # {}
    /\ Reclaim([a \in lease |-> IF Registered(a) THEN "kernel" ELSE "store"])
    /\ lease' = {}
    /\ foreground' = NoApplet
    /\ page' = NoApplet
    /\ UNCHANGED <<manager, load, waiting, closing, batch, busy, now, minted>>

---------------------------------------------------------------------------
(* Loading an applet and what the acquires that await it do next. *)

\* Mutation: a superseded acquire just returns.
UndoLoadForgotten(a) == UNCHANGED unloading

\* Each superseded acquire unloads what it loaded.
UndoLoad(a) == unloading' = [unloading EXCEPT ![a]["store"] = @ + waiting[a]]

\* The load of a resolved with session s in the manager: every waiting acquire
\* runs on.  Superseded ones undo the load; a warm instance is shown; otherwise
\* the first one registers, readies and shows the instance, and a second one
\* fails on registry.create and drops the lease.
ResumeAcquires(a, s) ==
    /\ manager' = [manager EXCEPT ![a] = s]
    /\ waiting' = [waiting EXCEPT ![a] = 0]
    /\ load' = [load EXCEPT ![a] = "idle"]
    /\ \/ /\ a \notin lease
          /\ UndoLoad(a)
          /\ UNCHANGED <<registry, order, surface, adopted, lease>>
       \/ /\ a \in lease
          /\ Registered(a)
          /\ DispatchWith([x \in {a} |-> "show"], manager', now)
          /\ UNCHANGED <<order, adopted, unloading, lease>>
       \/ /\ a \in lease
          /\ ~Registered(a)
          /\ adopted' = adopted \cup {s}
          /\ registry' = [registry EXCEPT ![a] =
                            [state |-> NextState("ready"), session |-> s,
                             lastHiddenAt |-> 0, lastTouchedAt |-> now]]
          /\ order' = order \cup {<<b, a>> : b \in {x \in Applets : Registered(x)}}
          /\ surface' = [surface EXCEPT ![a] = ShowSurface(@, s)]
          /\ lease' = IF waiting[a] > 1 THEN lease \ {a} ELSE lease
          /\ UNCHANGED unloading
    /\ UNCHANGED <<foreground, page, closing, batch, busy, now>>

\* verifyIntegrity resolved: an applet that is already loaded keeps its session.
LoadVerified(a) ==
    /\ Yielded
    /\ load[a] = "verify"
    /\ \/ /\ manager[a] # NoSession
          /\ ResumeAcquires(a, manager[a])
          /\ UNCHANGED minted
       \/ /\ manager[a] = NoSession
          /\ load' = [load EXCEPT ![a] = "create"]
          /\ UNCHANGED <<registry, order, surface, manager, adopted, waiting, unloading,
                         lease, foreground, page, closing, batch, busy, now, minted>>

\* appletCreateSession resolved.
LoadCreated(a) ==
    /\ Yielded
    /\ load[a] = "create"
    /\ minted < MaxSession
    /\ minted' = minted + 1
    /\ ResumeAcquires(a, minted + 1)

\* Any stage of the load rejected: each waiting acquire drops the lease.
LoadFailed(a) ==
    /\ Yielded
    /\ load[a] # "idle"
    /\ load' = [load EXCEPT ![a] = "idle"]
    /\ waiting' = [waiting EXCEPT ![a] = 0]
    /\ lease' = lease \ {a}
    /\ UNCHANGED <<registry, order, surface, manager, adopted, unloading, foreground, page,
                   closing, batch, busy, now, minted>>

\* The gateway answered (or failed) an unload of a: the manager forgets the
\* applet, and a kernel destroy removes the record that is there now.
UnloadDone(a, o) ==
    /\ Yielded
    /\ unloading[a][o] > 0
    /\ unloading' = [unloading EXCEPT ![a][o] = @ - 1]
    /\ manager' = [manager EXCEPT ![a] = NoSession]
    /\ registry' = IF o = "store" THEN registry ELSE [registry EXCEPT ![a] = NoInstance]
    /\ order' = IF o = "store" THEN order ELSE Among(order, Applets \ {a})
    /\ busy' = busy \ {o}
    /\ UNCHANGED <<surface, adopted, load, waiting, lease, foreground, page, closing, batch,
                   now, minted>>

---------------------------------------------------------------------------
(* Window focus, the sweep and the memory monitor. *)

WindowBlur ==
    /\ Yielded
    /\ foreground # NoApplet
    /\ registry[foreground].state = "visible"
    /\ Dispatch(foreground, "pause", now)
    /\ UNCHANGED <<order, manager, adopted, load, waiting, unloading, lease, foreground, page,
                   closing, batch, busy, now, minted>>

WindowFocus ==
    /\ Yielded
    /\ foreground # NoApplet
    /\ registry[foreground].state = "paused"
    /\ Dispatch(foreground, "resume", now)
    /\ UNCHANGED <<order, manager, adopted, load, waiting, unloading, lease, foreground, page,
                   closing, batch, busy, now, minted>>

StartBatch(t, events) ==
    /\ Yielded
    /\ batch[t] = <<>>
    /\ t \notin busy
    /\ events # <<>>
    /\ batch' = [batch EXCEPT ![t] = events]
    /\ UNCHANGED <<registry, order, surface, manager, adopted, load, waiting, unloading,
                   lease, foreground, page, closing, busy, now, minted>>

RunSweep == StartBatch("sweep", Sweep(registry, order, now))

HandleMemoryPressure(level) ==
    StartBatch("memory", OnMemoryPressure(level, registry, order, now))

\* dispatchAll takes its next event, whatever happened since the events were
\* computed.
BatchSuspend(t) ==
    /\ Ready(t)
    /\ Head(batch[t]).type = "suspend"
    /\ batch' = [batch EXCEPT ![t] = Tail(@)]
    /\ Dispatch(Head(batch[t]).applet, "suspend", Head(batch[t]).at)
    /\ UNCHANGED <<order, manager, adopted, load, waiting, unloading, lease, foreground, page,
                   closing, busy, now, minted>>

BatchDestroy(t) ==
    /\ Ready(t)
    /\ Head(batch[t]).type = "destroy"
    /\ batch' = [batch EXCEPT ![t] = Tail(@)]
    /\ LET a == Head(batch[t]).applet
       IN  /\ Reclaim([x \in {y \in {a} : Registered(y)} |-> t])
           /\ busy' = IF Registered(a) /\ NeedsGateway(a, t) THEN busy \cup {t} ELSE busy
    /\ UNCHANGED <<manager, load, waiting, lease, foreground, page, closing, now, minted>>

\* What one event of a dispatchAll that nobody disturbs leaves of the registry.
Dispatched(reg, event) ==
    [reg EXCEPT ![event.applet] =
        CASE event.type = "destroy" -> NoInstance
          [] event.type = "suspend" /\ IsValidTransition(@.state, "suspend") ->
                SetState(@, "suspended", event.at)
          [] OTHER -> @]

\* The registry after a whole sweep nobody disturbs, and what remains of its order.
Swept(reg, ord) ==
    LET events == Sweep(reg, ord, now)
        after[k \in 0..Len(events)] ==
            IF k = 0 THEN reg ELSE Dispatched(after[k - 1], events[k])
    IN  after[Len(events)]

Remaining(reg, ord) == Among(ord, {a \in Applets : reg[a].state # "cold"})

Tick ==
    /\ Yielded
    /\ now < MaxNow
    /\ now' = now + 1
    /\ UNCHANGED <<registry, order, surface, manager, adopted, load, waiting, unloading, lease,
                   foreground, page, closing, batch, busy, minted>>

Next ==
    \/ \E a \in Applets : OpenPage(a)
    \/ \E close \in BOOLEAN : LeavePage(close)
    \/ \E a \in Applets : ReleasePage(a)
    \/ Teardown
    \/ \E a \in Applets : LoadVerified(a)
    \/ \E a \in Applets : LoadCreated(a)
    \/ \E a \in Applets : LoadFailed(a)
    \/ \E a \in Applets, o \in Origins : UnloadDone(a, o)
    \/ WindowBlur
    \/ WindowFocus
    \/ RunSweep
    \/ \E level \in PressureLevels : HandleMemoryPressure(level)
    \/ \E t \in Timers : BatchSuspend(t)
    \/ \E t \in Timers : BatchDestroy(t)
    \/ Tick

Spec == Init /\ [][Next]_vars

---------------------------------------------------------------------------
(* Properties. *)

InFlight(a) == \E o \in Origins : unloading[a][o] > 0

DestroyInFlight(a) == \E o \in Origins \ {"store"} : unloading[a][o] > 0

\* The state the orchestrator records is what the user sees: unless the applet
\* is being destroyed, a visible one has a displayed, mounted host, a
\* hidden one is not displayed and a suspended one is dropped from the page.
SurfaceAgrees ==
    \A a \in Applets : ~DestroyInFlight(a) =>
        CASE registry[a].state = "visible" ->
                surface[a].host # NoSession /\ surface[a].visible /\ ~surface[a].detached
          [] registry[a].state = "paused" -> surface[a].host # NoSession
          [] registry[a].state = "hidden-warm" -> ~surface[a].visible
          [] registry[a].state = "suspended" -> ~surface[a].visible /\ surface[a].detached
          [] OTHER -> TRUE

\* A sweep or a pressure batch computed before the user came back to an applet
\* never suspends it under the user: the orchestrator rejects the stale event.
StaleSuspendRejected ==
    [][\A a \in Applets : registry[a].state = "visible" => registry'[a].state # "suspended"]_vars

\* Once nothing is in flight for an applet that has neither a lease nor an
\* instance, its capability session is gone from AppletManager.
NoOrphanSession ==
    \A a \in Applets :
        /\ ~Registered(a)
        /\ a \notin lease
        /\ load[a] = "idle"
        /\ ~InFlight(a)
        => manager[a] = NoSession

In(reg, states) == {a \in Applets : reg[a].state \in states}

\* A sweep takes one decision per instance and none about a visible one, and its
\* LRU pass takes the least recently touched: an evicted instance is no younger
\* than a warm one that stays and is not visible (sweep, resource-scheduler.ts).
SweepChooses ==
    LET events == Sweep(registry, order, now)
    IN  /\ \A j, k \in DOMAIN events : events[j].applet = events[k].applet => j = k
        /\ \A k \in DOMAIN events : registry[events[k].applet].state # "visible"
        /\ \A a \in LruEvict(registry, order, now),
              b \in In(registry, {"hidden-warm", "paused"}) \ SweepSuspend(registry, order, now) :
                  registry[a].lastTouchedAt <= registry[b].lastTouchedAt

\* A sweep leaves more warm instances than the LRU size only if all are visible,
\* and more suspended ones than the limit only if it suspended them all itself.
KeepsLimits ==
    LET after == Swept(registry, order)
        suspended == In(after, {"suspended"})
    IN  /\ Cardinality(In(after, {"visible", "hidden-warm", "paused"})) > LruSize
              => In(after, {"hidden-warm", "paused"}) = {}
        /\ Cardinality(suspended) > MaxSuspended
              => suspended \cap In(registry, {"suspended"}) = {}

\* A sweep that takes decisions leaves nothing to its time and LRU passes, so what
\* it suspended is not destroyed for its age at once; a second one at the same
\* instant settles the overflow of what the first suspended.
Converges ==
    LET once == Swept(registry, order)
        ord  == Remaining(once, order)
        twice == Swept(once, ord)
    IN  Sweep(registry, order, now) # <<>> =>
            /\ TtlSuspend(once, now) = {} /\ TtlDestroy(once, now) = {}
            /\ LruEvict(once, ord, now) = {}
            /\ Sweep(twice, Remaining(twice, ord), now) = <<>>

\* From any registry the kernel holds, a sweep nobody disturbs brings it within
\* its limits and settles (runSweep, sweep).
SweepSettles == KeepsLimits /\ Converges
============================================================================
