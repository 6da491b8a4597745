------------------------------ MODULE PageHost ------------------------------
(***************************************************************************)
(* The desktop page host (kernel/PageHost.tsx) over the page leases of one *)
(* runtime (kernel/pageRuntimeLease.ts, kernel/runtime.ts), from the mount *)
(* of the host on.  A React commit is one step: the effects of the commit  *)
(* run in the order they are written, the scheduler's teardown lane runs   *)
(* its task in the same turn, and the state they set is applied with it.   *)
(* Animation frames, idle callbacks and the install of the runtime come in *)
(* between.                                                                *)
(***************************************************************************)
EXTENDS Naturals, Sequences, FiniteSets, SequencesExt

CONSTANTS
  Pages,      \* the registered routes
  Landing,    \* the registered route the host may mount with
  Eager,      \* preload: 'eager'
  Prewarmed,  \* preload: 'idle', a sequence in registration order
  None,       \* keepAlive: 'none'
  Lru,        \* keepAlive: { lru }
  LruCap,     \* the lru each of those pages declares
  Closable,   \* the applet pages, whose close button releases the lease
  Exit,       \* the route that close button leads to
  HiddenCap,  \* PAGE_HOST_LRU_CAP
  NoPage      \* no page: the value for a route that is not registered

ASSUME PageAssumption ==
  /\ IsFiniteSet(Pages)
  /\ Landing \in Pages /\ Exit \in Pages \ Closable /\ NoPage \notin Pages
  /\ Eager \subseteq Pages /\ Prewarmed \in Seq(Pages)
  /\ None \subseteq Pages /\ Lru \subseteq Pages \ None
  /\ Closable \subseteq Pages \ (None \cup Lru)
  /\ LruCap \in Nat \ {0} /\ HiddenCap \in Nat
  /\ Cardinality(Eager \ {Landing}) <= HiddenCap

\* keepAlive: 'forever'
Forever == Pages \ (None \cup Lru)

VARIABLES
  active,     \* activePageKey; NoPage while the fallback router renders the route
  mounted,    \* the mounted set, in insertion order
  recent,     \* recentRef, most recent first
  frame,      \* the page whose mount the next animation frame commits
  prewarm,    \* started, and the pages mountNext has left
  closing,    \* the explicit closes whose frame has not come
  installed,  \* the runtime's record: installed
  queued,     \* pendingPageAcquires of the runtime
  leased      \* the pages whose acquirePage has run last

vars == <<active, mounted, recent, frame, prewarm, closing, installed, queued, leased>>
lease == <<installed, queued, leased>>

-----------------------------------------------------------------------------
(* Leases.                                                                 *)

\* acquireRuntimePage and releaseRuntimePage, over a pair of queued and leased
\* pages.
Acquire(l, p) ==
  IF installed THEN [l EXCEPT !.leased = @ \cup {p}]
               ELSE [l EXCEPT !.queued = @ \cup {p}]

Release(l, ps) ==
  [queued |-> l.queued \ ps, leased |-> IF installed THEN l.leased \ ps ELSE l.leased]

Leases == [queued |-> queued, leased |-> leased]

SetLeases(l) == queued' = l.queued /\ leased' = l.leased

\* installRuntime replays the acquires that came before it.
InstallRuntime ==
  /\ ~installed
  /\ installed' = TRUE
  /\ leased' = leased \cup queued
  /\ queued' = {}
  /\ UNCHANGED <<active, mounted, recent, frame, prewarm, closing>>

-----------------------------------------------------------------------------
(* Eviction.                                                               *)

\* The elements of the sequence s that are in S, in the order of s.
Filter(s, S) ==
  LET kept[k \in 0..Len(s)] ==
        IF k = 0 THEN <<>>
        ELSE IF s[k] \in S THEN Append(kept[k - 1], s[k]) ELSE kept[k - 1]
  IN  kept[Len(s)]

Without(s, ps) == Filter(s, Pages \ ps)

\* The lru effect: what lies beyond the cap of the active page in the list of
\* recent pages, whatever the keepAlive of those pages is.
LruDrops(p, visits) ==
  IF p \in Lru /\ Len(visits) > LruCap
  THEN ToSet(SubSeq(visits, LruCap + 1, Len(visits))) \ {p}
  ELSE {}

\* The order the global cap sorts hidden pages in: those never visited first,
\* in insertion order, then from the oldest visit to the latest.
HiddenByRecency(m, p, visits) ==
  Without(m, {p} \cup ToSet(visits))
    \o Filter(Reverse(visits), ToSet(m) \ {p})

\* Mutation: one page too many is kept.
CapEvictsLate(m, p, visits) ==
  LET hidden == HiddenByRecency(m, p, visits) IN
  IF p = NoPage \/ Len(hidden) <= HiddenCap + 1 THEN {}
  ELSE ToSet(SubSeq(hidden, HiddenCap + 2, Len(hidden)))

\* Mutation: the cap does not spare the active page.
CapEvictsActive(m, p, visits) ==
  LET shown == HiddenByRecency(m, p, visits) \o Filter(m, {p}) IN
  IF p = NoPage \/ Len(shown) <= HiddenCap THEN {}
  ELSE ToSet(SubSeq(shown, HiddenCap + 1, Len(shown)))

\* The global cap: what lies beyond it in that order.  It is not applied while
\* no registered page is active.
CapEvicts(m, p, visits) ==
  LET hidden == HiddenByRecency(m, p, visits) IN
  IF p = NoPage \/ Len(hidden) <= HiddenCap THEN {}
  ELSE ToSet(SubSeq(hidden, HiddenCap + 1, Len(hidden)))

-----------------------------------------------------------------------------
(* The host.                                                               *)

\* pickInitialMounted and the effects of the first commit, on a registered route
\* or on another one.
Init ==
  /\ \/ /\ active = Landing
        /\ mounted \in {s \in SetToSeqs(Eager \cup {Landing}) :
                         Last(s) = Landing \/ Landing \in Eager}
        /\ recent = <<Landing>>
     \/ /\ active = NoPage
        /\ mounted \in SetToSeqs(Eager)
        /\ recent = <<>>
  /\ frame = NoPage
  /\ prewarm = [started |-> FALSE, left |-> <<>>]
  /\ closing = {}
  /\ installed \in BOOLEAN
  /\ queued = IF installed THEN {} ELSE ToSet(recent)
  /\ leased = IF installed THEN ToSet(recent) ELSE {}

\* The mounted set changes to m: the global cap looks at it again, and the frame
\* of an active page that is not mounted is asked for again.
CommitMounted(m, l) ==
  LET evicted == CapEvicts(m, active, recent) IN
  /\ mounted' = Without(m, evicted)
  /\ SetLeases(Release(l, evicted))
  /\ frame' = IF active \in ToSet(mounted') THEN NoPage ELSE active

\* Mutation: the lru effect unmounts without a release.
ShowKeepingLeases(p) ==
  LET visits  == <<p>> \o Without(recent, {p})
      dropped == LruDrops(p, visits)
      evicted == CapEvicts(mounted, p, visits)
      left    == IF active \in None /\ active # p THEN {active} ELSE {}
  IN /\ active' = p
     /\ recent' = visits
     /\ SetLeases(Release(Acquire(Release(Leases, left), p), evicted))
     /\ mounted' = Without(mounted, dropped \cup evicted)
     /\ frame' = IF p \in ToSet(mounted') THEN NoPage ELSE p

\* The commit of a route change.  In order: the page that was left is released
\* when it is not kept alive, the new one is acquired, its mount is left to
\* the next frame, it becomes the most recent and the lru effect and the
\* global cap evict.
Show(p) ==
  LET visits  == <<p>> \o Without(recent, {p})
      dropped == LruDrops(p, visits)
      evicted == CapEvicts(mounted, p, visits)
      left    == IF active \in None /\ active # p THEN {active} ELSE {}
  IN /\ active' = p
     /\ recent' = visits
     /\ SetLeases(Release(Acquire(Release(Leases, left), p), dropped \cup evicted))
     /\ mounted' = Without(mounted, dropped \cup evicted)
     /\ frame' = IF p \in ToSet(mounted') THEN NoPage ELSE p

Navigate(p) ==
  /\ p # active
  /\ Show(p)
  /\ UNCHANGED <<prewarm, closing, installed>>

\* The commit of a change to a route that is not registered: the page that was
\* left is released when it is not kept alive, its frame is cancelled, and the
\* other effects return at once.
NavigateUnregistered ==
  /\ active # NoPage
  /\ active' = NoPage
  /\ SetLeases(Release(Leases, {active} \cap None))
  /\ frame' = NoPage
  /\ UNCHANGED <<mounted, recent, prewarm, closing, installed>>

\* handleClose of an applet page that was shown: leave for the exit page, and
\* release at the next frame.  Its close button needs the page to be active; its
\* applet's closeApplet request and its timer also come from a hidden one.
ClosePage(p) ==
  /\ p \in ToSet(recent)
  /\ \/ active # Exit /\ Show(Exit)
     \/ active = Exit /\ UNCHANGED <<active, mounted, recent, frame, queued, leased>>
  /\ closing' = closing \cup {p}
  /\ UNCHANGED <<prewarm, installed>>

\* That frame: the lease is released whatever page is active by then.
CloseFrame(p) ==
  /\ p \in closing
  /\ closing' = closing \ {p}
  /\ SetLeases(Release(Leases, {p}))
  /\ UNCHANGED <<active, mounted, recent, frame, prewarm, installed>>

\* The animation frame that mounts the active page.
MountFrame ==
  /\ frame # NoPage
  /\ CommitMounted(Append(mounted, frame), Leases)
  /\ UNCHANGED <<active, recent, prewarm, closing, installed>>

PrewarmStart ==
  /\ ~prewarm.started
  /\ prewarm' = [started |-> TRUE, left |-> Prewarmed]
  /\ UNCHANGED <<active, mounted, recent, frame, closing, lease>>

\* One idle slot: the next page is acquired and mounted.
PrewarmNext ==
  /\ prewarm.left # <<>>
  /\ LET p == Head(prewarm.left)
         l == Acquire(Leases, p)
     IN IF p \in ToSet(mounted)
        THEN SetLeases(l) /\ UNCHANGED <<mounted, frame>>
        ELSE CommitMounted(Append(mounted, p), l)
  /\ prewarm' = [started |-> TRUE, left |-> Tail(prewarm.left)]
  /\ UNCHANGED <<active, recent, closing, installed>>

Next ==
  \/ InstallRuntime
  \/ \E p \in Pages : Navigate(p)
  \/ NavigateUnregistered
  \/ \E p \in Closable : ClosePage(p)
  \/ \E p \in Closable : CloseFrame(p)
  \/ MountFrame
  \/ PrewarmStart
  \/ PrewarmNext

Spec == Init /\ [][Next]_vars

\* Fairness: the browser delivers the frame that was requested.
FairSpec == Spec /\ WF_vars(MountFrame)

-----------------------------------------------------------------------------
(* Properties.                                                             *)

\* Every eviction path gives back the lease of the page it unmounts: the lru
\* effect and the global cap, in the commit of a navigation, of a mount or of a
\* prewarm, and also a lease still queued for a runtime that is not installed
\* (PageHost.tsx:199-232, 252-256; runtime.ts:209-212).
EvictedIsReleased ==
  [][\A p \in ToSet(mounted) \ ToSet(mounted') : p \notin queued' \cup leased']_vars

\* While a registered page is active, at most PAGE_HOST_LRU_CAP pages are mounted
\* and hidden, however navigation, prewarming and the lru caps interleave; the
\* commit that leaves a route that is not registered takes out all that piled up
\* there, where the cap is not applied (PageHost.tsx:234-269).
HiddenBounded ==
  active # NoPage => Cardinality(ToSet(mounted) \ {active}) <= HiddenCap

\* A page that stays active is mounted: no eviction, of its own commit or of
\* another page's, keeps dropping it (PageHost.tsx:140-156, 214-223, 261).
ActiveIsMounted ==
  \A p \in Pages : []<>(active = p => p \in ToSet(mounted))
=============================================================================
