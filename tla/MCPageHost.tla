----------------------------- MODULE MCPageHost -----------------------------
(* The prewarm list of the small instance of PageHost.                        *)
EXTENDS PageHost

SomePrewarm == <<"settings">>

-----------------------------------------------------------------------------
(* What comments, documents and tests of the repository say and the code does *)
(* not do: TLC refutes each of these (README, section 6).                     *)

\* A keepAlive 'forever' page that was mounted stays mounted "for the process
\* lifetime" (page.ts:24-25).
ForeverStaysMounted ==
  [][\A p \in Forever : p \in ToSet(mounted) => p \in ToSet(mounted')]_vars

\* The global cap evicts the oldest hidden pages (PageHost.tsx:234-236): a step
\* that unmounts a page keeps no hidden page that was visited longer ago.
OldestEvictedFirst ==
  [][\A i, j \in DOMAIN recent' :
       (/\ recent'[i] \in ToSet(mounted) \ ToSet(mounted')
        /\ recent'[j] \in ToSet(mounted') \ {active'}) => j < i]_vars

\* The active page holds its runtime lease ("activate: active registered page
\* needs runtime resources", runtime-projections.md:251).
ActiveHoldsLease == active # NoPage => active \in queued \cup leased

\* "Global LRU cap (D-07 Phase 1c): max 5 hidden pages total" (PageHost.tsx:234),
\* whatever the route: the effect returns before the cap on a route that is not
\* registered, where the page that was left and every prewarmed one come on top.
HiddenAlwaysBounded == Cardinality(ToSet(mounted) \ {active}) <= HiddenCap
=============================================================================
