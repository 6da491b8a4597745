---------------------- MODULE FederationDeliveryProofs ----------------------
(* Proofs that the safety properties of FederationDelivery hold for every   *)
(* number of frames, lanes and dispatchers, every lease, backoff and clock. *)
EXTENDS FederationDelivery, SequenceTheorems, TLAPS

\* A dispatcher that waits or writes has a current claim of its batch, and one
\* that writes has decided on a transition.
DispatcherOK ==
  \A w \in Workers :
    /\ pc[w] # "polling" => cur[w] \in batch[w]
    /\ pc[w] = "writing" => plan[w].state # "none"

TypeInv == TypeOK /\ DispatcherOK

\* What the transitions of rows, claims and plans need of the bounds.
LEMMA ClaimTypes ==
  ASSUME TypeOK, NEW f \in Frames, NEW t \in 0..MaxTime,
         outbox[f].gen < MaxGeneration
  PROVE  /\ LeasedRow(f, t) \in Rows
         /\ ClaimOf(f, t) \in Claims
  <1>1. outbox[f] \in Rows
    BY DEF TypeOK
  <1>2. ExpiresAt[f] \in 0..MaxTime /\ LeaseDuration \in Nat /\ MaxTime \in Nat
    BY TableAssumption, BoundAssumption
  <1>3. Min2(t + LeaseDuration, ExpiresAt[f]) \in 0..MaxTime
    BY <1>2 DEF Min2
  <1>4. Min2(outbox[f].attempt + 1, MaxAttempt) \in 1..MaxAttempt
    BY <1>1, BoundAssumption DEF Min2, Rows
  <1>5. outbox[f].gen + 1 \in 1..MaxGeneration
    BY <1>1, BoundAssumption DEF Rows
  <1>6. LeasedRow(f, t) \in Rows
    <2>1. outbox[f].next \in 0..MaxTime
      BY <1>1 DEF Rows
    <2>2. /\ Min2(outbox[f].attempt + 1, MaxAttempt) \in 0..MaxAttempt
          /\ outbox[f].gen + 1 \in 0..MaxGeneration
      BY <1>4, <1>5, BoundAssumption
    <2> QED
      BY <1>3, <2>1, <2>2 DEF LeasedRow, Rows, Open
  <1>7. ClaimOf(f, t) \in Claims
    BY <1>1, <1>3, <1>4, <1>5 DEF ClaimOf, LeasedRow, Rows, Claims
  <1> QED
    BY <1>6, <1>7

\* The outcome computed for a result is a plan that writes a row.
LEMMA PlanTypes ==
  ASSUME TypeOK, NEW c \in Claims, NEW r \in Results
  PROVE  PlanFor(c, r) \in Plans /\ PlanFor(c, r).state # "none"
  <1>1. outbox[c.frame] \in Rows /\ c.attempt \in 1..MaxAttempt /\ c.frame \in Frames
    BY DEF TypeOK, Claims
  <1>2. ExpiresAt[c.frame] \in 0..MaxTime /\ Delay[c.attempt] \in Nat /\ now \in 0..MaxTime
    BY <1>1, TableAssumption, BoundAssumption DEF TypeOK
  <1>3. Min2(now + Delay[c.attempt], ExpiresAt[c.frame]) \in 0..MaxTime
    BY <1>2, BoundAssumption DEF Min2
  <1> QED
    BY <1>1, <1>3 DEF PlanFor, Plans, Results, Rows

\* A released row is a row.
LEMMA ReleasedTypes ==
  ASSUME NEW row \in Rows, NEW s \in Open \cup Settled, NEW n \in 0..MaxTime
  PROVE  Released(row, s, n) \in Rows
  BY BoundAssumption DEF Released, Rows

\* The initial state is well typed.
LEMMA InitTypeInv == Init => TypeInv
  <1> SUFFICES ASSUME Init PROVE TypeInv
    OBVIOUS
  <1>1. NoRow \in Rows /\ NoPlan \in Plans
    BY BoundAssumption DEF NoRow, Rows, NoPlan, Plans
  <1>2. log \in Seq(Frames)
    BY DEF Init
  <1> QED
    BY <1>1, <1>2, BoundAssumption DEF Init, TypeInv, TypeOK, DispatcherOK, Dispositions

\* The states of a dispatcher that aborts, or that goes on to its next claim.
LEMMA LoopTypes ==
  ASSUME TypeInv, NEW w \in Workers, NEW c, Abort(w) \/ NextClaim(w, c)
  PROVE  /\ pc' \in [Workers -> {"polling", "sending", "writing"}]
         /\ batch' \in [Workers -> SUBSET Claims]
         /\ cur' \in [Workers -> Claims \cup {NoClaim}]
         /\ reply' \in [Workers -> Results \cup {"none"}]
         /\ plan' \in [Workers -> Plans]
         /\ DispatcherOK'
  <1>1. NoPlan \in Plans
    BY BoundAssumption DEF NoPlan, Plans
  <1>2. CASE Abort(w)
    BY <1>1, <1>2 DEF TypeInv, TypeOK, DispatcherOK, Abort
  <1>3. CASE NextClaim(w, c)
    BY <1>1, <1>3 DEF TypeInv, TypeOK, DispatcherOK, NextClaim
  <1> QED
    BY <1>2, <1>3

\* An answer keeps the replies well typed.
LEMMA RespondTypes ==
  ASSUME TypeInv, NEW m \in net, NEW r \in Results, Respond(m, r)
  PROVE  /\ net' \in SUBSET Messages
         /\ reply' \in [Workers -> Results \cup {"none"}]
         /\ UNCHANGED <<now, outbox, pc, batch, cur, plan>>
         /\ DispatcherOK'
  BY DEF TypeInv, TypeOK, DispatcherOK, Respond

\* Every step keeps the types.
LEMMA NextTypeInv == TypeInv /\ [Next]_vars => TypeInv'
  <1> SUFFICES ASSUME TypeInv, [Next]_vars PROVE TypeInv'
    OBVIOUS
  <1> USE DEF TypeInv
  <1>1. ASSUME NEW f \in Frames, Enqueue(f) PROVE TypeInv'
    <2>1. PendingRow \in Rows
      BY BoundAssumption DEF PendingRow, Rows, Open, TypeOK
    <2> QED
      BY <1>1, <2>1 DEF Enqueue, TypeOK, DispatcherOK, dispatchers
  <1>2. ASSUME NEW w \in Workers, NEW t \in 0..MaxTime, NEW S \in SUBSET Frames,
               Claim(w, t, S)
        PROVE  TypeInv'
    <2>1. outbox' \in [Frames -> Rows]
      <3> SUFFICES ASSUME NEW f \in Frames PROVE outbox'[f] \in Rows
        BY <1>2 DEF Claim
      <3>1. outbox[f] \in Rows /\ outbox[f].next \in 0..MaxTime
        BY DEF TypeOK, Rows
      <3>2. Close(f, "expired") \in Rows /\ Close(f, "terminal") \in Rows
        BY <3>1, ReleasedTypes DEF Close, Settled
      <3>3. f \in S \ Corrupt => LeasedRow(f, t) \in Rows
        BY <1>2, ClaimTypes DEF Claim
      <3> QED
        BY <1>2, <3>1, <3>2, <3>3 DEF Claim
    <2>2. batch' \in [Workers -> SUBSET Claims]
      <3>1. {ClaimOf(f, t) : f \in S \ Corrupt} \subseteq Claims
        BY <1>2, ClaimTypes DEF Claim
      <3> QED
        BY <1>2, <3>1 DEF Claim, TypeOK
    <2> QED
      BY <1>2, <2>1, <2>2 DEF Claim, TypeOK, DispatcherOK
  <1>3. ASSUME NEW w \in Workers, NEW c \in batch[w], ExpireClaim(w, c) PROVE TypeInv'
    <2>1. c \in Claims /\ c.frame \in Frames
      BY DEF TypeOK, Claims
    <2>2. Close(c.frame, "expired") \in Rows
      BY <2>1, ReleasedTypes DEF Close, Settled, TypeOK, Rows
    <2>3. outbox' \in [Frames -> Rows]
      BY <1>3, <2>1, <2>2 DEF ExpireClaim, TypeOK
    <2> QED
      BY <1>3, <2>3, LoopTypes DEF ExpireClaim, TypeOK
  <1>4. ASSUME NEW w \in Workers, NEW c \in batch[w], Send(w, c) PROVE TypeInv'
    <2>1. [frame |-> c.frame, worker |-> w, gen |-> c.gen] \in Messages
      BY DEF TypeOK, Claims, Messages
    <2> QED
      BY <1>4, <2>1 DEF Send, TypeOK, DispatcherOK
  <1>5. ASSUME NEW w \in Workers, NEW r \in Results, Resolve(w, r) PROVE TypeInv'
    <2>1. cur[w] \in Claims
      BY <1>5 DEF Resolve, TypeOK, DispatcherOK
    <2>2. PlanFor(cur[w], r) \in Plans /\ PlanFor(cur[w], r).state # "none"
      BY <2>1, PlanTypes
    <2>3. CASE /\ pc' = [pc EXCEPT ![w] = "writing"]
               /\ plan' = [plan EXCEPT ![w] = PlanFor(cur[w], r)]
               /\ reply' = [reply EXCEPT ![w] = "none"]
               /\ UNCHANGED <<batch, cur>>
      BY <1>5, <2>1, <2>2, <2>3 DEF Resolve, TypeOK, DispatcherOK
    <2>4. CASE Abort(w)
      BY <1>5, <2>4, LoopTypes DEF Resolve, TypeOK
    <2> QED
      BY <1>5, <2>3, <2>4 DEF Resolve
  <1>6. ASSUME NEW w \in Workers, Write(w) PROVE TypeInv'
    <2>1. cur[w] \in Claims /\ cur[w].frame \in Frames
      BY <1>6 DEF Write, TypeOK, DispatcherOK, Claims
    <2>2. plan[w].state \in Open \cup Settled /\ plan[w].next \in 0..MaxTime
      BY <1>6 DEF Write, TypeOK, DispatcherOK, Plans, Open, Settled
    <2>3. Released(outbox[cur[w].frame], plan[w].state, plan[w].next) \in Rows
      BY <2>1, <2>2, ReleasedTypes DEF TypeOK
    <2>4. outbox' \in [Frames -> Rows]
      BY <1>6, <2>1, <2>3 DEF Write, TypeOK
    <2> QED
      BY <1>6, <2>4, LoopTypes DEF Write, TypeOK
  <1>7. ASSUME NEW w \in Workers, Crash(w) PROVE TypeInv'
    BY <1>7, LoopTypes DEF Crash, TypeOK
  <1>8. ASSUME NEW m \in net, Receive(m) PROVE TypeInv'
    <2>1. CASE Refuse(m)
      BY <2>1, RespondTypes DEF Refuse, TypeOK, Results
    <2>2. CASE Replay(m)
      BY <2>2, RespondTypes DEF Replay, TypeOK, Results
    <2>3. CASE Rollback(m)
      BY <2>3, RespondTypes DEF Rollback, TypeOK, Results
    <2>4. CASE Lose(m)
      BY <2>4 DEF Lose, TypeOK, DispatcherOK, dispatchers
    <2>5. ASSUME NEW d \in Dispositions, Commit(m, d) PROVE TypeInv'
      <3>1. m.frame \in Frames
        BY DEF TypeOK, Messages
      <3>2. log' \in Seq(Frames)
        BY <2>5, <3>1 DEF Commit, TypeOK
      <3>3. inbox' \in [Frames -> Dispositions]
        BY <2>5, <3>1 DEF Commit, TypeOK
      <3>4. PICK r \in {d, "error"} : Respond(m, r)
        BY <2>5 DEF Commit
      <3>5. r \in Results
        BY <2>5 DEF Commit, Results, Dispositions
      <3> QED
        BY <3>2, <3>3, <3>4, <3>5, RespondTypes DEF TypeOK
    <2> QED
      BY <1>8, <2>1, <2>2, <2>3, <2>4, <2>5 DEF Receive
  <1>9. CASE Tick
    BY <1>9, BoundAssumption DEF Tick, TypeOK, DispatcherOK, dispatchers
  <1>10. CASE UNCHANGED vars
    BY <1>10 DEF vars, dispatchers, TypeOK, DispatcherOK
  <1> QED
    BY <1>1, <1>2, <1>3, <1>4, <1>5, <1>6, <1>7, <1>8, <1>9, <1>10 DEF Next, Dispatch

\* Every reachable state is well typed: in particular the lease of a claim
\* never outlives its frame and a retry is never scheduled past its expiry.
THEOREM TypeCorrect == Spec => []TypeOK
  <1>1. Spec => []TypeInv
    BY InitTypeInv, NextTypeInv, PTL DEF Spec
  <1> QED
    BY <1>1, PTL DEF TypeInv

-----------------------------------------------------------------------------
(* Delivered rows have a committed receipt. *)

\* All that one step may do to a row.
RowStep(f) ==
  \/ outbox'[f] = outbox[f]
  \/ outbox[f].state = "absent" /\ outbox'[f] = PendingRow
  \/ /\ outbox[f].state \in Open
     /\ outbox'[f].state \in {"expired", "terminal"}
     /\ outbox'[f].gen = outbox[f].gen
  \/ /\ outbox[f].state \in Open
     /\ outbox'[f].state = "leased"
     /\ outbox'[f].gen = outbox[f].gen + 1
  \/ /\ outbox[f].state = "leased"
     /\ outbox'[f].state \in {"delivered", "retry_wait"}
     /\ outbox'[f].gen = outbox[f].gen

\* What a step may do to a row: nothing, insert it, lease it under a new
\* generation, or settle or release it under the same one.
LEMMA RowSteps ==
  ASSUME TypeInv, [Next]_vars, NEW f \in Frames
  PROVE  RowStep(f)
  <1> USE DEF TypeInv
  <1>1. ASSUME NEW g \in Frames, Enqueue(g) PROVE RowStep(f)
    <2>1. outbox[g].state = "absent"
      BY <1>1 DEF Enqueue, OutboxConflict
    <2> QED
      BY <1>1, <2>1 DEF Enqueue, RowStep, TypeOK
  <1>2. ASSUME NEW w \in Workers, NEW t \in 0..MaxTime, NEW S \in SUBSET Frames,
               Claim(w, t, S)
        PROVE  RowStep(f)
    <2>1. f \in S => outbox[f].state \in Open
      BY <1>2 DEF Claim, FirstDue, Claimable, Due, Open
    <2>2. outbox'[f] \in {outbox[f], Close(f, "expired"), Close(f, "terminal"), LeasedRow(f, t)}
      BY <1>2 DEF Claim
    <2>3. outbox'[f] # outbox[f] => outbox[f].state \in Open
      BY <1>2, <2>1 DEF Claim, Expiring
    <2> QED
      BY <2>2, <2>3 DEF RowStep, Close, Released, LeasedRow
  <1>3. ASSUME NEW w \in Workers, NEW c \in batch[w], ExpireClaim(w, c) PROVE RowStep(f)
    BY <1>3 DEF ExpireClaim, RowStep, Close, Released, HoldsLease, Open, TypeOK
  <1>4. ASSUME NEW w \in Workers, Write(w) PROVE RowStep(f)
    <2>1. plan[w].state \in {"delivered", "retry_wait", "terminal"}
      BY <1>4 DEF Write, TypeOK, DispatcherOK, Plans
    <2> QED
      BY <1>4, <2>1 DEF Write, RowStep, Released, HoldsLease, Open, TypeOK
  <1>5. CASE UNCHANGED outbox
    BY <1>5 DEF RowStep
  <1> QED
    BY <1>1, <1>2, <1>3, <1>4, <1>5
       DEF Next, Dispatch, Crash, Receive, Refuse, Replay, Rollback, Lose, Commit,
           Respond, Send, Resolve, Tick, vars

\* A settled row is never touched again: fencing keeps stale dispatchers out,
\* and neither the sweep nor a reclaim selects a settled row.
THEOREM SettledIsFinal == Spec => SettledForever
  <1>1. ASSUME TypeInv, [Next]_vars, NEW f \in Frames, outbox[f].state \in Settled
        PROVE  outbox'[f] = outbox[f]
    BY <1>1, RowSteps DEF RowStep, Open, Settled
  <1>2. TypeInv /\ [Next]_vars =>
          [\A f \in Frames : outbox[f].state \in Settled => outbox'[f] = outbox[f]]_vars
    BY <1>1
  <1>3. Spec => []TypeInv
    BY InitTypeInv, NextTypeInv, PTL DEF Spec
  <1> QED
    BY <1>2, <1>3, PTL DEF Spec, SettledForever

\* Nothing was leased, sent or received of a frame that has no row, and no
\* claim or request is of a generation the row has not reached.
GenerationOK ==
  /\ \A f \in Frames : outbox[f].state = "absent" => outbox[f].gen = 0
  /\ \A w \in Workers : \A c \in batch[w] : c.gen <= outbox[c.frame].gen
  /\ \A m \in net : m.gen <= outbox[m.frame].gen
  /\ \A f \in Frames : inbox[f] # "none" => outbox[f].gen > 0

\* A dispatcher that learned of a success, or plans to persist one, is dealing
\* with a frame that has a committed receipt.
Success == {"accepted", "duplicate"}

KnownOK ==
  \A w \in Workers :
    /\ reply[w] \in Success => pc[w] = "sending" /\ inbox[cur[w].frame] \in Success
    /\ plan[w].state = "delivered" => pc[w] = "writing" /\ inbox[cur[w].frame] \in Success

\* A receipt, once committed, is kept.
LEMMA ReceiptKept ==
  ASSUME TypeInv, [Next]_vars, NEW f \in Frames, inbox[f] # "none"
  PROVE  inbox'[f] = inbox[f]
  <1>1. ASSUME NEW m \in net, NEW d \in Dispositions, Commit(m, d) PROVE inbox'[f] = inbox[f]
    <2>1. m.frame # f
      BY <1>1 DEF Commit, Fresh, InboxConflict
    <2> QED
      BY <1>1, <2>1 DEF Commit, TypeInv, TypeOK
  <1> QED
    BY <1>1 DEF Next, Dispatch, Crash, Receive, Refuse, Replay, Rollback, Lose, Enqueue,
                Claim, ExpireClaim, Send, Resolve, Write, Tick, vars

\* The generation of a row never decreases.
LEMMA GenerationGrows ==
  ASSUME TypeInv, GenerationOK, [Next]_vars, NEW f \in Frames
  PROVE  /\ outbox[f].gen <= outbox'[f].gen
         /\ outbox'[f].state = "absent" => outbox'[f].gen = 0
  <1>1. outbox[f].gen \in Nat
    BY BoundAssumption DEF TypeInv, TypeOK, Rows
  <1> QED
    BY <1>1, RowSteps DEF GenerationOK, RowStep, PendingRow

\* No claim, request or plan names a generation the row has not reached.
LEMMA NextGenerationOK == TypeInv /\ GenerationOK /\ [Next]_vars => GenerationOK'
  <1> SUFFICES ASSUME TypeInv, GenerationOK, [Next]_vars PROVE GenerationOK'
    OBVIOUS
  <1>0. /\ \A f \in Frames : outbox[f].gen \in Nat /\ outbox'[f].gen \in Nat
        /\ \A w \in Workers : \A c \in batch'[w] : c.frame \in Frames /\ c.gen \in Nat \ {0}
        /\ \A m \in net' : m.frame \in Frames /\ m.gen \in Nat \ {0}
    <2>1. TypeOK /\ TypeOK'
      BY NextTypeInv DEF TypeInv
    <2>2. \A f \in Frames : outbox[f].gen \in Nat /\ outbox'[f].gen \in Nat
      <3>1. outbox \in [Frames -> Rows] /\ outbox' \in [Frames -> Rows]
        BY <2>1 DEF TypeOK
      <3>2. \A x \in Rows : x.gen \in Nat
        BY BoundAssumption DEF Rows
      <3> QED
        BY <3>1, <3>2
    <2>3. \A c \in Claims : c.frame \in Frames /\ c.gen \in Nat \ {0}
      BY BoundAssumption DEF Claims
    <2>4. \A m \in Messages : m.frame \in Frames /\ m.gen \in Nat \ {0}
      BY BoundAssumption DEF Messages
    <2> QED
      BY <2>1, <2>2, <2>3, <2>4 DEF TypeOK
  <1>1. ASSUME NEW w \in Workers, NEW c \in batch'[w] PROVE c.gen <= outbox'[c.frame].gen
    <2>1. CASE c \in batch[w]
      BY <1>0, <1>1, <2>1, GenerationGrows DEF GenerationOK
    <2>2. ASSUME NEW t \in 0..MaxTime, NEW S \in SUBSET Frames, NEW v \in Workers,
                 Claim(v, t, S), c \notin batch[w]
          PROVE  c.gen <= outbox'[c.frame].gen
      <3>1. PICK f \in S \ Corrupt : c = ClaimOf(f, t)
        BY <1>1, <2>2 DEF Claim, TypeInv, TypeOK
      <3>2. c.frame = f /\ c.gen = LeasedRow(f, t).gen
        BY <3>1 DEF ClaimOf
      <3>3. ~Expiring(f, t)
        BY <2>2, <3>1, TableAssumption DEF Claim, FirstDue, Claimable, Expiring, TypeInv, TypeOK
      <3>4. outbox'[f] = LeasedRow(f, t)
        BY <2>2, <3>1, <3>3 DEF Claim
      <3> QED
        BY <1>0, <3>2, <3>4
    <2>3. \/ batch'[w] \subseteq batch[w]
          \/ \E v \in Workers, t \in 0..MaxTime, S \in SUBSET Frames : Claim(v, t, S)
      <3>1. batch \in [Workers -> SUBSET Claims]
        BY DEF TypeInv, TypeOK
      <3>2. ASSUME NEW v \in Workers, Crash(v) PROVE batch'[w] \subseteq batch[w]
        BY <3>1, <3>2 DEF Crash, Abort
      <3>3. ASSUME NEW v \in Workers, NEW k \in batch[v], Send(v, k) \/ ExpireClaim(v, k)
            PROVE  batch'[w] \subseteq batch[w]
        BY <3>1, <3>3 DEF Send, ExpireClaim, Abort, NextClaim
      <3>4. ASSUME NEW v \in Workers, NEW r \in Results, Resolve(v, r)
            PROVE  batch'[w] \subseteq batch[w]
        BY <3>1, <3>4 DEF Resolve, Abort
      <3>5. ASSUME NEW v \in Workers, Write(v) PROVE batch'[w] \subseteq batch[w]
        BY <3>1, <3>5 DEF Write, Abort, NextClaim
      <3> QED
        BY <3>2, <3>3, <3>4, <3>5
           DEF Next, Dispatch, Receive, Refuse, Replay, Rollback, Lose, Commit, Respond,
               Enqueue, Tick, vars, dispatchers
    <2> QED
      BY <1>1, <2>1, <2>2, <2>3
  <1>2. ASSUME NEW m \in net' PROVE m.gen <= outbox'[m.frame].gen
    <2>1. CASE m \in net
      BY <1>0, <1>2, <2>1, GenerationGrows DEF GenerationOK
    <2>2. ASSUME NEW w \in Workers, NEW c \in batch[w], Send(w, c), m \notin net
          PROVE  m.gen <= outbox'[m.frame].gen
      <3>1. m.frame = c.frame /\ m.gen = c.gen
        BY <1>2, <2>2 DEF Send
      <3> QED
        BY <2>2, <3>1 DEF Send, GenerationOK
    <2> QED
      BY <1>2, <2>1, <2>2
         DEF Next, Dispatch, Crash, Receive, Refuse, Replay, Rollback, Lose, Commit, Respond,
             Enqueue, Claim, ExpireClaim, Resolve, Write, Tick, vars
  <1>3. ASSUME NEW f \in Frames, inbox'[f] # "none" PROVE outbox'[f].gen > 0
    <2>1. CASE inbox[f] # "none"
      BY <1>0, <2>1, GenerationGrows DEF GenerationOK
    <2>2. ASSUME NEW m \in net, NEW d \in Dispositions, Commit(m, d), inbox[f] = "none"
          PROVE  outbox'[f].gen > 0
      <3>1. m.frame = f
        BY <1>3, <2>2 DEF Commit, TypeInv, TypeOK
      <3>2. m.gen \in Nat \ {0} /\ m.gen <= outbox[f].gen
        BY <3>1, BoundAssumption DEF GenerationOK, TypeInv, TypeOK, Messages
      <3> QED
        BY <1>0, <2>2, <3>2 DEF Commit, Respond
    <2> QED
      BY <1>3, <2>1, <2>2
         DEF Next, Dispatch, Crash, Receive, Refuse, Replay, Rollback, Lose,
             Enqueue, Claim, ExpireClaim, Send, Resolve, Write, Tick, vars
  <1>4. \A f \in Frames : outbox'[f].state = "absent" => outbox'[f].gen = 0
    BY GenerationGrows
  <1> QED
    BY <1>1, <1>2, <1>3, <1>4 DEF GenerationOK

\* A committed frame stays committed.
LEMMA CommittedKept ==
  ASSUME TypeInv, [Next]_vars, NEW f \in Frames, inbox[f] \in Success
  PROVE  inbox'[f] \in Success
  BY ReceiptKept DEF Success

\* A response changes at most the reply of the dispatcher that waits for it,
\* and a successful one is sent only for a committed frame.
LEMMA RespondKnown ==
  ASSUME TypeInv, KnownOK, [Next]_vars, NEW m \in net, NEW r \in Results, Respond(m, r),
         r \in Success => inbox'[m.frame] \in Success
  PROVE  KnownOK'
  <1> SUFFICES ASSUME NEW w \in Workers
               PROVE  /\ reply'[w] \in Success =>
                            pc'[w] = "sending" /\ inbox'[cur'[w].frame] \in Success
                      /\ plan'[w].state = "delivered" =>
                            pc'[w] = "writing" /\ inbox'[cur'[w].frame] \in Success
    BY DEF KnownOK, Success
  <1>1. pc' = pc /\ cur' = cur /\ plan' = plan
    BY DEF Respond
  <1>2. pc[w] # "polling" => cur[w].frame \in Frames
    BY DEF TypeInv, TypeOK, DispatcherOK, Claims
  <1>3. plan'[w].state = "delivered" => pc'[w] = "writing" /\ inbox'[cur'[w].frame] \in Success
    BY <1>1, <1>2, CommittedKept DEF KnownOK
  <1>4. \/ reply'[w] = reply[w]
        \/ reply'[w] = r /\ pc[w] = "sending" /\ cur[w].frame = m.frame
    BY DEF Respond, TypeInv, TypeOK
  <1>5. reply'[w] \in Success =>
          pc'[w] = "sending" /\ inbox'[cur'[w].frame] \in Success
    BY <1>1, <1>2, <1>4, CommittedKept DEF KnownOK
  <1> QED
    BY <1>3, <1>5

\* What a dispatcher knows of a success stays true of the receiver.
LEMMA NextKnownOK == TypeInv /\ KnownOK /\ [Next]_vars => KnownOK'
  <1> SUFFICES ASSUME TypeInv, KnownOK, [Next]_vars PROVE KnownOK'
    OBVIOUS
  <1>0. ASSUME NEW w \in Workers, pc[w] # "polling"
        PROVE  /\ cur[w].frame \in Frames
               /\ inbox[cur[w].frame] \in Success => inbox'[cur[w].frame] \in Success
    BY <1>0, CommittedKept DEF TypeInv, TypeOK, DispatcherOK, Claims
  <1>1. ASSUME NEW v \in Workers, NEW c, Abort(v) \/ NextClaim(v, c) PROVE KnownOK'
    BY <1>0, <1>1 DEF KnownOK, Abort, NextClaim, NoPlan, TypeInv, TypeOK, Success
  <1>2. ASSUME NEW v \in Workers, NEW c \in batch[v], Send(v, c) PROVE KnownOK'
    BY <1>0, <1>2 DEF KnownOK, Send, TypeInv, TypeOK, Success
  <1>3. ASSUME NEW v \in Workers, NEW r \in Results, Resolve(v, r) PROVE KnownOK'
    <2>1. CASE Abort(v)
      BY <1>1, <2>1
    <2>2. CASE /\ pc' = [pc EXCEPT ![v] = "writing"]
               /\ plan' = [plan EXCEPT ![v] = PlanFor(cur[v], r)]
               /\ reply' = [reply EXCEPT ![v] = "none"]
               /\ UNCHANGED <<batch, cur>>
      <3>1. PlanFor(cur[v], r).state = "delivered" => inbox'[cur[v].frame] \in Success
        BY <1>0, <1>3 DEF PlanFor, Resolve, KnownOK, Results, Success
      <3> QED
        BY <1>0, <1>3, <2>2, <3>1 DEF KnownOK, Resolve, TypeInv, TypeOK, Success
    <2> QED
      BY <1>3, <2>1, <2>2 DEF Resolve
  <1>4. ASSUME NEW m \in net, Receive(m) PROVE KnownOK'
    <2>0. m.frame \in Frames
      BY DEF TypeInv, TypeOK, Messages
    <2>1. CASE Refuse(m)
      BY <2>1, RespondKnown DEF Refuse, Results, Success
    <2>2. CASE Replay(m)
      BY <2>0, <2>2, RespondKnown DEF Replay, Results, Success
    <2>3. CASE Rollback(m)
      BY <2>3, RespondKnown DEF Rollback, Results, Success
    <2>4. CASE Lose(m)
      BY <1>0, <2>4 DEF Lose, dispatchers, KnownOK
    <2>5. ASSUME NEW d \in Dispositions, Commit(m, d) PROVE KnownOK'
      <3>1. PICK r \in {d, "error"} : Respond(m, r)
        BY <2>5 DEF Commit
      <3>2. r \in Results /\ inbox'[m.frame] = d
        BY <2>0, <2>5 DEF Commit, Results, Dispositions, TypeInv, TypeOK
      <3> QED
        BY <3>1, <3>2, RespondKnown DEF Success
    <2> QED
      BY <1>4, <2>1, <2>2, <2>3, <2>4, <2>5 DEF Receive
  <1>5. CASE UNCHANGED dispatchers
    BY <1>0, <1>5 DEF dispatchers, KnownOK
  <1>6. CASE UNCHANGED <<pc, cur, reply, plan>>
    BY <1>0, <1>6 DEF KnownOK
  <1> QED
    BY <1>1, <1>2, <1>3, <1>4, <1>5, <1>6
       DEF Next, Dispatch, Crash, Enqueue, Claim, ExpireClaim, Write, Tick, vars

\* A step marks a row delivered only on a known success.
LEMMA NextDelivered ==
  TypeInv /\ KnownOK /\ DeliveredIsCommitted /\ [Next]_vars => DeliveredIsCommitted'
  <1> SUFFICES ASSUME TypeInv, KnownOK, DeliveredIsCommitted, [Next]_vars,
                      NEW f \in Frames, outbox'[f].state = "delivered"
               PROVE  inbox'[f] \in Success
    BY DEF DeliveredIsCommitted, Success
  <1>1. CASE outbox[f].state = "delivered"
    BY <1>1, CommittedKept DEF DeliveredIsCommitted, Success
  <1>2. CASE outbox[f].state # "delivered"
    <2>0. ASSUME outbox'[f] = outbox[f] PROVE FALSE
      BY <1>2, <2>0
    <2>a. ASSUME NEW g \in Frames, Enqueue(g) PROVE FALSE
      BY <2>0, <2>a DEF Enqueue, PendingRow, TypeInv, TypeOK
    <2>b. ASSUME NEW w \in Workers, NEW t \in 0..MaxTime, NEW S \in SUBSET Frames,
                 Claim(w, t, S)
          PROVE  FALSE
      BY <2>0, <2>b DEF Claim, Close, Released, LeasedRow
    <2>c. ASSUME NEW w \in Workers, NEW c \in batch[w], ExpireClaim(w, c) PROVE FALSE
      BY <2>0, <2>c DEF ExpireClaim, Close, Released, TypeInv, TypeOK
    <2>1. PICK w \in Workers : Write(w) /\ outbox'[f] # outbox[f]
      BY <2>0, <2>a, <2>b, <2>c
         DEF Next, Dispatch, Crash, Receive, Refuse, Replay, Rollback, Lose, Commit,
             Respond, Send, Resolve, Tick, vars
    <2>2. cur[w].frame = f /\ plan[w].state = "delivered"
      BY <2>1 DEF Write, Released, TypeInv, TypeOK
    <2> QED
      BY <2>2, CommittedKept DEF KnownOK
  <1> QED
    BY <1>1, <1>2

\* A row is marked delivered only when the receiver has committed the frame's
\* receipt, for every schedule of dispatchers, requests, answers and crashes.
THEOREM DeliveredSafe == Spec => []DeliveredIsCommitted
  <1> DEFINE I == TypeInv /\ KnownOK /\ DeliveredIsCommitted
  <1>1. Init => I
    BY InitTypeInv DEF Init, KnownOK, DeliveredIsCommitted, NoRow, NoPlan, Success
  <1>2. I /\ [Next]_vars => I'
    BY NextTypeInv, NextKnownOK, NextDelivered
  <1> QED
    BY <1>1, <1>2, PTL DEF Spec

-----------------------------------------------------------------------------
(* Domain effects: at most once, and in lane order unless given up. *)

\* Every domain mutation has its accepted receipt.
LogOK == \A i \in 1..Len(log) : inbox[log[i]] = "accepted"

EffectInv == GenerationOK /\ DeliveredIsCommitted /\ LogOK /\ EffectAtMostOnce
             /\ LaneGate /\ LateOnlyIfGivenUp

\* The initial state satisfies the effect invariant.
LEMMA InitEffectInv == Init => EffectInv
  <1> SUFFICES ASSUME Init PROVE EffectInv
    OBVIOUS
  <1>1. Len(log) = 0
    BY DEF Init
  <1>2. 1..Len(log) = {}
    BY <1>1
  <1>3. LogOK /\ EffectAtMostOnce /\ LateOnlyIfGivenUp
    BY <1>2 DEF LogOK, EffectAtMostOnce, LateOnlyIfGivenUp
  <1>4. GenerationOK /\ DeliveredIsCommitted /\ LaneGate
    BY DEF Init, GenerationOK, DeliveredIsCommitted, LaneGate, NoRow
  <1> QED
    BY <1>3, <1>4 DEF EffectInv

\* The log grows by one frame without a receipt, which then has one.
LEMMA LogSteps ==
  ASSUME TypeInv, [Next]_vars
  PROVE  \/ log' = log
         \/ \E m \in net : /\ log' = Append(log, m.frame)
                           /\ Fresh(m.frame)
                           /\ inbox[m.frame] = "none"
                           /\ inbox'[m.frame] = "accepted"
                           /\ outbox' = outbox
  <1>1. ASSUME NEW m \in net, NEW d \in Dispositions, Commit(m, d), log' # log
        PROVE  /\ log' = Append(log, m.frame)
               /\ Fresh(m.frame)
               /\ inbox[m.frame] = "none"
               /\ inbox'[m.frame] = "accepted"
               /\ outbox' = outbox
    <2>1. m.frame \in Frames
      BY DEF TypeInv, TypeOK, Messages
    <2> QED
      BY <1>1, <2>1 DEF Commit, Fresh, InboxConflict, Respond, TypeInv, TypeOK
  <1> QED
    BY <1>1 DEF Next, Dispatch, Crash, Receive, Refuse, Replay, Rollback, Lose, Enqueue,
                Claim, ExpireClaim, Send, Resolve, Write, Tick, vars

\* The length and the elements of an extended sequence.
LEMMA AppendFacts ==
  ASSUME NEW q \in Seq(Frames), NEW e \in Frames
  PROVE  /\ Len(q) \in Nat
         /\ Len(Append(q, e)) = Len(q) + 1
         /\ \A i \in 1..Len(q) : Append(q, e)[i] = q[i] /\ q[i] \in Frames
         /\ Append(q, e)[Len(q) + 1] = e
  OBVIOUS

\* Every step keeps the lane gated.
LEMMA NextLaneGate ==
  TypeInv /\ GenerationOK /\ LaneGate /\ [Next]_vars => LaneGate'
  <1> SUFFICES ASSUME TypeInv, GenerationOK, LaneGate, [Next]_vars,
                      NEW f \in Frames, NEW g \in Frames,
                      Precedes(f, g), outbox'[f].state \in Open
               PROVE  outbox'[g].gen = 0
    BY DEF LaneGate, Precedes
  <1>0. f # g /\ Source[f] = Source[g]
    BY TableAssumption DEF Precedes
  <1>1. CASE outbox[f].state \notin Open
    <2>1. outbox'[f].state # outbox[f].state
      BY <1>1
    <2>2. Enqueue(f)
      <3>1. outbox[f].state = "absent"
        BY <1>1, <2>1, RowSteps DEF RowStep, Open
      <3>2. ASSUME NEW w \in Workers, NEW t \in 0..MaxTime, NEW S \in SUBSET Frames,
                   Claim(w, t, S)
            PROVE  FALSE
        BY <2>1, <3>1, <3>2 DEF Claim, FirstDue, Claimable, Due, Expiring, Open
      <3>3. ASSUME NEW w \in Workers, NEW c \in batch[w], ExpireClaim(w, c) PROVE FALSE
        BY <2>1, <3>1, <3>3 DEF ExpireClaim, HoldsLease, TypeInv, TypeOK
      <3>4. ASSUME NEW w \in Workers, Write(w) PROVE FALSE
        BY <2>1, <3>1, <3>4 DEF Write, HoldsLease, TypeInv, TypeOK
      <3>5. ASSUME NEW h \in Frames, h # f, Enqueue(h) PROVE FALSE
        BY <2>1, <3>5 DEF Enqueue, TypeInv, TypeOK
      <3> QED
        BY <2>1, <3>2, <3>3, <3>4, <3>5
           DEF Next, Dispatch, Crash, Receive, Refuse, Replay, Rollback, Lose, Commit,
               Respond, Send, Resolve, Tick, vars
    <2>3. outbox[g].state = "absent" /\ outbox'[g] = outbox[g]
      BY <1>0, <2>2 DEF Enqueue, TypeInv, TypeOK
    <2> QED
      BY <2>3 DEF GenerationOK
  <1>2. CASE outbox[f].state \in Open
    <2>1. outbox[g].gen = 0
      BY <1>2 DEF LaneGate
    <2>2. ASSUME NEW w \in Workers, NEW t \in 0..MaxTime, NEW S \in SUBSET Frames,
                 Claim(w, t, S)
          PROVE  outbox'[g].gen = 0
      <3>1. CASE g \in S
        <4>1. Source[g] = Station[w] /\ ~Blocked(g, t)
          BY <2>2, <3>1 DEF Claim, FirstDue, Claimable
        <4>2. Expiring(f, t)
          BY <1>2, <4>1 DEF Blocked
        <4>3. outbox'[f].state = "expired"
          BY <1>0, <2>2, <4>1, <4>2 DEF Claim, Close, Released
        <4> QED
          BY <4>3 DEF Open
      <3>2. CASE g \notin S
        BY <2>1, <2>2, <3>2 DEF Claim, Close, Released
      <3> QED
        BY <3>1, <3>2
    <2>3. ASSUME NEW h \in Frames, Enqueue(h) PROVE outbox'[g].gen = 0
      BY <2>1, <2>3 DEF Enqueue, PendingRow, TypeInv, TypeOK
    <2>4. ASSUME NEW w \in Workers, NEW c \in batch[w], ExpireClaim(w, c)
          PROVE  outbox'[g].gen = 0
      BY <2>1, <2>4 DEF ExpireClaim, Close, Released, TypeInv, TypeOK
    <2>5. ASSUME NEW w \in Workers, Write(w) PROVE outbox'[g].gen = 0
      BY <2>1, <2>5 DEF Write, Released, TypeInv, TypeOK
    <2> QED
      BY <2>1, <2>2, <2>3, <2>4, <2>5
         DEF Next, Dispatch, Crash, Receive, Refuse, Replay, Rollback, Lose, Commit,
             Respond, Send, Resolve, Tick, vars
  <1> QED
    BY <1>1, <1>2

\* Every step keeps the log free of duplicates and of unexplained late frames.
LEMMA NextEffects ==
  TypeInv /\ EffectInv /\ [Next]_vars => LogOK' /\ EffectAtMostOnce' /\ LateOnlyIfGivenUp'
  <1> SUFFICES ASSUME TypeInv, EffectInv, [Next]_vars
               PROVE  LogOK' /\ EffectAtMostOnce' /\ LateOnlyIfGivenUp'
    OBVIOUS
  <1>0. log \in Seq(Frames) /\ Len(log) \in Nat /\ \A i \in 1..Len(log) : log[i] \in Frames
    BY DEF TypeInv, TypeOK
  <1>1. ASSUME NEW f \in Frames, outbox[f].state \in {"terminal", "expired"}
        PROVE  outbox'[f].state \in {"terminal", "expired"}
    BY <1>1, RowSteps DEF RowStep, Open
  <1>2. \A i \in 1..Len(log) : inbox'[log[i]] = "accepted"
    BY <1>0, ReceiptKept DEF EffectInv, LogOK
  <1>3. CASE log' = log
    BY <1>0, <1>1, <1>2, <1>3 DEF EffectInv, LogOK, EffectAtMostOnce, LateOnlyIfGivenUp, Precedes
  <1>4. ASSUME NEW m \in net, log' = Append(log, m.frame), inbox[m.frame] = "none",
               inbox'[m.frame] = "accepted", outbox' = outbox
        PROVE  LogOK' /\ EffectAtMostOnce' /\ LateOnlyIfGivenUp'
    <2>1. m.frame \in Frames /\ m.gen \in Nat \ {0} /\ outbox[m.frame] \in Rows
      BY BoundAssumption DEF TypeInv, TypeOK, Messages
    <2>2. /\ Len(log') = Len(log) + 1 /\ log'[Len(log) + 1] = m.frame
          /\ \A i \in 1..Len(log) : log'[i] = log[i]
      BY <1>0, <1>4, <2>1, AppendFacts
    <2>3. \A i \in 1..Len(log) : log[i] # m.frame
      BY <1>4 DEF EffectInv, LogOK
    <2>4. LogOK'
      BY <1>0, <1>2, <1>4, <2>2 DEF LogOK
    <2>5. EffectAtMostOnce'
      BY <1>0, <2>2, <2>3 DEF EffectInv, EffectAtMostOnce
    <2>6. ASSUME NEW i \in 1..Len(log), Precedes(m.frame, log[i])
          PROVE  outbox[m.frame].state \in {"terminal", "expired"}
      <3>1. outbox[log[i]].gen > 0
        BY <1>0 DEF EffectInv, LogOK, GenerationOK
      <3>2. outbox[m.frame].state \notin Open
        BY <1>0, <2>1, <2>6, <3>1 DEF EffectInv, LaneGate
      <3>3. m.gen <= outbox[m.frame].gen /\ outbox[m.frame].gen \in Nat
        BY <2>1, BoundAssumption DEF EffectInv, GenerationOK, Rows
      <3>4. outbox[m.frame].state # "absent"
        BY <2>1, <3>3 DEF EffectInv, GenerationOK
      <3>5. outbox[m.frame].state # "delivered"
        BY <1>4, <2>1 DEF EffectInv, DeliveredIsCommitted
      <3> QED
        BY <2>1, <3>2, <3>4, <3>5 DEF Rows, Open, Settled
    <2>7. LateOnlyIfGivenUp'
      <3> SUFFICES ASSUME NEW i \in 1..Len(log'), NEW j \in 1..Len(log'),
                          i < j, Precedes(log'[j], log'[i])
                   PROVE  outbox'[log'[j]].state \in {"terminal", "expired"}
        BY DEF LateOnlyIfGivenUp, Precedes
      <3>1. CASE j = Len(log) + 1
        BY <1>0, <1>4, <2>2, <2>6, <3>1
      <3>2. CASE j # Len(log) + 1
        <4>1. i \in 1..Len(log) /\ j \in 1..Len(log)
          BY <1>0, <2>2, <3>2
        <4>2. Precedes(log[j], log[i])
          BY <2>2, <4>1
        <4>3. outbox[log[j]].state \in {"terminal", "expired"}
          BY <4>1, <4>2 DEF EffectInv, LateOnlyIfGivenUp
        <4> QED
          BY <1>4, <2>2, <4>1, <4>3
      <3> QED
        BY <3>1, <3>2
    <2> QED
      BY <2>4, <2>5, <2>7
  <1> QED
    BY <1>3, <1>4, LogSteps

\* The effect invariant is inductive.
LEMMA NextEffectInv == TypeInv /\ KnownOK /\ EffectInv /\ [Next]_vars => EffectInv'
  BY NextGenerationOK, NextDelivered, NextLaneGate, NextEffects DEF EffectInv

\* The effect invariant holds in every reachable state.
LEMMA EffectInvariant == Spec => []EffectInv
  <1> DEFINE I == TypeInv /\ KnownOK /\ EffectInv
  <1>1. Init => I
    BY InitTypeInv, InitEffectInv DEF Init, KnownOK, NoPlan, Success
  <1>2. I /\ [Next]_vars => I'
    BY NextTypeInv, NextKnownOK, NextEffectInv
  <1> QED
    BY <1>1, <1>2, PTL DEF Spec

\* The receiving domain mutates at most once for a frame, however often the
\* frame is sent, reclaimed, answered late or replayed.
THEOREM EffectOnce == Spec => []EffectAtMostOnce
  BY EffectInvariant, PTL DEF EffectInv

\* A frame is applied only if no frame of its identity was: an entry of the log has an
\* accepted receipt, and Fresh looks at both unique keys of the inbox.
LEMMA NextOnePerIdentity ==
  TypeInv /\ EffectInv /\ EffectOncePerIdentity /\ [Next]_vars => EffectOncePerIdentity'
  <1> SUFFICES ASSUME TypeInv, EffectInv, EffectOncePerIdentity, [Next]_vars
               PROVE  EffectOncePerIdentity'
    OBVIOUS
  <1>0. log \in Seq(Frames) /\ Len(log) \in Nat /\ \A i \in 1..Len(log) : log[i] \in Frames
    BY DEF TypeInv, TypeOK
  <1>1. CASE log' = log
    BY <1>1 DEF EffectOncePerIdentity, InboxConflict
  <1>2. ASSUME NEW m \in net, log' = Append(log, m.frame), Fresh(m.frame)
        PROVE  EffectOncePerIdentity'
    <2>1. m.frame \in Frames
      BY DEF TypeInv, TypeOK, Messages
    <2>2. /\ Len(log') = Len(log) + 1 /\ log'[Len(log) + 1] = m.frame
          /\ \A i \in 1..Len(log) : log'[i] = log[i]
      BY <1>0, <1>2, <2>1, AppendFacts
    <2>3. \A i \in 1..Len(log) : ~InboxConflict(m.frame, log[i]) /\ ~InboxConflict(log[i], m.frame)
      BY <1>0, <1>2 DEF EffectInv, LogOK, Fresh, InboxConflict
    <2> SUFFICES ASSUME NEW i \in 1..Len(log'), NEW j \in 1..Len(log'),
                        InboxConflict(log'[i], log'[j])
                 PROVE  i = j
      BY DEF EffectOncePerIdentity, InboxConflict
    <2>4. CASE i \in 1..Len(log) /\ j \in 1..Len(log)
      BY <2>2, <2>4 DEF EffectOncePerIdentity
    <2>5. CASE i = Len(log) + 1 /\ j \in 1..Len(log)
      BY <2>2, <2>3, <2>5
    <2>6. CASE j = Len(log) + 1 /\ i \in 1..Len(log)
      BY <2>2, <2>3, <2>6
    <2> QED
      BY <1>0, <2>2, <2>4, <2>5, <2>6
  <1> QED
    BY <1>1, <1>2, LogSteps

\* Of the frames that share an identity at the receiver, the domain accepts one, whatever
\* Station, worker or retry it comes from.
THEOREM EffectOnceByIdentity == Spec => []EffectOncePerIdentity
  <1>1. Init => EffectOncePerIdentity
    BY DEF Init, EffectOncePerIdentity
  <1>2. Spec => []TypeInv
    BY InitTypeInv, NextTypeInv, PTL DEF Spec
  <1> QED
    BY <1>1, <1>2, EffectInvariant, NextOnePerIdentity, PTL DEF Spec

\* No later frame of a lane is leased while an earlier one is unsettled.
THEOREM LaneIsGated == Spec => []LaneGate
  BY EffectInvariant, PTL DEF EffectInv

\* The receiver applies a lane in order, but for late copies of frames that
\* the sender has given up: no delivered frame is applied after a successor.
THEOREM LaneOrder == Spec => []LateOnlyIfGivenUp
  BY EffectInvariant, PTL DEF EffectInv

-----------------------------------------------------------------------------
(* Leases *)

\* A claim of the row's generation is of a row still under that lease, or
\* settled; a claim of an earlier generation has run out.
LeaseOK(c) ==
  /\ c.gen = outbox[c.frame].gen =>
       \/ outbox[c.frame].state \in Settled
       \/ outbox[c.frame].state = "leased" /\ outbox[c.frame].until = c.until
  /\ c.gen < outbox[c.frame].gen => c.until <= now

\* A batch holds one claim per frame, and no generation is held twice.
ClaimsDistinct ==
  \A v, w \in Workers : \A c \in batch[v], d \in batch[w] :
    c.frame = d.frame /\ c.gen = d.gen => v = w /\ c = d

LeaseInv == ClaimsDistinct /\ \A w \in Workers : \A c \in batch[w] : LeaseOK(c)

\* A claim creates leases distinct from every other one held.
LEMMA ClaimLeases ==
  ASSUME TypeInv, GenerationOK, LeaseInv, NEW w \in Workers, NEW t \in 0..MaxTime,
         NEW S \in SUBSET Frames, Claim(w, t, S), [Next]_vars
  PROVE  LeaseInv'
  <1>0. /\ now \in Nat /\ now' = now /\ t <= now
        /\ \A f \in Frames : outbox[f].gen \in Nat /\ outbox[f].until \in Nat
        /\ \A c \in Claims : c.frame \in Frames /\ c.gen \in Nat \ {0} /\ c.until \in Nat
        /\ \A v \in Workers : batch[v] \subseteq Claims
    <2>1. /\ now \in 0..MaxTime /\ outbox \in [Frames -> Rows]
          /\ \A v \in Workers : batch[v] \subseteq Claims
      BY DEF TypeInv, TypeOK
    <2>2. now' = now /\ t <= now
      BY DEF Claim
    <2>3. \A x \in Rows : x.gen \in Nat /\ x.until \in Nat
      BY BoundAssumption DEF Rows
    <2>4. \A c \in Claims : c.frame \in Frames /\ c.gen \in Nat \ {0} /\ c.until \in Nat
      BY BoundAssumption DEF Claims
    <2> QED
      BY <2>1, <2>2, <2>3, <2>4, BoundAssumption
  <1>1. batch[w] = {} /\ batch'[w] = {ClaimOf(f, t) : f \in S \ Corrupt}
        /\ \A v \in Workers : v # w => batch'[v] = batch[v]
    BY DEF Claim, TypeInv, TypeOK
  <1>2. ASSUME NEW f \in S \ Corrupt
        PROVE  /\ outbox'[f] = LeasedRow(f, t)
               /\ Due(f, t)
               /\ ClaimOf(f, t).frame = f
               /\ ClaimOf(f, t).gen = outbox[f].gen + 1
    <2>1. Due(f, t) /\ ~Expiring(f, t)
      BY TableAssumption DEF Claim, FirstDue, Claimable, Expiring, TypeInv, TypeOK
    <2>2. outbox'[f] = LeasedRow(f, t)
      BY <2>1 DEF Claim
    <2> QED
      BY <2>1, <2>2 DEF ClaimOf, LeasedRow
  <1>3. ASSUME NEW f \in S \ Corrupt, NEW c, c = ClaimOf(f, t) PROVE LeaseOK(c)'
    <2>1. outbox'[f] = LeasedRow(f, t) /\ f \in Frames
      BY <1>2
    <2>2. c.frame = f /\ c.gen = outbox'[f].gen /\ c.until = outbox'[f].until
      BY <1>3, <2>1 DEF ClaimOf
    <2>3. outbox'[f].state = "leased" /\ outbox'[f].gen = outbox[f].gen + 1
      BY <2>1 DEF LeasedRow
    <2> QED
      BY <1>0, <2>1, <2>2, <2>3 DEF LeaseOK
  <1>4. ASSUME NEW v \in Workers, NEW c \in batch[v] PROVE LeaseOK(c)'
    <2>0. c.frame \in Frames /\ LeaseOK(c) /\ c.gen <= outbox[c.frame].gen
      BY <1>0, <1>4 DEF LeaseInv, GenerationOK
    <2>1. CASE c.frame \in S \ Corrupt
      <3>0. outbox'[c.frame] = LeasedRow(c.frame, t) /\ Due(c.frame, t)
        BY <1>2, <2>1
      <3>1. outbox'[c.frame].gen = outbox[c.frame].gen + 1
        BY <3>0 DEF LeasedRow
      <3>2. c.gen = outbox[c.frame].gen => c.until <= t
        BY <1>0, <2>0, <3>0 DEF LeaseOK, Due, Settled
      <3> QED
        BY <1>0, <2>0, <3>1, <3>2 DEF LeaseOK
    <2>2. CASE c.frame \notin S \ Corrupt
      <3>1. \/ outbox'[c.frame] = outbox[c.frame]
            \/ /\ outbox'[c.frame].state \in Settled
               /\ outbox'[c.frame].gen = outbox[c.frame].gen
        BY <2>0, <2>2 DEF Claim, Close, Released, Settled
      <3> QED
        BY <1>0, <2>0, <3>1 DEF LeaseOK
    <2> QED
      BY <2>1, <2>2
  <1>5. \A v \in Workers : \A c \in batch'[v] : LeaseOK(c)'
    BY <1>1, <1>3, <1>4
  <1>6. ClaimsDistinct'
    <2>1. ASSUME NEW v \in Workers, v # w, NEW c \in batch[v], NEW f \in S \ Corrupt
          PROVE  ~(c.frame = f /\ c.gen = ClaimOf(f, t).gen)
      BY <1>0, <1>2, <2>1 DEF GenerationOK
    <2>2. ASSUME NEW f \in S \ Corrupt, NEW g \in S \ Corrupt,
                 ClaimOf(f, t).frame = ClaimOf(g, t).frame
          PROVE  ClaimOf(f, t) = ClaimOf(g, t)
      BY <1>2, <2>2
    <2>3. ASSUME NEW u \in Workers, NEW v \in Workers, NEW c \in batch'[u], NEW d \in batch'[v],
                 c.frame = d.frame, c.gen = d.gen
          PROVE  u = v /\ c = d
      <3>1. CASE u # w /\ v # w
        BY <1>1, <2>3, <3>1 DEF LeaseInv, ClaimsDistinct
      <3>2. CASE u = w /\ v # w
        BY <1>1, <1>2, <2>1, <2>3, <3>2
      <3>3. CASE u # w /\ v = w
        BY <1>1, <1>2, <2>1, <2>3, <3>3
      <3>4. CASE u = w /\ v = w
        BY <1>1, <2>2, <2>3, <3>4
      <3> QED
        BY <3>1, <3>2, <3>3, <3>4
    <2> QED
      BY <2>3 DEF ClaimsDistinct
  <1> QED
    BY <1>5, <1>6 DEF LeaseInv

\* Every step keeps the leases distinct.
LEMMA NextLeaseInv == TypeInv /\ GenerationOK /\ LeaseInv /\ [Next]_vars => LeaseInv'
  <1> SUFFICES ASSUME TypeInv, GenerationOK, LeaseInv, [Next]_vars PROVE LeaseInv'
    OBVIOUS
  <1>0. /\ now \in Nat
        /\ \A c \in Claims : c.frame \in Frames /\ c.gen \in Nat \ {0} /\ c.until \in Nat
        /\ \A v \in Workers : batch[v] \subseteq Claims
    BY BoundAssumption DEF TypeInv, TypeOK, Claims
  \* No batch grows, and the rows of the claims that stay keep their lease.
  <1> DEFINE Shrinks == \A v \in Workers : batch'[v] \subseteq batch[v]
             Kept(c) == LeaseOK(c)'
  <1>1. ASSUME Shrinks, \A v \in Workers : \A c \in batch'[v] : LeaseOK(c) => Kept(c)
        PROVE  LeaseInv'
    BY <1>1 DEF LeaseInv, ClaimsDistinct
  <1>2. ASSUME Shrinks, UNCHANGED <<outbox, now>> PROVE LeaseInv'
    BY <1>1, <1>2 DEF LeaseOK
  <1>3. ASSUME NEW w \in Workers, NEW c, Abort(w) \/ NextClaim(w, c)
        PROVE  Shrinks
    BY <1>3 DEF Abort, NextClaim, TypeInv, TypeOK
  <1>4. ASSUME NEW f \in Frames, Enqueue(f) PROVE LeaseInv'
    <2>1. outbox[f].state = "absent" /\ outbox[f].gen = 0
      BY <1>4 DEF Enqueue, OutboxConflict, GenerationOK
    <2>2. ASSUME NEW v \in Workers, NEW c \in batch[v] PROVE c.frame # f
      BY <1>0, <2>1, <2>2 DEF GenerationOK
    <2>3. batch' = batch /\ now' = now
      BY <1>4 DEF Enqueue, dispatchers
    <2>4. ASSUME NEW v \in Workers, NEW c \in batch[v], LeaseOK(c) PROVE Kept(c)
      BY <1>0, <1>4, <2>2, <2>3, <2>4 DEF Enqueue, LeaseOK, TypeInv, TypeOK
    <2> QED
      BY <1>1, <2>3, <2>4
  <1>5. ASSUME NEW w \in Workers, NEW c \in batch[w], ExpireClaim(w, c) PROVE LeaseInv'
    <2>1. Shrinks /\ now' = now
      BY <1>3, <1>5 DEF ExpireClaim
    <2>2. ASSUME NEW v \in Workers, NEW d \in batch[v], LeaseOK(d) PROVE Kept(d)
      <3>1. d.frame \in Frames
        BY <1>0
      <3>2. \/ outbox'[d.frame] = outbox[d.frame]
            \/ /\ outbox'[d.frame].state \in Settled
               /\ outbox'[d.frame].gen = outbox[d.frame].gen
        BY <1>5, <3>1 DEF ExpireClaim, Close, Released, Settled, TypeInv, TypeOK
      <3> QED
        BY <2>1, <2>2, <3>2 DEF LeaseOK
    <2> QED
      BY <1>1, <2>1, <2>2
  <1>6. ASSUME NEW w \in Workers, Write(w) PROVE LeaseInv'
    <2>1. Shrinks /\ now' = now
      BY <1>3, <1>6 DEF Write
    <2>2. CASE UNCHANGED outbox
      BY <1>2, <2>1, <2>2
    <2>3. CASE HoldsLease(cur[w]) /\ NextClaim(w, cur[w])
      <3>1. cur[w] \in batch[w] /\ cur[w].frame \in Frames
        BY <1>0, <1>6 DEF Write, TypeInv, DispatcherOK
      <3>2. ASSUME NEW v \in Workers, NEW d \in batch'[v], LeaseOK(d) PROVE Kept(d)
        <4>1. d \in batch[v] /\ d.frame \in Frames /\ (v = w => d # cur[w])
          BY <1>0, <2>1, <2>3, <3>2 DEF NextClaim, TypeInv, TypeOK
        <4>2. CASE d.frame = cur[w].frame
          <5>1. d.gen # cur[w].gen
            BY <3>1, <4>1, <4>2 DEF LeaseInv, ClaimsDistinct
          <5>2. outbox'[d.frame].gen = outbox[d.frame].gen /\ outbox[d.frame].gen = cur[w].gen
            BY <1>6, <2>3, <3>1, <4>2 DEF Write, HoldsLease, Released, TypeInv, TypeOK
          <5> QED
            BY <2>1, <3>2, <5>1, <5>2 DEF LeaseOK
        <4>3. CASE d.frame # cur[w].frame
          BY <1>6, <2>1, <3>2, <4>1, <4>3 DEF Write, LeaseOK, TypeInv, TypeOK
        <4> QED
          BY <4>2, <4>3
      <3> QED
        BY <1>1, <2>1, <3>2
    <2> QED
      BY <1>6, <2>2, <2>3 DEF Write
  <1>7. CASE Tick
    BY <1>0, <1>1, <1>7 DEF Tick, dispatchers, LeaseOK
  <1>8. ASSUME NEW w \in Workers, Crash(w) PROVE LeaseInv'
    BY <1>2, <1>3, <1>8 DEF Crash
  <1>9. ASSUME NEW w \in Workers, NEW r \in Results, Resolve(w, r) PROVE LeaseInv'
    BY <1>2, <1>3, <1>9 DEF Resolve
  <1>10. CASE UNCHANGED <<batch, outbox, now>>
    BY <1>2, <1>10
  <1> QED
    BY <1>4, <1>5, <1>6, <1>7, <1>8, <1>9, <1>10, ClaimLeases
       DEF Next, Dispatch, Send, Receive, Refuse, Replay, Rollback, Lose, Commit, Respond,
           vars, dispatchers

\* Two dispatchers of a Station never hold the same generation of a frame, nor
\* two unexpired claims of it.
THEOREM LeasesExclude == Spec => []LeaseExclusive
  <1> DEFINE I == TypeInv /\ GenerationOK /\ LeaseInv
  <1>1. Init => I
    BY InitTypeInv, InitEffectInv DEF Init, EffectInv, LeaseInv, ClaimsDistinct
  <1>2. I /\ [Next]_vars => I'
    BY NextTypeInv, NextGenerationOK, NextLeaseInv
  <1>3. I => LeaseExclusive
    <2> SUFFICES ASSUME I, NEW v \in Workers, NEW w \in Workers, v # w,
                        NEW c \in batch[v], NEW d \in batch[w], c.frame = d.frame
                 PROVE  c.gen # d.gen /\ ~(c.until > now /\ d.until > now)
      BY DEF LeaseExclusive
    <2>1. /\ c.gen \in Nat /\ d.gen \in Nat /\ outbox[c.frame].gen \in Nat
          /\ now \in Nat /\ c.until \in Nat /\ d.until \in Nat
      <3>1. c \in Claims /\ d \in Claims /\ now \in 0..MaxTime /\ outbox \in [Frames -> Rows]
        BY DEF TypeInv, TypeOK
      <3>2. \A x \in Claims : x.frame \in Frames /\ x.gen \in Nat /\ x.until \in Nat
        BY BoundAssumption DEF Claims
      <3>3. \A x \in Rows : x.gen \in Nat
        BY BoundAssumption DEF Rows
      <3> QED
        BY <3>1, <3>2, <3>3, BoundAssumption
    <2>2. c.gen # d.gen
      BY DEF LeaseInv, ClaimsDistinct
    <2>3. c.gen <= outbox[c.frame].gen /\ d.gen <= outbox[c.frame].gen
      BY DEF GenerationOK
    <2>4. c.until <= now \/ d.until <= now
      BY <2>1, <2>2, <2>3 DEF LeaseInv, LeaseOK
    <2> QED
      BY <2>1, <2>2, <2>4
  <1> QED
    BY <1>1, <1>2, <1>3, PTL DEF Spec

-----------------------------------------------------------------------------
(* The refinement: what the outbox, the dispatchers and the inbox do, seen    *)
(* through the rows' states, is what the channel allows.                      *)

StatusMap == [f \in Frames |-> Status(f)]

Verdicts == {"accepted", "duplicate", "terminal", "conflict"}

\* The status of a frame, by the state of its row.
LEMMA StatusOf ==
  ASSUME TypeInv, NEW f \in Frames
  PROVE  /\ outbox[f].state \in {"absent"} \cup Open \cup Settled
         /\ Status(f) = "unsent" <=> outbox[f].state = "absent"
         /\ Status(f) = "queued" <=> outbox[f].state \in Open
         /\ Status(f) = "delivered" <=> outbox[f].state = "delivered"
         /\ Status(f) = "given_up" <=> outbox[f].state \in {"terminal", "expired"}
         /\ Status(f) \in {"unsent", "queued", "delivered", "given_up"}
  <1>1. outbox[f].state \in {"absent"} \cup Open \cup Settled
    BY DEF TypeInv, TypeOK, Rows
  <1> QED
    BY <1>1 DEF Status, Open, Settled

\* The same after a step.
LEMMA StatusAfter ==
  ASSUME TypeInv', NEW f \in Frames
  PROVE  /\ outbox'[f].state \in {"absent"} \cup Open \cup Settled
         /\ Status(f)' = "unsent" <=> outbox'[f].state = "absent"
         /\ Status(f)' = "queued" <=> outbox'[f].state \in Open
         /\ Status(f)' = "delivered" <=> outbox'[f].state = "delivered"
         /\ Status(f)' = "given_up" <=> outbox'[f].state \in {"terminal", "expired"}
         /\ Status(f)' \in {"unsent", "queued", "delivered", "given_up"}
  <1>1. outbox'[f].state \in {"absent"} \cup Open \cup Settled
    BY DEF TypeInv, TypeOK, Rows
  <1> QED
    BY <1>1 DEF Status, Open, Settled

\* Rows that are inserted by nobody and delivered by nobody may only be given up.
LEMMA GivenUp ==
  ASSUME TypeInv, TypeInv', inbox' = inbox, log' = log,
         \A f \in Frames : RowStep(f),
         \A f \in Frames : outbox[f].state = "absent" => outbox'[f] = outbox[f],
         \A f \in Frames : outbox'[f].state = "delivered" => outbox'[f] = outbox[f]
  PROVE  Channel!Next
  <1> DEFINE F == {f \in Frames : outbox'[f].state \in {"terminal", "expired"}
                                  /\ outbox[f].state \in Open}
  <1>1. \A f \in F : Status(f) = "queued"
    BY StatusOf
  <1>2. ASSUME NEW f \in Frames
        PROVE  Status(f)' = IF f \in F THEN "given_up" ELSE Status(f)
    <2>1. CASE f \in F
      BY <2>1, StatusAfter
    <2>2. CASE f \notin F
      <3>1. \/ outbox'[f].state = outbox[f].state
            \/ outbox[f].state \in Open /\ outbox'[f].state \in Open
        BY <2>2 DEF RowStep, Open
      <3> QED
        BY <2>2, <3>1, StatusOf, StatusAfter DEF Open, Settled
    <2> QED
      BY <2>1, <2>2
  <1>3. StatusMap' = [f \in Frames |-> IF f \in F THEN "given_up" ELSE StatusMap[f]]
    BY <1>2 DEF StatusMap
  <1>4. Channel!GiveUp(F)
    BY <1>1, <1>3 DEF Channel!GiveUp, StatusMap
  <1> QED
    BY <1>4 DEF Channel!Next

\* A step that changes neither a status nor the receiver is invisible.
LEMMA Invisible ==
  ASSUME UNCHANGED <<outbox, inbox, log>>
  PROVE  UNCHANGED Channel!channel
  <1>1. \A f \in Frames : Status(f)' = Status(f)
    BY DEF Status
  <1> QED
    BY <1>1 DEF Channel!channel

\* An insert into the outbox submits the frame.
LEMMA EnqueueSubmits ==
  ASSUME TypeInv, TypeInv', NEW g \in Frames, Enqueue(g)
  PROVE  Channel!Next
  <1>1. outbox[g].state = "absent"
    BY DEF Enqueue, OutboxConflict
  <1>2. outbox' = [outbox EXCEPT ![g] = PendingRow] /\ inbox' = inbox /\ log' = log
    BY DEF Enqueue
  <1>3. Status(g) = "unsent" /\ Status(g)' = "queued"
    BY <1>1, <1>2, StatusOf, StatusAfter DEF PendingRow, Open, TypeInv, TypeOK
  <1>4. \A f \in Frames \ {g} : Status(f)' = Status(f)
    BY <1>2 DEF Status, TypeInv, TypeOK
  <1>5. StatusMap' = [StatusMap EXCEPT ![g] = "queued"]
    BY <1>3, <1>4 DEF StatusMap
  <1>6. Channel!Submit(g)
    BY <1>2, <1>3, <1>5 DEF Channel!Submit, StatusMap
  <1> QED
    BY <1>6 DEF Channel!Next

\* The UPDATE that marks a row delivered delivers a frame the receiver decided on;
\* the others give a frame up, or leave it queued for a retry.
LEMMA WriteDelivers ==
  ASSUME TypeInv, TypeInv', KnownOK, NEW w \in Workers, Write(w),
         \A f \in Frames : RowStep(f)
  PROVE  Channel!Next \/ UNCHANGED Channel!channel
  <1>0. inbox' = inbox /\ log' = log
    BY DEF Write
  <1>1. CASE ~HoldsLease(cur[w])
    BY <1>0, <1>1, Invisible DEF Write
  <1>2. CASE HoldsLease(cur[w])
    <2>0. cur[w].frame \in Frames
      <3>1. cur[w] \in Claims
        BY DEF Write, TypeInv, TypeOK, DispatcherOK
      <3> QED
        BY <3>1 DEF Claims
    <2>g. PICK g \in Frames : g = cur[w].frame
      BY <2>0
    <2>1. /\ outbox' = [outbox EXCEPT ![g] = Released(@, plan[w].state, plan[w].next)]
          /\ outbox[g].state = "leased"
      BY <1>2, <2>g DEF Write, HoldsLease
    <2>2. plan[w].state \in {"delivered", "retry_wait", "terminal"}
      <3>1. plan[w] \in Plans /\ plan[w].state # "none"
        BY DEF Write, TypeInv, TypeOK, DispatcherOK
      <3> QED
        BY <3>1 DEF Plans
    <2>3. outbox'[g].state = plan[w].state /\ \A f \in Frames \ {g} : outbox'[f] = outbox[f]
      BY <2>1, <2>2 DEF Released, TypeInv, TypeOK
    <2>4. CASE plan[w].state = "delivered"
      <3>1. inbox[g] \in {"accepted", "duplicate"}
        BY <2>4, <2>g DEF KnownOK, Success
      <3>2. Status(g) = "queued" /\ Status(g)' = "delivered"
        BY <2>1, <2>2, <2>3, <2>4, StatusOf, StatusAfter DEF Open
      <3>3. \A f \in Frames \ {g} : Status(f)' = Status(f)
        BY <2>3 DEF Status
      <3>4. StatusMap' = [StatusMap EXCEPT ![g] = "delivered"]
        BY <2>2, <3>2, <3>3 DEF StatusMap
      <3>5. Channel!Deliver(g)
        BY <1>0, <2>2, <3>1, <3>2, <3>4 DEF Channel!Deliver, StatusMap
      <3> QED
        BY <2>2, <3>5 DEF Channel!Next
    <2>5. CASE plan[w].state # "delivered"
      <3>1. \A f \in Frames : outbox[f].state = "absent" => outbox'[f] = outbox[f]
        BY <2>1, <2>3
      <3>2. \A f \in Frames : outbox'[f].state = "delivered" => outbox'[f] = outbox[f]
        BY <2>3, <2>5
      <3> QED
        BY <1>0, <3>1, <3>2, GivenUp
    <2> QED
      BY <2>4, <2>5
  <1> QED
    BY <1>1, <1>2

\* A claim gives up what has expired or does not decode.
LEMMA ClaimGivesUp ==
  ASSUME TypeInv, TypeInv', NEW w \in Workers, NEW t \in 0..MaxTime, NEW S \in SUBSET Frames,
         Claim(w, t, S), \A f \in Frames : RowStep(f)
  PROVE  Channel!Next
  <1>1. \A f \in Frames : outbox[f].state = "absent" => outbox'[f] = outbox[f]
    <2>1. \A f \in S : outbox[f].state \in Open
      BY DEF Claim, FirstDue, Claimable, Due, Open
    <2> QED
      BY <2>1 DEF Claim, Expiring, Open
  <1>2. \A f \in Frames : outbox'[f].state = "delivered" => outbox'[f] = outbox[f]
    BY DEF Claim, Close, Released, LeasedRow
  <1>3. inbox' = inbox /\ log' = log
    BY DEF Claim
  <1> QED
    BY <1>1, <1>2, <1>3, GivenUp

\* A claim past its expiry is given up, or was somebody else's by then.
LEMMA ExpireGivesUp ==
  ASSUME TypeInv, TypeInv', NEW w \in Workers, NEW c \in batch[w], ExpireClaim(w, c),
         \A f \in Frames : RowStep(f)
  PROVE  Channel!Next
  <1>1. \A f \in Frames : outbox[f].state = "absent" => outbox'[f] = outbox[f]
    BY DEF ExpireClaim, HoldsLease, TypeInv, TypeOK
  <1>2. \A f \in Frames : outbox'[f].state = "delivered" => outbox'[f] = outbox[f]
    BY DEF ExpireClaim, Close, Released, TypeInv, TypeOK
  <1>3. inbox' = inbox /\ log' = log
    BY DEF ExpireClaim
  <1> QED
    BY <1>1, <1>2, <1>3, GivenUp

\* The transaction that commits a receipt decides on a frame that was submitted,
\* and, unless the sender has given it up, before any successor of its lane.
LEMMA CommitDecides ==
  ASSUME TypeInv, EffectInv, NEW m \in net, NEW d \in Dispositions, Commit(m, d)
  PROVE  Channel!Next
  <1> DEFINE g == m.frame
  <1>1. g \in Frames /\ m.gen \in Nat \ {0}
    BY BoundAssumption DEF TypeInv, TypeOK, Messages
  <1>2. /\ inbox[g] = "none" /\ d \in Verdicts
        /\ inbox' = [inbox EXCEPT ![g] = d]
        /\ log' = IF d = "accepted" THEN Append(log, g) ELSE log
        /\ outbox' = outbox
    BY <1>1 DEF Commit, Fresh, InboxConflict, Respond, Dispositions, Verdicts
  <1>3. Status(g) \in {"queued", "given_up"}
    <2>1. outbox[g].gen \in Nat /\ m.gen <= outbox[g].gen
      BY <1>1, BoundAssumption DEF EffectInv, GenerationOK, TypeInv, TypeOK, Rows
    <2>2. outbox[g].state # "absent"
      BY <1>1, <2>1 DEF EffectInv, GenerationOK
    <2>3. outbox[g].state # "delivered"
      BY <1>1, <1>2 DEF EffectInv, DeliveredIsCommitted
    <2> QED
      BY <1>1, <2>2, <2>3, StatusOf
  <1>4. Status(g) = "queued" => \A h \in Frames : Precedes(g, h) => inbox[h] = "none"
    <2> SUFFICES ASSUME Status(g) = "queued", NEW h \in Frames, Precedes(g, h)
                 PROVE  inbox[h] = "none"
      OBVIOUS
    <2>1. outbox[h].gen = 0
      BY <1>1, StatusOf DEF EffectInv, LaneGate
    <2> QED
      BY <2>1 DEF EffectInv, GenerationOK
  <1>5. StatusMap' = StatusMap
    BY <1>2 DEF StatusMap, Status
  <1>6. Channel!Decide(g, d)
    BY <1>1, <1>2, <1>3, <1>4, <1>5 DEF Channel!Decide, StatusMap
  <1> QED
    BY <1>1, <1>2, <1>6 DEF Channel!Next, Verdicts

\* Every step of the delivery machinery is a step of the channel or invisible.
LEMMA ChannelStep ==
  ASSUME TypeInv, TypeInv', KnownOK, EffectInv, [Next]_vars
  PROVE  [Channel!Next]_Channel!channel
  <1>1. \A f \in Frames : RowStep(f)
    BY RowSteps
  <1>2. ASSUME NEW g \in Frames, Enqueue(g) PROVE Channel!Next
    BY <1>2, EnqueueSubmits
  <1>3. ASSUME NEW w \in Workers, NEW t \in 0..MaxTime, NEW S \in SUBSET Frames, Claim(w, t, S)
        PROVE  Channel!Next
    BY <1>1, <1>3, ClaimGivesUp
  <1>4. ASSUME NEW w \in Workers, NEW c \in batch[w], ExpireClaim(w, c) PROVE Channel!Next
    BY <1>1, <1>4, ExpireGivesUp
  <1>5. ASSUME NEW w \in Workers, Write(w) PROVE Channel!Next \/ UNCHANGED Channel!channel
    BY <1>1, <1>5, WriteDelivers
  <1>6. ASSUME NEW m \in net, NEW d \in Dispositions, Commit(m, d) PROVE Channel!Next
    BY <1>6, CommitDecides
  <1>7. CASE UNCHANGED <<outbox, inbox, log>>
    BY <1>7, Invisible
  <1> QED
    BY <1>2, <1>3, <1>4, <1>5, <1>6, <1>7
       DEF Next, Dispatch, Crash, Receive, Refuse, Replay, Rollback, Lose, Respond,
           Send, Resolve, Tick, vars

\* The rows, the dispatchers, the transport and the receipts implement the channel
\* that domains are promised: one receipt and one effect per frame, nothing reported
\* delivered that was not received, and lane order for every frame not given up.
THEOREM DeliveryImplementsChannel == Spec => ImplementsChannel
  <1> DEFINE I == TypeInv /\ KnownOK /\ EffectInv
  <1>1. Init => I
    BY InitTypeInv, InitEffectInv DEF Init, KnownOK, NoPlan, Success
  <1>2. I /\ [Next]_vars => I'
    BY NextTypeInv, NextKnownOK, NextEffectInv
  <1>3. Init => Channel!Init
    <2> SUFFICES ASSUME Init PROVE Channel!Init
      OBVIOUS
    <2>1. \A f \in Frames : Status(f) = "unsent"
      BY DEF Init, Status, NoRow, Open
    <2> QED
      BY <2>1 DEF Init, Channel!Init
  <1>4. I /\ I' /\ [Next]_vars => [Channel!Next]_Channel!channel
    BY ChannelStep
  <1> QED
    BY <1>1, <1>2, <1>3, <1>4, PTL DEF Spec, ImplementsChannel, Channel!Spec
=============================================================================
