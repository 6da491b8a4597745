------------------------- MODULE FederationDelivery -------------------------
(***************************************************************************)
(* Durable Station-to-Station delivery (apps/station/frame/core/federation *)
(* /delivery): the outbox table of the sending Stations, their dispatcher  *)
(* workers, the HTTP or relay transport between Stations, and the receiver *)
(* with its deduplicating inbox table.                                     *)
(*                                                                         *)
(* A frame is immutable and is identified by its whole canonical bytes, so *)
(* it is a member of Frames, and the columns read off it are constants.    *)
(* lease_owner is not kept: the runtime gives every dispatcher of a        *)
(* Station the same WorkerID, so only the generation tells leases apart.   *)
(***************************************************************************)
EXTENDS Integers, Sequences, FiniteSets

CONSTANTS
  Frames,          \* the frames that domains may enqueue
  Workers,         \* the dispatchers, of all sending Stations
  Station,         \* the Station a dispatcher works for
  Source,          \* frame.source_station_peer_id
  FrameID,         \* frame.frame_id
  IdempotencyKey,  \* frame.idempotency_key
  Lane,            \* <<source, target, ordering_key>>
  Seqno,           \* frame.ordering_sequence; 0 is unordered
  ExpiresAt,       \* frame.expires_at
  Corrupt,         \* frames whose stored row no longer decodes
  LeaseDuration,   \* DispatcherConfig.LeaseDuration
  Delay,           \* RetryBackoff.Delay, by attempt count
  BatchSize,       \* DispatcherConfig.BatchSize
  MaxAttempt,      \* attempt_count saturates here (uint32)
  MaxGeneration,   \* lease_generation is exhausted here (uint64)
  MaxLag,          \* bound: age of the clock reading a claim uses
  MaxSkew,         \* bound: distance of the receiver's clock from ours
  MaxTime,         \* bound: the clock stops here
  NoClaim          \* a dispatcher between two claims

Claims == [frame : Frames, gen : 1..MaxGeneration, until : 0..MaxTime,
           attempt : 1..MaxAttempt]

ASSUME TableAssumption ==
  /\ Station \in [Workers -> {Source[f] : f \in Frames}]
  /\ ExpiresAt \in [Frames -> 0..MaxTime]
  /\ Seqno \in [Frames -> Nat]
  /\ Corrupt \subseteq Frames
  /\ \A f, g \in Frames : Lane[f] = Lane[g] => Source[f] = Source[g]

ASSUME BoundAssumption ==
  /\ MaxAttempt \in Nat \ {0}
  /\ MaxGeneration \in Nat \ {0}
  /\ LeaseDuration \in Nat \ {0}
  /\ BatchSize \in Nat \ {0}
  /\ MaxLag \in Nat
  /\ MaxSkew \in Nat
  /\ MaxTime \in Nat
  /\ Delay \in [1..MaxAttempt -> Nat \ {0}]
  /\ NoClaim \notin Claims

VARIABLES
  now,     \* the clock of the sending Stations
  outbox,  \* federation_delivery_outbox, one row per frame
  pc,      \* where each dispatcher is in DispatchOnce
  batch,   \* claims of the batch not yet resolved
  cur,     \* the claim being dispatched
  reply,   \* what the transport returned for it
  plan,    \* the transition to persist once the lease check passed
  net,     \* requests sent and not yet handled or lost
  inbox,   \* federation_delivery_inbox: the disposition of each frame
  log      \* the domain mutations committed, in order

dispatchers == <<pc, batch, cur, reply, plan>>
vars == <<now, outbox, dispatchers, net, inbox, log>>

-----------------------------------------------------------------------------
(* Values *)

Open == {"pending", "retry_wait", "leased"}
Settled == {"delivered", "terminal", "expired"}

\* What a dispatcher learns of an attempt. "error" stands for every transport
\* failure: no route, timeout, HTTP 5xx/408/429, an undecodable response.
Results == {"accepted", "duplicate", "retryable", "terminal", "conflict", "error"}

\* The dispositions an inbox row keeps; "none" is no row.
Dispositions == {"none", "accepted", "duplicate", "terminal", "conflict"}

NoRow == [state |-> "absent", attempt |-> 0, next |-> 0, gen |-> 0, until |-> 0]
Rows == [state : {"absent"} \cup Open \cup Settled, attempt : 0..MaxAttempt,
         next : 0..MaxTime, gen : 0..MaxGeneration, until : 0..MaxTime]

NoPlan == [state |-> "none", next |-> 0]
Plans == [state : {"none", "delivered", "retry_wait", "terminal"},
          next : 0..MaxTime]

Messages == [frame : Frames, worker : Workers, gen : 1..MaxGeneration]

Min2(a, b) == IF a <= b THEN a ELSE b

Applied(f) == \E i \in 1..Len(log) : log[i] = f

-----------------------------------------------------------------------------
(* The outbox *)

\* The primary key and the unique indexes of federation_delivery_outbox: a
\* Station holds one row per frame ID, idempotency key and ordered lane slot.
OutboxConflict(f, g) ==
  /\ Source[f] = Source[g]
  /\ \/ FrameID[f] = FrameID[g]
     \/ IdempotencyKey[f] = IdempotencyKey[g]
     \/ Seqno[f] > 0 /\ Lane[f] = Lane[g] /\ Seqno[f] = Seqno[g]

Precedes(f, g) == Lane[f] = Lane[g] /\ 0 < Seqno[f] /\ Seqno[f] < Seqno[g]

PendingRow ==
  [state |-> "pending", attempt |-> 0, next |-> now, gen |-> 0, until |-> 0]

\* enqueueFrame. A frame that conflicts with a stored row inserts nothing: the
\* caller gets Duplicate for the same frame and an error for another one.
\* Domains number a lane under a lock and enqueue in the same transaction, so a
\* lane is enqueued in order: the last conjunct is the callers' obligation.
Enqueue(f) ==
  /\ ExpiresAt[f] > now
  /\ \A g \in Frames : OutboxConflict(f, g) => outbox[g].state = "absent"
  /\ \A g \in Frames : Precedes(f, g) => outbox[g].state = "absent"
  /\ outbox' = [outbox EXCEPT ![f] = PendingRow]
  /\ UNCHANGED <<now, dispatchers, net, inbox, log>>

\* Mutation: the sweep forgets rows that are leased.
ExpiringUnleased(f, t) == outbox[f].state \in {"pending", "retry_wait"} /\ ExpiresAt[f] <= t

\* expireDueRows, the first statement of a claim transaction at time t.
Expiring(f, t) == outbox[f].state \in Open /\ ExpiresAt[f] <= t

\* Mutation: a lease is reclaimed before it has expired.
DueWhileLeased(f, t) ==
  \/ outbox[f].state \in {"pending", "retry_wait"} /\ outbox[f].next <= t
  \/ outbox[f].state = "leased"

Due(f, t) ==
  \/ outbox[f].state \in {"pending", "retry_wait"} /\ outbox[f].next <= t
  \/ outbox[f].state = "leased" /\ outbox[f].until <= t

\* Mutation: only rows that no dispatcher works on block their lane.
BlockedUnleased(f, t) ==
  \E g \in Frames :
    Precedes(g, f) /\ outbox[g].state \in {"pending", "retry_wait"} /\ ~Expiring(g, t)

\* Mutation: a row that waits for its retry does not block its lane.
BlockedNotRetrying(f, t) ==
  \E g \in Frames :
    Precedes(g, f) /\ outbox[g].state \in {"pending", "leased"} /\ ~Expiring(g, t)

\* The head-of-line rule: an unsettled earlier frame of the lane blocks.
Blocked(f, t) ==
  \E g \in Frames : Precedes(g, f) /\ outbox[g].state \in Open /\ ~Expiring(g, t)

Claimable(w, t) ==
  {f \in Frames : /\ Source[f] = Station[w]
                  /\ Due(f, t)
                  /\ ExpiresAt[f] > t
                  /\ ~Blocked(f, t)}

\* ORDER BY next_attempt_at, ... LIMIT BatchSize; ties are left open.
FirstDue(S, E) ==
  /\ S \subseteq E
  /\ Cardinality(S) = Min2(BatchSize, Cardinality(E))
  /\ \A f \in S, g \in E \ S : outbox[f].next <= outbox[g].next

LeasedRow(f, t) ==
  [state |-> "leased",
   attempt |-> Min2(outbox[f].attempt + 1, MaxAttempt),
   next |-> outbox[f].next,
   gen |-> outbox[f].gen + 1,
   until |-> Min2(t + LeaseDuration, ExpiresAt[f])]

ClaimOf(f, t) ==
  [frame |-> f, gen |-> LeasedRow(f, t).gen, until |-> LeasedRow(f, t).until,
   attempt |-> LeasedRow(f, t).attempt]

\* A row leaves the lease: lease_owner and lease_expires_at are cleared.
Released(row, state, next) ==
  [state |-> state, attempt |-> row.attempt, next |-> next, gen |-> row.gen, until |-> 0]

Close(f, state) == Released(outbox[f], state, outbox[f].next)

\* DispatchOnce reads the clock, and Claim then runs its transaction with that
\* reading t: due rows past their expiry expire, rows that do not decode become
\* terminal, the others are leased to the worker. An exhausted generation fails
\* the transaction, which changes nothing.
Claim(w, t, S) ==
  /\ pc[w] = "polling" /\ batch[w] = {}
  /\ t \in 0..now /\ now - t <= MaxLag
  /\ FirstDue(S, Claimable(w, t))
  /\ \A f \in S \ Corrupt : outbox[f].gen < MaxGeneration
  /\ outbox' = [f \in Frames |->
       IF Source[f] = Station[w] /\ Expiring(f, t) THEN Close(f, "expired")
       ELSE IF f \in S \cap Corrupt THEN Close(f, "terminal")
       ELSE IF f \in S THEN LeasedRow(f, t)
       ELSE outbox[f]]
  /\ batch' = [batch EXCEPT ![w] = {ClaimOf(f, t) : f \in S \ Corrupt}]
  /\ UNCHANGED <<now, pc, cur, reply, plan, net, inbox, log>>

-----------------------------------------------------------------------------
(* The dispatcher *)

\* Any error ends DispatchOnce, and Run with it: the rest of the batch stays
\* leased in the table and the supervisor starts a new Run.
Abort(w) ==
  /\ pc' = [pc EXCEPT ![w] = "polling"]
  /\ batch' = [batch EXCEPT ![w] = {}]
  /\ cur' = [cur EXCEPT ![w] = NoClaim]
  /\ reply' = [reply EXCEPT ![w] = "none"]
  /\ plan' = [plan EXCEPT ![w] = NoPlan]

\* The claim is resolved and the loop goes on to the next one.
NextClaim(w, c) ==
  /\ pc' = [pc EXCEPT ![w] = "polling"]
  /\ batch' = [batch EXCEPT ![w] = @ \ {c}]
  /\ cur' = [cur EXCEPT ![w] = NoClaim]
  /\ reply' = [reply EXCEPT ![w] = "none"]
  /\ plan' = [plan EXCEPT ![w] = NoPlan]

\* Mutation: the UPDATE is fenced by the generation alone.
HoldsGeneration(c) == outbox[c.frame].gen = c.gen

\* WHERE frame_id = ? AND state = leased AND lease_owner = ? AND lease_generation = ?
HoldsLease(c) == outbox[c.frame].state = "leased" /\ outbox[c.frame].gen = c.gen

\* dispatchClaim for a frame past its expiry: MarkExpired.
ExpireClaim(w, c) ==
  /\ pc[w] = "polling" /\ c \in batch[w]
  /\ ExpiresAt[c.frame] <= now
  /\ \/ /\ HoldsLease(c)
        /\ outbox' = [outbox EXCEPT ![c.frame] = Close(c.frame, "expired")]
        /\ NextClaim(w, c)
     \/ /\ ~HoldsLease(c)
        /\ Abort(w)
        /\ UNCHANGED outbox
  /\ UNCHANGED <<now, net, inbox, log>>

\* dispatchClaim up to the call of Transport.Deliver. The lease is not looked
\* at again before sending, however long the rest of the batch took.
Send(w, c) ==
  /\ pc[w] = "polling" /\ c \in batch[w]
  /\ ExpiresAt[c.frame] > now
  /\ pc' = [pc EXCEPT ![w] = "sending"]
  /\ cur' = [cur EXCEPT ![w] = c]
  /\ net' = net \cup {[frame |-> c.frame, worker |-> w, gen |-> c.gen]}
  /\ UNCHANGED <<now, outbox, batch, reply, plan, inbox, log>>

\* The transition dispatchClaim chooses for a result.
PlanFor(c, r) ==
  [state |-> CASE r \in {"accepted", "duplicate"} -> "delivered"
               [] r \in {"retryable", "error"} -> "retry_wait"
               [] r \in {"terminal", "conflict"} -> "terminal",
   next |-> IF r \in {"retryable", "error"}
            THEN Min2(now + Delay[c.attempt], ExpiresAt[c.frame])
            ELSE outbox[c.frame].next]

\* Deliver returned r, or failed: the caller times out at any moment, also when
\* the receiver has already answered. updateLeased then compares the lease with
\* the clock, before and apart from the UPDATE.
Resolve(w, r) ==
  /\ pc[w] = "sending"
  /\ r \in {"error", reply[w]} \ {"none"}
  /\ \/ /\ cur[w].until > now
        /\ pc' = [pc EXCEPT ![w] = "writing"]
        /\ plan' = [plan EXCEPT ![w] = PlanFor(cur[w], r)]
        /\ reply' = [reply EXCEPT ![w] = "none"]
        /\ UNCHANGED <<batch, cur>>
     \/ /\ cur[w].until <= now
        /\ Abort(w)
  /\ UNCHANGED <<now, outbox, net, inbox, log>>

\* The UPDATE of updateLeased, fenced by state and generation.
Write(w) ==
  /\ pc[w] = "writing"
  /\ \/ /\ HoldsLease(cur[w])
        /\ outbox' = [outbox EXCEPT
             ![cur[w].frame] = Released(@, plan[w].state, plan[w].next)]
        /\ NextClaim(w, cur[w])
     \/ /\ ~HoldsLease(cur[w])
        /\ Abort(w)
        /\ UNCHANGED outbox
  /\ UNCHANGED <<now, net, inbox, log>>

\* A database error or a crash of the process, between any two steps.
Crash(w) ==
  /\ batch[w] # {}
  /\ Abort(w)
  /\ UNCHANGED <<now, outbox, net, inbox, log>>

-----------------------------------------------------------------------------
(* The receiving Station *)

\* The primary key and the unique index of federation_delivery_inbox.
InboxConflict(f, g) ==
  \/ Source[f] = Source[g] /\ IdempotencyKey[f] = IdempotencyKey[g]
  \/ FrameID[f] = FrameID[g]

\* The response reaches the dispatcher if it still waits for this attempt.
Respond(m, r) ==
  /\ net' = net \ {m}
  /\ reply' = IF /\ pc[m.worker] = "sending"
                 /\ cur[m.worker].frame = m.frame /\ cur[m.worker].gen = m.gen
              THEN [reply EXCEPT ![m.worker] = r]
              ELSE reply
  /\ UNCHANGED <<now, outbox, pc, batch, cur, plan>>

\* The receiver's clock may still read a time before the frame's expiry.
MayVerify(f) == now - MaxSkew < ExpiresAt[f]

\* VerifyFrame refuses the frame, or the route refuses the caller: the frame
\* has expired by the receiver's clock, or the sender's key could not be
\* loaded. The answer is terminal and no receipt is written.
Refuse(m) ==
  /\ m \in net
  /\ Respond(m, "terminal")
  /\ UNCHANGED <<inbox, log>>

\* Mutation: the replay does not compare the stored identity.
ReplayUnchecked(m) ==
  /\ m \in net
  /\ MayVerify(m.frame)
  /\ \E g \in Frames : InboxConflict(m.frame, g) /\ inbox[g] # "none"
  /\ Respond(m, "duplicate")
  /\ UNCHANGED <<inbox, log>>

\* The receipt insert conflicts: replayResult answers from the stored row.
Replay(m) ==
  /\ m \in net
  /\ MayVerify(m.frame)
  /\ \/ /\ inbox[m.frame] \in {"accepted", "duplicate"}
        /\ Respond(m, "duplicate")
     \/ /\ inbox[m.frame] \in {"terminal", "conflict"}
        /\ Respond(m, inbox[m.frame])
     \/ /\ inbox[m.frame] = "none"
        /\ \E g \in Frames : InboxConflict(m.frame, g) /\ inbox[g] # "none"
        /\ Respond(m, "conflict")
  /\ UNCHANGED <<inbox, log>>

\* Mutation: the receipt of an earlier attempt is not looked up.
FreshAlways(f) == TRUE

\* Mutation: only the primary key of the inbox row is looked up.
FreshByKey(f) == inbox[f] = "none"

Fresh(f) == \A g \in Frames : InboxConflict(f, g) => inbox[g] = "none"

\* Mutation: the receipt of a refused frame keeps the domain's mutation.
CommitAnyway(m, d) ==
  /\ m \in net
  /\ MayVerify(m.frame)
  /\ Fresh(m.frame)
  /\ d \in Dispositions \ {"none"}
  /\ inbox' = [inbox EXCEPT ![m.frame] = d]
  /\ log' = Append(log, m.frame)
  /\ \E r \in {d, "error"} : Respond(m, r)

\* A fresh receipt, the domain's mutation and its disposition d commit in one
\* transaction. A failed post-commit callback turns the answer into HTTP 500.
Commit(m, d) ==
  /\ m \in net
  /\ MayVerify(m.frame)
  /\ Fresh(m.frame)
  /\ d \in Dispositions \ {"none"}
  /\ inbox' = [inbox EXCEPT ![m.frame] = d]
  /\ log' = IF d = "accepted" THEN Append(log, m.frame) ELSE log
  /\ \E r \in {d, "error"} : Respond(m, r)

\* The domain asks for a retry, or fails: the transaction rolls back.
Rollback(m) ==
  /\ m \in net
  /\ MayVerify(m.frame)
  /\ Fresh(m.frame)
  /\ \E r \in {"retryable", "error"} : Respond(m, r)
  /\ UNCHANGED <<inbox, log>>

\* The request never arrives.
Lose(m) ==
  /\ m \in net
  /\ net' = net \ {m}
  /\ UNCHANGED <<now, outbox, dispatchers, inbox, log>>

Tick ==
  /\ now < MaxTime
  /\ now' = now + 1
  /\ UNCHANGED <<outbox, dispatchers, net, inbox, log>>

-----------------------------------------------------------------------------
Init ==
  /\ now = 0
  /\ outbox = [f \in Frames |-> NoRow]
  /\ pc = [w \in Workers |-> "polling"]
  /\ batch = [w \in Workers |-> {}]
  /\ cur = [w \in Workers |-> NoClaim]
  /\ reply = [w \in Workers |-> "none"]
  /\ plan = [w \in Workers |-> NoPlan]
  /\ net = {}
  /\ inbox = [f \in Frames |-> "none"]
  /\ log = <<>>

Dispatch(w) ==
  \/ \E t \in 0..MaxTime, S \in SUBSET Frames : Claim(w, t, S)
  \/ \E c \in batch[w] : ExpireClaim(w, c) \/ Send(w, c)
  \/ \E r \in Results : Resolve(w, r)
  \/ Write(w)

Receive(m) ==
  \/ Refuse(m) \/ Replay(m) \/ Rollback(m) \/ Lose(m)
  \/ \E d \in Dispositions : Commit(m, d)

Next ==
  \/ \E f \in Frames : Enqueue(f)
  \/ \E w \in Workers : Dispatch(w) \/ Crash(w)
  \/ \E m \in net : Receive(m)
  \/ Tick

Spec == Init /\ [][Next]_vars

\* The clock runs and every dispatcher keeps going: Run loops without end, the
\* HTTP client has a timeout, and the supervisor restarts a Run that failed.
\* Nothing is asked of the network or of the receiver.
Fairness == WF_vars(Tick) /\ \A w \in Workers : WF_vars(Dispatch(w))

FairSpec == Spec /\ Fairness

-----------------------------------------------------------------------------
(* Properties *)

\* Every variable keeps the type of its column, field or message.
TypeOK ==
  /\ now \in 0..MaxTime
  /\ outbox \in [Frames -> Rows]
  /\ pc \in [Workers -> {"polling", "sending", "writing"}]
  /\ batch \in [Workers -> SUBSET Claims]
  /\ cur \in [Workers -> Claims \cup {NoClaim}]
  /\ reply \in [Workers -> Results \cup {"none"}]
  /\ plan \in [Workers -> Plans]
  /\ net \in SUBSET Messages
  /\ inbox \in [Frames -> Dispositions]
  /\ log \in Seq(Frames)

\* A row is marked delivered only for a frame whose receipt the receiver has
\* committed (MarkDelivered against Receive), whatever was lost, delayed,
\* answered late or resolved by a dispatcher that had lost its lease.
DeliveredIsCommitted ==
  \A f \in Frames :
    outbox[f].state = "delivered" => inbox[f] \in {"accepted", "duplicate"}

\* Retries, reclaimed leases and lost answers never make the receiving domain
\* mutate twice for one frame (the receipt of Receive and its replay).
EffectAtMostOnce ==
  \A i, j \in 1..Len(log) : log[i] = log[j] => i = j

\* Of the frames that share a frame ID, or a source and an idempotency key, the
\* receiving domain accepts one, whichever Station or retry comes first.
EffectOncePerIdentity ==
  \A i, j \in 1..Len(log) : InboxConflict(log[i], log[j]) => i = j

\* The head-of-line rule of Claim: while a frame of a lane is unsettled, no
\* later frame of the lane has ever been leased, so none can have been sent.
LaneGate ==
  \A f, g \in Frames :
    Precedes(f, g) /\ outbox[f].state \in Open => outbox[g].gen = 0

\* The receiver sees a lane in order, except that a late copy of a frame may
\* still take effect after a successor's if the sender has given that frame up
\* as terminal or expired. In particular a delivered frame is never late.
LateOnlyIfGivenUp ==
  \A i, j \in 1..Len(log) :
    i < j /\ Precedes(log[j], log[i]) => outbox[log[j]].state \in {"terminal", "expired"}

\* Two dispatchers never hold unexpired claims of one frame, nor the same
\* generation of it: with one WorkerID for all, Claim alone keeps them apart.
LeaseExclusive ==
  \A v, w \in Workers : \A c \in batch[v], d \in batch[w] :
    v # w /\ c.frame = d.frame =>
      c.gen # d.gen /\ ~(c.until > now /\ d.until > now)

\* A settled row is never touched again, by a stale dispatcher, a reclaim or
\* the expiry sweep.
SettledForever ==
  [][\A f \in Frames : outbox[f].state \in Settled => outbox'[f] = outbox[f]]_vars

\* Every enqueued frame is eventually settled: at the latest the sweep of some
\* claim transaction expires it.
EventuallySettled ==
  \A f \in Frames : outbox[f].state \in Open ~> outbox[f].state \in Settled

-----------------------------------------------------------------------------
(* The channel that the outbox, the dispatchers and the inbox implement. *)

Status(f) ==
  CASE outbox[f].state = "absent" -> "unsent"
    [] outbox[f].state \in Open -> "queued"
    [] outbox[f].state = "delivered" -> "delivered"
    [] outbox[f].state \in {"terminal", "expired"} -> "given_up"

Channel == INSTANCE FederationChannel WITH
  Before <- {p \in Frames \X Frames : Precedes(p[1], p[2])},
  status <- [f \in Frames |-> Status(f)],
  receipts <- inbox,
  effects <- log

\* Every behaviour of the delivery machinery, seen through the rows' states
\* and the receipts, is one of the channel promised to the domains.
ImplementsChannel == Channel!Spec
=============================================================================
