----------------------------- MODULE DeviceInbox -----------------------------
(***************************************************************************)
(* The ordered delivery lane of one device: the Device Inbox tables of its *)
(* Home Station (conversation/infrastructure/delivery) and the drain loop  *)
(* of the device's messaging engine (packages/messaging-core), joined by   *)
(* HTTP requests that may be lost, late or answered after the caller left. *)
(*                                                                         *)
(* An item is its lane sequence. Clocks are abstracted: an item is ripe    *)
(* when the time it waits for, the end of its lease or of its retry delay, *)
(* has passed. Every handler runs in one transaction that locks the lane.  *)
(***************************************************************************)
EXTENDS Integers, Sequences, FiniteSets

CONSTANTS
  MaxItems,        \* bound: lane sequences handed out
  MaxUnacked,      \* Limits.MaxUnackedItems
  BatchLimit,      \* batch_limit of a claim
  MaxAttempts,     \* Policy.MaxAttempts
  MaxEpoch,        \* active_consumer_epoch is exhausted here (uint64)
  MaxIncarnation,  \* bound: starts of the device's engine
  MaxFaults,       \* bound: losses, timeouts, crashes, late leases, rot
  Orphans,         \* whether the requests of a dead process may still arrive
  Receipted,       \* items whose consumption the device reports by a receipt
  Fragile,         \* items whose stored payload may rot
  RejectCodes,     \* codes a consumer may reject with
  Retryable,       \* those that RejectCode.Retryable accepts
  NoCall           \* the device waits for no answer

ASSUME LaneAssumption ==
  /\ {MaxItems, MaxUnacked, BatchLimit, MaxAttempts, MaxEpoch, MaxIncarnation}
       \subseteq Nat \ {0}
  /\ MaxFaults \in Nat
  /\ Orphans \in BOOLEAN

VARIABLES
  items,     \* device_queue_items of the lane, by lane_sequence
  tail,      \* device_queue_lanes.next_sequence: the last one handed out
  acked,     \* device_queue_lanes.acked_through
  active,    \* active_consumer_id and active_consumer_epoch
  rotten,    \* items whose payload no longer has its hash
  me,        \* the engine's consumer ID, new at every start
  epoch,     \* the engine's runtime consumer epoch, lost with the process
  log,       \* consumption markers, in the order they were committed
  held,      \* items of the claimed batch not yet acknowledged
  call,      \* the request the drain waits for
  net,       \* requests not yet handled
  faults     \* faults so far

lane == <<items, tail, acked, active, rotten>>
device == <<me, epoch, log, held, call>>
vars == <<lane, device, net, faults>>

Seqs == 1..MaxItems

ItemStates == {"absent", "pending", "claimed", "retry_wait", "consumed", "acked", "dead_letter"}

Items == [state : ItemStates, owner : 0..MaxIncarnation, epoch : 0..MaxEpoch,
          attempt : 0..MaxAttempts, ripe : BOOLEAN]

Requests == [op : {"claim", "ack", "reject"}, who : 1..MaxIncarnation,
             epoch : 0..MaxEpoch, seq : 0..MaxItems, code : RejectCodes \cup {"none"}]

ASSUME CallAssumption == NoCall \notin Requests

Item(state, attempt) ==
  [state |-> state, owner |-> 0, epoch |-> 0, attempt |-> attempt, ripe |-> FALSE]

Ripened(item) == [item EXCEPT !.ripe = TRUE]

Consumed(i) == \E k \in 1..Len(log) : log[k] = i

\* lane_checkpoint: every receive transaction writes its lane sequence.
Cursor == IF log = <<>> THEN 0 ELSE log[Len(log)]

Fault == faults < MaxFaults /\ faults' = faults + 1

-----------------------------------------------------------------------------
(* The Station *)

\* checkQuota: a dead letter counts until it is acknowledged.
WithinQuota == Cardinality({i \in 1..tail : items[i].state # "acked"}) < MaxUnacked

\* Enqueue of a new delivery. A repeated idempotency key changes nothing.
Enqueue ==
  /\ tail < MaxItems
  /\ WithinQuota
  /\ tail' = tail + 1
  /\ items' = [items EXCEPT ![tail + 1] = Item("pending", 0)]
  /\ UNCHANGED <<acked, active, rotten, device, net, faults>>

\* The request leaves the network. A copy sent by an earlier, timed-out call
\* may still be on its way.
Handled(m) ==
  \/ net' = net \ {m} /\ UNCHANGED faults
  \/ net' = net /\ Fault

\* The answer ends the drain: an error, or nothing to do.
Stop(m) ==
  /\ call' = IF call = m THEN NoCall ELSE call
  /\ held' = IF call = m THEN {} ELSE held
  /\ UNCHANGED <<me, log>>

Recovering(m) == m.epoch # 0 /\ m.epoch # active.epoch

Fenced(m) == Recovering(m) /\ (m.epoch > active.epoch \/ m.who # active.id)

\* CONSUMER_FENCED.
ClaimFenced(m) ==
  /\ m \in net /\ m.op = "claim"
  /\ Fenced(m)
  /\ Stop(m)
  /\ Handled(m)
  /\ UNCHANGED <<lane, epoch>>

\* ITEM_NOT_HEAD: the drain claims again from the Station's own head.
ClaimAhead(m) ==
  /\ m \in net /\ m.op = "claim"
  /\ ~Fenced(m) /\ m.seq > acked
  /\ LET again == [op |-> "claim", who |-> m.who, epoch |-> 0, seq |-> 0, code |-> "none"] IN
       \/ /\ call = m
          /\ call' = again
          /\ net' = (net \ {m}) \cup {again}
       \/ /\ call # m
          /\ call' = call
          /\ net' = net \ {m}
  /\ UNCHANGED <<lane, me, epoch, log, held, faults>>

\* Mutation: a lapsed lease is not claimed again.
ClaimableUnleased(i) ==
  \/ items[i].state = "pending"
  \/ items[i].state = "retry_wait" /\ items[i].ripe

Claimable(i) ==
  \/ items[i].state = "pending"
  \/ items[i].state \in {"retry_wait", "claimed"} /\ items[i].ripe

\* The contiguous prefix, of at most BatchLimit items, at the unacked head.
Batch ==
  {i \in acked + 1..tail : i <= acked + BatchLimit /\ \A j \in acked + 1..i : Claimable(j)}

\* Mutation: the epoch identifies the consumer, not the attempt.
AdvancedOnce(m) ==
  [id |-> m.who, epoch |-> IF active.epoch = 0 THEN 1 ELSE active.epoch]

\* advanceConsumerEpoch.
Advanced(m) == [id |-> m.who, epoch |-> active.epoch + 1]

\* The claim is answered with the lane's epoch and the batch S.
Grant(m, e, S) ==
  /\ call' = IF call = m THEN NoCall ELSE call
  /\ held' = IF call = m THEN S ELSE held
  /\ epoch' = IF call = m THEN e ELSE epoch
  /\ UNCHANGED <<me, log>>
  /\ Handled(m)

\* A claim response was lost: its consumer learns the epoch, and nothing else.
ClaimRecover(m) ==
  /\ m \in net /\ m.op = "claim"
  /\ Recovering(m) /\ ~Fenced(m) /\ m.seq <= acked
  /\ Grant(m, active.epoch, {})
  /\ UNCHANGED lane

\* Nothing to lease; a first claim still initialises the epoch.
ClaimEmpty(m) ==
  /\ m \in net /\ m.op = "claim"
  /\ ~Recovering(m) /\ m.seq <= acked
  /\ Batch = {}
  /\ active' = IF active.epoch = 0 THEN Advanced(m) ELSE active
  /\ Grant(m, active'.epoch, {})
  /\ UNCHANGED <<items, tail, acked, rotten>>

\* The first rotten item of the batch is dead-lettered and nothing is leased.
ClaimRotten(m) ==
  /\ m \in net /\ m.op = "claim"
  /\ ~Recovering(m) /\ m.seq <= acked
  /\ \E i \in Batch \cap rotten :
       /\ \A j \in Batch \cap rotten : i <= j
       /\ items' = [items EXCEPT ![i] = Item("dead_letter", items[i].attempt)]
  /\ active' = IF active.epoch = 0 THEN Advanced(m) ELSE active
  /\ Stop(m)
  /\ Handled(m)
  /\ UNCHANGED <<tail, acked, rotten, epoch>>

\* The batch is leased under a new epoch.
ClaimBatch(m) ==
  /\ m \in net /\ m.op = "claim"
  /\ ~Recovering(m) /\ m.seq <= acked
  /\ Batch # {} /\ Batch \cap rotten = {}
  /\ active.epoch < MaxEpoch
  /\ active' = Advanced(m)
  /\ items' = [i \in Seqs |->
       IF i \in Batch
       THEN [state |-> "claimed", owner |-> m.who, epoch |-> active'.epoch,
             attempt |-> IF items[i].attempt < MaxAttempts THEN items[i].attempt + 1
                         ELSE items[i].attempt,
             ripe |-> FALSE]
       ELSE items[i]]
  /\ Grant(m, active'.epoch, Batch)
  /\ UNCHANGED <<tail, acked, rotten>>

\* No epoch is left for a new attempt: the transaction fails.
ClaimExhausted(m) ==
  /\ m \in net /\ m.op = "claim"
  /\ ~Recovering(m) /\ m.seq <= acked
  /\ Batch # {} /\ Batch \cap rotten = {}
  /\ active.epoch = MaxEpoch
  /\ Stop(m)
  /\ Handled(m)
  /\ UNCHANGED <<lane, epoch>>

HoldsLease(m) ==
  items[m.seq].epoch = m.epoch /\ items[m.seq].owner # 0 /\ items[m.seq].owner = active.id

\* Only the lane head, under the lease of the active epoch; a lease that ran
\* out still counts once the consumption was receipted.
Acceptable(m) ==
  /\ m.seq = acked + 1
  /\ \/ items[m.seq].state = "claimed" /\ ~items[m.seq].ripe
     \/ items[m.seq].state = "consumed"
  /\ HoldsLease(m)

\* The item was acknowledged before.
Replayed(m) == items[m.seq].state = "acked" /\ m.seq <= acked

\* Mutation: the lane is saved and the item is not.
AckAcceptLane(m) ==
  /\ m \in net /\ m.op = "ack"
  /\ m.epoch = active.epoch /\ m.seq \notin rotten
  /\ Acceptable(m)
  /\ acked' = m.seq
  /\ call' = IF call = m THEN NoCall ELSE call
  /\ held' = IF call = m THEN held \ {m.seq} ELSE held
  /\ Handled(m)
  /\ UNCHANGED <<items, tail, active, rotten, me, epoch, log>>

\* Acknowledge succeeds: the lane advances by exactly this item, and the
\* drain goes on to the next one.
AckAccept(m) ==
  /\ m \in net /\ m.op = "ack"
  /\ m.epoch = active.epoch /\ m.seq \notin rotten
  /\ Acceptable(m)
  /\ items' = [items EXCEPT ![m.seq] = Item("acked", items[m.seq].attempt)]
  /\ acked' = m.seq
  /\ call' = IF call = m THEN NoCall ELSE call
  /\ held' = IF call = m THEN held \ {m.seq} ELSE held
  /\ Handled(m)
  /\ UNCHANGED <<tail, active, rotten, me, epoch, log>>

\* Mutation: every successful acknowledgement moves the lane.
AckReplayCounts(m) ==
  /\ m \in net /\ m.op = "ack"
  /\ m.epoch = active.epoch /\ m.seq \notin rotten
  /\ Replayed(m) /\ acked < tail
  /\ acked' = acked + 1
  /\ call' = IF call = m THEN NoCall ELSE call
  /\ held' = IF call = m THEN held \ {m.seq} ELSE held
  /\ Handled(m)
  /\ UNCHANGED <<items, tail, active, rotten, me, epoch, log>>

\* A repeated acknowledgement of this epoch.
AckReplay(m) ==
  /\ m \in net /\ m.op = "ack"
  /\ m.epoch = active.epoch /\ m.seq \notin rotten
  /\ Replayed(m)
  /\ call' = IF call = m THEN NoCall ELSE call
  /\ held' = IF call = m THEN held \ {m.seq} ELSE held
  /\ Handled(m)
  /\ UNCHANGED <<lane, me, epoch, log>>

\* The payload is checked before the state, so even an acknowledged item
\* whose payload rotted becomes a dead letter.
AckRotten(m) ==
  /\ m \in net /\ m.op = "ack"
  /\ m.epoch = active.epoch /\ m.seq \in rotten
  /\ items' = [items EXCEPT ![m.seq] = Item("dead_letter", items[m.seq].attempt)]
  /\ Stop(m)
  /\ Handled(m)
  /\ UNCHANGED <<tail, acked, active, rotten, epoch>>

\* Mutation: the drain goes on to the next item after a refusal.
AckRefuseGoOn(m) ==
  /\ m \in net /\ m.op = "ack"
  /\ \/ m.epoch # active.epoch
     \/ m.seq \notin rotten /\ ~Replayed(m) /\ ~Acceptable(m)
  /\ call' = IF call = m THEN NoCall ELSE call
  /\ held' = IF call = m THEN held \ {m.seq} ELSE held
  /\ Handled(m)
  /\ UNCHANGED <<lane, me, epoch, log>>

AckRefuse(m) ==
  /\ m \in net /\ m.op = "ack"
  /\ \/ m.epoch # active.epoch
     \/ m.seq \notin rotten /\ ~Replayed(m) /\ ~Acceptable(m)
  /\ Stop(m)
  /\ Handled(m)
  /\ UNCHANGED <<lane, epoch>>

\* Reject of the leased head: retried with a delay, or a dead letter. Every
\* other outcome, the replay of an earlier rejection included, changes nothing.
Rejectable(m) ==
  /\ m.seq = acked + 1
  /\ m.epoch = active.epoch
  /\ items[m.seq].state = "claimed" /\ HoldsLease(m) /\ ~items[m.seq].ripe

Reject(m) ==
  /\ m \in net /\ m.op = "reject"
  /\ \/ /\ Rejectable(m)
        /\ LET retry == m.code \in Retryable /\ items[m.seq].attempt < MaxAttempts IN
             items' = [items EXCEPT ![m.seq] =
               Item(IF retry THEN "retry_wait" ELSE "dead_letter", items[m.seq].attempt)]
     \/ /\ ~Rejectable(m)
        /\ UNCHANGED items
  /\ Stop(m)
  /\ Handled(m)
  /\ UNCHANGED <<tail, acked, active, rotten, epoch>>

\* persistExactReceipt: the lease columns are kept.
ReceiptUpdates(item) == [item EXCEPT !.state = "consumed"]

\* ReceiptRecorder: a consumption receipt, the first, a retry or a late copy,
\* reaches the Station. Neither the epoch nor the lease is looked at.
Receipt(i) ==
  /\ i \in Receipted /\ Consumed(i)
  /\ i \notin rotten /\ items[i].state = "claimed"
  /\ items' = [items EXCEPT ![i] = ReceiptUpdates(@)]
  /\ UNCHANGED <<tail, acked, active, rotten, device, net, faults>>

\* The leases of an epoch run out together. While the device still works on
\* them this is a fault: it was too slow.
Lapse(e) ==
  /\ \E i \in Seqs : items[i].epoch = e /\ ~items[i].ripe
  /\ e > 0
  /\ items' = [i \in Seqs |->
       IF items[i].epoch = e THEN Ripened(items[i]) ELSE items[i]]
  /\ IF held # {} /\ e = epoch THEN Fault ELSE UNCHANGED faults
  /\ UNCHANGED <<tail, acked, active, rotten, device, net>>

\* next_attempt_at has come.
Wake(i) ==
  /\ items[i].state = "retry_wait" /\ ~items[i].ripe
  /\ items' = [items EXCEPT ![i] = Ripened(@)]
  /\ UNCHANGED <<tail, acked, active, rotten, device, net, faults>>

\* The stored payload stops matching its hash.
Rot(i) ==
  /\ i \in Fragile \ rotten /\ i <= tail
  /\ Fault
  /\ rotten' = rotten \cup {i}
  /\ UNCHANGED <<items, tail, acked, active, device, net>>

-----------------------------------------------------------------------------
(* The device *)

Call(op, seq, e, code) ==
  LET m == [op |-> op, who |-> me, epoch |-> e, seq |-> seq, code |-> code] IN
    call' = m /\ net' = net \cup {m}

\* drain_once: claim from the durable cursor under the epoch last observed.
Poll ==
  /\ call = NoCall /\ held = {}
  /\ Call("claim", Cursor, epoch, "none")
  /\ UNCHANGED <<lane, me, epoch, log, held, faults>>

\* Mutation: the item is acknowledged before its transaction commits.
ConsumeAckFirst(i) ==
  /\ call = NoCall /\ i \in held /\ \A j \in held : i <= j
  /\ Call("ack", i, epoch, "none")
  /\ UNCHANGED <<lane, me, epoch, log, held, faults>>

\* Mutation: the consumption marker is not looked up.
ConsumeAgain(i) ==
  /\ call = NoCall /\ i \in held /\ \A j \in held : i <= j
  /\ log' = Append(log, i)
  /\ Call("ack", i, epoch, "none")
  /\ UNCHANGED <<lane, me, epoch, held, faults>>

\* The next item is consumed, once: one local transaction commits its effect,
\* its marker and the cursor. Then it is acknowledged.
Consume(i) ==
  /\ call = NoCall /\ i \in held /\ \A j \in held : i <= j
  /\ log' = IF Consumed(i) THEN log ELSE Append(log, i)
  /\ Call("ack", i, epoch, "none")
  /\ UNCHANGED <<lane, me, epoch, held, faults>>

\* A consumer of the reject endpoint refuses the next item.
SendReject(i, code) ==
  /\ call = NoCall /\ i \in held /\ \A j \in held : i <= j
  /\ ~Consumed(i)
  /\ Call("reject", i, epoch, code)
  /\ UNCHANGED <<lane, me, epoch, log, held, faults>>

\* The local transaction fails: the drain ends with the item unacknowledged.
Fail ==
  /\ call = NoCall /\ held # {}
  /\ Fault
  /\ held' = {}
  /\ UNCHANGED <<lane, me, epoch, log, call, net>>

\* The request fails at the device. It may yet reach the Station.
Timeout ==
  /\ call # NoCall
  /\ Fault
  /\ call' = NoCall /\ held' = {}
  /\ UNCHANGED <<lane, me, epoch, log, net>>

\* The process dies and the engine starts under a new consumer ID.
Crash ==
  /\ me < MaxIncarnation
  /\ Fault
  /\ me' = me + 1 /\ epoch' = 0
  /\ call' = NoCall /\ held' = {}
  /\ net' = IF Orphans THEN net ELSE {}
  /\ UNCHANGED <<lane, log>>

\* A request whose caller has given up never arrives.
Lose(m) ==
  /\ m \in net /\ m # call
  /\ net' = net \ {m}
  /\ UNCHANGED <<lane, device, faults>>

-----------------------------------------------------------------------------
Init ==
  /\ items = [i \in Seqs |-> Item("absent", 0)]
  /\ tail = 0 /\ acked = 0
  /\ active = [id |-> 0, epoch |-> 0]
  /\ rotten = {}
  /\ me = 1 /\ epoch = 0 /\ log = <<>>
  /\ held = {} /\ call = NoCall
  /\ net = {} /\ faults = 0

Handle(m) ==
  \/ ClaimFenced(m) \/ ClaimAhead(m) \/ ClaimRecover(m)
  \/ ClaimEmpty(m) \/ ClaimRotten(m) \/ ClaimBatch(m) \/ ClaimExhausted(m)
  \/ AckAccept(m) \/ AckReplay(m) \/ AckRotten(m) \/ AckRefuse(m)
  \/ Reject(m)

Drain == Poll \/ \E i \in held : Consume(i)

Next ==
  \/ Enqueue
  \/ \E m \in net : Handle(m) \/ Lose(m)
  \/ \E i \in Seqs : Receipt(i) \/ Wake(i) \/ Rot(i)
  \/ \E e \in 1..MaxEpoch : Lapse(e)
  \/ Drain
  \/ \E i \in held, code \in RejectCodes : SendReject(i, code)
  \/ Fail \/ Timeout \/ Crash

Spec == Init /\ [][Next]_vars

\* The lifecycle worker drains again and again, a request that is waited for
\* is answered, and time passes.
Fairness ==
  /\ WF_vars(Drain)
  /\ WF_vars(call # NoCall /\ Handle(call))
  /\ \A e \in 1..MaxEpoch : WF_vars(Lapse(e))
  /\ \A i \in Seqs : WF_vars(Wake(i))

FairSpec == Spec /\ Fairness

-----------------------------------------------------------------------------
(* Properties *)

\* Every variable keeps the type of its column, field or request.
TypeOK ==
  /\ items \in [Seqs -> Items]
  /\ tail \in 0..MaxItems /\ acked \in 0..tail
  /\ active \in [id : 0..MaxIncarnation, epoch : 0..MaxEpoch]
  /\ rotten \in SUBSET Seqs
  /\ me \in 1..MaxIncarnation /\ epoch \in 0..MaxEpoch
  /\ log \in Seq(Seqs)
  /\ held \in SUBSET Seqs
  /\ call \in Requests \cup {NoCall}
  /\ net \in SUBSET Requests
  /\ faults \in 0..MaxFaults

\* Acknowledge never passes an item the device has not durably consumed,
\* whatever is late, repeated, lapsed or left over from a dead process.
AckedIsConsumed == \A i \in 1..acked : Consumed(i)

\* The device consumes the lane in order, without a gap and each item once,
\* although Claim hands items out again after every lost answer.
ConsumedInOrder == \A k \in 1..Len(log) : log[k] = k

\* At most one item is consumed and not acknowledged: an ITEM_NOT_HEAD answer
\* to drain_once is always cured by claiming the one head again.
CursorLead == Len(log) <= acked + 1

\* acked_through is exactly the acknowledged prefix of the lane; only rot takes
\* an item of it away.
AckedPrefix ==
  \A i \in Seqs :
    /\ items[i].state = "acked" => i <= acked
    /\ i <= acked /\ i \notin rotten => items[i].state = "acked"

\* An acknowledgement or a rejection on its way that names the epoch of an
\* item's lease comes from the process that holds the lease: "the epoch fences
\* the concrete delivery attempt, not just a consumer ID".
OutcomeFromHolder ==
  \A m \in net :
    (/\ m.op \in {"ack", "reject"}
     /\ items[m.seq].state \in {"claimed", "consumed"}
     /\ items[m.seq].epoch = m.epoch) => items[m.seq].owner = m.who

\* What the Station has acknowledged, and what a dead letter blocks, stays so:
\* the lane never moves back, never skips and never passes a dead letter.
LaneAdvances ==
  [][/\ acked' \in {acked, acked + 1}
     /\ acked' = acked + 1 => items[acked + 1].state \in {"claimed", "consumed"}]_vars

\* Every item of the lane is acknowledged in the end.
Drained == \A i \in Seqs : tail >= i ~> acked >= i

\* An item whose consumption marker exists is acknowledged again until the
\* Station has it: drain_once replays it from the Station's head.
AckResent == \A i \in Seqs : Consumed(i) ~> acked >= i
=============================================================================
