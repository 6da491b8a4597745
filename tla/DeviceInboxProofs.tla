-------------------------- MODULE DeviceInboxProofs --------------------------
(***************************************************************************)
(* Proofs about DeviceInbox, for every number of items, attempts, epochs,  *)
(* process starts and faults. The inductive invariant ties the device's    *)
(* log to the lane (LogOK), its batch to the lane head (HeldOK) and every  *)
(* request on its way to the log and to the lease it names (NetOK).        *)
(***************************************************************************)
EXTENDS DeviceInbox, SequenceTheorems, TLAPS

Leased(i) == items[i].state \in {"claimed", "consumed"}

\* Rows exist up to the tail, no lease is of a later epoch than the lane's, and
\* acknowledged rows are the prefix.
LaneOK ==
  /\ \A i \in Seqs : items[i].state # "absent" => i <= tail
  /\ \A i \in Seqs : Leased(i) => items[i].epoch <= active.epoch
  /\ AckedPrefix

\* The device is at most one item ahead of the Station.
LogOK ==
  /\ ConsumedInOrder
  /\ acked <= Len(log) /\ Len(log) <= acked + 1 /\ Len(log) <= tail

\* The batch has no gap above the head, and its epoch is the device's own.
HeldOK ==
  /\ \A i \in held : i <= tail /\ (i <= acked + 1 \/ i - 1 \in held)
  /\ held # {} =>
       /\ epoch \in 1..active.epoch
       /\ \A i \in Seqs : Leased(i) /\ items[i].epoch = epoch => items[i].owner = me
  /\ call # NoCall => call.who = me

\* An acknowledgement is sent only for a consumed item, and an outcome names
\* the epoch of an attempt of its own sender.
NetOK ==
  /\ \A m \in net : m.op = "ack" => m.seq \in 1..Len(log)
  /\ \A m \in net : m.op = "reject" => m.seq \in 1..tail
  /\ \A m \in net : m.op \in {"ack", "reject"} => m.epoch \in 1..active.epoch
  /\ OutcomeFromHolder

LaneInv == TypeOK /\ LaneOK /\ LogOK /\ HeldOK /\ NetOK

-----------------------------------------------------------------------------
(* Steps that neither lease nor acknowledge *)

\* The lane keeps its sequences; no item is leased, and only rot takes an
\* acknowledgement back.
QuietLane ==
  /\ tail' = tail /\ acked' = acked /\ log' = log
  /\ items' \in [Seqs -> Items]
  /\ active' \in [id : 0..MaxIncarnation, epoch : 0..MaxEpoch]
  /\ active.epoch <= active'.epoch
  /\ rotten' \in SUBSET Seqs /\ rotten \subseteq rotten'
  /\ \A i \in Seqs :
       /\ items'[i].state # "absent" => i <= tail
       /\ items'[i].state = "acked" => items[i].state = "acked"
       /\ items[i].state = "acked" /\ i \notin rotten' => items'[i].state = "acked"
       /\ items'[i].state \in {"claimed", "consumed"} =>
            /\ items[i].state \in {"claimed", "consumed"}
            /\ items'[i].epoch = items[i].epoch /\ items'[i].owner = items[i].owner

\* The device drops its batch or keeps a part without a gap, and sends at most
\* a claim.
QuietDevice ==
  /\ me' \in 1..MaxIncarnation /\ epoch' \in 0..MaxEpoch /\ faults' \in 0..MaxFaults
  /\ \/ held' = {}
     \/ /\ held' \subseteq held /\ epoch' = epoch /\ me' = me
        /\ \A i \in held' : i <= acked + 1 \/ i - 1 \in held'
  /\ call' \in Requests \cup {NoCall}
  /\ call' # NoCall => call'.who = me'
  /\ \A m \in net' : m \in net \/ (m \in Requests /\ m.op = "claim")

\* An outcome on its way names an item of the lane.
LEMMA OutcomeInLane ==
  LaneInv => /\ Len(log) \in 0..tail
             /\ \A m \in net : m.op \in {"ack", "reject"} => m.seq \in 1..tail /\ m.seq \in Seqs
<1> SUFFICES ASSUME LaneInv
             PROVE  /\ Len(log) \in 0..tail
                    /\ \A m \in net : m.op \in {"ack", "reject"} => m.seq \in 1..tail /\ m.seq \in Seqs
  OBVIOUS
<1>1. MaxItems \in Nat
  BY LaneAssumption
<1>2. tail \in Nat /\ tail <= MaxItems
  BY <1>1 DEF LaneInv, TypeOK
<1>3. Len(log) \in Nat
  BY DEF LaneInv, TypeOK
<1>4. Len(log) \in 0..tail
  BY <1>2, <1>3 DEF LaneInv, LogOK
<1>5. ASSUME NEW m \in net, m.op \in {"ack", "reject"}
      PROVE  m.seq \in 1..tail
  BY <1>2, <1>4, <1>5 DEF LaneInv, NetOK
<1> QED
  BY <1>1, <1>2, <1>4, <1>5 DEF Seqs

\* A step that is quiet on both sides keeps the invariant.
LEMMA QuietStep == LaneInv /\ QuietLane /\ QuietDevice => LaneInv'
<1> SUFFICES ASSUME LaneInv, QuietLane, QuietDevice PROVE LaneInv'
  OBVIOUS
<1> USE DEF LaneInv
<1>1. TypeOK'
  BY DEF TypeOK, QuietLane, QuietDevice
<1>2. LaneOK'
  <2>1. \A i \in Seqs : items'[i].state # "absent" => i <= tail'
    BY DEF QuietLane
  <2>2. \A i \in Seqs : Leased(i)' => items'[i].epoch <= active'.epoch
    <3>1. \A i \in Seqs : Leased(i)' => Leased(i) /\ items'[i].epoch = items[i].epoch
      BY DEF Leased, QuietLane
    <3>2. active.epoch \in Int /\ active'.epoch \in Int /\ active.epoch <= active'.epoch
      BY DEF TypeOK, QuietLane
    <3>3. \A x \in Items : x.epoch \in Int
      BY DEF Items
    <3>4. \A i \in Seqs : Leased(i) => items[i].epoch \in Int /\ items[i].epoch <= active.epoch
      BY <3>3 DEF TypeOK, LaneOK
    <3> QED
      BY <3>1, <3>2, <3>4
  <2>3. AckedPrefix'
    BY DEF TypeOK, LaneOK, AckedPrefix, QuietLane
  <2> QED
    BY <2>1, <2>2, <2>3 DEF LaneOK
<1>3. LogOK'
  BY DEF LogOK, ConsumedInOrder, QuietLane
<1>4. HeldOK'
  <2>1. \A i \in held' : i <= tail' /\ (i <= acked' + 1 \/ i - 1 \in held')
    BY DEF HeldOK, QuietLane, QuietDevice
  <2>2. ASSUME held' # {}
        PROVE  /\ epoch' \in 1..active'.epoch
               /\ \A i \in Seqs : Leased(i)' /\ items'[i].epoch = epoch' => items'[i].owner = me'
    <3>1. held # {} /\ epoch' = epoch /\ me' = me
      BY <2>2 DEF QuietDevice
    <3>2. epoch' \in 1..active'.epoch
      BY <3>1 DEF TypeOK, HeldOK, QuietLane
    <3>3. QED
      BY <3>1, <3>2 DEF HeldOK, QuietLane, Leased
  <2>3. call' # NoCall => call'.who = me'
    BY DEF QuietDevice
  <2> QED
    BY <2>1, <2>2, <2>3 DEF HeldOK
<1>5. NetOK'
  <2> SUFFICES ASSUME NEW m \in net'
               PROVE  /\ m.op = "ack" => m.seq \in 1..Len(log')
                      /\ m.op = "reject" => m.seq \in 1..tail'
                      /\ m.op \in {"ack", "reject"} => m.epoch \in 1..active'.epoch
                      /\ m.op \in {"ack", "reject"} /\ items'[m.seq].state \in {"claimed", "consumed"}
                           /\ items'[m.seq].epoch = m.epoch => items'[m.seq].owner = m.who
    BY DEF NetOK, OutcomeFromHolder
  <2>1. CASE m \notin net
    BY <2>1 DEF QuietDevice
  <2>2. CASE m \in net
    <3>1. m.op = "ack" => m.seq \in 1..Len(log')
      BY <2>2 DEF NetOK, QuietLane
    <3>2. m.op = "reject" => m.seq \in 1..tail'
      BY <2>2 DEF NetOK, QuietLane
    <3>3. m.op \in {"ack", "reject"} => m.epoch \in 1..active'.epoch
      BY <2>2 DEF TypeOK, NetOK, QuietLane
    <3>4. m.op \in {"ack", "reject"} => m.seq \in Seqs
      BY <2>2, OutcomeInLane
    <3> QED
      BY <2>2, <3>1, <3>2, <3>3, <3>4 DEF NetOK, OutcomeFromHolder, QuietLane
  <2> QED
    BY <2>1, <2>2
<1> QED
  BY <1>1, <1>2, <1>3, <1>4, <1>5

-----------------------------------------------------------------------------
(* The quiet actions *)

\* A released item has a type and no lease.
LEMMA ReleasedItem ==
  ASSUME NEW s \in ItemStates, NEW a \in 0..MaxAttempts
  PROVE  Item(s, a) \in Items /\ Item(s, a).state = s
<1> MaxIncarnation \in Nat /\ MaxEpoch \in Nat
  BY LaneAssumption
<1> QED
  BY DEF Item, Items

\* A step that leaves the Station's rows and the log alone.
LEMMA StillLane == LaneInv /\ UNCHANGED lane /\ log' = log => QuietLane
<1> SUFFICES ASSUME LaneInv, UNCHANGED lane, log' = log PROVE QuietLane
  OBVIOUS
<1> QED
  BY DEF LaneInv, LaneOK, TypeOK, lane, QuietLane

\* A step that leaves the device and the network alone.
LEMMA StillDevice ==
  LaneInv /\ UNCHANGED <<me, epoch, held, call, net, faults>> => QuietDevice
<1> SUFFICES ASSUME LaneInv, UNCHANGED <<me, epoch, held, call, net, faults>> PROVE QuietDevice
  OBVIOUS
<1> QED
  BY DEF LaneInv, TypeOK, HeldOK, QuietDevice

\* What handling a request leaves on the network.
LEMMA HandledNet ==
  ASSUME LaneInv, NEW m, Handled(m)
  PROVE  /\ \A k \in net' : k \in net
         /\ faults' \in 0..MaxFaults
<1> MaxFaults \in Nat
  BY LaneAssumption
<1> QED
  BY DEF LaneInv, TypeOK, Handled, Fault

\* An answer that ends the drain.
LEMMA StopQuiet ==
  ASSUME LaneInv, NEW m, Stop(m), Handled(m), epoch' = epoch
  PROVE  QuietDevice /\ log' = log
<1>1. \A k \in net' : k \in net
  BY HandledNet
<1>2. faults' \in 0..MaxFaults
  BY HandledNet
<1>3. me' = me /\ log' = log
  BY DEF Stop
<1>4. held' = {} \/ held' = held
  BY DEF Stop
<1>5. call' = NoCall \/ call' = call
  BY DEF Stop
<1> QED
  BY <1>1, <1>2, <1>3, <1>4, <1>5 DEF LaneInv, TypeOK, HeldOK, QuietDevice

\* An answer to a claim that leases nothing.
LEMMA GrantQuiet ==
  ASSUME LaneInv, NEW m, NEW e \in 0..MaxEpoch, Grant(m, e, {})
  PROVE  QuietDevice /\ log' = log
<1>0. Handled(m)
  BY DEF Grant
<1>1. \A k \in net' : k \in net
  BY <1>0, HandledNet
<1>2. faults' \in 0..MaxFaults
  BY <1>0, HandledNet
<1>3. me' = me /\ log' = log
  BY DEF Grant
<1>4. held' = {} \/ (held' = held /\ epoch' = epoch)
  BY DEF Grant
<1>5. call' = NoCall \/ call' = call
  BY DEF Grant
<1>6. epoch' \in 0..MaxEpoch
  BY DEF LaneInv, TypeOK, Grant
<1> QED
  BY <1>1, <1>2, <1>3, <1>4, <1>5, <1>6 DEF LaneInv, TypeOK, HeldOK, QuietDevice

\* Claims that lease nothing: fenced, exhausted, ahead of the head, recovering,
\* empty.
LEMMA QuietClaims ==
  ASSUME LaneInv, NEW m \in net,
         ClaimFenced(m) \/ ClaimExhausted(m) \/ ClaimAhead(m) \/ ClaimRecover(m) \/ ClaimEmpty(m)
  PROVE  QuietLane /\ QuietDevice
<1> MaxEpoch \in Nat /\ MaxEpoch > 0 /\ MaxIncarnation \in Nat /\ MaxItems \in Nat
  BY LaneAssumption
<1>0. m \in Requests
  BY DEF LaneInv, TypeOK
<1>1. CASE ClaimFenced(m) \/ ClaimExhausted(m)
  <2>1. QuietDevice /\ log' = log
    BY <1>1, StopQuiet DEF ClaimFenced, ClaimExhausted
  <2> QED
    BY <1>1, <2>1, StillLane DEF ClaimFenced, ClaimExhausted
<1>2. CASE ClaimAhead(m)
  <2>1. QuietLane
    BY <1>2, StillLane DEF ClaimAhead
  <2> DEFINE again == [op |-> "claim", who |-> m.who, epoch |-> 0, seq |-> 0, code |-> "none"]
  <2>2. again \in Requests /\ again.op = "claim" /\ again.who = m.who
    BY <1>0 DEF Requests
  <2>3. \/ /\ call = m /\ call' = again /\ net' = (net \ {m}) \cup {again}
        \/ /\ call' = call /\ net' = net \ {m}
    BY <1>2 DEF ClaimAhead
  <2>4. UNCHANGED <<me, epoch, held, faults>>
    BY <1>2 DEF ClaimAhead
  <2>5. call' \in Requests \cup {NoCall} /\ (call' # NoCall => call'.who = me')
    <3> HIDE DEF again
    <3> QED
      BY <1>0, <2>2, <2>3, <2>4, CallAssumption DEF LaneInv, TypeOK, HeldOK
  <2>6. \A k \in net' : k \in net \/ (k \in Requests /\ k.op = "claim")
    <3> HIDE DEF again
    <3> QED
      BY <2>2, <2>3
  <2> QED
    BY <2>1, <2>4, <2>5, <2>6 DEF LaneInv, TypeOK, HeldOK, QuietDevice
<1>3. CASE ClaimRecover(m)
  <2>1. active.epoch \in 0..MaxEpoch
    BY DEF LaneInv, TypeOK
  <2>2. QuietDevice /\ log' = log
    BY <1>3, <2>1, GrantQuiet DEF ClaimRecover
  <2> QED
    BY <1>3, <2>2, StillLane DEF ClaimRecover
<1>4. CASE ClaimEmpty(m)
  <2>1. active' \in [id : 0..MaxIncarnation, epoch : 0..MaxEpoch] /\ active.epoch <= active'.epoch
    BY <1>0, <1>4 DEF LaneInv, TypeOK, ClaimEmpty, Advanced, Requests
  <2>2. QuietDevice /\ log' = log
    <3>1. active'.epoch \in 0..MaxEpoch
      BY <2>1
    <3> QED
      BY <1>4, <3>1, GrantQuiet DEF ClaimEmpty
  <2> QED
    BY <1>4, <2>1, <2>2 DEF LaneInv, LaneOK, TypeOK, ClaimEmpty, QuietLane
<1> QED
  BY <1>1, <1>2, <1>3, <1>4

\* One item is released under a new state that is neither leased nor
\* acknowledged, and only rot lets an acknowledged one go.
LEMMA ReleaseQuiet ==
  ASSUME LaneInv, NEW i \in Seqs, i <= tail,
         items[i].state = "acked" => i \in rotten,
         NEW s \in {"retry_wait", "dead_letter"},
         items' = [items EXCEPT ![i] = Item(s, items[i].attempt)],
         active' \in [id : 0..MaxIncarnation, epoch : 0..MaxEpoch],
         active.epoch <= active'.epoch,
         UNCHANGED <<tail, acked, rotten, log>>
  PROVE  QuietLane
<1>1. items[i].attempt \in 0..MaxAttempts
  BY DEF LaneInv, TypeOK, Items
<1>2. Item(s, items[i].attempt) \in Items /\ Item(s, items[i].attempt).state = s
  BY <1>1, ReleasedItem DEF ItemStates
<1>3. items' \in [Seqs -> Items]
  BY <1>2 DEF LaneInv, TypeOK
<1>4. items'[i].state = s /\ \A j \in Seqs : j # i => items'[j] = items[j]
  BY <1>2 DEF LaneInv, TypeOK
<1> QED
  BY <1>3, <1>4 DEF LaneInv, LaneOK, TypeOK, QuietLane

\* A claim that dead-letters a rotten item.
LEMMA QuietClaimRotten ==
  ASSUME LaneInv, NEW m \in net, ClaimRotten(m)
  PROVE  QuietLane /\ QuietDevice
<1> MaxEpoch \in Nat /\ MaxEpoch > 0 /\ MaxIncarnation \in Nat /\ MaxItems \in Nat
  BY LaneAssumption
<1>0. m \in Requests
  BY DEF LaneInv, TypeOK
<1>1. QuietDevice /\ log' = log
  BY StopQuiet DEF ClaimRotten
<1>2. active' \in [id : 0..MaxIncarnation, epoch : 0..MaxEpoch] /\ active.epoch <= active'.epoch
  BY <1>0 DEF LaneInv, TypeOK, ClaimRotten, Advanced, Requests
<1>3. PICK i \in Batch \cap rotten :
        items' = [items EXCEPT ![i] = Item("dead_letter", items[i].attempt)]
  BY DEF ClaimRotten
<1>4. i \in Seqs /\ i <= tail /\ i \in rotten
  BY <1>3 DEF LaneInv, TypeOK, Batch, Seqs
<1>5. UNCHANGED <<tail, acked, rotten, log>>
  BY <1>1 DEF ClaimRotten
<1>6. QuietLane
  BY <1>2, <1>3, <1>4, <1>5, ReleaseQuiet
<1> QED
  BY <1>1, <1>6

\* Acknowledgements that do not move the lane.
LEMMA QuietAcks ==
  ASSUME LaneInv, NEW m \in net, AckReplay(m) \/ AckRotten(m) \/ AckRefuse(m)
  PROVE  QuietLane /\ QuietDevice
<1>1. CASE AckReplay(m)
  <2>1. QuietLane
    BY <1>1, StillLane DEF AckReplay
  <2>2. m.seq \in 1..tail /\ m.seq \in Seqs
    BY <1>1, OutcomeInLane DEF AckReplay
  <2>3. m.seq <= acked
    BY <1>1 DEF AckReplay, Replayed
  <2>4. acked \in Nat /\ held \subseteq Int
    BY DEF LaneInv, TypeOK, Seqs
  <2>5. \A k \in net' : k \in net
    BY <1>1, HandledNet DEF AckReplay
  <2>6. faults' \in 0..MaxFaults
    BY <1>1, HandledNet DEF AckReplay
  <2>7. UNCHANGED <<me, epoch>> /\ (call' = NoCall \/ call' = call)
    BY <1>1 DEF AckReplay
  <2>8. held' = held \ {m.seq} \/ held' = held
    BY <1>1 DEF AckReplay
  <2>9. \A i \in held' : i <= acked + 1 \/ i - 1 \in held'
    <3> SUFFICES ASSUME NEW i \in held', ~(i <= acked + 1) PROVE i - 1 \in held'
      OBVIOUS
    <3>1. i \in held /\ i - 1 \in held
      BY <2>8 DEF LaneInv, HeldOK
    <3>2. i - 1 # m.seq
      BY <2>2, <2>3, <2>4, <3>1
    <3> QED
      BY <2>8, <3>1, <3>2
  <2> QED
    BY <2>1, <2>5, <2>6, <2>7, <2>8, <2>9 DEF LaneInv, TypeOK, HeldOK, QuietDevice
<1>2. CASE AckRotten(m)
  <2>1. QuietDevice /\ log' = log
    BY <1>2, StopQuiet DEF AckRotten
  <2>2. m.seq \in Seqs /\ m.seq <= tail /\ m.seq \in rotten
    BY <1>2, OutcomeInLane DEF AckRotten
  <2>3. active' \in [id : 0..MaxIncarnation, epoch : 0..MaxEpoch] /\ active.epoch <= active'.epoch
    BY <1>2 DEF AckRotten, LaneInv, TypeOK
  <2>4. UNCHANGED <<tail, acked, rotten, log>>
    BY <1>2, <2>1 DEF AckRotten
  <2>5. items' = [items EXCEPT ![m.seq] = Item("dead_letter", items[m.seq].attempt)]
    BY <1>2 DEF AckRotten
  <2>6. QuietLane
    BY <2>2, <2>3, <2>4, <2>5, ReleaseQuiet
  <2> QED
    BY <2>1, <2>6
<1>3. CASE AckRefuse(m)
  <2>1. QuietDevice /\ log' = log
    BY <1>3, StopQuiet DEF AckRefuse
  <2> QED
    BY <1>3, <2>1, StillLane DEF AckRefuse
<1> QED
  BY <1>1, <1>2, <1>3

\* A rejection, whatever its outcome.
LEMMA QuietReject ==
  ASSUME LaneInv, NEW m \in net, Reject(m)
  PROVE  QuietLane /\ QuietDevice
<1>1. QuietDevice /\ log' = log
  BY StopQuiet DEF Reject
<1>2. m.seq \in Seqs /\ m.seq <= tail
  BY OutcomeInLane DEF Reject
<1>3. active' \in [id : 0..MaxIncarnation, epoch : 0..MaxEpoch] /\ active.epoch <= active'.epoch
  BY DEF Reject, LaneInv, TypeOK
<1>4. UNCHANGED <<tail, acked, active, rotten, log>>
  BY <1>1 DEF Reject
<1>5. CASE Rejectable(m)
  <2>1. items[m.seq].state = "claimed"
    BY <1>5 DEF Rejectable
  <2>2. PICK s \in {"retry_wait", "dead_letter"} :
          items' = [items EXCEPT ![m.seq] = Item(s, items[m.seq].attempt)]
    BY <1>5 DEF Reject
  <2>3. QuietLane
    BY <1>2, <1>3, <1>4, <2>1, <2>2, ReleaseQuiet
  <2> QED
    BY <1>1, <2>3
<1>6. CASE ~Rejectable(m)
  <2>1. UNCHANGED items
    BY <1>6 DEF Reject
  <2> QED
    BY <1>1, <1>4, <2>1, StillLane DEF lane
<1> QED
  BY <1>5, <1>6

\* Receipts, the passing of time and rot change no lease and no batch.
LEMMA QuietTime ==
  ASSUME LaneInv,
         \/ \E i \in Seqs : Receipt(i) \/ Wake(i) \/ Rot(i)
         \/ \E e \in 1..MaxEpoch : Lapse(e)
  PROVE  QuietLane /\ QuietDevice
<1> MaxFaults \in Nat /\ MaxItems \in Nat
  BY LaneAssumption
<1>1. ASSUME NEW i \in Seqs, Receipt(i) PROVE QuietLane /\ QuietDevice
  <2>1. items[i] \in Items /\ items[i].state = "claimed"
    BY <1>1 DEF LaneInv, TypeOK, Receipt
  <2> DEFINE new == [items[i] EXCEPT !.state = "consumed"]
  <2>2. /\ new \in Items /\ new.state = "consumed"
        /\ new.epoch = items[i].epoch /\ new.owner = items[i].owner
    BY <2>1 DEF Items, ItemStates
  <2>3. items' = [items EXCEPT ![i] = new]
    BY <1>1 DEF Receipt, ReceiptUpdates
  <2>4. UNCHANGED <<tail, acked, active, rotten, log>>
    BY <1>1 DEF Receipt, device
  <2>5. QuietLane
    <3> HIDE DEF new
    <3>1. items' \in [Seqs -> Items]
      BY <2>2, <2>3 DEF LaneInv, TypeOK
    <3>2. items'[i] = new /\ \A j \in Seqs : j # i => items'[j] = items[j]
      BY <2>3 DEF LaneInv, TypeOK
    <3> QED
      BY <2>1, <2>2, <2>4, <3>1, <3>2 DEF LaneInv, LaneOK, TypeOK, QuietLane
  <2> QED
    BY <1>1, <2>5, StillDevice DEF Receipt, device
<1>2. ASSUME NEW i \in Seqs, Wake(i) PROVE QuietLane /\ QuietDevice
  <2>1. Ripened(items[i]) \in Items /\ Ripened(items[i]).state = items[i].state
    BY DEF LaneInv, TypeOK, Ripened, Items
  <2>2. UNCHANGED <<tail, acked, active, rotten, log>>
    BY <1>2 DEF Wake, device
  <2>3. items' \in [Seqs -> Items]
    BY <1>2, <2>1 DEF LaneInv, TypeOK, Wake
  <2>4. items'[i].state = items[i].state /\ \A j \in Seqs : j # i => items'[j] = items[j]
    BY <1>2, <2>1 DEF LaneInv, TypeOK, Wake
  <2>5. items[i].state = "retry_wait"
    BY <1>2 DEF Wake
  <2>6. QuietLane
    BY <2>2, <2>3, <2>4, <2>5 DEF LaneInv, LaneOK, TypeOK, QuietLane
  <2> QED
    BY <1>2, <2>6, StillDevice DEF Wake, device
<1>3. ASSUME NEW i \in Seqs, Rot(i) PROVE QuietLane /\ QuietDevice
  <2>1. faults' \in 0..MaxFaults
    BY <1>3 DEF Rot, Fault, LaneInv, TypeOK
  <2>2. QuietLane
    BY <1>3 DEF Rot, LaneInv, LaneOK, TypeOK, QuietLane, device
  <2> QED
    BY <1>3, <2>1, <2>2 DEF Rot, LaneInv, TypeOK, HeldOK, QuietDevice, device
<1>4. ASSUME NEW e \in 1..MaxEpoch, Lapse(e) PROVE QuietLane /\ QuietDevice
  <2>1. \A i \in Seqs : /\ Ripened(items[i]) \in Items
                        /\ Ripened(items[i]).state = items[i].state
                        /\ Ripened(items[i]).epoch = items[i].epoch
                        /\ Ripened(items[i]).owner = items[i].owner
    BY DEF LaneInv, TypeOK, Ripened, Items
  <2>2. \A i \in Seqs : items'[i] = Ripened(items[i]) \/ items'[i] = items[i]
    BY <1>4 DEF Lapse
  <2>3. items' \in [Seqs -> Items]
    BY <1>4, <2>1 DEF LaneInv, TypeOK, Lapse
  <2>4. faults' \in 0..MaxFaults
    BY <1>4 DEF Lapse, Fault, LaneInv, TypeOK
  <2>5. UNCHANGED <<tail, acked, active, rotten, me, epoch, log, held, call, net>>
    BY <1>4 DEF Lapse, device
  <2>6. \A i \in Seqs : /\ items'[i].state = items[i].state
                        /\ items'[i].epoch = items[i].epoch
                        /\ items'[i].owner = items[i].owner
    BY <2>1, <2>2
  <2>7. QuietLane
    BY <2>3, <2>5, <2>6 DEF LaneInv, LaneOK, TypeOK, QuietLane
  <2> QED
    BY <2>4, <2>5, <2>7 DEF LaneInv, TypeOK, HeldOK, QuietDevice
<1> QED
  BY <1>1, <1>2, <1>3, <1>4

\* The device polls, fails, gives up, dies; the network loses a request.
LEMMA QuietDeviceSteps ==
  ASSUME LaneInv, Poll \/ Fail \/ Timeout \/ Crash \/ (\E m \in net : Lose(m))
  PROVE  QuietLane /\ QuietDevice
<1> /\ MaxFaults \in Nat /\ MaxItems \in Nat /\ MaxEpoch \in Nat /\ MaxIncarnation \in Nat
  BY LaneAssumption
<1>1. CASE Poll
  <2>1. Cursor \in 0..MaxItems
    BY DEF LaneInv, TypeOK, Cursor, Seqs
  <2> DEFINE m == [op |-> "claim", who |-> me, epoch |-> epoch, seq |-> Cursor, code |-> "none"]
  <2>2. m \in Requests /\ m.op = "claim" /\ m.who = me
    BY <2>1 DEF LaneInv, TypeOK, Requests
  <2>3. call' = m /\ net' = net \cup {m}
    BY <1>1 DEF Poll, Call
  <2>4. UNCHANGED <<me, epoch, log, held, faults>>
    BY <1>1 DEF Poll
  <2>5. QuietDevice
    <3> HIDE DEF m
    <3> QED
      BY <2>2, <2>3, <2>4 DEF LaneInv, TypeOK, HeldOK, QuietDevice
  <2> QED
    BY <1>1, <2>4, <2>5, StillLane DEF Poll
<1>2. CASE Fail
  <2>1. QuietDevice
    BY <1>2 DEF Fail, Fault, LaneInv, TypeOK, HeldOK, QuietDevice
  <2> QED
    BY <1>2, <2>1, StillLane DEF Fail
<1>3. CASE Timeout
  <2>1. QuietDevice
    BY <1>3 DEF Timeout, Fault, LaneInv, TypeOK, QuietDevice
  <2> QED
    BY <1>3, <2>1, StillLane DEF Timeout
<1>4. CASE Crash
  <2>1. QuietDevice
    BY <1>4 DEF Crash, Fault, LaneInv, TypeOK, QuietDevice
  <2> QED
    BY <1>4, <2>1, StillLane DEF Crash
<1>5. ASSUME NEW m \in net, Lose(m) PROVE QuietLane /\ QuietDevice
  <2>1. QuietDevice
    BY <1>5 DEF Lose, device, LaneInv, TypeOK, HeldOK, QuietDevice
  <2> QED
    BY <1>5, <2>1, StillLane DEF Lose, device
<1> QED
  BY <1>1, <1>2, <1>3, <1>4, <1>5

-----------------------------------------------------------------------------
(* The actions that enqueue, lease, consume and acknowledge *)

\* Enqueue adds a row behind everything a lease or a request names.
LEMMA EnqueueInv == LaneInv /\ Enqueue => LaneInv'
<1> SUFFICES ASSUME LaneInv, Enqueue PROVE LaneInv'
  OBVIOUS
<1> USE DEF LaneInv
<1>0. /\ MaxItems \in Nat /\ MaxAttempts \in Nat
      /\ tail \in Nat /\ tail < MaxItems /\ acked \in 0..tail /\ tail + 1 \in Seqs
  <2>1. tail \in 0..MaxItems /\ acked \in 0..tail
    BY DEF TypeOK
  <2>2. tail < MaxItems
    BY DEF Enqueue
  <2> QED
    BY <2>1, <2>2, LaneAssumption DEF Seqs
<1>1. Item("pending", 0) \in Items /\ Item("pending", 0).state = "pending"
  BY <1>0, ReleasedItem DEF ItemStates
<1>2. /\ items' \in [Seqs -> Items]
      /\ items'[tail + 1].state = "pending"
      /\ \A i \in Seqs : i # tail + 1 => items'[i] = items[i]
  <2>1. items \in [Seqs -> Items]
    BY DEF TypeOK
  <2>2. items' = [items EXCEPT ![tail + 1] = Item("pending", 0)]
    BY DEF Enqueue
  <2> QED
    BY <1>0, <1>1, <2>1, <2>2
<1>3. tail' = tail + 1 /\ UNCHANGED <<acked, active, rotten, me, epoch, log, held, call, net, faults>>
  BY DEF Enqueue, device
<1>4. TypeOK'
  BY <1>0, <1>2, <1>3 DEF TypeOK
<1>5. \A i \in Seqs : Leased(i)' => Leased(i) /\ items'[i] = items[i]
  BY <1>2 DEF Leased
<1>6. LaneOK'
  BY <1>0, <1>2, <1>3, <1>5 DEF LaneOK, AckedPrefix, Seqs
<1>7. LogOK'
  BY <1>0, <1>3 DEF LogOK, ConsumedInOrder, TypeOK
<1>8. HeldOK'
  BY <1>0, <1>3, <1>5 DEF HeldOK, TypeOK, Seqs
<1>9. NetOK'
  <2>1. \A m \in net : m.op \in {"ack", "reject"} => m.seq \in 1..tail /\ m.seq \in Seqs
    BY OutcomeInLane
  <2> QED
    BY <1>0, <1>2, <1>3, <2>1 DEF NetOK, OutcomeFromHolder
<1> QED
  BY <1>4, <1>6, <1>7, <1>8, <1>9

\* ClaimBatch leases the head of the lane under an epoch that no lease, no
\* batch and no request on its way has.
LEMMA ClaimBatchInv ==
  ASSUME LaneInv, NEW m \in net, ClaimBatch(m)
  PROVE  LaneInv'
<1> USE DEF LaneInv
<1>0. /\ MaxItems \in Nat /\ MaxEpoch \in Nat /\ MaxAttempts \in Nat
      /\ tail \in Nat /\ tail <= MaxItems /\ acked \in Nat /\ acked <= tail
      /\ active.epoch \in Nat /\ active.epoch < MaxEpoch
  BY LaneAssumption DEF TypeOK, ClaimBatch
<1>1. m \in Requests
  BY DEF TypeOK
<1>2. /\ active' \in [id : 0..MaxIncarnation, epoch : 0..MaxEpoch]
      /\ active'.epoch = active.epoch + 1
  BY <1>0, <1>1, LaneAssumption DEF ClaimBatch, Advanced, Requests
<1>3. \A i \in Batch : i \in Seqs /\ i <= tail /\ acked < i
  BY <1>0 DEF Batch, Seqs
<1>4. \A i \in Batch : i <= acked + 1 \/ i - 1 \in Batch
  <2> SUFFICES ASSUME NEW i \in Batch, ~(i <= acked + 1) PROVE i - 1 \in Batch
    OBVIOUS
  <2>1. i \in Int /\ BatchLimit \in Nat
    BY <1>0, LaneAssumption DEF Batch
  <2>2. i - 1 \in acked + 1..tail /\ i - 1 <= acked + BatchLimit
    BY <1>0, <2>1 DEF Batch
  <2>3. \A j \in acked + 1..(i - 1) : Claimable(j)
    BY <1>0, <2>1 DEF Batch
  <2> QED
    BY <2>2, <2>3 DEF Batch
<1>5. \A i \in Seqs : IF i \in Batch
        THEN /\ items'[i] \in Items /\ items'[i].state = "claimed"
             /\ items'[i].owner = m.who /\ items'[i].epoch = active'.epoch
        ELSE items'[i] = items[i]
  <2>1. m.who \in 0..MaxIncarnation /\ active'.epoch \in 0..MaxEpoch
    BY <1>1, <1>2, LaneAssumption DEF Requests
  <2>2. \A i \in Seqs : items[i].attempt \in 0..MaxAttempts
    BY DEF TypeOK, Items
  <2> QED
    BY <1>0, <2>1, <2>2 DEF ClaimBatch, Items, ItemStates
<1>6. items' \in [Seqs -> Items]
  <2>1. items' = [i \in Seqs |-> items'[i]]
    BY DEF ClaimBatch
  <2>2. \A i \in Seqs : items'[i] \in Items
    BY <1>5 DEF TypeOK
  <2> QED
    BY <2>1, <2>2
<1>7. Handled(m) /\ UNCHANGED <<tail, acked, rotten, me, log>>
  BY DEF ClaimBatch, Grant
<1>8. /\ \A k \in net' : k \in net
      /\ faults' \in 0..MaxFaults
  BY <1>7, HandledNet
<1>9. \/ /\ call = m /\ call' = NoCall /\ held' = Batch /\ epoch' = active'.epoch
      \/ /\ call' = call /\ held' = held /\ epoch' = epoch
  BY DEF ClaimBatch, Grant
<1>10. TypeOK'
  <2>1. held' \in SUBSET Seqs /\ call' \in Requests \cup {NoCall} /\ epoch' \in 0..MaxEpoch
    BY <1>2, <1>3, <1>9 DEF TypeOK
  <2> QED
    BY <1>2, <1>6, <1>7, <1>8, <2>1 DEF TypeOK
<1>11. LaneOK'
  <2>1. \A i \in Seqs : items'[i].state # "absent" => i <= tail'
    BY <1>3, <1>5, <1>7 DEF LaneOK
  <2>2. \A i \in Seqs : Leased(i)' => items'[i].epoch <= active'.epoch
    <3>1. \A i \in Seqs : Leased(i) => items[i].epoch <= active.epoch
      BY DEF LaneOK
    <3>2. \A i \in Seqs : items[i].epoch \in Nat
      BY <1>0 DEF TypeOK, Items
    <3> QED
      BY <1>0, <1>2, <1>5, <3>1, <3>2 DEF Leased
  <2>3. AckedPrefix'
    BY <1>0, <1>3, <1>5, <1>7 DEF LaneOK, AckedPrefix, Seqs
  <2> QED
    BY <2>1, <2>2, <2>3 DEF LaneOK
<1>12. LogOK'
  BY <1>7 DEF LogOK, ConsumedInOrder
<1>13. HeldOK'
  <2>1. CASE call = m /\ call' = NoCall /\ held' = Batch /\ epoch' = active'.epoch
    <3>1. m.who = me
      BY <1>1, <2>1, CallAssumption DEF HeldOK
    <3>2. \A i \in Seqs : Leased(i)' /\ items'[i].epoch = epoch' => items'[i].owner = me'
      <4>1. \A i \in Seqs : Leased(i) => items[i].epoch \in Nat /\ items[i].epoch <= active.epoch
        <5>1. \A i \in Seqs : items[i].epoch \in Nat
          BY <1>0 DEF TypeOK, Items
        <5> QED
          BY <5>1 DEF LaneOK
      <4> QED
        BY <1>0, <1>2, <1>5, <1>7, <2>1, <3>1, <4>1 DEF Leased
    <3> QED
      BY <1>0, <1>2, <1>3, <1>4, <1>7, <2>1, <3>2 DEF HeldOK
  <2>2. CASE call' = call /\ held' = held /\ epoch' = epoch
    <3>1. \A i \in held' : i <= tail' /\ (i <= acked' + 1 \/ i - 1 \in held')
      BY <1>7, <2>2 DEF HeldOK
    <3>2. held' # {} => epoch' \in 1..active'.epoch
      BY <1>0, <1>2, <2>2 DEF HeldOK
    <3>3. held' # {} => \A i \in Seqs : Leased(i)' /\ items'[i].epoch = epoch' => items'[i].owner = me'
      BY <1>0, <1>2, <1>5, <1>7, <2>2 DEF HeldOK, Leased
    <3> QED
      BY <1>7, <2>2, <3>1, <3>2, <3>3 DEF HeldOK
  <2> QED
    BY <1>9, <2>1, <2>2
<1>14. NetOK'
  <2>1. \A k \in net : k.op \in {"ack", "reject"} => k.seq \in Seqs
    BY OutcomeInLane
  <2>2. \A k \in net' : k.op \in {"ack", "reject"} => k.epoch \in 1..active.epoch
    BY <1>8 DEF NetOK
  <2>3. \A k \in net' : k.op \in {"ack", "reject"} => k.epoch \in 1..active'.epoch
    BY <1>0, <1>2, <2>2
  <2>4. OutcomeFromHolder'
    BY <1>0, <1>2, <1>5, <1>8, <2>1, <2>2 DEF NetOK, OutcomeFromHolder
  <2> QED
    BY <1>7, <1>8, <2>3, <2>4 DEF NetOK
<1> QED
  BY <1>10, <1>11, <1>12, <1>13, <1>14

\* AckAccept moves the lane by one item, which the log already holds.
LEMMA AckAcceptInv ==
  ASSUME LaneInv, NEW m \in net, AckAccept(m)
  PROVE  LaneInv'
<1> USE DEF LaneInv
<1>0. /\ MaxItems \in Nat
      /\ tail \in Nat /\ tail <= MaxItems /\ acked \in Nat /\ acked <= tail
      /\ held \subseteq Int /\ Len(log) \in Nat
  BY LaneAssumption DEF TypeOK, Seqs
<1>1. m.seq = acked + 1 /\ acked' = acked + 1
  BY DEF AckAccept, Acceptable
<1>2. m.seq \in 1..Len(log) /\ m.seq \in 1..tail /\ m.seq \in Seqs
  BY OutcomeInLane DEF AckAccept, NetOK
<1>3. items[m.seq].attempt \in 0..MaxAttempts
  BY <1>2 DEF TypeOK, Items
<1>4. Item("acked", items[m.seq].attempt) \in Items /\ Item("acked", items[m.seq].attempt).state = "acked"
  BY <1>3, ReleasedItem DEF ItemStates
<1>5. /\ items' \in [Seqs -> Items]
      /\ items'[m.seq].state = "acked"
      /\ \A i \in Seqs : i # m.seq => items'[i] = items[i]
  BY <1>2, <1>4 DEF AckAccept, TypeOK
<1>6. Handled(m) /\ UNCHANGED <<tail, active, rotten, me, epoch, log>>
  BY DEF AckAccept
<1>7. /\ \A k \in net' : k \in net
      /\ faults' \in 0..MaxFaults
  BY <1>6, HandledNet
<1>8. (call' = NoCall \/ call' = call) /\ (held' = held \ {m.seq} \/ held' = held)
  BY DEF AckAccept
<1>9. \A i \in Seqs : Leased(i)' => Leased(i) /\ items'[i] = items[i]
  BY <1>5 DEF Leased
<1>10. TypeOK'
  <2>1. held' \in SUBSET Seqs /\ call' \in Requests \cup {NoCall} /\ net' \in SUBSET Requests
    BY <1>7, <1>8 DEF TypeOK
  <2>2. acked' \in 0..tail'
    BY <1>0, <1>1, <1>2, <1>6
  <2> QED
    BY <1>5, <1>6, <1>7, <2>1, <2>2 DEF TypeOK
<1>11. LaneOK'
  <2>1. AckedPrefix'
    BY <1>0, <1>1, <1>2, <1>5, <1>6 DEF LaneOK, AckedPrefix, Seqs
  <2> QED
    BY <1>2, <1>5, <1>6, <1>9, <2>1 DEF LaneOK
<1>12. LogOK'
  BY <1>0, <1>1, <1>2, <1>6 DEF LogOK, ConsumedInOrder
<1>13. HeldOK'
  <2>1. \A i \in held' : i <= tail' /\ (i <= acked' + 1 \/ i - 1 \in held')
    <3> SUFFICES ASSUME NEW i \in held' PROVE i <= tail /\ (i <= acked + 2 \/ i - 1 \in held')
      BY <1>0, <1>1, <1>6
    <3>1. i \in held /\ i \in Int /\ i <= tail /\ (i <= acked + 1 \/ i - 1 \in held)
      BY <1>0, <1>8 DEF HeldOK
    <3>2. CASE i <= acked + 2
      BY <3>1, <3>2
    <3>3. CASE ~(i <= acked + 2)
      <4>1. i - 1 \in held /\ i - 1 # m.seq
        BY <1>0, <1>1, <3>1, <3>3
      <4> QED
        BY <1>8, <3>1, <4>1
    <3> QED
      BY <3>2, <3>3
  <2> QED
    BY <1>6, <1>8, <1>9, <2>1 DEF HeldOK
<1>14. NetOK'
  <2>1. \A k \in net : k.op \in {"ack", "reject"} => k.seq \in Seqs
    BY OutcomeInLane
  <2>2. OutcomeFromHolder'
    BY <1>5, <1>7, <2>1 DEF NetOK, OutcomeFromHolder
  <2> QED
    BY <1>6, <1>7, <2>2 DEF NetOK
<1> QED
  BY <1>10, <1>11, <1>12, <1>13, <1>14

\* The next item of a batch is the head of the lane or already acknowledged, so
\* it is in the log or the next one of it.
LEMMA NextHeld ==
  ASSUME LaneInv, NEW i \in held, \A j \in held : i <= j
  PROVE  /\ i \in Seqs /\ i <= tail /\ i <= acked + 1
         /\ i \in 1..Len(log) \/ i = Len(log) + 1
         /\ Consumed(i) <=> i \in 1..Len(log)
         /\ epoch \in 1..active.epoch
<1>0. /\ held \subseteq Int /\ Len(log) \in Nat /\ i \in Seqs /\ acked \in Nat /\ i >= 1
  <2>1. held \subseteq Seqs /\ log \in Seq(Seqs) /\ tail \in 0..MaxItems /\ acked \in 0..tail
    BY DEF LaneInv, TypeOK
  <2>2. Len(log) \in Nat
    BY <2>1
  <2>3. MaxItems \in Nat
    BY LaneAssumption
  <2> QED
    BY <2>1, <2>2, <2>3 DEF Seqs
<1>1. i <= tail /\ (i <= acked + 1 \/ i - 1 \in held) /\ epoch \in 1..active.epoch
  BY DEF LaneInv, HeldOK
<1>2. i <= acked + 1
  BY <1>0, <1>1
<1>3. i \in 1..Len(log) \/ i = Len(log) + 1
  BY <1>0, <1>2 DEF LaneInv, LogOK
<1>4. Consumed(i) <=> i \in 1..Len(log)
  BY <1>0 DEF Consumed, LaneInv, LogOK, ConsumedInOrder
<1> QED
  BY <1>0, <1>1, <1>2, <1>3, <1>4

\* The device sends the outcome of an item of its batch, and the log is as the
\* outcome says.
LEMMA OutcomeInv ==
  ASSUME LaneInv, NEW i \in held, \A j \in held : i <= j,
         NEW op \in {"ack", "reject"}, NEW code \in RejectCodes \cup {"none"},
         Call(op, i, epoch, code),
         \/ log' = log
         \/ i = Len(log) + 1 /\ log' = Append(log, i),
         op = "ack" => i \in 1..Len(log'),
         UNCHANGED <<lane, me, epoch, held, faults>>
  PROVE  LaneInv'
<1> USE DEF LaneInv
<1> DEFINE m == [op |-> op, who |-> me, epoch |-> epoch, seq |-> i, code |-> code]
<1>0. /\ MaxItems \in Nat /\ tail \in Nat /\ tail <= MaxItems /\ acked \in Nat /\ acked <= tail
      /\ Len(log) \in Nat /\ log \in Seq(Seqs)
  BY LaneAssumption DEF TypeOK
<1>1. i \in Seqs /\ i \in Nat /\ i >= 1 /\ i <= tail /\ i <= acked + 1 /\ epoch \in 1..active.epoch
  BY NextHeld DEF Seqs
<1>2. /\ m \in Requests /\ m.op = op /\ m.seq = i /\ m.epoch = epoch /\ m.who = me
  BY <1>0, <1>1 DEF TypeOK, Requests, Seqs
<1>3. call' = m /\ net' = net \cup {m}
  BY DEF Call
<1> HIDE DEF m
<1>4. /\ log' \in Seq(Seqs)
      /\ Len(log') = Len(log) \/ (i = Len(log) + 1 /\ Len(log') = i)
      /\ \A k \in 1..Len(log') : log'[k] = k
  <2>1. CASE log' = log
    BY <1>0, <2>1 DEF LogOK, ConsumedInOrder
  <2>2. CASE i = Len(log) + 1 /\ log' = Append(log, i)
    <3>1. log' \in Seq(Seqs) /\ Len(log') = Len(log) + 1
      BY <1>0, <1>1, <2>2
    <3>2. \A k \in 1..Len(log') : log'[k] = IF k = Len(log) + 1 THEN i ELSE log[k]
      BY <1>0, <1>1, <2>2
    <3> QED
      BY <1>0, <2>2, <3>1, <3>2 DEF LogOK, ConsumedInOrder
  <2> QED
    BY <2>1, <2>2
<1>5. UNCHANGED <<items, tail, acked, active, rotten, me, epoch, held, faults>>
  BY DEF lane
<1>6. TypeOK'
  BY <1>2, <1>3, <1>4, <1>5 DEF TypeOK
<1>7. LaneOK'
  BY <1>5 DEF LaneOK, AckedPrefix, Leased
<1>8. LogOK'
  <2>1. acked <= Len(log') /\ Len(log') <= acked + 1 /\ Len(log') <= tail
    BY <1>0, <1>1, <1>4 DEF LogOK
  <2> QED
    BY <1>4, <1>5, <2>1 DEF LogOK, ConsumedInOrder
<1>9. HeldOK'
  BY <1>2, <1>3, <1>5 DEF HeldOK, Leased
<1>10. NetOK'
  <2>1. \A k \in net' : k.op = "ack" => k.seq \in 1..Len(log')
    BY <1>0, <1>2, <1>3, <1>4 DEF NetOK
  <2>2. \A k \in net' : k.op = "reject" => k.seq \in 1..tail'
    BY <1>0, <1>1, <1>2, <1>3, <1>5 DEF NetOK
  <2>3. \A k \in net' : k.op \in {"ack", "reject"} => k.epoch \in 1..active'.epoch
    BY <1>1, <1>2, <1>3, <1>5 DEF NetOK
  <2>4. OutcomeFromHolder'
    BY <1>1, <1>2, <1>3, <1>5 DEF NetOK, OutcomeFromHolder, HeldOK, Leased
  <2> QED
    BY <2>1, <2>2, <2>3, <2>4 DEF NetOK
<1> QED
  BY <1>6, <1>7, <1>8, <1>9, <1>10

\* Consume and SendReject.
LEMMA DeviceOutcomeInv ==
  ASSUME LaneInv, NEW i \in held,
         Consume(i) \/ \E code \in RejectCodes : SendReject(i, code)
  PROVE  LaneInv'
<1>0. Len(log) \in Nat
  BY DEF LaneInv, TypeOK
<1>1. CASE Consume(i)
  <2>1. \A j \in held : i <= j
    BY <1>1 DEF Consume
  <2>2. /\ i \in 1..Len(log) \/ i = Len(log) + 1
        /\ Consumed(i) <=> i \in 1..Len(log)
        /\ i \in Seqs
    BY <2>1, NextHeld
  <2>3. \/ log' = log
        \/ i = Len(log) + 1 /\ log' = Append(log, i)
    BY <1>1, <2>2 DEF Consume
  <2>4. i \in 1..Len(log')
    <3>1. CASE Consumed(i)
      BY <1>1, <2>2, <3>1 DEF Consume
    <3>2. CASE ~Consumed(i)
      <4>1. i = Len(log) + 1 /\ log' = Append(log, i)
        BY <1>1, <2>2, <3>2 DEF Consume
      <4>2. Len(log') = Len(log) + 1
        BY <2>2, <4>1 DEF LaneInv, TypeOK
      <4> QED
        BY <1>0, <4>1, <4>2
    <3> QED
      BY <3>1, <3>2
  <2>5. Call("ack", i, epoch, "none") /\ UNCHANGED <<lane, me, epoch, held, faults>>
    BY <1>1 DEF Consume
  <2> QED
    BY <2>1, <2>3, <2>4, <2>5, OutcomeInv
<1>2. ASSUME NEW code \in RejectCodes, SendReject(i, code) PROVE LaneInv'
  <2>1. \A j \in held : i <= j
    BY <1>2 DEF SendReject
  <2>2. Call("reject", i, epoch, code) /\ UNCHANGED <<lane, me, epoch, held, faults>> /\ log' = log
    BY <1>2 DEF SendReject
  <2> QED
    BY <2>1, <2>2, OutcomeInv
<1> QED
  BY <1>1, <1>2

-----------------------------------------------------------------------------
(* The invariant and what follows from it *)

\* The empty lane of a device that has just started.
LEMMA InitLaneInv == Init => LaneInv
<1> SUFFICES ASSUME Init PROVE LaneInv
  OBVIOUS
<1>0. /\ {MaxItems, MaxAttempts, MaxEpoch, MaxIncarnation} \subseteq Nat \ {0}
      /\ MaxFaults \in Nat
  BY LaneAssumption
<1>1. Item("absent", 0) \in Items /\ Item("absent", 0).state = "absent"
  BY <1>0, ReleasedItem DEF ItemStates
<1>2. TypeOK
  BY <1>0, <1>1 DEF Init, TypeOK
<1>3. LaneOK
  BY <1>0, <1>1 DEF Init, LaneOK, Leased, AckedPrefix, Seqs
<1>4. Len(log) = 0
  BY DEF Init
<1>5. LogOK
  BY <1>4 DEF Init, LogOK, ConsumedInOrder
<1>6. HeldOK /\ NetOK
  BY DEF Init, HeldOK, NetOK, OutcomeFromHolder
<1> QED
  BY <1>2, <1>3, <1>5, <1>6 DEF LaneInv

\* Every step keeps the invariant.
LEMMA NextLaneInv == LaneInv /\ [Next]_vars => LaneInv'
<1> SUFFICES ASSUME LaneInv, [Next]_vars PROVE LaneInv'
  OBVIOUS
<1>1. CASE Enqueue
  BY <1>1, EnqueueInv
<1>2. ASSUME NEW m \in net, Handle(m) PROVE LaneInv'
  <2>1. CASE ClaimFenced(m) \/ ClaimExhausted(m) \/ ClaimAhead(m) \/ ClaimRecover(m) \/ ClaimEmpty(m)
    BY <2>1, QuietClaims, QuietStep
  <2>2. CASE ClaimRotten(m)
    BY <2>2, QuietClaimRotten, QuietStep
  <2>3. CASE ClaimBatch(m)
    BY <2>3, ClaimBatchInv
  <2>4. CASE AckAccept(m)
    BY <2>4, AckAcceptInv
  <2>5. CASE AckReplay(m) \/ AckRotten(m) \/ AckRefuse(m)
    BY <2>5, QuietAcks, QuietStep
  <2>6. CASE Reject(m)
    BY <2>6, QuietReject, QuietStep
  <2> QED
    BY <1>2, <2>1, <2>2, <2>3, <2>4, <2>5, <2>6 DEF Handle
<1>3. CASE \/ \E i \in Seqs : Receipt(i) \/ Wake(i) \/ Rot(i)
           \/ \E e \in 1..MaxEpoch : Lapse(e)
  BY <1>3, QuietTime, QuietStep
<1>4. CASE Poll \/ Fail \/ Timeout \/ Crash \/ (\E m \in net : Lose(m))
  BY <1>4, QuietDeviceSteps, QuietStep
<1>5. ASSUME NEW i \in held, Consume(i) \/ \E code \in RejectCodes : SendReject(i, code)
      PROVE  LaneInv'
  BY <1>5, DeviceOutcomeInv
<1>6. CASE UNCHANGED vars
  BY <1>6, StillLane, StillDevice, QuietStep DEF vars, device
<1> QED
  BY <1>1, <1>2, <1>3, <1>4, <1>5, <1>6 DEF Next, Drain

\* The inductive invariant holds of every reachable state.
LEMMA AlwaysLaneInv == Spec => []LaneInv
<1> QED
  BY InitLaneInv, NextLaneInv, PTL DEF Spec

\* Types: every row, lease, epoch, request and cursor stays in its range.
THEOREM LaneTypeCorrect == Spec => []TypeOK
<1>1. LaneInv => TypeOK
  BY DEF LaneInv
<1> QED
  BY <1>1, AlwaysLaneInv, PTL

\* Whatever is late, repeated, lapsed or lost, Acknowledge passes only items
\* that the device has committed.
THEOREM AckedWasConsumed == Spec => []AckedIsConsumed
<1>1. LaneInv => AckedIsConsumed
  <2> SUFFICES ASSUME LaneInv, NEW i \in 1..acked PROVE Consumed(i)
    BY DEF AckedIsConsumed
  <2>1. acked \in Nat /\ Len(log) \in Nat /\ acked <= Len(log)
    BY LaneAssumption DEF LaneInv, TypeOK, LogOK
  <2>2. i \in 1..Len(log) /\ log[i] = i
    BY <2>1 DEF LaneInv, LogOK, ConsumedInOrder
  <2> QED
    BY <2>2 DEF Consumed
<1> QED
  BY <1>1, AlwaysLaneInv, PTL

\* The device commits the items of its lane in order and once.
THEOREM ConsumptionOrder == Spec => []ConsumedInOrder
<1>1. LaneInv => ConsumedInOrder
  BY DEF LaneInv, LogOK
<1> QED
  BY <1>1, AlwaysLaneInv, PTL

\* What the device has committed is never more than one item ahead of the cursor the
\* Station has acknowledged, so that a crash repeats at most one item.
THEOREM CursorLeadsByOne == Spec => []CursorLead
<1>1. LaneInv => CursorLead
  BY DEF LaneInv, LogOK, CursorLead
<1> QED
  BY <1>1, AlwaysLaneInv, PTL

\* acked_through and the acknowledged rows never disagree, but for rot.
THEOREM AckedRowsArePrefix == Spec => []AckedPrefix
<1>1. LaneInv => AckedPrefix
  BY DEF LaneInv, LaneOK
<1> QED
  BY <1>1, AlwaysLaneInv, PTL

\* The consumer epoch identifies the delivery attempt: a late outcome never
\* meets the lease of another process.
THEOREM EpochFences == Spec => []OutcomeFromHolder
<1>1. LaneInv => OutcomeFromHolder
  BY DEF LaneInv, NetOK
<1> QED
  BY <1>1, AlwaysLaneInv, PTL

\* acked_through moves by one item at a time, and only over a leased one.
THEOREM LaneNeverSkips == Spec => LaneAdvances
<1>1. LaneInv /\ [Next]_vars =>
        [/\ acked' \in {acked, acked + 1}
         /\ acked' = acked + 1 => items[acked + 1].state \in {"claimed", "consumed"}]_vars
  <2> SUFFICES ASSUME LaneInv, [Next]_vars
               PROVE  /\ acked' \in {acked, acked + 1}
                      /\ acked' = acked + 1 => items[acked + 1].state \in {"claimed", "consumed"}
    OBVIOUS
  <2>0. acked \in Int
    BY DEF LaneInv, TypeOK
  <2>1. CASE acked' = acked
    BY <2>0, <2>1
  <2>2. ASSUME NEW m \in net, AckAccept(m)
        PROVE  acked' = acked + 1 /\ items[acked + 1].state \in {"claimed", "consumed"}
    BY <2>2 DEF AckAccept, Acceptable
  <2>3. CASE Enqueue
    BY <2>1, <2>3 DEF Enqueue
  <2>4. ASSUME NEW m \in net, Handle(m), ~AckAccept(m) PROVE acked' = acked
    BY <2>4 DEF Handle, ClaimFenced, ClaimExhausted, ClaimAhead, ClaimRecover, ClaimEmpty, ClaimRotten, ClaimBatch,
                AckReplay, AckRotten, AckRefuse, Reject, lane
  <2>5. ASSUME \E m \in net : Lose(m) PROVE acked' = acked
    BY <2>5 DEF Lose, lane
  <2>6. ASSUME \/ \E i \in Seqs : Receipt(i) \/ Wake(i) \/ Rot(i)
               \/ \E e \in 1..MaxEpoch : Lapse(e)
        PROVE  acked' = acked
    BY <2>6 DEF Receipt, Wake, Rot, Lapse
  <2>7. ASSUME Drain \/ Fail \/ Timeout \/ Crash \/ (\E i \in held, code \in RejectCodes : SendReject(i, code))
        PROVE  acked' = acked
    BY <2>7 DEF Drain, Poll, Consume, Fail, Timeout, Crash, SendReject, lane
  <2>8. CASE UNCHANGED vars
    BY <2>1, <2>8 DEF vars, lane
  <2> QED
    BY <2>1, <2>2, <2>3, <2>4, <2>5, <2>6, <2>7, <2>8 DEF Next
<1> QED
  BY <1>1, AlwaysLaneInv, PTL DEF Spec, LaneAdvances
=============================================================================
