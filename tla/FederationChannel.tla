-------------------------- MODULE FederationChannel --------------------------
(***************************************************************************)
(* What Station-to-Station delivery promises to the domains that use it,   *)
(* without workers, leases, retries, requests or clocks: a frame is        *)
(* submitted once, has at most one receipt and one effect, is reported     *)
(* delivered only if it was received, and is received in lane order unless *)
(* the sender has given it up.                                             *)
(***************************************************************************)
EXTENDS Naturals, Sequences

CONSTANTS Frames,  \* the frames that domains may submit
          Before   \* pairs <<f, g>>: f is before g on a lane

VARIABLES status,    \* what the sender's domain may read of each frame
          receipts,  \* the receiver's verdict on each frame
          effects    \* the receiver's domain mutations, in order

channel == <<status, receipts, effects>>

Init ==
  /\ status = [f \in Frames |-> "unsent"]
  /\ receipts = [f \in Frames |-> "none"]
  /\ effects = <<>>

Submit(f) ==
  /\ status[f] = "unsent"
  /\ status' = [status EXCEPT ![f] = "queued"]
  /\ UNCHANGED <<receipts, effects>>

\* The receiver decides once. A frame not given up comes before its successors.
Decide(f, d) ==
  /\ status[f] \in {"queued", "given_up"}
  /\ receipts[f] = "none"
  /\ status[f] = "queued" => \A g \in Frames : <<f, g>> \in Before => receipts[g] = "none"
  /\ receipts' = [receipts EXCEPT ![f] = d]
  /\ effects' = IF d = "accepted" THEN Append(effects, f) ELSE effects
  /\ UNCHANGED status

Deliver(f) ==
  /\ status[f] = "queued"
  /\ receipts[f] \in {"accepted", "duplicate"}
  /\ status' = [status EXCEPT ![f] = "delivered"]
  /\ UNCHANGED <<receipts, effects>>

\* The sender gives up several frames at once when they have expired.
GiveUp(F) ==
  /\ \A f \in F : status[f] = "queued"
  /\ status' = [f \in Frames |-> IF f \in F THEN "given_up" ELSE status[f]]
  /\ UNCHANGED <<receipts, effects>>

Next ==
  \/ \E f \in Frames : Submit(f) \/ Deliver(f)
  \/ \E f \in Frames, d \in {"accepted", "duplicate", "terminal", "conflict"} : Decide(f, d)
  \/ \E F \in SUBSET Frames : GiveUp(F)

Spec == Init /\ [][Next]_channel
=============================================================================
