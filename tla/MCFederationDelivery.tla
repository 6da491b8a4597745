------------------------ MODULE MCFederationDelivery ------------------------
(* Small instances of FederationDelivery for TLC. *)
EXTENDS FederationDelivery, TLC

CONSTANTS f1, f2, f3, f4, w1, w2

\* f1 and f2 are the first two frames of one lane of Station "A"; the stored
\* row of f3, on no lane, is corrupt.
LaneStation == [w \in Workers |-> "A"]
LaneSource == [f \in Frames |-> "A"]
LaneID == [f \in Frames |-> f]
LaneKey == [f \in Frames |-> f]
LaneLane == [f \in Frames |-> IF f = f3 THEN "none" ELSE "lane"]
LaneSeqno == [f \in Frames |-> IF f = f1 THEN 1 ELSE IF f = f2 THEN 2 ELSE 0]
LaneExpiresAt == [f \in Frames |-> IF f = f1 THEN 2 ELSE 3]
LaneCorrupt == {f3}

\* The dispatchers of one Station are interchangeable.
Symmetry == Permutations(Workers)

\* The backoff of one and of more attempts.
LaneDelay == [n \in 1..MaxAttempt |-> IF n = 1 THEN 1 ELSE 2]

\* Station "B" reuses the frame ID of f1 of Station "A"; f3 of "A" repeats the
\* idempotency key of f2.
TwoStation == [w \in Workers |-> IF w = w1 THEN "A" ELSE "B"]
TwoSource == [f \in Frames |-> IF f = f4 THEN "B" ELSE "A"]
TwoID == [f \in Frames |-> IF f = f4 THEN f1 ELSE f]
TwoKey == [f \in Frames |-> IF f = f3 THEN f2 ELSE f]
TwoLane == [f \in Frames |-> IF f = f4 THEN "B" ELSE "A"]
TwoSeqno == [f \in Frames |-> 0]
TwoExpiresAt == [f \in Frames |-> 2]
=============================================================================
