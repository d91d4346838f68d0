--------------------------- MODULE EventDelivery ---------------------------
(***************************************************************************)
(* What the outbox, its delivery leases and the consumer's inbox promise   *)
(* together about each recovery event: its business effect is applied      *)
(* exactly once, the producer settles the event only afterwards, and a     *)
(* settled event is settled for good.                                      *)
(***************************************************************************)
EXTENDS Naturals

CONSTANT Events

VARIABLES
  applied,   \* how often the event's business effect was applied
  settled    \* events the producer has marked dispatched

Init == applied = [e \in Events |-> 0] /\ settled = {}

Apply(e) ==
  /\ applied[e] = 0
  /\ applied' = [applied EXCEPT ![e] = 1]
  /\ UNCHANGED settled

Settle(e) ==
  /\ applied[e] = 1 /\ e \notin settled
  /\ settled' = settled \union {e}
  /\ UNCHANGED applied

Next == \E e \in Events : Apply(e) \/ Settle(e)

Spec == Init /\ [][Next]_<<applied, settled>>
=============================================================================
