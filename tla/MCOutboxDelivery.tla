-------------------------- MODULE MCOutboxDelivery --------------------------
(***************************************************************************)
(* A small instance of OutboxDelivery: a consumer whose contract passes    *)
(* planRecoveryOutboxDelivery, and two deployments.                        *)
(***************************************************************************)
EXTENDS OutboxDelivery

CONSTANTS w1, w2, w3

GoodContract == [dedupe |-> TRUE, retention |-> 2, window |-> 1, ack |-> TRUE]

\* Legacy workers beside a fenced one; and fenced workers that acknowledge as they like.
MCDeployments ==
  {[fenced |-> {w3}, raw |-> {}], [fenced |-> Workers, raw |-> {w1, w2}]}
=============================================================================
