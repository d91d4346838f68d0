------------------------- MODULE MCDurableExecution -------------------------
(***************************************************************************)
(* Small instances of DurableExecution.  Three calls, one per kind of tool *)
(* in tool-effect-policy.ts: a read (search_customer), an internal write   *)
(* that is safe to retry (update_customer) and an external side effect     *)
(* that is not (execute_refund).                                           *)
(***************************************************************************)
EXTENDS DurableExecution, TLC

CONSTANTS search, update, refund

MCSideEffect ==
  [c \in Calls |-> CASE c = search -> "none"
                     [] c = update -> "internal_write"
                     [] c = refund -> "external_side_effect"]

MCRetrySafe == Calls \ {refund}

Symmetry == Permutations(Executors) \union Permutations(Recoverers)
=============================================================================
