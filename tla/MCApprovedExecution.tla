------------------------ MODULE MCApprovedExecution -------------------------
(***************************************************************************)
(* A small instance of ApprovedExecution: a refund that needs an approval, *)
(* and a tool that is disabled, without an authorization context.          *)
(***************************************************************************)
EXTENDS ApprovedExecution, TLC

CONSTANTS refund, disabled

Unchecked(tool) ==
  [tool |-> tool, agent |-> "unchecked", roles |-> {}, sameDepartment |-> FALSE,
   sameRegion |-> FALSE, vip |-> FALSE]

MCAsked == refund :> Unchecked("execute_refund") @@ disabled :> Unchecked("send_message")

Symmetry == Permutations(Actions) \union Permutations(Executions)
=============================================================================
