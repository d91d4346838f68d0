----------------------------- MODULE MCAgentRun -----------------------------
(***************************************************************************)
(* A small instance of AgentRun: one runtime that warns after the third of *)
(* its four steps, and then asks for a closing answer.                     *)
(***************************************************************************)
EXTENDS AgentRun

MCConfigs ==
  {[environment |-> "production", provider |-> "real", maxSteps |-> 4, loopSteps |-> 4,
    maxModelCalls |-> 4, maxTokens |-> 200, price |-> 0, maxCost |-> 1, guardTokens |-> 1000,
    warning |-> 75, maxRetries |-> 1, economy |-> "none", fallback |-> "none"]}

MCUsages == {45, 100}
=============================================================================
