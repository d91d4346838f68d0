----------------------------- MODULE MCAgentParts -----------------------------
(***************************************************************************)
(* A small instance of AgentParts: three runs, executions and goals, and   *)
(* two messages of one user.                                               *)
(***************************************************************************)
EXTENDS AgentParts, TLC

CONSTANTS
  a, b, c, read, refund, message, disabled,
  refused1, refused2, refused3, refused4, refused5, refused6

\* A runtime with all three providers, one whose fallback is its primary and which is
\* priced, guarded and called with fewer steps than configured, one without fallback,
\* and two that are not ready and never run.
Plain ==
  [environment |-> "production", provider |-> "real", maxSteps |-> 4, loopSteps |-> 4,
   maxModelCalls |-> 4, maxTokens |-> 200, price |-> 0, maxCost |-> 1, guardTokens |-> 1000,
   warning |-> 75, maxRetries |-> 1, economy |-> "cheap", fallback |-> "spare"]

MCConfigs ==
  {Plain,
   [Plain EXCEPT !.price = 1, !.maxCost = 150, !.guardTokens = 120, !.warning = 80,
                 !.fallback = "primary", !.economy = "none", !.loopSteps = 2],
   [Plain EXCEPT !.maxSteps = 3, !.loopSteps = 3, !.fallback = "none", !.maxTokens = 100],
   [Plain EXCEPT !.provider = "mock"],
   [Plain EXCEPT !.maxModelCalls = 3]}

MCUsages == {0, 45, 100}

Ask(tool, agent, roles, department, vip) ==
  [tool |-> tool, agent |-> agent, roles |-> roles, sameDepartment |-> department,
   sameRegion |-> FALSE, vip |-> vip]

\* A read by a salesperson, a refund for a vip, a message of a runtime without an
\* authorization context, and calls that are refused: a disabled tool, another agent's
\* refund, a role, a vip, a department and a region that do not fit, an unmapped action.
MCAsked ==
  read     :> Ask("search_customer", "sales_agent", {"sales"}, TRUE, FALSE) @@
  refund   :> Ask("execute_refund", "finance_agent", {"finance", "manager"}, FALSE, TRUE) @@
  message  :> Ask("send_message", "unchecked", {}, FALSE, FALSE) @@
  disabled :> Ask("update_customer", "sales_agent", {"manager"}, TRUE, FALSE) @@
  refused1 :> Ask("execute_refund", "sales_agent", {"finance"}, TRUE, FALSE) @@
  refused2 :> Ask("send_message", "sales_agent", {"sales"}, TRUE, FALSE) @@
  refused3 :> Ask("execute_refund", "finance_agent", {"finance"}, TRUE, TRUE) @@
  refused4 :> Ask("search_customer", "sales_agent", {"manager"}, FALSE, FALSE) @@
  refused5 :> Ask("search_customer", "sales_agent", {"regional_manager", "sales"}, TRUE, FALSE) @@
  refused6 :> Ask("search_knowledge", "sales_agent", {"manager"}, TRUE, FALSE)

MCMessages == 1..2

\* One fact the policy refuses and one it takes.
MCCandidates ==
  {[source |-> "user_inferred", confidence |-> 8, type |-> "interest"],
   [source |-> "user_explicit", confidence |-> 8, type |-> "identity"]}

Proposal(type, filled, input) == [type |-> type, filled |-> filled, input |-> input]

\* Every action of the path; one with two inputs, one without an input, one not allowed.
MCProposals ==
  {Proposal("search_customer", TRUE, 1),
   Proposal("search_knowledge", TRUE, 1), Proposal("search_knowledge", TRUE, 2),
   Proposal("search_chat_history", FALSE, 1), Proposal("search_chat_history", TRUE, 1),
   Proposal("send_message", TRUE, 1), Proposal("finish", TRUE, 1)}
=============================================================================
