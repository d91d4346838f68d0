--------------------------- MODULE AgentDelegation ---------------------------
(***************************************************************************)
(* The coordinator (multi-agent/): an LLM selects an agent from the        *)
(* registry, the selection is validated, and the task is delegated to it   *)
(* past a guard that has a table of its own.  Which agents there are is    *)
(* written down three times: in the registry, in the delegation policy and *)
(* in the switch of the delegation runtime.                                *)
(***************************************************************************)
EXTENDS Naturals, FiniteSets

CONSTANT
  Goals        \* goals given to coordinators that run at the same time

VARIABLES
  coordinator  \* per goal: pc, the selection, the source of the task

vars == <<coordinator>>

\* agent-registry.ts, with the tools an agent may use.
Registry ==
  [coordinator |-> {},
   customer_analysis |-> {"search_customer", "search_chat_history", "search_knowledge"},
   copywriting |-> {}]

\* What the model may name: an agent, something else, or nothing that parses.
Names == DOMAIN Registry \union {"stranger", "malformed"}

\* delegationPolicy.
DelegationPolicy == [coordinator |-> {"customer_analysis", "copywriting"}]

\* The agents the switch of delegate() knows.
Runtimes == {"customer_analysis", "copywriting"}

Outcomes == {"idle", "selecting", "delegating", "succeeded", "rejected", "failed"}

TypeOK ==
  coordinator \in [Goals -> [pc : Outcomes, selected : Names \union {"none"},
                             customer : BOOLEAN]]

Init ==
  \E customer \in [Goals -> BOOLEAN] :
    coordinator = [g \in Goals |->
      [pc |-> "idle", selected |-> "none", customer |-> customer[g]]]

\* listRoutableAgents.
Routable == DOMAIN Registry \ {"coordinator"}

\* validateAgentSelection.
ValidSelection(name) == name \in Routable

\* checkDelegation.
MayDelegate(from, to) ==
  /\ {from, to} \subseteq DOMAIN Registry
  /\ from \in DOMAIN DelegationPolicy /\ to \in DelegationPolicy[from]

\* runCustomerAnalysisAgent needs a customer id; the copywriting agent needs nothing.
Serves(to, customer) == to = "customer_analysis" => customer

\* selectAgent asks the model.
Select(g) ==
  /\ coordinator[g].pc = "idle"
  /\ coordinator' = [coordinator EXCEPT ![g].pc = "selecting"]

\* The model's choice; runCoordinator throws for one that is not valid.
Selected(g) ==
  /\ coordinator[g].pc = "selecting"
  /\ \E name \in Names :
       coordinator' = [coordinator EXCEPT
         ![g].selected = name,
         ![g].pc = IF ValidSelection(name) THEN "delegating" ELSE "failed"]

\* delegate(): the guard, the agent's runtime, and what it asks of its input.
Delegate(g) ==
  LET to == coordinator[g].selected
  IN /\ coordinator[g].pc = "delegating"
     /\ coordinator' = [coordinator EXCEPT ![g].pc =
          IF ~MayDelegate("coordinator", to) \/ to \notin Runtimes THEN "rejected"
          ELSE IF Serves(to, coordinator[g].customer) THEN "succeeded" ELSE "failed"]

Step(g) == Select(g) \/ Selected(g) \/ Delegate(g)

Next == \E g \in Goals : Step(g)

Spec == Init /\ [][Next]_vars

-----------------------------------------------------------------------------
(* Properties.                                                             *)

\* The three tables agree: a selection that passes validation is never rejected by the
\* guard or for want of a runtime, and only a task without its customer fails.
SelectionIsServed ==
  \A g \in Goals :
    /\ coordinator[g].pc # "rejected"
    /\ coordinator[g].pc = "failed" =>
         ~ValidSelection(coordinator[g].selected) \/ ~coordinator[g].customer
=============================================================================
