----------------------------- MODULE PlannerLoop -----------------------------
(***************************************************************************)
(* The planner (planning/): runPlanner asks a planner for one action at a  *)
(* time, drops the ones it has seen, executes the others and stops at      *)
(* "finish" or after maxSteps.  CustomerPlanner, the default, follows a    *)
(* fixed path; LLMPlanner validates what the model proposes and asks again *)
(* with the validation errors.  A planner or an executor of the caller's   *)
(* own may be passed instead, and then nothing validates, or nothing       *)
(* checks the policy before execution.                                     *)
(***************************************************************************)
EXTENDS Naturals, Sequences, SequencesExt

CONSTANTS
  Proposals,         \* actions a model may propose: [type, filled, input]
  MaxSteps,          \* maxSteps
  ValidationRetries  \* LLMPlanner's validationRetries

VARIABLES
  setup,       \* whose planner and whose executor are used
  plan,        \* pc, step, attempt, the action chosen, reflection notes
  visited,     \* keys of the actions that were passed to the executor
  observed,    \* observations: the types of the actions that returned
  asked,       \* history: calls of the planner's LLM
  executed     \* history: actions whose execution took place, in order

vars == <<setup, plan, visited, observed, asked, executed>>

ActionSpace == {"search_customer", "search_chat_history", "search_knowledge", "finish"}
Planners == {"customer", "llm", "own"}
NoAction == [type |-> "none", filled |-> FALSE, input |-> 0]

TypeOK ==
  /\ setup \in [planner : Planners, executor : {"default", "own"}]
  /\ plan \in [pc : {"top", "planning", "chosen", "executing", "answered", "failed"},
               step : 0..MaxSteps, attempt : 0..ValidationRetries,
               action : Proposals \union {NoAction}, notes : 0..MaxSteps]
  /\ visited \subseteq Proposals
  /\ observed \subseteq Proposals
  /\ asked \in Nat
  /\ \A action \in Range(executed) : action \in Proposals

Init ==
  /\ setup \in [planner : Planners, executor : {"default", "own"}]
  /\ plan = [pc |-> "top", step |-> 0, attempt |-> 0, action |-> NoAction, notes |-> 0]
  /\ visited = {} /\ observed = {}
  /\ asked = 0 /\ executed = << >>

-----------------------------------------------------------------------------
(* Policy and validation.                                                  *)

\* assertActionAllowed: a type of the action space with a non-empty input.
Allowed(action) == action.type \in ActionSpace /\ action.filled

\* parsePlannerAction refuses everything else, or text that is no action.
Valid(action) == action # NoAction /\ Allowed(action)

\* Mutant: an action is compared with the one before only.
IsDuplicateOfLast(action) == executed # << >> /\ action = Last(executed)

\* reflectAction: the key of an action is its type and input.
IsDuplicate(action) == action \in visited

-----------------------------------------------------------------------------
(* The loop.                                                               *)

\* The next step is planned, or there is none left.
BeginPlan ==
  /\ plan.pc = "top"
  /\ \/ /\ plan.step < MaxSteps
        /\ plan' = [plan EXCEPT !.pc = "planning", !.step = @ + 1, !.attempt = 0]
        /\ asked' = IF setup.planner = "llm" THEN asked + 1 ELSE asked
     \/ /\ plan.step = MaxSteps
        /\ plan' = [plan EXCEPT !.pc = "failed"]
        /\ UNCHANGED asked
  /\ UNCHANGED <<setup, visited, observed, executed>>

Choose(action) ==
  /\ plan' = [plan EXCEPT !.pc = "chosen", !.action = action]
  /\ UNCHANGED asked

\* CustomerPlanner: the first search that has not been observed, or "finish".
NextOnPath ==
  LET searches == <<"search_customer", "search_chat_history", "search_knowledge">>
      open == {i \in DOMAIN searches : \A o \in observed : o.type # searches[i]}
  IN IF open = {} THEN "finish" ELSE searches[CHOOSE i \in open : \A j \in open : i <= j]

\* It fills an action from earlier observations, which an executor of the caller's own
\* may have left without the fields it reads, or empty: then it throws.
CustomerPlans ==
  /\ plan.pc = "planning" /\ setup.planner = "customer"
  /\ \/ \E action \in Proposals :
          /\ action.type = NextOnPath /\ (setup.executor = "default" => action.filled)
          /\ Choose(action)
     \/ /\ setup.executor = "own" /\ observed # {}
        /\ plan' = [plan EXCEPT !.pc = "failed"]
        /\ UNCHANGED asked
  /\ UNCHANGED <<setup, visited, observed, executed>>

\* LLMPlanner takes a valid proposal, and asks again after one that is not.
LLMProposes ==
  /\ plan.pc = "planning" /\ setup.planner = "llm"
  /\ \E action \in Proposals \union {NoAction} :
       \/ Valid(action) /\ Choose(action)
       \/ /\ ~Valid(action) /\ plan.attempt < ValidationRetries
          /\ plan' = [plan EXCEPT !.attempt = @ + 1]
          /\ asked' = asked + 1
       \/ /\ ~Valid(action) /\ plan.attempt = ValidationRetries
          /\ plan' = [plan EXCEPT !.pc = "failed"]
          /\ UNCHANGED asked
  /\ UNCHANGED <<setup, visited, observed, executed>>

\* A planner of the caller's own proposes anything.
OwnProposes ==
  /\ plan.pc = "planning" /\ setup.planner = "own"
  /\ \E action \in Proposals : Choose(action)
  /\ UNCHANGED <<setup, visited, observed, executed>>

\* The call of the model throws, which LLMPlanner does not catch, or the planner of the
\* caller's own does.
PlanningThrows ==
  /\ plan.pc = "planning" /\ setup.planner \in {"llm", "own"}
  /\ plan' = [plan EXCEPT !.pc = "failed"]
  /\ UNCHANGED <<setup, visited, observed, asked, executed>>

\* Reflection: a duplicate costs a step and leaves a note, "finish" ends the loop, and
\* anything else is marked visited and handed to the executor.
Reflect ==
  /\ plan.pc = "chosen"
  /\ \/ /\ plan.action.type = "finish"
        /\ plan' = [plan EXCEPT !.pc = "answered"]
        /\ UNCHANGED visited
     \/ /\ plan.action.type # "finish" /\ IsDuplicate(plan.action)
        /\ plan' = [plan EXCEPT !.pc = "top", !.notes = @ + 1]
        /\ UNCHANGED visited
     \/ /\ plan.action.type # "finish" /\ ~IsDuplicate(plan.action)
        /\ plan' = [plan EXCEPT !.pc = "executing"]
        /\ visited' = visited \union {plan.action}
  /\ UNCHANGED <<setup, observed, asked, executed>>

\* The executor returns: an observation, which leaves a note when it is empty.
Execute ==
  /\ plan.pc = "executing"
  /\ setup.executor = "default" => Allowed(plan.action)
  /\ executed' = Append(executed, plan.action)
  /\ observed' = observed \union {plan.action}
  /\ \E useful \in (IF setup.executor = "default" THEN {TRUE} ELSE BOOLEAN) :
       plan' = [plan EXCEPT !.pc = "top", !.notes = IF useful THEN @ ELSE @ + 1]
  /\ UNCHANGED <<setup, visited, asked>>

\* The policy of the default executor throws, or the caller's own executor does, perhaps
\* after it has done its work; runPlanner does not catch it.
ExecutionThrows ==
  /\ plan.pc = "executing"
  /\ setup.executor = "default" => ~Allowed(plan.action)
  /\ executed' \in IF setup.executor = "own"
                   THEN {executed, Append(executed, plan.action)} ELSE {executed}
  /\ plan' = [plan EXCEPT !.pc = "failed"]
  /\ UNCHANGED <<setup, visited, observed, asked>>

Next ==
  \/ BeginPlan \/ CustomerPlans \/ LLMProposes \/ OwnProposes \/ PlanningThrows
  \/ Reflect \/ Execute \/ ExecutionThrows

Spec == Init /\ [][Next]_vars

-----------------------------------------------------------------------------
(* Properties.                                                             *)

\* Whatever the model proposes, no action is executed twice, none that the policy forbids
\* unless the executor is the caller's own and nothing validated the proposal, and the
\* model is asked a bounded number of times.
PlanStaysInside ==
  /\ IsInjective(executed)
  /\ \A action \in Range(executed) :
       \/ action.type \in ActionSpace /\ action.filled
       \/ setup.planner # "llm" /\ setup.executor = "own"
  /\ asked <= plan.step * (ValidationRetries + 1)
  /\ plan.pc = "answered" => plan.action.type = "finish"
=============================================================================
