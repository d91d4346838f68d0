------------------------------ MODULE AgentParts ------------------------------
(***************************************************************************)
(* The agent side of the runtime, side by side: an admitted run, the       *)
(* provider's circuit breaker, the tool executor with its approvals, the   *)
(* customer assistant, the planner and the delegation.  Each is modelled   *)
(* with any behaviour of the others as its environment, so a behaviour     *)
(* here is a behaviour of one of them: s1 to s10 are the variables of that *)
(* part, in the order of its module.                                       *)
(***************************************************************************)
EXTENDS Naturals, FiniteSets

CONSTANTS
  Actors,                                               \* runs, executions and goals
  Configs, Usages, MaxTools,                            \* of AgentRun
  Abortable, BadRequests, FailureThreshold,             \* of CircuitBreaker
  Calls, Asked, Disabled, Actions,                      \* of ApprovedExecution
  Messages, Customers, Candidates,                      \* of CustomerAssistant
  Proposals, MaxSteps, ValidationRetries                \* of PlannerLoop

ASSUME AgentAssumption ==
  /\ Actors # {} /\ Messages \subseteq Nat \ {0}
  /\ Usages \subseteq Nat /\ \E u \in Usages : \A v \in Usages : v <= u
  /\ \A config \in Configs :
       /\ {config.maxSteps, config.loopSteps, config.maxModelCalls, config.maxTokens, config.price,
           config.maxCost, config.guardTokens, config.maxRetries} \subseteq Nat
       /\ {config.economy, config.fallback} \subseteq {"none", "primary", "cheap", "spare"}
  /\ {MaxTools, ValidationRetries} \subseteq Nat
  /\ {FailureThreshold, MaxSteps} \subseteq Nat \ {0}
  /\ Abortable \subseteq Actors /\ BadRequests \subseteq Actors
  /\ Calls # {} /\ DOMAIN Asked = Calls /\ Calls \intersect Actions = {}

VARIABLES part, s1, s2, s3, s4, s5, s6, s7, s8, s9, s10

vars == <<part, s1, s2, s3, s4, s5, s6, s7, s8, s9, s10>>

Run == INSTANCE AgentRun WITH
  config <- s1, run <- s2, call <- s3, budget <- s4, aborted <- s5, trace <- s6,
  result <- s7, used <- s8, requests <- s9, failure <- s10

Breaker == INSTANCE CircuitBreaker WITH
  Requests <- Actors, breaker <- s1, cooling <- s2, mode <- s3, healthy <- s4,
  holder <- s5, straggled <- s6, leaked <- s7

Approval == INSTANCE ApprovedExecution WITH
  Executions <- Actors, actions <- s1, records <- s2, exec <- s3, effects <- s4,
  overlapped <- s5, unsure <- s6

Assistant == INSTANCE CustomerAssistant WITH
  Requests <- Messages, flow <- s1, saved <- s2, reminders <- s3, logs <- s4,
  overlapped <- s5, handling <- s6, memory <- s7, accepted <- s8, concurrent <- s9

Planner == INSTANCE PlannerLoop WITH
  setup <- s1, plan <- s2, visited <- s3, observed <- s4, asked <- s5, executed <- s6

Delegation == INSTANCE AgentDelegation WITH Goals <- Actors, coordinator <- s1

\* The value of the variables the part has no use for.
Unused == "unused"

Init ==
  \/ part = "run" /\ Run!Init
  \/ /\ part = "breaker" /\ Breaker!Init
     /\ s8 = Unused /\ s9 = Unused /\ s10 = Unused
  \/ /\ part = "approval" /\ Approval!Init
     /\ s7 = Unused /\ s8 = Unused /\ s9 = Unused /\ s10 = Unused
  \/ /\ part = "assistant" /\ Assistant!Init
     /\ s10 = Unused
  \/ /\ part = "planner" /\ Planner!Init
     /\ s7 = Unused /\ s8 = Unused /\ s9 = Unused /\ s10 = Unused
  \/ /\ part = "delegation" /\ Delegation!Init
     /\ s2 = Unused /\ s3 = Unused /\ s4 = Unused /\ s5 = Unused /\ s6 = Unused
     /\ s7 = Unused /\ s8 = Unused /\ s9 = Unused /\ s10 = Unused

Next ==
  \/ part = "run" /\ Run!Next /\ UNCHANGED part
  \/ part = "breaker" /\ Breaker!Next /\ UNCHANGED <<part, s8, s9, s10>>
  \/ part = "approval" /\ Approval!Next /\ UNCHANGED <<part, s7, s8, s9, s10>>
  \/ part = "assistant" /\ Assistant!Next /\ UNCHANGED <<part, s10>>
  \/ part = "planner" /\ Planner!Next /\ UNCHANGED <<part, s7, s8, s9, s10>>
  \/ part = "delegation" /\ Delegation!Next
     /\ UNCHANGED <<part, s2, s3, s4, s5, s6, s7, s8, s9, s10>>

\* A run: continuations run, timers fire, delays pass, and handlers, which nothing
\* times, settle; a provider need not answer.
OfRun(A) == part = "run" /\ A /\ UNCHANGED part

\* Runs keep issuing requests to the provider, an LLM call ends (withTimeout bounds it,
\* and the end is reported unless the caller aborts), and the clock advances.
OfBreaker(A) == part = "breaker" /\ A /\ UNCHANGED <<part, s8, s9, s10>>

\* A message: its LLM and tool calls end, one way or the other.
OfAssistant(A) == part = "assistant" /\ A /\ UNCHANGED <<part, s10>>

Fairness ==
  /\ WF_vars(OfRun(Run!Loop)) /\ WF_vars(OfRun(Run!AttemptFails))
  /\ WF_vars(OfRun(Run!Retry)) /\ WF_vars(OfRun(Run!Tools))
  /\ WF_vars(OfBreaker(\E r \in Actors : Breaker!BeforeRequest(r)))
  /\ \A r \in Actors : WF_vars(OfBreaker(Breaker!RecordSuccess(r) \/ Breaker!Fails(r)))
  /\ WF_vars(OfBreaker(Breaker!CooldownElapses))
  /\ WF_vars(OfAssistant(\E m \in Messages : Assistant!Handle(m)))

Spec == Init /\ [][Next]_vars /\ Fairness

-----------------------------------------------------------------------------
(* Properties.                                                             *)

\* Whatever retries, fallbacks and the closing call add, a run spends less than its
\* limits plus one answer, and begins a bounded number of requests for each call it is
\* charged for and the one it may break off.
SpendIsBounded == part = "run" => Run!TypeOK /\ Run!SpendIsBounded

\* The stop reason of a run agrees with what happened to it, and so does its trace, which
\* only a closing call that throws leaves unfinished.
StopReasonIsReal == part = "run" => Run!StopReasonIsReal

\* Once aborted, a run begins no provider request and no tool; once closing, no tool
\* and no further step ("prevents new Agent steps", "pending tool calls are not executed").
NoNewWork == [][part = "run" => Run!NoNewWork]_vars

\* The half-open gate admits one request at a time, apart from stragglers, and is shut
\* only by a probe that is under way, apart from aborted ones.
GateIsSound ==
  part = "breaker" =>
    Breaker!TypeOK /\ Breaker!OneProbeWithoutStragglers /\ Breaker!MarkMeansProbe

\* A provider that stays healthy is taken back for good, once no rejected request
\* is sent any more and no probe is aborted.
Readmitted ==
  <>[](part = "breaker" /\ Breaker!Recovers) => <>[](part = "breaker" /\ Breaker!Admits)

\* An approval is not withdrawn under a handler or after its effect, and an effect happens
\* twice only after two handlers have worked on it at once or one has thrown; no effect
\* comes about that its tool's rule, the agent and the actor's roles do not permit.
ApprovalHolds ==
  part = "approval" =>
    /\ Approval!TypeOK
    /\ Approval!EffectsStayApproved /\ Approval!OnceWithoutOverlap
    /\ Approval!EffectsArePermitted

\* However often nodes are retried and messages overlap, a request makes at most one
\* reminder and one log, a workflow that says DONE has done its work, and memory holds the
\* newest fact unless an older message was still being mined.
WorkIsWhole ==
  part = "assistant" =>
    /\ Assistant!TypeOK
    /\ Assistant!OneReminder /\ Assistant!DoneIsWhole /\ Assistant!NewestFact

\* Whatever a model proposes or selects, a planner executes no forbidden action and none
\* twice, within its limits, and no selection that passed validation is rejected later.
AgentsStayInside ==
  /\ part = "planner" => Planner!TypeOK /\ Planner!PlanStaysInside
  /\ part = "delegation" => Delegation!TypeOK /\ Delegation!SelectionIsServed

Busy ==
  \/ part = "run" /\ ~Run!Ended
  \/ part = "assistant" /\ \E m \in Messages : Assistant!InHand(m)

\* Every admitted run ends, also when no provider ever answers, and no message is kept
\* in hand for ever, although its workflow fails at every attempt.
WorkEnds == Busy ~> ~Busy
=============================================================================
