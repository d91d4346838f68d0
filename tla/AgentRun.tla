------------------------------ MODULE AgentRun ------------------------------
(***************************************************************************)
(* One admitted run (production-runtime.ts, runAdmitted): the agent loop   *)
(* with its budget, its trace and its cancellation checks (agent-loop.ts), *)
(* around the LLM invoker, which routes by cost, asks the circuit breaker, *)
(* retries with a timeout and falls back to another provider once.         *)
(*                                                                         *)
(* Everything between two awaits is one step.  The awaits are the provider *)
(* request, the delay before a retry and the tool handler; the abort       *)
(* signal may fire during any of them.  CircuitBreaker and                 *)
(* ApprovedExecution model what the breaker and the tool executor share    *)
(* with other runs; here they give any answer.                             *)
(*                                                                         *)
(* A configuration is [environment, provider, maxSteps, loopSteps,         *)
(* maxModelCalls, maxTokens, price, maxCost, guardTokens, warning,         *)
(* maxRetries, economy, fallback]: loopSteps is maxSteps of the call,      *)
(* guardTokens what the guard of the options lets through, by its tokens   *)
(* or by its cost at that price, warning the threshold in percent.         *)
(***************************************************************************)
EXTENDS Naturals, FiniteSets

CONSTANTS
  Configs,   \* runtime configurations, as loaded from the environment, with the options
  Usages,    \* tokens one provider call may be charged
  MaxTools   \* bound on the tool calls of one reply

VARIABLES
  config,    \* the configuration of the runtime
  run,       \* the loop: pc, step, mode, tool calls left, usage of the last reply
  call,      \* the resilient invocation: provider, attempt, whether it is the last
  budget,    \* AgentRunBudget: steps, model calls, tokens
  aborted,   \* the caller's AbortSignal
  trace,     \* TraceRecorder: unended spans, failed spans, tool spans, the root's verdict
  result,    \* none, or the stop reason runStructured() answers with
  used,      \* history: tokens of all answered calls
  requests,  \* history: provider requests begun, of all model calls
  failure    \* history: what the last failed attempt or tool failed of

vars == <<config, run, call, budget, aborted, trace, result, used, requests, failure>>

FailureKinds == {"timeout", "transient", "timeout_text", "unavailable", "denied", "broken"}
StopReasons == {"completed", "cancelled", "budget_exceeded", "permission_denied",
                "deadline_exceeded", "max_steps_reached", "runtime_error"}
Providers == {"primary", "cheap", "spare"}
Spans == {"llm", "tool"}
BiggestUsage == CHOOSE u \in Usages : \A v \in Usages : v <= u

\* readPositiveInt and readPositiveNumber refuse everything else.
Loaded(c) ==
  /\ \A n \in {c.maxSteps, c.maxModelCalls, c.maxTokens, c.maxCost, c.maxRetries} : n > 0
  /\ c.environment \in {"development", "test", "production"}

\* validateRuntimeReadiness finds no issue.
Ready(c) ==
  /\ ~(c.environment = "production" /\ c.provider = "mock")
  /\ c.maxModelCalls >= c.maxSteps
  /\ c.maxTokens >= 100

TypeOK ==
  /\ config \in Configs
  /\ run \in [pc : {"turn", "calling", "backoff", "answered", "tools", "tool", "ended"},
              step : Nat, mode : {"normal", "closing"}, tools : 0..MaxTools,
              usage : Usages \union {0}]
  /\ call \in [provider : Providers, attempt : 0..config.maxRetries, last : BOOLEAN]
  /\ budget \in [steps : 0..config.maxSteps, calls : 0..config.maxModelCalls,
                 tokens : 0..config.maxTokens]
  /\ aborted \in BOOLEAN
  /\ trace \in [open : SUBSET Spans, failed : SUBSET (Spans \union {"circuit"}),
                tools : Nat, root : {"open", "ok", "error"}]
  /\ result \in StopReasons \union {"none"}
  /\ used \in Nat /\ requests \in Nat
  /\ failure \in FailureKinds \union {"none"}

Init ==
  /\ config \in {c \in Configs : Loaded(c) /\ Ready(c)}
  /\ run = [pc |-> "turn", step |-> 0, mode |-> "normal", tools |-> 0, usage |-> 0]
  /\ call = [provider |-> "primary", attempt |-> 0, last |-> FALSE]
  /\ budget = [steps |-> 0, calls |-> 0, tokens |-> 0]
  /\ aborted = FALSE
  /\ trace = [open |-> {}, failed |-> {}, tools |-> 0, root |-> "open"]
  /\ result = "none"
  /\ used = 0 /\ requests = 0 /\ failure = "none"

-----------------------------------------------------------------------------
(* Budget policy.                                                          *)

\* calculateCost, input and output at one price.
Cost(tokens) == tokens * config.price

\* What is used of each limit of the run.
Shares(b) ==
  {<<b.steps, config.maxSteps>>, <<b.calls, config.maxModelCalls>>,
   <<b.tokens, config.maxTokens>>, <<Cost(b.tokens), config.maxCost>>}

\* usageRatio >= 1: shouldFinish.
Exhausted(b) == \E s \in Shares(b) : s[1] >= s[2]

\* usageRatio >= warningThreshold: no extra retrieval, the economy provider is preferred.
Warning(b) == ~Exhausted(b) /\ \E s \in Shares(b) : 100 * s[1] >= config.warning * s[2]

\* Mutant: only an answer that is too large by itself is refused.
RefusesAlone(u) ==
  u > config.maxTokens \/ Cost(u) > config.maxCost \/ u > config.guardTokens

\* BudgetGuard.consume throws: the guard of the run budget, or the one of the options.
Overdrawn(tokens) ==
  tokens > config.maxTokens \/ Cost(tokens) > config.maxCost \/ tokens > config.guardTokens

\* recordModelCall or consume throws for an answer of u tokens.
Refuses(u) == budget.calls + 1 > config.maxModelCalls \/ Overdrawn(budget.tokens + u)

-----------------------------------------------------------------------------
(* The end of the run.                                                     *)

Ended == run.pc = "ended"

\* toAgentRunResult of a failure.
StopReason(kind) ==
  CASE kind = "timeout" -> "deadline_exceeded"
    [] kind = "denied" -> "permission_denied"
    [] OTHER -> "runtime_error"

\* The loop returns or throws, and runStructured() answers.
Stop(reason) ==
  /\ result' = reason
  /\ run' = [run EXCEPT !.pc = "ended"]

\* Mutant: only the root span is ended.
FinishedRootOnly(t, verdict) == [t EXCEPT !.root = verdict]

\* finish(): the spans that are still open end, and the root span with its verdict.
Finished(t, verdict) == [t EXCEPT !.open = {}, !.root = verdict]

\* What becomes of the trace of a loop that throws: its catch block finishes it, unless
\* the closing call throws, which is returned without await and passes the catch block by.
Thrown(mode, t) == IF mode = "closing" THEN t ELSE Finished(t, "error")

\* startSpan.
WithSpan(t, span) == [t EXCEPT !.open = @ \union {span}]

\* endSpan with an error.
WithFailed(t, spans) == [t EXCEPT !.failed = @ \union spans, !.open = @ \ spans]

\* throwIfRunCancelled.
Cancelled ==
  /\ aborted
  /\ Stop("cancelled") /\ trace' = Thrown(run.mode, trace)
  /\ UNCHANGED <<config, call, budget, aborted, used, requests, failure>>

-----------------------------------------------------------------------------
(* The LLM invoker.                                                        *)

\* CostAwareModelRouter.select.
Route(mode, b) ==
  IF mode = "closing" /\ (Warning(b) \/ Exhausted(b)) /\ config.economy # "none"
  THEN config.economy ELSE "primary"

\* A fallback provider that is another one than p.
HasFallback(p) == config.fallback \notin {"none", p}

\* The loop asks for an answer in the given mode: the request goes to the routed
\* provider, or past an open circuit to the fallback, or nowhere.
Invoke(mode, step, b) ==
  LET p == Route(mode, b)
      asking == [run EXCEPT !.pc = "calling", !.mode = mode, !.step = step]
      traced == WithSpan(trace, "llm")
  IN \/ /\ call' = [provider |-> p, attempt |-> 0, last |-> FALSE]
        /\ run' = asking /\ trace' = traced /\ requests' = requests + 1
        /\ UNCHANGED <<result, failure>>
     \/ /\ HasFallback(p)
        /\ call' = [provider |-> config.fallback, attempt |-> 0, last |-> TRUE]
        /\ run' = asking /\ requests' = requests + 1
        /\ trace' = WithFailed(traced, {"circuit"})
        /\ UNCHANGED <<result, failure>>
     \/ /\ ~HasFallback(p)
        /\ result' = "runtime_error"
        /\ run' = [asking EXCEPT !.pc = "ended"]
        /\ trace' = Thrown(mode, WithFailed(traced, {"circuit", "llm"}))
        /\ failure' = "broken"
        /\ UNCHANGED <<call, requests>>

\* shouldRetryLLM, and the classification of reliability-fallback.ts.  The two read
\* the message differently: a provider's own word "timeout" is retried, not replaced.
Retried(kind) == kind \in {"timeout", "transient", "timeout_text"}
FallsBack(kind) == kind \in {"timeout", "transient", "unavailable"}

\* withRetry goes on after this failure.
MayRetry(kind) ==
  /\ Retried(kind) /\ ~aborted
  /\ call.attempt < config.maxRetries

\* The provider answers, in time; it may do so after the signal has fired.
Answer ==
  /\ run.pc = "calling"
  /\ \E u \in Usages, n \in 0..MaxTools :
       /\ run' = [run EXCEPT !.pc = "answered", !.tools = n, !.usage = u]
       /\ used' = used + u
  /\ UNCHANGED <<config, call, budget, aborted, trace, result, requests, failure>>

LLMThrows(reason) ==
  /\ Stop(reason)
  /\ trace' = Thrown(run.mode, WithFailed(trace, {"llm"}))

\* invokeWithReliabilityFallback calls the other provider.
MayFallBack(kind) ==
  ~call.last /\ ~aborted /\ FallsBack(kind) /\ HasFallback(call.provider)

\* Mutant: the fallback provider is called without a timer.
TimedPrimary == run.pc = "calling" /\ ~call.last

\* withTimeout: a timer runs beside every request.
Timed == run.pc = "calling"

\* The attempt fails or its timer fires; the abandoned request may go on unseen.
AttemptFails ==
  /\ Timed
  /\ \E kind \in FailureKinds :
       /\ failure' = kind
       /\ \/ /\ MayRetry(kind)
             /\ run' = [run EXCEPT !.pc = "backoff"]
             /\ UNCHANGED <<call, trace, result, requests>>
          \/ /\ ~MayRetry(kind) /\ MayFallBack(kind)
             /\ call' = [provider |-> config.fallback, attempt |-> 0, last |-> TRUE]
             /\ requests' = requests + 1
             /\ UNCHANGED <<run, trace, result>>
          \/ /\ ~MayRetry(kind) /\ ~MayFallBack(kind)
             /\ LLMThrows(IF aborted /\ ~call.last THEN "runtime_error" ELSE StopReason(kind))
             /\ UNCHANGED <<call, requests>>
  /\ UNCHANGED <<config, budget, aborted, used>>

\* The provider heeds the signal: the abort reason is thrown up through everything.
RequestAborted ==
  /\ run.pc = "calling" /\ aborted
  /\ LLMThrows("runtime_error")
  /\ UNCHANGED <<config, call, budget, aborted, used, requests, failure>>

\* The delay is over.
Retry ==
  /\ run.pc = "backoff"
  /\ IF aborted
     THEN LLMThrows("runtime_error") /\ UNCHANGED <<call, requests>>
     ELSE /\ run' = [run EXCEPT !.pc = "calling"]
          /\ call' = [call EXCEPT !.attempt = @ + 1]
          /\ requests' = requests + 1
          /\ UNCHANGED <<trace, result>>
  /\ UNCHANGED <<config, budget, aborted, used, failure>>

-----------------------------------------------------------------------------
(* The loop.                                                               *)

\* The head of the loop: a step is recorded, and the model is asked unless a limit
\* is reached.  (recordStep itself never throws: the policy stops the run first.)
BeginTurn ==
  LET stepped == [budget EXCEPT !.steps = @ + 1]
  IN /\ run.pc = "turn"
     /\ \/ /\ run.step = config.loopSteps
           /\ Stop("max_steps_reached") /\ trace' = Thrown(run.mode, trace)
           /\ UNCHANGED <<call, budget, requests, failure>>
        \/ /\ run.step < config.loopSteps /\ ~aborted /\ Exhausted(stepped)
           /\ Stop("budget_exceeded") /\ trace' = Thrown(run.mode, trace)
           /\ budget' = stepped
           /\ UNCHANGED <<call, requests, failure>>
        \/ /\ run.step < config.loopSteps /\ ~aborted /\ ~Exhausted(stepped)
           /\ budget' = stepped
           /\ Invoke("normal", run.step + 1, stepped)
     /\ UNCHANGED <<config, aborted, used>>

CancelTurn == run.pc = "turn" /\ run.step < config.loopSteps /\ Cancelled

\* Mutant: the signal is not looked at after an answer.
AnswerTakenAborted == run.pc = "answered"

\* No throwIfRunCancelled throws between the answer and the next await.
AnswerTaken == run.pc = "answered" /\ ~aborted

\* The reply is charged.  Then: an answer without tool calls, or any closing answer,
\* ends the run; a warning turns into the closing call; tools run otherwise.
Charge ==
  LET charged == [budget EXCEPT !.calls = @ + 1, !.tokens = @ + run.usage]
      closed == [trace EXCEPT !.open = {}]
      answers == run.mode = "closing" \/ run.tools = 0
  IN /\ AnswerTaken
     /\ \/ /\ Refuses(run.usage)
           /\ Stop("budget_exceeded") /\ trace' = Thrown(run.mode, trace)
           /\ UNCHANGED <<budget, call, requests, failure>>
        \/ /\ ~Refuses(run.usage) /\ answers
           /\ budget' = charged
           /\ Stop("completed") /\ trace' = Finished(trace, "ok")
           /\ UNCHANGED <<call, requests, failure>>
        \/ /\ ~Refuses(run.usage) /\ ~answers /\ Warning(charged)
           /\ budget' = charged
           /\ Invoke("closing", run.step, charged)
        \/ /\ ~Refuses(run.usage) /\ ~answers /\ Exhausted(charged)
           /\ budget' = charged
           /\ Stop("budget_exceeded") /\ trace' = Thrown(run.mode, trace)
           /\ UNCHANGED <<call, requests, failure>>
        \/ /\ ~Refuses(run.usage) /\ ~answers /\ ~Warning(charged) /\ ~Exhausted(charged)
           /\ budget' = charged
           /\ run' = [run EXCEPT !.pc = "tools"]
           /\ trace' = closed
           /\ UNCHANGED <<call, requests, result, failure>>
     /\ UNCHANGED <<config, aborted, used>>

CancelAnswer == run.pc = "answered" /\ Cancelled

\* The next tool call of the reply.
StartTool ==
  /\ run.pc = "tools" /\ ~aborted
  /\ run' = [run EXCEPT !.pc = "tool"]
  /\ trace' = [WithSpan(trace, "tool") EXCEPT !.tools = @ + 1]
  /\ UNCHANGED <<config, call, budget, aborted, result, used, requests, failure>>

CancelTools == run.pc = "tools" /\ Cancelled

\* The executor's reply, a refusal included, becomes an observation.
ToolReturns ==
  /\ run.pc = "tool" /\ ~aborted
  /\ run' = [run EXCEPT !.tools = @ - 1, !.pc = IF run.tools = 1 THEN "turn" ELSE "tools"]
  /\ trace' = [trace EXCEPT !.open = {}]
  /\ UNCHANGED <<config, call, budget, aborted, result, used, requests, failure>>

\* A tool that returns after the abort: its effect stays, its result is dropped.
CancelObservation == run.pc = "tool" /\ Cancelled

\* The handler throws, of itself or because it heeds the signal.
ToolFails ==
  /\ run.pc = "tool"
  /\ \E kind \in {"denied", "broken"} :
       /\ failure' = kind
       /\ Stop(StopReason(kind))
       /\ trace' = Thrown(run.mode, WithFailed(trace, {"tool"}))
  /\ UNCHANGED <<config, call, budget, aborted, used, requests>>

\* External: the caller aborts.
Abort ==
  /\ ~aborted /\ run.pc # "ended"
  /\ aborted' = TRUE
  /\ UNCHANGED <<config, run, call, budget, trace, result, used, requests, failure>>

Loop == BeginTurn \/ CancelTurn \/ Charge \/ CancelAnswer \/ StartTool \/ CancelTools
Requests == Answer \/ AttemptFails \/ RequestAborted \/ Retry
Tools == ToolReturns \/ ToolFails \/ CancelObservation

Next == Loop \/ Requests \/ Tools \/ Abort

Spec == Init /\ [][Next]_vars

-----------------------------------------------------------------------------
(* Properties.                                                             *)

\* Whatever retries, fallbacks and the closing call add, a run spends less than its
\* limits plus one answer, and begins a bounded number of requests for each call it is
\* charged for and the one it may break off.
SpendIsBounded ==
  /\ used < config.maxTokens + BiggestUsage
  /\ Cost(used) < config.maxCost + Cost(BiggestUsage)
  /\ used <= config.guardTokens + BiggestUsage
  /\ budget.calls <= config.maxModelCalls
  /\ requests <= (budget.calls + 1) * (2 * (config.maxRetries + 1))

\* Once aborted, a run begins no provider request and no tool; once closing, no tool
\* and no further step ("prevents new Agent steps", "pending tool calls are not executed").
NoNewWork ==
  /\ aborted => requests' = requests
  /\ aborted \/ run.mode = "closing" =>
       trace.tools' = trace.tools /\ run'.step = run.step

\* The stop reason agrees with what happened: a completed run is within its limits and
\* was not cut short, the others name a limit that was reached, a signal that fired or
\* an attempt that timed out.  The trace says "ok" of completed runs only; it is left
\* unfinished only by a closing call that throws, and has an open span only if that one
\* was cancelled or refused by the budget.
StopReasonIsReal ==
  result # "none" =>
    /\ trace.root = "ok" <=> result = "completed"
    /\ trace.root = "open" => run.mode = "closing"
    /\ trace.open # {} => trace.root = "open" /\ result \in {"cancelled", "budget_exceeded"}
    /\ result = "completed" =>
         /\ used <= config.maxTokens /\ Cost(used) <= config.maxCost
         /\ used <= config.guardTokens
         /\ used = budget.tokens /\ (run.mode = "closing" \/ run.tools = 0)
    /\ result = "budget_exceeded" =>
         \/ Exhausted(budget) \/ used > config.maxTokens \/ used > config.guardTokens
         \/ Cost(used) > config.maxCost
    /\ result = "cancelled" => aborted
    /\ result = "max_steps_reached" => run.step = config.loopSteps
    /\ result = "deadline_exceeded" => failure = "timeout"

\* What the docs say of the trace: the success, failure and duration of every LLM call and
\* tool is written to its span.  The span of a closing call that is cancelled, or refused
\* by the budget, never ends.
SpansAreWritten == Ended => trace.open = {}
=============================================================================
