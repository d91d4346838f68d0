# Formal model of the agent runtime

This directory holds TLA+ specifications of the production runtime in `src/src`, the TLC
configurations that model-check them and machine-checked proofs of their safety properties. The
repository is a course on building an agent in TypeScript; its first half is an agent loop
with tools, memory, a planner and a workflow, its second half (docs `day24` to `day60` and later)
a production runtime around it: admission and shutdown, a circuit breaker, guarded tool
execution, durable execution with crash recovery, human recovery operations, and an outbox
whose events are delivered to an external consumer. That second half is where most state is
shared between concurrent actors and where most of these models are.

Every module is translated from the code; the comment at its head names the files, and
`PROJECT.json` ("map") the lines behind each definition.

## 1. The system: parts, state, operations, hard behaviours

The code is single-threaded JavaScript. A function runs without interruption up to its next
`await`; everything that happens between a load before an `await` and a use after it can be
changed by another call, and, where state is in SQLite or a shared store, by another process.
This is what decides the grain of every action below: an action is the code between two
awaits at which others can run.

| Part (files under `src/src`) | State it keeps | Operations | What is hard | Module |
|---|---|---|---|---|
| Durable tool execution (`runtime/durable-tool-executor.ts`, `checkpoint*.ts`) and crash recovery (`checkpoint-recovery-coordinator.ts`, `recovery-preparation.ts`, `recovery-planner.ts`, `recovery-runtime.ts`, `reconciler.ts`) | one versioned checkpoint per run: boundary and records of tool calls | `execute` (intent, tool, outcome), `recover` (load, plan, reconcile, commit, retry on conflict) | crashes between any two steps, stale snapshots, two workers on a run, a recovery beside a live worker, audit or storage failing after the side effect | `DurableExecution` over `Checkpoint`; abstract `RunJournal` |
| Checkpoint stores (`runtime/file-checkpoint-store.ts`; `transactional-checkpoint-store.ts`, `sqlite-checkpoint-*.ts`) | a JSON file and its temporary file; a table | `load`, `save` | every save rewrites all runs; torn files, full disks, restarts; the version in a conflict is read later | `FileCheckpointStore`, `SqlCheckpointStore`; abstract `VersionedStore` |
| Transition committer and observability (`runtime/sqlite-recovery-transition-committer.ts`, `recovery-metrics.ts`, `suspended-run-registry.ts`, `recovery-observability.ts`) | checkpoint, control, command and outbox rows; counters; suspended runs | `commit`, `record` | a context built in a later await; commit first, report later | `RecoveryAttempts` |
| Guarded tools (`security/secure-tool-executor.ts`, `approval-store.ts`, `idempotency.ts`) and who may call them (`tool-permission.ts`, `authorization-service.ts`) | pending actions; saved results by key | `execute`, `review`, `decide`, `authorize` | concurrent executions of one approved action; a handler that throws after its effect | `ApprovedExecution` over `ToolAccess` |
| Recovery commands (`runtime/durable-recovery-operation-orchestrator.ts`, `recovery-operations.ts`, `recovery-command-store.ts`) | command records; control state of a run | `execute` of quarantine, release, resume, retry, dead-letter; `executeOnce` | duplicate deliveries, conflicting operators, crashes, a failing audit after the write, stale expectations | `RecoveryCommands`, `CommandExecutor` |
| SQLite finalization (`runtime/sqlite-recovery-finalization.ts`, `recovery-atomic-control-only-adapter.ts`, `recovery-control-preparation.ts`, `recovery-write-set.ts`, `recovery-authorization-evidence.ts`) and shared claims (`recovery-shared-ownership-claim.ts`) | command, checkpoint, control state, authority and outbox rows of one file | claim (authorized or not, for two owners), commit, legacy bridge | a preparation outside the transaction, a second owner, authority revoked between claim and commit | `RecoveryFinalization` |
| External effect ledger and receipts (`runtime/recovery-external-effect-*.ts`, `recovery-remote-receipt-*.ts`) | effect intents, dispatch epochs, local and remote receipts, consumptions | stage, lease, dispatch, confirm, mark unknown, reconcile, store a receipt, plan and finalize its consumption | a remote answer that comes late, old fences, a plan that is stale when used, two finalizers for one command | `RecoveryFinalization` |
| Recovery ingress (`runtime/recovery-ingress-gate.ts`, `recovery-ingress-response.ts`, `recovery-entry-dispatcher.ts`, `recovery-claim-required-entry.ts`) | none of its own; tenants, permissions and commands are elsewhere | one HTTP call: gate, owner, claim, handler, answer | authority and command change between the awaits; repeated calls; a call that dies | `RecoveryIngress` |
| Provider gates (`runtime/recovery-provider-*.ts`, `recovery-external-effect-reconciliation.ts`, `recovery-remote-receipt-review.ts`) | none; they read profiles and probes | audit, candidate review, conformance, plan, receipt review | the provider, its profile or its probe changes between two of them | `ProviderGates` |
| Outbox delivery (`runtime/recovery-outbox-delivery-*.ts`, `recovery-fenced-outbox-delivery.ts`, `recovery-outbox-consumer-inbox.ts`, `recovery-outbox-ack-boundary.ts`, `recovery-outbox-authenticated-dispatch.ts`) | outbox records, leases, writer epochs; consumer inbox | claim, publish, consume, confirm, acknowledge, rotate the writer | lost, repeated and late messages, leases that run out, clocks that disagree, a handed-over outbox | `OutboxDelivery`; abstract `EventDelivery` |
| Legacy outbox (`runtime/recovery-outbox.ts`) | in-memory records | `dispatchPending`, `markAttempt`, `markDispatched` | a compare-and-swap split by an await | `OutboxDispatcher` |
| Cutover (`runtime/recovery-dispatcher-cutover-*.ts`, `recovery-cutover-evidence-guard.ts`, `recovery-verified-delivery-gateway.ts`, `recovery-writer-epoch-store.ts`) | the fence row; a bootstrapped gateway | bootstrap, check, rotate, guarded update | evidence withdrawn after the check; an epoch handed over | `DeliveryCutover` |
| Admission, lifecycle, shutdown (`runtime/run-admission-controller.ts`, `runtime-lifecycle.ts`, `production-runtime.ts`, `shutdown-*.ts`, `process-signal-adapter.ts`) | slots, queue, draining state, exit code | `run`, `beginDrain`, `drain`, `shutdown`, a signal | queue timeout, abort, release and close race for one waiter; a deadline races the shutdown | `RunAdmission` |
| Circuit breaker (`runtime/provider-circuit-breaker.ts`, `reliability-fallback.ts`) | closed / open / half-open, failure count, probe mark | `beforeRequest`, `recordSuccess`, `recordFailure` | reports of requests admitted under an earlier state; requests that never report | `CircuitBreaker` |
| Agent run (`agent/agent-loop.ts`, `runtime/llm-invoker.ts`, `resilience.ts`, `run-budget.ts`, `budget-policy.ts`, `model-router.ts`, `run-cancellation.ts`, `run-result.ts`, `observability/*`) | budget, trace, events of one run | step, invoke, retry, fall back, tools, close | an abort or a timeout during any await; a request that outlives its timeout; budgets of three kinds | `AgentRun` |
| Follow-up workflow and assistant (`workflow/*`, `app/production-agent.ts`, `memory/*`) | workflow state and its saved copy, reminders, logs, memory | nodes, retry, park, `handle` | a node retried after its call took effect; overlapping messages | `FollowupWorkflow`, `CustomerAssistant` |
| Planner (`planning/*`) and delegation (`multi-agent/*`) | the plan of one goal; one selection | propose, validate, reflect, execute; select, delegate | three places that judge an action; three tables of agents | `PlannerLoop`, `AgentDelegation` |
| Injection, leak and trust filters; HTTP adapter; context assembly; LLM clients, RAG, evaluation, demos | none | | | not modelled (section 6) |

How the parts meet: `ProductionAgentRuntime.run` enters the lifecycle, takes a slot and runs
the agent loop; each LLM call passes the circuit breaker; each tool call goes through
`SecureToolExecutor` (`production-runtime.ts:76`, `:88`). `DurableToolExecutor` stands around a
`SecureToolExecutor` where a run is durable, which is what the recovery side builds on and, in this
repository, only its demos assemble; it writes checkpoints through the version check that the
recovery coordinator also uses. An operator's command reaches the
coordinator through the orchestrator and the operation service, or is claimed in the SQLite
file and ended there by the control-only route or by the receipt of its effect. That writes the
outbox record that the delivery workers bring to the consumer. The models meet at these
calls: where a module needs another part it takes what that part promises (for instance
`RecoveryCommands` sees `recover()` as one committed save, none, or an error; `Refuse` of
`DurableExecution` is any answer of `SecureToolExecutor` that did not run the handler).

## 2. The modules

**Checkpoint** has the data and the pure functions of recovery: the upsert of tool records,
which record recovery works on, the plan for an outcome and a policy, the resolution with or
without a reconciler's answer, and whether it is worth persisting.

**DurableExecution** has workers (`ex`) and coordinators (`rc`), each at a program counter that
names the await it is at, over one stored checkpoint. The executor's actions are the sections
of `execute()`: `Begin` loads, `SaveIntent` writes `started`, the secure executor refuses,
throws, answers from its cache or runs the handler, the audit of that is written or fails, and
`SaveOutcome` or, in the catch block, `SaveFailure` writes the end. A handler takes effect and
returns, takes effect and loses its answer, or throws without effect. `Crash` forgets a worker
and its in-memory cache. The coordinator loads and plans, awaits a reconciler that answers
truthfully (or `unknown`, or throws), commits with compare-and-swap and goes round again on a
conflict up to `MaxConflicts`. `effects` is a history of real effects, which no code can read.

**RunJournal** is the abstract specification: the checkpoint as a journal that moves in
indivisible steps (intend, settle, recover, complete). `DurableExecution` implements it with
`journal <- stored`.

**OutboxDelivery** has the producer's database (`outbox`, `lease`, `fence`), the workers, two
directions of network and the consumer's database (`inbox`, `applied`). A lease is `live`,
then in `grace`, when clocks may disagree about it, then `expired`. A confirmation reads its
clock before the adapter is awaited, and uses that verdict afterwards. **EventDelivery** is its
abstract specification: each event is applied once, then settled, for good.

**CircuitBreaker** has one provider's breaker and the runs that use it; the time between
admission and report is where others act. The clock is one bit, the failure count saturates at
the threshold. `holder`, `straggled` and `leaked` are histories for the properties.

**RunAdmission** has the controller, the lifecycle and the shutdown sequence, and the host that
starts it by a signal and waits for it no longer than a deadline. A call of `run()` up to its
first await is one action, and so are both `finally` blocks.

**ApprovedExecution** has executions of `SecureToolExecutor.execute`, cut at the two awaits (the
handler and the audit write), the approval and idempotency stores and a reviewer. Keys are
abstract: collisions of the 32-bit hash are left out. **ToolAccess**, which it extends, has the
tables and rules that refuse a call or ask for its approval.

**RecoveryCommands** has deliveries of operator commands, cut at each store access, the command
store, the control state, the run's own worker (which moves the checkpoint) and crashes.

**RecoveryFinalization** is the SQLite file of one run: its checkpoint and control versions, the
authorization tables, commands, outbox, effect intents, the local sink's receipts, stored remote
receipts and their consumptions. Every method of the code is one `BEGIN IMMEDIATE` transaction
and one action. Between them lie what callers hold in memory: `job` (the control-only adapter,
which reads the checkpoint, reads the control state and awaits the authorizer before it commits),
fences (any epoch ever handed out may be presented at any time) and `plans`. The worker that
moves the checkpoint, the writer of the authorization tables and the remote provider act freely.
The three revisions of the evidence are one number; a permission for one run can be taken away
without a new revision, as the schema allows. A crash is a `job` that is never continued. Repeated
calls that only replay or suspend write nothing and are not actions. `Prepared` is the pure
decision, used once on the facts read earlier (`Commit`) and once inside the transaction
(`Consumable`).

**FileCheckpointStore** takes each await of a call as a step: wait in the chain, read, truncate
and fill the temporary file, rename. A crash keeps the two files and forgets the chain.
**SqlCheckpointStore** has one statement per step. Both implement **VersionedStore**, the
compare-and-swap that `DurableExecution` takes for granted.

**OutboxDispatcher** splits the legacy store's compare-and-swap where its await does.
**DeliveryCutover** has the evidence, the fence row and workers between a check and their operation.

**RecoveryAttempts** is the coordinator's loop again, with any decision: what it adds is the SQLite
committer, whose commit moves checkpoint, control, command and outbox at once, and the events by
which metrics and registry hear of an attempt after its commit. `decided` is a history of the last
decision that became final, at a commit or when there is nothing to commit; `crossed` says whether
one ever became final between another and its report.

**RecoveryIngress** has HTTP calls at their awaits, an authority that changes, and dispatchers with
both flags at once; a handler ends its command in any way that the two command models allow.
**CommandExecutor** is `executeOnce` by calls of several processes over the SQLite command store.

**ProviderGates** has a provider with guarantees of its own, the profile that declares them and
the probe that has observed them, and a caller that does what the reviews tell it.

**AgentRun** is one run from readiness to its result. Its steps are what happens between two awaits:
a turn begins, a request ends or times out, a retry's delay passes, a tool returns. `used` and
`requests` are histories of the tokens really spent and of all requests ever begun, next to
`budget`, which the code keeps. `Thrown` tells what becomes of the trace: the catch block of the
loop finishes it, but the closing call is returned without `await`, so an error of that one passes
by. Three things are simpler than in the code: input and output tokens have one price; the guard
of the options is the number of tokens it lets through, by its tokens or by its cost at that price;
and a configuration is one that `loadRuntimeConfig` accepts, although a caller may pass a
`runtimeConfig` of its own that nothing checks.

**FollowupWorkflow** has the runner and the nodes of concurrent workflows; a node's tool call may
take effect before the node throws. **CustomerAssistant** extends it with the mining of facts
and the routing of a message. **PlannerLoop** and **AgentDelegation** have any model that proposes;
planning may also throw at any step.

**RecoveryParts** and **AgentParts** put side by side the components that share no state with one
another: eight of the recovery side, six of the agent side. `part` says which one a behaviour is
of, and `s1`, `s2`, ... are the variables of that one under the names its module gives them. So
each is explored for itself, from its own initial states and by its own `Next`; nothing is
composed that does not interact, and one run asks the same kind of question of all of them (who is
told the truth, what is counted, what returns). What components do share is inside their modules
(`RunAdmission`, `RecoveryFinalization`, `CustomerAssistant` and `ApprovedExecution` each compose
several files).

The modules named *Proofs* extend the module they are about with lemmas, an inductive invariant
and the theorems of section 5; no run uses them.

MC modules only declare or define the constants of the instances. Operators called *Mutant* in
their comments are deliberate bugs next to the definition they replace; no specification uses
them. They record for each property one plausible change of the code that it detects.

## 3. What the runs show

Deadlock is not checked where the system may stop: a finished set of runs, commands or
executions, or a bounded number of claims, has no further step. That is so in every passing run.

| Run | Instance | Shows |
|---|---|---|
| `durable_crash` | 2 workers, 2 recoveries, a refund (not retry-safe) and an update (retry-safe), 5 versions, `RecoverLive = FALSE` | `NoHiddenEffect`: an effect always has a journal record, which for a refund never says that it did not run. `AtMostOneEffect`: a refund happens at most once through crashes, conflicts, recoveries and retries. `OneOpenCall`: version check and boundary together are the run's lock, and an uncertain call is never buried under a newer one, where recovery would not look. |
| `durable_live` | 2 workers, 1 recovery that may run beside them, a refund | `ExecutedIsReal`: `executed` is never written for a call without effect. `FreshSnapshot`: no save overwrites what its author has not seen. `JournalSpec`: refinement of `RunJournal`. `RecoveryEnds`: each `recover()` ends. |
| `outbox` | 3 workers, 1 event, 3 claims, 3 epochs; two deployments: two legacy workers beside a fenced one, or all fenced and two of them using the raw acknowledge entry | `DeliverySpec`: the two databases refine `EventDelivery` (with raw acknowledgements only its single effect). `EventuallySettled`: the event is settled once failures stop (the first deployment). `OnlyLatestClaimerBound`: only the last claimer can settle it. `TakenOverIsSilent`: after a hand-over no old owner changes a record (the second deployment). |
| `admission` | 4 runs (2 impatient), 1 slot, 2 queue places, `server.close()` may fail, signals and a deadline | `QueueIsLive` (counters, no lost wake-up, no ghost waiter), `StartsInTurn` (queue order, no start after draining), `ExitCodeTells` (the exit code is what the waiting host was told), `EverythingSettles`. |
| `commands` | 2 deliveries of 2 commands, all five operations, 2 checkpoint versions, crashes | `OneAuthorPerVersion` (no lost or repeated control update, dead-lettered is final), `TerminalTellsTruth` (a recorded outcome is what happened), `StartedOnce`, `CommandsTerminate`. |
| `finalization` | 2 commands (quarantine, release, dead-letter with right and wrong expectations; either owner, fenced or not), 1 effect of the first, 2 checkpoint versions, 2 revisions, 2 dispatch epochs | `TerminalIsComplete`: a command is terminal exactly when its one event is in the outbox, and only the receipt finalizer ends one with an effect. `ControlHasOneAuthor`: each control version has one applied command, whose result names it. `EvidenceIsReal`: an effect is committed on evidence of one system, of its current epoch. `OutcomeIsCurrent`: applied or no-op is still right at the moment of the transaction. `AuthorityHeld`: no fenced command ends, and no local effect happens, without present permission. |
| `recovery_parts` | 2 actors and 2 runs, events or commands; 1 conflict, 2 versions, 3 hand-overs, 1 withdrawn fact, 1 change of authority | `StoreSpec`: both stores refine `VersionedStore`. `DeliveryIsAccounted`: the legacy dispatcher marks nothing that was not received and counts right without overlap; nothing happens beside it unless evidence was withdrawn after the check; epochs never go back. `RecoveryIsTold`: each counter, that of conflicts included, is what the attempts have done; the registry shows the last decision once all are reported, unless reports have crossed; a conflict names a later version; an attempt commits over the checkpoint and, in SQLite, the control it has read, and no two commands succeed on one version of either. `AnswersAreTrue`: HTTP answers are true and `executeOnce` runs nothing twice. `ReviewsProtect`: an effect is applied once and confirmed only if it happened, unless the provider changed after its probe. `EveryCallReturns`. |
| `agent_parts` | 3 runs, executions or goals; 5 configurations; 10 kinds of tool call, 2 approvals; 2 messages; 7 proposals, 3 steps | `SpendIsBounded`: a run overspends by one answer at most, and the requests it begins, abandoned ones included, are bounded by the calls it is charged for. `NoNewWork`: no request, tool or step begins after an abort, the closing call included. `StopReasonIsReal`: the verdict is what happened, the trace is "ok" of completed runs only, and only a closing call that throws leaves it unfinished. `GateIsSound`: one probe, apart from stragglers and aborts. `Readmitted`: a healthy provider is taken back. `ApprovalHolds`: approvals, effects and permissions agree. `WorkIsWhole`: one reminder and log per request, and two reminders of a customer or an older fact only by overlap. `AgentsStayInside`: no forbidden action and none twice; the three agent tables agree. `WorkEnds`. |

Each module's `TypeOK` is checked with one of its properties, except that of `DurableExecution`,
which stands alone.

Why the bounds are enough. Conflicts are between two actors, and three appear where a third can
come between (workers of an outbox, runs of a breaker). `MaxVersion = 5` lets a call be
attempted, interrupted, recovered and attempted again by the other worker; the bound is on
starting an operation, so an operation under way always ends. One slot and two queue places
with four runs reach a full queue and a rejection. Three claims let two workers lose a lease to
the third; three epochs let two owners become old. A failure threshold of 2 has a count that can
be left over. Two commands compete for one control version, and the release expects the version
the other leaves; one revision change and one checkpoint save are enough to make a preparation,
an evidence or a plan stale; the second epoch is what an old fence or a late receipt needs. Two
effects of one command are beyond this instance. Two runs in one file let a save of one destroy
the other; two saves of each let a torn temporary file of the first meet the second. The five
configurations of a run cover a fallback, none, and one that is its primary, with limits of each
kind that a run can reach and two warning thresholds, and two that are not ready; four steps and
calls reach the warning, and so the closing call, before a limit; `MaxTools = 2` leaves a tool to
be skipped.

### Disagreements between the code and its documents

Four runs are expected to fail; each checks what a document says.

* `breaker_aborted_probe`: `day27-circuit-breaker-integration.md` has a probe close or reopen the
  circuit. A probe whose caller aborts leaves through `throwIfAborted`
  (`reliability-fallback.ts:86`) without a report, the probe mark stays set, and the provider is
  never called again.
* `approval_effect_once`: `day15` says idempotency makes the side effect happen once after an
  approval. The check and the save are on both sides of the awaited handler, so that two
  concurrent executions both run it. `OnceWithoutOverlap`, a part of `ApprovalHolds`, is what does
  hold.
* `commands_stale_page`: `day44-recovery-operation-service.md` says a stale page must not change a
  newer run. The version is compared before several awaits, and `recover()` then loads whatever
  is current.
* `closing_span_open` (`MCAgentRun`, one configuration): `day13-tracing-observability.md` says that
  success, failure and duration of every LLM call are written to its span. `agent-loop.ts:103`
  returns the closing call without `await`, so its errors do not reach the catch block that
  finishes the trace: if the run is aborted or the budget refuses the closing answer, the span
  `llm.closing` and the root span never end. What does hold of the trace is in `StopReasonIsReal`.

Of `RecoveryFinalization`, without disagreement: a rejection prepared for a version conflict
compares the same versions again in `commit()` and so mostly throws, which leaves the command
executing for ever (`day67` evening leaves that to a human), and one that does commit may be for a
version that has arrived meanwhile; the legacy bridge ends a fenced command without looking at
authority or staged effects; a repeated `finalize()` is refused once another command has moved
the control version.

Smaller ones, without a run of their own: `recovery-planner.ts` calls a `failed` record a
confirmed failure, although the executor records `failed` for every error of a call that is not
an external side effect (`durable-tool-executor.ts:158`); the second recovery of a call known
never to have run suspends it when it is not retry-safe, where `day36` says it may go on;
`day27` allows one half-open probe where a late report of an older request lets in a second;
`executeOnce` lets its inserter claim a command that it reads as already executing
(`recovery-command-store.ts:103`), which only the transition check of the SQLite store refuses;
the registry can list a recovered run when a suspension is reported after a later completion;
an abort whose reason is the caller's own error ends as `runtime_error`; and a planner with an
executor of its own and without validation has no policy at all.

## 4. Fairness

Liveness is checked only under these assumptions.

* `DurableExecution`: a call that has begun goes on. Storage, audit, handler and reconciler
  answer or throw. Nobody is obliged to begin anything, and crashes are allowed.
* `OutboxDelivery`: until the last claim an event's messages may be lost, verification may fail,
  leases run out and workers crash; after it they do not (`Unreliable`). Workers keep publishing
  and confirming, the network delivers what stays in it, time passes.
* `RunAdmission`: an admitted run ends (step, budget and LLM limits bound it), microtasks run,
  `server.close()` settles, the deadline's timer fires. Nobody is obliged to time out, to abort or
  to send a signal.
* `RecoveryCommands`: every await of a delivery settles; a crash is allowed, and
  `CommandsTerminate` excepts the commands whose delivery has died.
* `RecoveryParts` (`EveryCallReturns`): a call of the file store, a recovery attempt and a call of
  `executeOnce` go on, as promises settle; nothing obliges another call to begin or a process to
  die. The safety properties use no fairness.
* `AgentParts`: of a run, continuations and tools go on and timers fire, but a provider need not
  answer: `withTimeout` is what ends a request. Of the breaker, some run keeps issuing requests, an
  LLM call ends and reports unless its caller aborts, the clock advances. Of the assistant, the
  calls of a message in hand end, well or badly; messages need not arrive.

## 5. What is proved

The proofs hold for every value of the constants that the named assumptions allow: any sets of
calls, workers, deliveries, runs, effects, messages, any policy, limit and bound. Eight modules
hold them, named after the module they are about (`DurableJournalProofs` builds on
`DurableExecutionProofs`, both about `DurableExecution`). Together they prove every invariant,
action property and refinement that the passing runs check; what is left to TLC is liveness.

| Module | Theorems (and the property of the run) |
|---|---|
| `DurableExecutionProofs` | `TypeCorrect` (`TypeOK`), `SnapshotsFresh` (`FreshSnapshot`) |
| `DurableJournalProofs` | `ExecutedRecordsAreReal` (`ExecutedIsReal`), `ImplementsJournal` (`JournalSpec`); where recovery waits for the workers, `OneCallOpen` (`OneOpenCall`), `EffectsRecorded` (`NoHiddenEffect`), `EffectAtMostOnce` (`AtMostOneEffect`) |
| `OutboxDeliveryProofs` | `LatestClaimer` (`OnlyLatestClaimerBound`), `OldEpochsAreSilent` (`TakenOverIsSilent`), `ExactlyOnceDelivery` (`DeliverySpec`) |
| `RunAdmissionProofs` | `AdmissionInvariant`, `SlotsNeverLeak` (`QueueIsLive`), `ExitCode` (`ExitCodeTells`), `InTurn` (`StartsInTurn`) |
| `RecoveryCommandsProofs` | `CommandInvariant`, `OperationStartsOnce` (`StartedOnce`), `RecordsTellTruth` (`TerminalTellsTruth`), `OneAuthor` (`OneAuthorPerVersion`) |
| `RecoveryFinalizationProofs` | `FinalizationInvariant`, `OneEndOneTrace` (`TerminalIsComplete`), `OneAuthorOfControl` (`ControlHasOneAuthor`), `CommittedOnEvidence` (`EvidenceIsReal`), `OutcomesAreCurrent` (`OutcomeIsCurrent`), `AuthorityAtTheEnd` (`AuthorityHeld`) |
| `AgentPartsProofs` | `RunSpendsWithinLimits` (`SpendIsBounded`), `RunSaysWhyItStopped` (`StopReasonIsReal`), `AbortedRunsDoNoNewWork` (`NoNewWork`), `OneProbeAtATime` (`GateIsSound`), `EffectsAreApproved` (`ApprovalHolds`), `WorkflowsAreWhole` (`WorkIsWhole`), `AgentsAreConfined` (`AgentsStayInside`) |
| `RecoveryPartsProofs` | `StoresAreVersioned` (`StoreSpec`), `DeliveryAccounted` (`DeliveryIsAccounted`), `RecoveriesAreTold` (`RecoveryIsTold`), `AnswersTrue` (`AnswersAreTrue`), `ReviewsAlwaysProtect` (`ReviewsProtect`) |

### Assumptions

Each module that has constants names what it assumes of them (`PolicyAssumption`,
`BoundsAssumption`, `DeliveryAssumption`, `AdmissionAssumption`, `CommandAssumption`,
`FinalizationAssumption`, `AgentAssumption`, `PartsAssumption`, `GuaranteesAssumption`), and TLC
evaluates that in the runs. They say that bounds are numbers and tables have the right domains.
Beyond that, and only where a proof needs it:

* `CommandAssumption` has a command and a first checkpoint version, as a service without any
  submits nothing; `FinalizationAssumption` has finitely many commands, which are the rows of a
  table, because the control version is counted against them.
* `AgentAssumption` has the numbers of a configuration natural (`readPositiveInt` and its like in
  `config/runtime-config.ts` refuse others, prices are tables of the code) and a largest usage
  that one answer can report, which is what "limit plus one answer" is measured with.
* `PartsAssumption` has finitely many actors, because attempts and calls of the publisher are
  counted by them, and none called `"nobody"`, the value that stands for no owner; at least one
  actor and one thing, as the initial values name one. `GuaranteesAssumption` draws a provider's
  behaviours from the guarantees that the code's profile can declare.
* Three theorems of `DurableJournalProofs` assume `~RecoverLive`: recovery is started for a run
  whose workers are gone. This is how the deployment uses it and no code enforces it, and with a
  recovery beside a live worker the properties are false; so it is a hypothesis of these theorems
  and of nothing else. `ExecutedIsReal` and the refinement need no such thing.

### The arguments

* **Durable execution.** `IInv == TypeOK /\ HasWork /\ FreshSnapshot`. A snapshot that still
  passes the version check is the stored checkpoint itself, because every write takes the next
  version and every snapshot was a copy; `HasWork`, the record that a coordinator resolves exists,
  is what makes the types inductive. On it rests the **refinement of `RunJournal`**: a successful
  save is a step from the snapshot, hence from the current journal. That it is a *legal* step
  needs to know what the snapshot says (`IntentHeld` of a worker, `PlanHeld` of a coordinator) and
  that a call has one record and an open record is the last recoverable one (`Shape`); a
  late save is refused and so a stutter. `ExecutedIsReal` is in the same invariant `JInv`, since a
  cached or reconciled answer has to be real before it is written. For the effect properties,
  `LInv` adds the lock: a worker past its intent holds the stored checkpoint and is alone
  (`Locked`), and whoever is about to write that a call did not run is right (`ClaimsHeld`).
* **Outbox.** A worker never holds a token that the table has not issued, and inbox and effect are
  written by one transaction of the consumer, so whoever has a reply, or acts on one, acts on an
  event that was taken (`ReplyMeansInbox`). Each step is then a step of `EventDelivery` or a
  stutter: the consumer's transaction is its effect, the acknowledgement its settlement.
* **Admission.** Phases, counters, queue and lifecycle record the same facts separately; the
  invariant says that they agree, that no slot is idle while somebody waits, and that the queue is
  in the order of tickets. The two `finally` blocks keep it because each undoes exactly what its
  run has done. The lemmas about `RemoveFirst` are there for the waiter that leaves from the middle.
* **Recovery commands.** From the claim to the finish a delivery is alone with its command
  (`Exclusive`), because the command's version tells its stage and the update compares it. So its
  program counter tells what it has written (`WrittenByPc`), through the crash of any other; the
  control version is the number of authors.
* **Finalization.** Command row, event, control version and consumed effect are traces of the same
  end (`EventsMatch`, `UsesMatch`, `ControlHasOneAuthor`); that there is one finalizer per command
  follows from `Staged`, as `commit()` refuses a command with effects and effects are staged only
  while it runs. What a preparation read is an earlier row or the current one
  (`SnapshotsAreReal`), so the version check in the transaction makes an applied outcome current.
  Evidence is bounded by the status of its effect (`EvidenceByStatus`): an epoch is given only in a status in which there is no
  evidence. `OutcomeIsCurrent` and `AuthorityHeld` are about steps and follow from the invariant
  by one look at each action that ends a command.
* **Agent run.** What was really spent is the budget's count plus what is in flight (`Spending`). Each
  charged call has begun at most two rounds of `maxRetries + 1` requests, and the attempt number
  bounds those of the call in hand (`RequestsByAttempt`); that number grows only in steps that look
  at the signal first. A limit that is exceeded stops the run at the next check. The stop reason is
  decided at each end from the same facts, and the trace is open until then (`TraceIsOpen`).
* **Breaker.** Apart from stragglers, the half-open mark is up exactly as long as its probe is
  (`ProbeIsHeld`, `MarkMeansProbe`).
* **Approval.** A handler runs for a key that is permitted; while no two handlers of a key have
  met, it is the only one and the key has no saved result; a key whose handlers have never thrown
  has its result saved once it has taken effect.
* **Workflow and assistant.** Where a workflow stands tells which of its calls have taken effect
  (`PathIsSound`), what it looked up was in the servers when it looked (`LookIsGood`), two
  workflows that are open together have overlapped (`Together`). Memory holds a newer fact or the
  messages overlap (`HandlingInv`).
* **Planner and delegation.** An executed action was allowed by what looked at it, and asked-for
  proposals are counted by steps; a selection that is valid is in all three tables (`TablesAgree`).
* **Checkpoint stores.** `VersionedStore` is implemented by both. The invariant of the file store
  has one call in the chain's first place (`ChainHolds`); what that call will publish is the file
  it has read except for the entry of its run, which is still the one its caller has loaded
  (`WritesWhatItRead`), and the file itself is always whole. The rename is then the abstract
  save of one run, and a torn or full temporary file is a stutter. The table's statement compares
  and writes at once; that a conflict names a later version is in its invariant, because a row
  never goes back.
* **Legacy outbox and cutover.** Any copy of a record, however old, counts no more calls than were
  made or are about to be (`CopyIsTrue` against `CallsOf`), so a pass that writes a stale copy can
  only lower the count. An event that two passes never had in hand together has one holder, whose
  copy is the record (`AloneIsExact`): there the count is exact. For the cutover, a permission
  that is as old as the last withdrawal is founded on all facts, and the epoch of an update is at
  most that of the fence.
* **Recovery attempts.** The counters of the metrics are cardinalities of sets, which grow by the
  attempt that starts or returns (`CountersAgree`) or by the pair of an attempt and its next
  conflict (`ConflictsCounted`). Until reports cross at most one attempt has decided and not yet
  reported, and the history names it (`RegistryAgrees`), so its report writes the last decision.
  Versions that a successful attempt has read are past (`VersionsArePast`), so a later one reads
  others (`ReadOnce`). Every step is one of four kinds (`AttemptGoesOn`), and each of these
  invariants is shown once for each kind.
* **Ingress and executor.** What a call knows holds as long as the authority has not changed since
  it arrived, and each answer states a fact about a record that no later step undoes
  (`CallTellsTruth`); a record has the call that inserted it. In the executor the claim makes its
  winner the only one to handle.
* **Provider reviews.** Every request on the way or applied is one of a claimed epoch
  (`RequestsAreClaimed`); until the provider changes, what the probe observed is what the provider
  gives, and a retry is let through only on an answer that stays true (`Unexcused`).

### What is only model-checked

* Liveness: `RecoveryEnds`, `EventuallySettled`, `EverythingSettles`, `CommandsTerminate`,
  `EveryCallReturns`, `Readmitted`, `WorkEnds`. Fairness and `ENABLED` are beyond the prover.
* The four runs that refute a document, by their nature.

## 6. Not modelled, and why

* Filters of text: prompt injection, sensitive data, data leakage, trust boundaries, safe tool
  results. They are pure functions over regular expressions; nothing interleaves, and a model
  would restate the expressions.
* LLM and embedding clients, the MCP transport, retrieval, tool definitions, the scores of the
  evaluation, the HTTP adapter, the assembly of prompts: adapters and lookups without state.
* `workflow/approval.ts`, which resumes a parked workflow: only a demo calls it.
* The demos under `src/src/demos`, which are the repository's tests; they were read for what they
  expect.
* The wording of errors, except where a decision depends on it: the test for an "uncertain" error
  and the texts that `run-result.ts` looks for are the choice of an error kind.
* Payload comparisons that bind a fence, a receipt or a plan to its intent: an effect is its own
  identity in the model.
* Hash collisions of idempotency keys, the contents of audit records, latencies.
* Two processes on one checkpoint file: the store says that it serves one.

## 7. Plan

Every safety property of the passing runs has a theorem. What would say more about the system:

1. An abstract specification of `RecoveryFinalization`, where a command ends in one step under
   present authority, with its refinement: `FinalizationInvariant` has what the simulation needs,
   `OutcomeIsCurrent` and `AuthorityHeld` are its two hardest steps.
2. An abstract specification of `RunAdmission` (a queue that starts runs in order, a bounded number
   at a time), whose refinement follows from `AdmissionInvariant` and `StartsInTurn`.
3. For `durable_live`, what a recovery beside a live worker still guarantees of effects, stated
   and proved without the hypothesis `~RecoverLive`.
4. An instance of `finalization` with two effects of one command; the theorems already cover it.
