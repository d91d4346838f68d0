-------------------------- MODULE DurableExecution --------------------------
(***************************************************************************)
(* Durable execution of the tool calls of one agent run: workers that      *)
(* enter an intent, run the tool and enter its outcome                     *)
(* (durable-tool-executor.ts over secure-tool-executor.ts), and            *)
(* coordinators that recover an interrupted call                           *)
(* (checkpoint-recovery-coordinator.ts).  They share nothing but a         *)
(* checkpoint store with compare-and-swap on the version                   *)
(* (checkpoint-store.ts, transactional-checkpoint-store.ts); every await   *)
(* between a load and the save that uses it is a place where the others    *)
(* run, and a worker may crash anywhere.                                   *)
(*                                                                         *)
(* The agent driver that decides which call to run next, the tool          *)
(* handlers, the audit sink and the reconcilers are supplied from outside  *)
(* (MayRun, Handler, audit failures and TruthfulAnswers below).            *)
(***************************************************************************)
EXTENDS Checkpoint

CONSTANTS
  Executors,      \* worker processes that run tool calls
  Recoverers,     \* concurrent recover() calls
  MaxConflicts,   \* coordinator option maxConflicts (5 in the code)
  RecoverLive,    \* may an operator recover a run whose worker is still alive?
  MaxVersion      \* bound: no operation starts once this version is stored

ASSUME BoundsAssumption ==
  /\ MaxConflicts \in Nat
  /\ MaxVersion \in Nat
  /\ RecoverLive \in BOOLEAN
  /\ Calls # {}

VARIABLES
  stored,   \* the store's checkpoint; version 0 stands for "no row"
  ex,       \* per executor: pc, the checkpoint it holds, its call, its outcome
  cache,    \* per executor: calls in its in-memory idempotency store
  rc,       \* per recoverer: pc, loaded checkpoint, reconciler answer, conflicts
  effects   \* history: how often each call's handler took effect

vars == <<stored, ex, cache, rc, effects>>

ExecutorStates ==
  [pc : {"idle", "intent", "secure", "audit", "audit_failed", "outcome", "catch"},
   k : Checkpoints, call : Calls, outcome : Outcomes]

RecovererStates ==
  [pc : {"idle", "load", "reconcile", "commit"},
   k : Checkpoints, answer : Answers \union {"none"}, conflicts : Nat]

TypeOK ==
  /\ stored \in Checkpoints
  /\ ex \in [Executors -> ExecutorStates]
  /\ cache \in [Executors -> SUBSET Calls]
  /\ rc \in [Recoverers -> RecovererStates]
  /\ effects \in [Calls -> Nat]

\* Nobody is running: the local variables of a finished call are gone.
IdleExecutor ==
  [pc |-> "idle", k |-> InitialCheckpoint, call |-> CHOOSE c \in Calls : TRUE,
   outcome |-> "started"]

IdleRecoverer ==
  [pc |-> "idle", k |-> InitialCheckpoint, answer |-> "none", conflicts |-> 0]

Init ==
  /\ stored = InitialCheckpoint
  /\ ex = [w \in Executors |-> IdleExecutor]
  /\ cache = [w \in Executors |-> {}]
  /\ rc = [r \in Recoverers |-> IdleRecoverer]
  /\ effects = [c \in Calls |-> 0]

-----------------------------------------------------------------------------
(* The checkpoint store: save(checkpoint, expectedVersion).                *)

\* Mutant: a check that lets an older snapshot through.
CanSaveStale(expected) == stored.version <= expected + 1

CanSave(expected) == stored.version = expected

\* Mutant: the stored version is not advanced.
SavedInPlace(k) == k

Saved(k) == [k EXCEPT !.version = stored.version + 1]

-----------------------------------------------------------------------------
(* The executor.                                                           *)

\* External: the agent driver asks for a new call at a step boundary, and for
\* the recorded call again after an approval or a retry_required recovery.
MayRun(k, c) ==
  \/ k.boundary \in {"ready_for_llm", "ready_for_next_step"} /\ c \notin Recorded(k.execs)
  \/ /\ k.boundary \in {"ready_for_tool", "waiting_approval"}
     /\ HasRecoveryRecord(k)
     /\ RecoveryRecord(k) = [call |-> c, outcome |-> "never_executed"]

\* execute() loads the checkpoint it will build the intent on.
Begin(w, c) ==
  /\ ex[w].pc = "idle"
  /\ stored.version < MaxVersion
  /\ MayRun(stored, c)
  /\ ex' = [ex EXCEPT ![w] = [@ EXCEPT !.pc = "intent", !.k = stored, !.call = c]]
  /\ UNCHANGED <<stored, cache, rc, effects>>

\* Mutant: the tool runs on an intent that was never stored.
SaveIntentLater(w) ==
  /\ ex[w].pc = "intent"
  /\ ex' = [ex EXCEPT ![w].pc = "secure"]
  /\ UNCHANGED <<stored, cache, rc, effects>>

\* The intent goes in before the tool runs; a conflict is thrown to the caller.
SaveIntent(w) ==
  /\ ex[w].pc = "intent"
  /\ LET next == Saved(WithRecord(ex[w].k, "ready_for_tool", ex[w].call, "started"))
     IN IF CanSave(ex[w].k.version)
        THEN /\ stored' = next
             /\ ex' = [ex EXCEPT ![w] = [@ EXCEPT !.pc = "secure", !.k = next]]
        ELSE /\ ex' = [ex EXCEPT ![w] = IdleExecutor]
             /\ UNCHANGED stored
  /\ UNCHANGED <<cache, rc, effects>>

\* Mutant: the kind of the error is stored as the outcome.
FailureOutcomeRaw(c, kind) == kind

\* What the catch block records for an error: an uncertain message (timeout,
\* network, abort, ...) of an external tool is unknown, anything else failed.
FailureOutcome(c, kind) ==
  IF SideEffect[c] = "external_side_effect" /\ kind = "uncertain"
  THEN "unknown" ELSE "failed"

ErrorKinds == {"uncertain", "definite"}

Continue(w, pc, o) ==
  ex' = [ex EXCEPT ![w] = [@ EXCEPT !.pc = pc, !.outcome = o]]

\* The secure executor answers without running the tool: denied, or pending
\* approval.
Refuse(w) ==
  /\ ex[w].pc = "secure"
  /\ \E o \in {"cancelled_before_execution", "never_executed"} : Continue(w, "outcome", o)
  /\ UNCHANGED <<stored, cache, rc, effects>>

\* It throws before the handler: aborted, unknown tool, or the audit of a
\* refusal fails.
ThrowEarly(w) ==
  /\ ex[w].pc = "secure"
  /\ \E kind \in ErrorKinds : Continue(w, "catch", FailureOutcome(ex[w].call, kind))
  /\ UNCHANGED <<stored, cache, rc, effects>>

\* A result already in this process's idempotency store is returned as executed.
ReturnCached(w) ==
  /\ ex[w].pc = "secure"
  /\ ex[w].call \in cache[w]
  /\ Continue(w, "outcome", "executed")
  /\ UNCHANGED <<stored, cache, rc, effects>>

\* External: the handler takes effect and returns, or loses the connection
\* after taking effect, or throws without effect.  The result is cached before
\* the audit is written.
HandlerReturns(w) ==
  /\ ex[w].pc = "secure"
  /\ ex[w].call \notin cache[w]
  /\ effects' = [effects EXCEPT ![ex[w].call] = @ + 1]
  /\ cache' = [cache EXCEPT ![w] = @ \union {ex[w].call}]
  /\ Continue(w, "audit", "executed")
  /\ UNCHANGED <<stored, rc>>

HandlerThrows(w) ==
  /\ ex[w].pc = "secure"
  /\ ex[w].call \notin cache[w]
  /\ \/ /\ effects' = [effects EXCEPT ![ex[w].call] = @ + 1]
        /\ Continue(w, "audit_failed", FailureOutcome(ex[w].call, "uncertain"))
     \/ /\ UNCHANGED effects
        /\ \E kind \in ErrorKinds :
             Continue(w, "audit_failed", FailureOutcome(ex[w].call, kind))
  /\ UNCHANGED <<stored, cache, rc>>

\* The audit of a successful call, inside the same try block as the handler.
Audit(w) ==
  /\ ex[w].pc = "audit"
  /\ \/ Continue(w, "outcome", "executed")
     \/ \E kind \in ErrorKinds :
          Continue(w, "audit_failed", FailureOutcome(ex[w].call, kind))
  /\ UNCHANGED <<stored, cache, rc, effects>>

\* The audit of a failed call; if it throws, its error replaces the tool's.
AuditFailed(w) ==
  /\ ex[w].pc = "audit_failed"
  /\ \E o \in {ex[w].outcome} \union {FailureOutcome(ex[w].call, kind) : kind \in ErrorKinds} :
       Continue(w, "catch", o)
  /\ UNCHANGED <<stored, cache, rc, effects>>

\* Mutant: an unknown outcome lets the run go on.
BoundaryOfForgetful(o) == IF o = "never_executed" THEN "waiting_approval" ELSE "ready_for_next_step"

\* The boundary each outcome is stored with.
BoundaryOf(o) ==
  CASE o = "never_executed" -> "waiting_approval"
    [] o = "unknown" -> "reconciling_tool"
    [] OTHER -> "ready_for_next_step"

StoreOutcome(w) ==
  stored' = Saved(WithRecord(ex[w].k, BoundaryOf(ex[w].outcome),
                             ex[w].call, ex[w].outcome))

\* Save of the outcome.  It is inside the try block: a conflict, whose message
\* is not an uncertain one, or an error of the storage goes to the catch block.
SaveOutcome(w) ==
  /\ ex[w].pc = "outcome"
  /\ \/ /\ CanSave(ex[w].k.version)
        /\ StoreOutcome(w)
        /\ ex' = [ex EXCEPT ![w] = IdleExecutor]
     \/ /\ ~CanSave(ex[w].k.version)
        /\ Continue(w, "catch", "failed")
        /\ UNCHANGED stored
     \/ /\ \E kind \in ErrorKinds : Continue(w, "catch", FailureOutcome(ex[w].call, kind))
        /\ UNCHANGED stored
  /\ UNCHANGED <<cache, rc, effects>>

\* The catch block saves the failure on the intent's version and rethrows.
SaveFailure(w) ==
  /\ ex[w].pc = "catch"
  /\ \/ CanSave(ex[w].k.version) /\ StoreOutcome(w)
     \/ UNCHANGED stored
  /\ ex' = [ex EXCEPT ![w] = IdleExecutor]
  /\ UNCHANGED <<cache, rc, effects>>

\* The process dies: its call stack and its in-memory cache are gone.
Crash(w) ==
  /\ ex[w].pc # "idle" \/ cache[w] # {}
  /\ ex' = [ex EXCEPT ![w] = IdleExecutor]
  /\ cache' = [cache EXCEPT ![w] = {}]
  /\ UNCHANGED <<stored, rc, effects>>

-----------------------------------------------------------------------------
(* The recovery coordinator.                                               *)

InFlight(w) == ex[w].pc \notin {"idle", "intent"}

\* External: when an operator lets a recovery look at the run.
MayRecover == RecoverLive \/ \A w \in Executors : ~InFlight(w)

StartRecovery(r) ==
  /\ rc[r].pc = "idle"
  /\ stored.version < MaxVersion
  /\ rc' = [rc EXCEPT ![r] = [@ EXCEPT !.pc = "load"]]
  /\ UNCHANGED <<stored, ex, cache, effects>>

\* Load and plan.  Nothing stored, a completed run, no record, or a resolution
\* that changes nothing: recover() returns (or throws) without a write.
LoadForRecovery(r) ==
  /\ rc[r].pc = "load"
  /\ MayRecover
  /\ LET rec == RecoveryRecord(stored)
         plan == PlanRecovery(rec.call, rec.outcome)
         returns == \/ stored.version = 0
                    \/ stored.boundary = "completed"
                    \/ ~HasRecoveryRecord(stored)
                    \/ plan # "reconcile" /\ ~ShouldPersist(stored, "none")
     IN rc' = [rc EXCEPT ![r] =
                 IF returns THEN IdleRecoverer
                 ELSE [@ EXCEPT !.pc = IF plan = "reconcile" THEN "reconcile" ELSE "commit",
                                !.k = stored, !.answer = "none"]]
  /\ UNCHANGED <<stored, ex, cache, effects>>

\* External: what a reconciler may answer about a call now.
TruthfulAnswers(c) ==
  {"unknown"} \union (IF effects[c] > 0 THEN {"executed"} ELSE {"never_executed"})

\* The reconciler is awaited; it answers, or throws out of recover().
Reconcile(r) ==
  /\ rc[r].pc = "reconcile"
  /\ \/ \E a \in TruthfulAnswers(RecoveryRecord(rc[r].k).call) :
          rc' = [rc EXCEPT ![r] = IF ShouldPersist(rc[r].k, a)
                                  THEN [@ EXCEPT !.pc = "commit", !.answer = a]
                                  ELSE IdleRecoverer]
     \/ rc' = [rc EXCEPT ![r] = IdleRecoverer]
  /\ UNCHANGED <<stored, ex, cache, effects>>

\* Mutant: a conflict retries the old transition, uncounted.
CommitAgain(r) ==
  /\ rc[r].pc = "commit"
  /\ CanSave(rc[r].k.version)
  /\ stored' = Saved(Resolved(rc[r].k, rc[r].answer))
  /\ rc' = [rc EXCEPT ![r] = IdleRecoverer]
  /\ UNCHANGED <<ex, cache, effects>>

\* Commit on the version that was loaded; a conflict reloads and plans again
\* until maxConflicts is exceeded.
Commit(r) ==
  /\ rc[r].pc = "commit"
  /\ IF CanSave(rc[r].k.version)
     THEN /\ stored' = Saved(Resolved(rc[r].k, rc[r].answer))
          /\ rc' = [rc EXCEPT ![r] = IdleRecoverer]
     ELSE /\ rc' = [rc EXCEPT ![r] =
                      IF rc[r].conflicts + 1 > MaxConflicts THEN IdleRecoverer
                      ELSE [IdleRecoverer EXCEPT !.pc = "load",
                                                !.conflicts = rc[r].conflicts + 1]]
          /\ UNCHANGED stored
  /\ UNCHANGED <<ex, cache, effects>>

CrashRecoverer(r) ==
  /\ rc[r].pc # "idle"
  /\ rc' = [rc EXCEPT ![r] = IdleRecoverer]
  /\ UNCHANGED <<stored, ex, cache, effects>>

\* External: the driver ends the run with a save at boundary completed.
CompleteRun ==
  /\ stored.boundary = "ready_for_next_step"
  /\ stored.version < MaxVersion
  /\ stored' = Saved([stored EXCEPT !.boundary = "completed"])
  /\ UNCHANGED <<ex, cache, rc, effects>>

-----------------------------------------------------------------------------
ExecutorStep(w) ==
  \/ SaveIntent(w) \/ Refuse(w) \/ ThrowEarly(w) \/ ReturnCached(w)
  \/ HandlerReturns(w) \/ HandlerThrows(w) \/ Audit(w) \/ AuditFailed(w)
  \/ SaveOutcome(w) \/ SaveFailure(w)

RecovererStep(r) == LoadForRecovery(r) \/ Reconcile(r) \/ Commit(r)

Next ==
  \/ \E w \in Executors : ExecutorStep(w) \/ Crash(w) \/ \E c \in Calls : Begin(w, c)
  \/ \E r \in Recoverers : RecovererStep(r) \/ StartRecovery(r) \/ CrashRecoverer(r)
  \/ CompleteRun

Spec == Init /\ [][Next]_vars

\* An operation that has begun goes on: the awaited storage, audit, handler and
\* reconciler answer or throw.  Nothing obliges anyone to begin one.
Fairness ==
  /\ \A w \in Executors : WF_vars(ExecutorStep(w))
  /\ \A r \in Recoverers : WF_vars(RecovererStep(r))

FairSpec == Spec /\ Fairness

-----------------------------------------------------------------------------
(* Properties.                                                             *)

\* The recovery data agrees with reality.  A call recorded as executed did take
\* effect, whoever wrote the record: the executor, its cache or a recovery.
ExecutedIsReal ==
  \A c \in Calls : OutcomeOf(stored.execs, c) = "executed" => effects[c] > 0

\* No effect escapes the journal: a call that took effect has a record, and for
\* a call that must not be retried the record never claims that it did not run.
NoHiddenEffect ==
  \A c \in Calls : effects[c] > 0 =>
    /\ c \in Recorded(stored.execs)
    /\ c \notin RetrySafe =>
         OutcomeOf(stored.execs, c) \in {"started", "executed", "failed", "unknown"}

\* A call whose policy forbids retries takes effect at most once, through any
\* number of crashes, conflicts, recoveries and re-executions.
AtMostOneEffect == \A c \in Calls \ RetrySafe : effects[c] <= 1

\* A snapshot that will still pass the version check is the stored checkpoint,
\* so a save never writes over something its author has not seen.
FreshSnapshot ==
  /\ \A w \in Executors : ex[w].pc # "idle" =>
       /\ ex[w].k.version <= stored.version
       /\ CanSave(ex[w].k.version) => ex[w].k = stored
  /\ \A r \in Recoverers : rc[r].pc \in {"reconcile", "commit"} =>
       /\ rc[r].k.version <= stored.version
       /\ CanSave(rc[r].k.version) => rc[r].k = stored

\* Version check and boundary together act as the run's lock: one worker at a time is
\* past its intent, and only one call of a run is ever open.  An uncertain call is never
\* left behind under a newer one, where recovery, which looks at one record, would miss it.
OneOpenCall ==
  /\ \A v, w \in Executors : InFlight(v) /\ InFlight(w) => v = w
  /\ \A i, j \in DOMAIN stored.execs :
       {stored.execs[i].outcome, stored.execs[j].outcome} \subseteq {"started", "unknown"}
         => i = j

\* The stored checkpoint evolves as the atomic journal of RunJournal.
Journal == INSTANCE RunJournal WITH journal <- stored
JournalSpec == Journal!Spec

\* Every recover() call ends, by returning or by giving up after maxConflicts,
\* whatever the other workers write meanwhile.
RecoveryEnds == \A r \in Recoverers : rc[r].pc # "idle" ~> rc[r].pc = "idle"
=============================================================================
