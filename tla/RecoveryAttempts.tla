--------------------------- MODULE RecoveryAttempts ---------------------------
(***************************************************************************)
(* Recovery attempts of one run as an operator sees them: the loop of      *)
(* checkpoint-recovery-coordinator.ts with its conflicts and its events,   *)
(* the two committers it may be given (recovery-transition-committer.ts,   *)
(* sqlite-recovery-transition-committer.ts), the metrics and the registry  *)
(* of suspended runs that listen (recovery-metrics.ts,                     *)
(* suspended-run-registry.ts).                                             *)
(*                                                                         *)
(* What an attempt decides from a checkpoint is modelled in                *)
(* DurableExecution; here it decides anything.  Every await is a place     *)
(* where the other attempts act, the await of an event included: an        *)
(* attempt commits first and reports later.                                *)
(***************************************************************************)
EXTENDS Naturals, FiniteSets

CONSTANTS
  Attempts,      \* calls of recover(), each on behalf of a command of its own
  MaxConflicts,  \* maxConflicts of the coordinator
  MaxVersion     \* bound on the versions other writers produce

VARIABLES
  committer,     \* which committer the coordinators were built with
  store,         \* versions of checkpoint and control; commands that succeeded; events
  attempt,       \* per attempt: pc, what it has read, what it has decided, conflicts
  metrics,       \* InMemoryRecoveryMetrics
  suspendedRun,  \* InMemorySuspendedRunRegistry: the attempt on record for the run
  decided,       \* history: the last attempt whose decision became final, and that decision
  crossed        \* history: whether one was ever decided while another was unreported

vars == <<committer, store, attempt, metrics, suspendedRun, decided, crossed>>

Decisions == {"none", "completed", "advanced", "suspended"}
Nobody == "nobody"

TypeOK ==
  /\ committer \in {"checkpoint_store", "sqlite"}
  /\ store \in [checkpoint : 1..MaxVersion + Cardinality(Attempts),
                control : 0..MaxVersion + Cardinality(Attempts),
                succeeded : SUBSET Attempts, outbox : SUBSET Attempts]
  /\ attempt \in [Attempts ->
       [pc : {"new", "load", "prepare", "context", "commit", "report", "returned", "thrown"},
        checkpoint : Nat, control : Nat, decision : Decisions,
        conflicts : 0..MaxConflicts + 1]]
  /\ metrics \in [attempts : Nat, completed : Nat, suspended : Nat, conflicts : Nat]
  /\ suspendedRun \in Attempts \union {Nobody}
  /\ decided \in [by : Attempts \union {Nobody}, decision : Decisions]
  /\ crossed \in BOOLEAN

Init ==
  /\ committer \in {"checkpoint_store", "sqlite"}
  /\ store = [checkpoint |-> 1, control |-> 0, succeeded |-> {}, outbox |-> {}]
  /\ attempt = [a \in Attempts |-> [pc |-> "new", checkpoint |-> 0, control |-> 0,
                                    decision |-> "none", conflicts |-> 0]]
  /\ metrics = [attempts |-> 0, completed |-> 0, suspended |-> 0, conflicts |-> 0]
  /\ suspendedRun = Nobody
  /\ decided = [by |-> Nobody, decision |-> "none"]
  /\ crossed = FALSE

UnderWay(a) == attempt[a].pc \notin {"new", "returned", "thrown"}
Goto(a, pc) == attempt' = [attempt EXCEPT ![a].pc = pc]
Unreported == {a \in Attempts : attempt[a].pc = "report"}

\* History: the decision of attempt a is final, it remains to be reported.
Decides(a, decision) ==
  /\ decided' = [by |-> a, decision |-> decision]
  /\ crossed' = (crossed \/ Unreported # {})

\* InMemoryRecoveryMetrics.record: one attempt ends in one counter (its duration, which
\* the sink measures as well, is left out).
Count(counter) == metrics' = [metrics EXCEPT ![counter] = @ + 1]

-----------------------------------------------------------------------------
(* Attempts.                                                               *)

\* recovery_started.
Start(a) ==
  /\ attempt[a].pc = "new"
  /\ Goto(a, "load")
  /\ Count("attempts")
  /\ UNCHANGED <<committer, store, suspendedRun, decided, crossed>>

\* checkpoint_loaded.
Load(a) ==
  /\ attempt[a].pc = "load"
  /\ attempt' = [attempt EXCEPT ![a].pc = "prepare", ![a].checkpoint = store.checkpoint]
  /\ UNCHANGED <<committer, store, metrics, suspendedRun, decided, crossed>>

\* prepareRecoveryTransition, reconciliation included: there is nothing to recover, or
\* the next checkpoint is this one (shouldPersist is false), or it is to be committed.
\* A reconciler may throw.
Prepare(a) ==
  /\ attempt[a].pc = "prepare"
  /\ \/ \E decision \in {"completed", "advanced", "suspended"} :
          /\ attempt' = [attempt EXCEPT ![a].pc = "report", ![a].decision = decision]
          /\ Decides(a, decision)
     \/ \E decision \in {"advanced", "suspended"} :
          /\ attempt' = [attempt EXCEPT ![a].pc = "context", ![a].decision = decision]
          /\ UNCHANGED <<decided, crossed>>
     \/ Goto(a, "thrown") /\ UNCHANGED <<decided, crossed>>
  /\ UNCHANGED <<committer, store, metrics, suspendedRun>>

\* buildContext of the SQLite committer loads control and command; the other committer
\* needs no context.
BuildContext(a) ==
  /\ attempt[a].pc = "context"
  /\ attempt' = [attempt EXCEPT ![a].pc = "commit", ![a].control = store.control]
  /\ UNCHANGED <<committer, store, metrics, suspendedRun, decided, crossed>>

\* assertContext: control, command or an event that buildContext returned belongs to
\* another run or command.  The error passes through the loop.
ContextRefused(a) ==
  /\ attempt[a].pc = "context" /\ committer = "sqlite"
  /\ Goto(a, "thrown")
  /\ UNCHANGED <<committer, store, metrics, suspendedRun, decided, crossed>>

\* Mutant: only the checkpoint is compared.
CurrentCheckpoint(a) == store.checkpoint = attempt[a].checkpoint

\* The versions that were prepared for are still those in the store.
Current(a) ==
  /\ store.checkpoint = attempt[a].checkpoint
  /\ committer = "sqlite" => store.control = attempt[a].control

\* One UPDATE of the checkpoint; or checkpoint, control, command and outbox in one
\* SQLite transaction (unitOfWork.commit without a write set updates both).
Committed(a) ==
  IF committer = "checkpoint_store" THEN [store EXCEPT !.checkpoint = @ + 1]
  ELSE [checkpoint |-> store.checkpoint + 1, control |-> attempt[a].control + 1,
        succeeded |-> store.succeeded \union {a}, outbox |-> store.outbox \union {a}]

Commit(a) ==
  /\ attempt[a].pc = "commit" /\ Current(a)
  /\ store' = Committed(a)
  /\ Goto(a, "report")
  /\ Decides(a, attempt[a].decision)
  /\ UNCHANGED <<committer, metrics, suspendedRun>>

\* CheckpointConflictError: counted, reported, and the loop starts over, or gives up.
Conflict(a) ==
  /\ attempt[a].pc = "commit" /\ ~Current(a) /\ committer = "checkpoint_store"
  /\ attempt' = [attempt EXCEPT
       ![a].conflicts = @ + 1, ![a].decision = "none", ![a].checkpoint = 0, ![a].control = 0,
       ![a].pc = IF attempt[a].conflicts + 1 > MaxConflicts THEN "thrown" ELSE "load"]
  /\ Count("conflicts")
  /\ UNCHANGED <<committer, store, suspendedRun, decided, crossed>>

\* RecoveryTransitionCommitConflictError leaves the loop at once: reloading the
\* checkpoint would not refresh control and command.
TransactionConflict(a) ==
  /\ attempt[a].pc = "commit" /\ ~Current(a) /\ committer = "sqlite"
  /\ Goto(a, "thrown")
  /\ UNCHANGED <<committer, store, metrics, suspendedRun, decided, crossed>>

\* InMemorySuspendedRunRegistry.record.
Listed(a, decision) == IF decision = "suspended" THEN a ELSE Nobody

\* recovery_suspended or recovery_completed, and recover() returns.
Report(a) ==
  LET decision == attempt[a].decision
  IN /\ attempt[a].pc = "report"
     /\ Goto(a, "returned")
     /\ Count(IF decision = "suspended" THEN "suspended" ELSE "completed")
     /\ suspendedRun' = Listed(a, decision)
     /\ UNCHANGED <<committer, store, decided, crossed>>

\* The run's worker, or an operator, moves a version on meanwhile.
OtherWriter ==
  /\ \/ /\ store.checkpoint < MaxVersion
        /\ store' = [store EXCEPT !.checkpoint = @ + 1]
     \/ /\ store.control < MaxVersion
        /\ store' = [store EXCEPT !.control = @ + 1]
  /\ UNCHANGED <<committer, attempt, metrics, suspendedRun, decided, crossed>>

Step(a) ==
  \/ Start(a) \/ Load(a) \/ Prepare(a) \/ BuildContext(a) \/ ContextRefused(a)
  \/ Commit(a) \/ Conflict(a) \/ TransactionConflict(a) \/ Report(a)

Next == (\E a \in Attempts : Step(a)) \/ OtherWriter

Spec == Init /\ [][Next]_vars

-----------------------------------------------------------------------------
(* Properties.                                                             *)

Ended(decisions) ==
  {a \in Attempts : attempt[a].pc = "returned" /\ attempt[a].decision \in decisions}

\* Every lost compare-and-swap, of attempts that gave up as well.
Conflicts ==
  {c \in Attempts \X (1..MaxConflicts + 1) : c[2] <= attempt[c[1]].conflicts}

\* The metrics add up, conflicts and thrown attempts included; and once everything that
\* was decided is reported, the registry lists the run exactly if the last decision was to
\* suspend it, however the attempts overlapped.  (One overlap is excluded: an attempt that
\* decides between another's decision and its report.  The reports may then arrive in the
\* opposite order, and a late suspension lists a run that has been recovered.)
OperatorSeesTruth ==
  /\ metrics.attempts = Cardinality({a \in Attempts : attempt[a].pc # "new"})
  /\ metrics.suspended = Cardinality(Ended({"suspended"}))
  /\ metrics.completed = Cardinality(Ended({"completed", "advanced"}))
  /\ metrics.conflicts = Cardinality(Conflicts)
  /\ ~crossed /\ Unreported = {} =>
       suspendedRun = IF decided.decision = "suspended" THEN decided.by ELSE Nobody

\* No two commands succeed on the same version of the checkpoint or of the control, although
\* each attempt reads the two at different times; and their events are theirs.
OneSuccessPerVersion ==
  /\ store.outbox = store.succeeded
  /\ \A a, b \in store.succeeded : a # b =>
       attempt[a].checkpoint # attempt[b].checkpoint /\ attempt[a].control # attempt[b].control

Commits(a) == attempt[a].pc = "commit" /\ attempt'[a].pc = "report"

\* An attempt commits over the checkpoint it has read, and in SQLite over the control
\* version it has read as well, with its command's success; nothing else makes a command
\* succeed, and no version ever goes back.
WholeCommit ==
  /\ \A a \in Attempts : Commits(a) =>
       /\ attempt[a].checkpoint = store.checkpoint /\ store'.checkpoint = store.checkpoint + 1
       /\ committer = "sqlite" =>
            /\ attempt[a].control = store.control /\ store'.control = store.control + 1
            /\ store'.succeeded = store.succeeded \union {a}
  /\ store'.succeeded # store.succeeded => committer = "sqlite" /\ \E a \in Attempts : Commits(a)
  /\ store'.checkpoint >= store.checkpoint /\ store'.control >= store.control
=============================================================================
