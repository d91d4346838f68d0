---------------------------- MODULE RunAdmission ----------------------------
(***************************************************************************)
(* Admission, draining and shutdown of ProductionAgentRuntime: the bounded *)
(* slots and the FIFO queue of run-admission-controller.ts, the lifecycle  *)
(* of runtime-lifecycle.ts, run() of production-runtime.ts that nests them *)
(* and the shutdown sequence of shutdown-coordinator.ts, with the two ways *)
(* a host starts it: the signal adapter, and the escalation policy that    *)
(* waits for it no longer than a deadline.                                 *)
(*                                                                         *)
(* Everything runs on one JavaScript thread: a call runs up to its first   *)
(* await, so enterRun() and acquire() of one run() are one step, and so    *)
(* are release() and leaveLifecycle() of its finally blocks.  A rejected   *)
(* run leaves the lifecycle in a later microtask, hence the phase leaving. *)
(***************************************************************************)
EXTENDS Naturals, FiniteSets, Sequences, SequencesExt

CONSTANTS
  Runs,              \* calls of run(), each made at most once
  Impatient,         \* those with a queue timeout or an abort signal
  MaxConcurrentRuns,
  MaxQueuedRuns,
  CloseMayFail       \* whether server.close() may reject

ASSUME AdmissionAssumption ==
  /\ Impatient \subseteq Runs
  /\ MaxConcurrentRuns \in Nat \ {0}
  /\ MaxQueuedRuns \in Nat
  /\ CloseMayFail \in BOOLEAN

VARIABLES
  phase,       \* per run: idle, queued, running, leaving, done
  active,      \* admission: activeRuns
  queue,       \* admission: the pending waiters
  accepting,   \* admission
  lifecycle,   \* RuntimeLifecycle: state and activeRuns
  shutdown,    \* ShutdownCoordinator: idle, closing, draining, stopped, failed
  host,        \* signals still listened for, escalation's result, process.exitCode
  ticket,      \* history: the order in which runs were queued; 0 = never
  tickets      \* history: number of tickets given out

vars == <<phase, active, queue, accepting, lifecycle, shutdown, host, ticket, tickets>>
history == <<ticket, tickets>>

Signals == {"SIGTERM", "SIGINT"}

Phases == {"idle", "queued", "running", "leaving", "done"}

TypeOK ==
  /\ phase \in [Runs -> Phases]
  /\ active \in 0..MaxConcurrentRuns
  /\ queue \in Seq(Runs) /\ Len(queue) <= MaxQueuedRuns
  /\ accepting \in BOOLEAN
  /\ lifecycle \in [state : {"RUNNING", "DRAINING", "STOPPED"}, activeRuns : Nat]
  /\ shutdown \in {"idle", "closing", "draining", "stopped", "failed"}
  /\ host \in [signals : SUBSET Signals, exitCode : {0, 1},
               escalation : {"none", "waiting", "completed", "failed", "deadline_exceeded"}]
  /\ ticket \in [Runs -> Nat] /\ tickets \in Nat

Init ==
  /\ phase = [r \in Runs |-> "idle"]
  /\ active = 0 /\ queue = << >> /\ accepting = TRUE
  /\ lifecycle = [state |-> "RUNNING", activeRuns |-> 0]
  /\ shutdown = "idle"
  /\ host = [signals |-> Signals, escalation |-> "none", exitCode |-> 0]
  /\ ticket = [r \in Runs |-> 0] /\ tickets = 0

-----------------------------------------------------------------------------
(* RuntimeLifecycle.                                                       *)

\* Mutant: draining stops the runtime at once.
FinishDrainAlways(l) == IF l.state = "DRAINING" THEN [l EXCEPT !.state = "STOPPED"] ELSE l

\* finishDrainIfPossible.  (The drain waiters it wakes are those of the shutdown
\* sequence, whose continuation is the step Drained.)
FinishDrainIfPossible(l) ==
  IF l.state = "DRAINING" /\ l.activeRuns = 0 THEN [l EXCEPT !.state = "STOPPED"] ELSE l

LeaveLifecycle ==
  lifecycle' = FinishDrainIfPossible([lifecycle EXCEPT !.activeRuns = @ - 1])

-----------------------------------------------------------------------------
(* run(): enterRun, then acquire.                                          *)

\* enterRun throws RuntimeDrainingError: nothing was entered.
Rejected(r) ==
  /\ phase[r] = "idle"
  /\ lifecycle.state # "RUNNING"
  /\ phase' = [phase EXCEPT ![r] = "done"]
  /\ UNCHANGED <<active, queue, accepting, lifecycle, shutdown, host, history>>

FreeSlot == active < MaxConcurrentRuns

\* The new waiter goes to the end of the queue.
Enqueue(r) == queue' = Append(queue, r)

\* enterRun and acquire: a free slot, a place in the queue, or a rejection
\* (closed, already aborted, overloaded).
Arrive(r) ==
  /\ phase[r] = "idle"
  /\ lifecycle.state = "RUNNING"
  /\ lifecycle' = [lifecycle EXCEPT !.activeRuns = @ + 1]
  /\ \/ /\ ~accepting \/ r \in Impatient
        /\ phase' = [phase EXCEPT ![r] = "leaving"]
        /\ UNCHANGED <<active, queue, history>>
     \/ /\ accepting /\ FreeSlot
        /\ active' = active + 1
        /\ phase' = [phase EXCEPT ![r] = "running"]
        /\ UNCHANGED <<queue, history>>
     \/ /\ accepting /\ ~FreeSlot /\ Len(queue) >= MaxQueuedRuns
        /\ phase' = [phase EXCEPT ![r] = "leaving"]
        /\ UNCHANGED <<active, queue, history>>
     \/ /\ accepting /\ ~FreeSlot /\ Len(queue) < MaxQueuedRuns
        /\ Enqueue(r)
        /\ phase' = [phase EXCEPT ![r] = "queued"]
        /\ tickets' = tickets + 1
        /\ ticket' = [ticket EXCEPT ![r] = tickets + 1]
        /\ UNCHANGED active
  /\ UNCHANGED <<accepting, shutdown, host>>

\* Mutant: a waiter that gives up stays in the queue.
RemoveWaiterNot(r) == UNCHANGED queue

\* removeWaiter: indexOf and splice.
RemoveWaiter(r) == queue' = RemoveFirst(queue, r)

\* The queue timeout fires or the signal aborts while the run is still pending.
WaiterFails(r) ==
  /\ r \in Impatient /\ phase[r] = "queued"
  /\ RemoveWaiter(r)
  /\ phase' = [phase EXCEPT ![r] = "leaving"]
  /\ UNCHANGED <<active, accepting, lifecycle, shutdown, host, history>>

\* release(): the slot goes to the first waiter, or is freed.
Release(r) ==
  IF accepting /\ queue # << >>
  THEN /\ phase' = [phase EXCEPT ![r] = "done", ![Head(queue)] = "running"]
       /\ queue' = Tail(queue)
       /\ UNCHANGED active
  ELSE /\ phase' = [phase EXCEPT ![r] = "done"]
       /\ active' = active - 1
       /\ UNCHANGED queue

\* runAdmitted returns or throws; both finally blocks run.
Finish(r) ==
  /\ phase[r] = "running"
  /\ Release(r)
  /\ LeaveLifecycle
  /\ UNCHANGED <<accepting, shutdown, host, history>>

\* The outer finally of a run whose acquire() was rejected.
Leave(r) ==
  /\ phase[r] = "leaving"
  /\ LeaveLifecycle
  /\ phase' = [phase EXCEPT ![r] = "done"]
  /\ UNCHANGED <<active, queue, accepting, shutdown, host, history>>

-----------------------------------------------------------------------------
(* Draining and shutdown.                                                  *)

\* Mutant: close() forgets the waiters it has already queued.
CloseKeepingWaiters == accepting' = FALSE /\ UNCHANGED <<phase, queue>>

\* close(): every pending waiter is rejected.
Close ==
  /\ accepting' = FALSE
  /\ queue' = << >>
  /\ phase' = [r \in Runs |-> IF r \in ToSet(queue) THEN "leaving" ELSE phase[r]]

\* beginDrain() of the runtime: lifecycle first, then admission.
BeginDrain ==
  /\ IF lifecycle.state = "STOPPED" THEN UNCHANGED lifecycle
     ELSE lifecycle' = FinishDrainIfPossible([lifecycle EXCEPT !.state = "DRAINING"])
  /\ IF accepting THEN Close ELSE UNCHANGED <<accepting, queue, phase>>

\* External: the host begins to drain without the coordinator.
HostBeginsDrain ==
  /\ lifecycle.state = "RUNNING"
  /\ BeginDrain
  /\ UNCHANGED <<active, shutdown, host, history>>

\* ShutdownCoordinator.shutdown(): the sequence starts once; later callers share it.
CallShutdown == shutdown' = IF shutdown = "idle" THEN "closing" ELSE shutdown

\* A signal that is still listened for.  The adapter catches what shutdown() throws,
\* here at once if it has thrown already.
Signal(signal) ==
  /\ signal \in host.signals
  /\ CallShutdown
  /\ host' = [host EXCEPT !.signals = @ \ {signal},
                          !.exitCode = IF shutdown = "failed" THEN 1 ELSE @]
  /\ UNCHANGED <<phase, active, queue, accepting, lifecycle, history>>

\* runShutdownWithEscalation: shutdown() against the deadline.
Escalate ==
  /\ host.escalation = "none"
  /\ CallShutdown
  /\ host' = [host EXCEPT !.escalation = "waiting"]
  /\ UNCHANGED <<phase, active, queue, accepting, lifecycle, history>>

\* Mutant: the closed server is taken for the end of the shutdown.
OutcomeOfClose == IF shutdown = "draining" THEN "completed" ELSE shutdown

\* What the race sees of the shutdown: its outcome once it has one.
Outcome == IF shutdown = "stopped" THEN "completed" ELSE shutdown

\* The race ends: by the shutdown, whatever its outcome, or by the deadline, which leaves
\* the shutdown running.
RaceEnds ==
  /\ host.escalation = "waiting"
  /\ \/ /\ Outcome \in {"completed", "failed"}
        /\ host' = [host EXCEPT !.escalation = Outcome,
                                !.exitCode = IF Outcome = "failed" THEN 1 ELSE @]
     \/ host' = [host EXCEPT !.escalation = "deadline_exceeded", !.exitCode = 1]
  /\ UNCHANGED <<phase, active, queue, accepting, lifecycle, shutdown, history>>

\* server.close() has succeeded: drain().
ServerClosed ==
  /\ shutdown = "closing" /\ shutdown' = "draining"
  /\ BeginDrain
  /\ UNCHANGED <<active, host, history>>

\* server.close() has rejected: the memoised promise is rejected for good and
\* drain() is never called; the signal adapter's catch sets the exit code.
ServerCloseFailed ==
  /\ CloseMayFail
  /\ shutdown = "closing" /\ shutdown' = "failed"
  /\ host' = [host EXCEPT !.exitCode = IF host.signals # Signals THEN 1 ELSE @]
  /\ UNCHANGED <<phase, active, queue, accepting, lifecycle, history>>

\* waitForDrain has resolved.
Drained ==
  /\ shutdown = "draining" /\ lifecycle.state = "STOPPED"
  /\ shutdown' = "stopped"
  /\ UNCHANGED <<phase, active, queue, accepting, lifecycle, host, history>>

Next ==
  \/ \E r \in Runs :
       Rejected(r) \/ Arrive(r) \/ WaiterFails(r) \/ Finish(r) \/ Leave(r)
  \/ \E signal \in Signals : Signal(signal)
  \/ HostBeginsDrain \/ Escalate \/ RaceEnds \/ ServerClosed \/ ServerCloseFailed \/ Drained

Spec == Init /\ [][Next]_vars

\* An admitted run ends (its budget, step and LLM timeouts bound it), microtasks
\* run, server.close() settles and the deadline's timer fires.
FairSpec ==
  /\ Spec
  /\ \A r \in Runs : WF_vars(Finish(r)) /\ WF_vars(Leave(r))
  /\ WF_vars(ServerClosed \/ ServerCloseFailed) /\ WF_vars(Drained)
  /\ WF_vars(RaceEnds)

-----------------------------------------------------------------------------
(* Properties.                                                             *)

Running == {r \in Runs : phase[r] = "running"}
Entered == {r \in Runs : phase[r] \in {"queued", "running", "leaving"}}

\* No slot is leaked or handed out twice: the counters of the controller and of the
\* lifecycle always match the runs they stand for, whatever timeouts, aborts, rejections
\* and draining have happened.  No lost wake-up and no ghost waiter: the queue holds
\* exactly the queued runs, and only while every slot is taken and the controller open.
QueueIsLive ==
  /\ TypeOK
  /\ active = Cardinality(Running) /\ lifecycle.activeRuns = Cardinality(Entered)
  /\ ToSet(queue) = {r \in Runs : phase[r] = "queued"}
  /\ Len(queue) = Cardinality(ToSet(queue))
  /\ queue # << >> => accepting /\ active = MaxConcurrentRuns

\* "queued: wait FIFO" (day29-run-admission-runtime-integration.md): a queued run starts
\* only when no run queued before it still waits.  Once draining has begun no run starts,
\* and a stopped runtime has none left: "drain() resolves only after all runs that entered
\* before draining have left".
StartsInTurn ==
  [][/\ \A r, s \in Runs :
          phase[r] = "queued" /\ phase'[r] = "running" /\ phase[s] = "queued"
            => ticket[r] <= ticket[s]
     /\ lifecycle.state # "RUNNING" => Running' \subseteq Running
     /\ lifecycle.state = "STOPPED" => lifecycle'.state = "STOPPED"
     /\ shutdown' = "stopped" => Entered' = {} /\ Running' = {}]_vars

\* The exit code is 1 exactly when a waiting host was told that shutdown failed or took
\* too long; "completed" is said only of a runtime without runs.  A shutdown that ends
\* after its deadline leaves the code at 1 (shutdown-escalation-policy.ts: "It never claims
\* to cancel the underlying shutdown").
ExitCodeTells ==
  /\ host.exitCode = 1 <=>
       \/ host.escalation \in {"failed", "deadline_exceeded"}
       \/ shutdown = "failed" /\ host.signals # Signals
  /\ host.escalation = "completed" => shutdown = "stopped" /\ Entered = {}

\* Every run that has entered is answered, a shutdown stops the runtime unless
\* server.close() fails, and whoever waits for it with a deadline is told.
EverythingSettles ==
  /\ \A r \in Runs : phase[r] = "queued" ~> phase[r] \in {"running", "leaving", "done"}
  /\ shutdown = "closing" ~> shutdown \in {"stopped", "failed"}
  /\ host.escalation = "waiting" ~> host.escalation # "waiting"
=============================================================================
