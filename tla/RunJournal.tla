----------------------------- MODULE RunJournal -----------------------------
(***************************************************************************)
(* What durable execution promises about the journal of one run, with no   *)
(* workers, no snapshots and no conflicts: the stored checkpoint evolves   *)
(* as if every operation read and wrote it in one indivisible step.        *)
(*                                                                         *)
(*   Intend   a tool call is entered as started before it runs,            *)
(*   Settle   the outcome of a started call is entered over its own intent,*)
(*   Recover  recovery moves its record along the legal transitions,       *)
(*   Complete the run ends.                                                *)
(*                                                                         *)
(* DurableExecution, where these are load / await / compare-and-swap       *)
(* sequences of concurrent workers, implements this specification.         *)
(***************************************************************************)
EXTENDS Checkpoint

VARIABLE journal

Init == journal = InitialCheckpoint

\* A write replaces the current checkpoint and takes the next version.
Write(b, c, o) ==
  journal' = [WithRecord(journal, b, c, o) EXCEPT !.version = @ + 1]

Intend(c) ==
  /\ journal.boundary \notin {"reconciling_tool", "completed"}
  /\ OutcomeOf(journal.execs, c) \notin {"started", "unknown", "executed"}
  /\ Write("ready_for_tool", c, "started")

Settle(c) ==
  /\ OutcomeOf(journal.execs, c) = "started"
  /\ journal.boundary = "ready_for_tool"
  /\ \/ \E o \in {"executed", "cancelled_before_execution", "failed"} :
          Write("ready_for_next_step", c, o)
     \/ Write("waiting_approval", c, "never_executed")
     \/ SideEffect[c] = "external_side_effect" /\ Write("reconciling_tool", c, "unknown")

(***************************************************************************)
(* The legal transitions of a recovery.  An uncertain call is declared     *)
(* never executed only if a reconciler can vouch for it or the call has no *)
(* side effect; a confirmed failure only if the call is safe to retry.     *)
(***************************************************************************)
Recover(c) ==
  /\ journal.boundary # "completed"
  /\ HasRecoveryRecord(journal) /\ RecoveryRecord(journal).call = c
  /\ LET o == RecoveryRecord(journal).outcome
     IN \/ /\ o = "executed" \/ (o \in {"started", "unknown"} /\ c \in CanReconcile)
           /\ Write("ready_for_next_step", c, "executed")
        \/ /\ \/ o \in {"never_executed", "failed"} /\ c \in RetrySafe
              \/ o \in {"started", "unknown"}
                 /\ (c \in CanReconcile \/ SideEffect[c] = "none")
           /\ Write("ready_for_tool", c, "never_executed")
        \/ /\ o # "executed"
           /\ \E s \in {o, "unknown"} :
                /\ s # o => o = "started"
                /\ Write("reconciling_tool", c, s)

Complete ==
  /\ journal.boundary = "ready_for_next_step"
  /\ journal' = [journal EXCEPT !.boundary = "completed", !.version = @ + 1]

Next == Complete \/ \E c \in Calls : Intend(c) \/ Settle(c) \/ Recover(c)

Spec == Init /\ [][Next]_journal
=============================================================================
