----------------------------- MODULE Checkpoint -----------------------------
(***************************************************************************)
(* The durable checkpoint of one agent run and the pure functions that     *)
(* decide what recovery does with it: checkpoint.ts, recovery-planner.ts,  *)
(* recovery-runtime.ts and recovery-preparation.ts.                        *)
(*                                                                         *)
(* A checkpoint is [version, boundary, execs].  The run id, the step       *)
(* number and the timestamps carry no decision and are left out.  A tool   *)
(* execution record is [call, outcome]; the tool's policy, which the code  *)
(* copies into the record (sideEffect, retrySafe), is constant per call,   *)
(* and every record the executor writes has an idempotency key.            *)
(***************************************************************************)
EXTENDS Naturals, Sequences

CONSTANTS
  Calls,          \* tool calls of the run, named by toolCallId
  SideEffect,     \* [Calls -> {"none","internal_write","external_side_effect"}]
  RetrySafe,      \* the calls whose policy has retrySafe
  CanReconcile    \* the calls whose tool has a registered reconciler

SideEffects == {"none", "internal_write", "external_side_effect"}

ASSUME PolicyAssumption ==
  /\ SideEffect \in [Calls -> SideEffects]
  /\ RetrySafe \subseteq Calls
  /\ CanReconcile \subseteq Calls

Outcomes == {"never_executed", "started", "executed", "failed", "unknown",
             "cancelled_before_execution"}

Boundaries == {"ready_for_llm", "ready_for_tool", "waiting_approval",
               "reconciling_tool", "ready_for_next_step", "completed"}

Records == [call : Calls, outcome : Outcomes]

Checkpoints == [version : Nat, boundary : Boundaries, execs : Seq(Records)]

\* createInitialCheckpoint: what a run without a stored checkpoint starts from.
InitialCheckpoint ==
  [version |-> 0, boundary |-> "ready_for_llm", execs |-> << >>]

Recorded(execs) == {execs[i].call : i \in DOMAIN execs}

\* The outcome recorded for call c, "absent" when the journal has none.
OutcomeOf(execs, c) ==
  IF c \in Recorded(execs)
  THEN execs[CHOOSE i \in DOMAIN execs : execs[i].call = c].outcome
  ELSE "absent"

\* upsertToolExecution: replace the record of this call in place, or append it.
Upsert(execs, c, o) ==
  IF c \in Recorded(execs)
  THEN [i \in DOMAIN execs |->
          IF execs[i].call = c THEN [call |-> c, outcome |-> o] ELSE execs[i]]
  ELSE Append(execs, [call |-> c, outcome |-> o])

\* A copy of checkpoint k with a new boundary and one upserted record.
WithRecord(k, b, c, o) ==
  [k EXCEPT !.boundary = b, !.execs = Upsert(k.execs, c, o)]

(***************************************************************************)
(* recovery-preparation.ts: the record recovery works on is the last one   *)
(* whose outcome is not cancelled_before_execution.                        *)
(***************************************************************************)
Recoverable(execs) ==
  {i \in DOMAIN execs : execs[i].outcome # "cancelled_before_execution"}

HasRecoveryRecord(k) == Recoverable(k.execs) # {}

RecoveryRecord(k) ==
  k.execs[CHOOSE i \in Recoverable(k.execs) :
            \A j \in Recoverable(k.execs) : j <= i]

\* Mutant: an interrupted call is replayed without asking the reconciler.
PlanBlindReplay(c, outcome) == IF outcome = "executed" THEN "skip" ELSE "retry"

(***************************************************************************)
(* recovery-planner.ts.  Every record has an idempotency key, so a call    *)
(* can be reconciled exactly when its tool has a reconciler.               *)
(***************************************************************************)
PlanRecovery(c, outcome) ==
  CASE outcome = "executed" -> "skip"
    [] outcome \in {"never_executed", "cancelled_before_execution", "failed"} ->
         IF c \in RetrySafe THEN "retry" ELSE "suspend"
    [] outcome \in {"started", "unknown"} ->
         IF SideEffect[c] = "none" /\ c \in RetrySafe THEN "retry"
         ELSE IF c \in CanReconcile THEN "reconcile"
         ELSE "suspend"

Answers == {"executed", "never_executed", "unknown"}

\* Mutant: any answer of the reconciler counts as a confirmation.
ResolutionTrusting(c, outcome, resolved) ==
  IF resolved # "none" \/ outcome = "executed"
  THEN [status |-> "advanced", boundary |-> "ready_for_next_step", outcome |-> "executed"]
  ELSE [status |-> "suspended", boundary |-> "reconciling_tool", outcome |-> outcome]

(***************************************************************************)
(* applyResolution.  "resolved" is the reconciler's answer, or "none" when *)
(* the plan needed no reconciliation.  The order of the three branches is  *)
(* the code's: an answer never_executed takes the retry branch whatever    *)
(* the follow-up plan says.                                                *)
(***************************************************************************)
Resolution(c, outcome, resolved) ==
  LET plan == PlanRecovery(c, outcome)
  IN CASE resolved = "executed" \/ plan = "skip" ->
            [status |-> "advanced", boundary |-> "ready_for_next_step",
             outcome |-> "executed"]
       [] resolved = "never_executed" \/ plan = "retry" ->
            [status |-> "retry_required", boundary |-> "ready_for_tool",
             outcome |-> "never_executed"]
       [] OTHER ->
            [status |-> "suspended", boundary |-> "reconciling_tool",
             outcome |-> IF resolved = "unknown" THEN "unknown" ELSE outcome]

\* The checkpoint recovery wants to write.
Resolved(k, resolved) ==
  LET r == RecoveryRecord(k)
      s == Resolution(r.call, r.outcome, resolved)
  IN WithRecord(k, s.boundary, r.call, s.outcome)

\* shouldPersist: only when the outcome or the boundary changes.
ShouldPersist(k, resolved) ==
  LET r == RecoveryRecord(k)
      s == Resolution(r.call, r.outcome, resolved)
  IN s.outcome # r.outcome \/ s.boundary # k.boundary
=============================================================================
