-------------------------- MODULE RecoveryCommands --------------------------
(***************************************************************************)
(* Human recovery of one run: DurableRecoveryOperationOrchestrator over a  *)
(* command store (durable-recovery-operation-orchestrator.ts,              *)
(* recovery-command-store.ts) and RecoveryOperationService over the run's  *)
(* control state (recovery-operations.ts).                                 *)
(*                                                                         *)
(* A delivery is one invocation of execute(): a request may be submitted   *)
(* again under the same commandId, concurrently, or with other contents.   *)
(* Each await of the code is a place where other deliveries and the run's  *)
(* own worker act.  CheckpointRecoveryCoordinator is modelled in           *)
(* DurableExecution; here recover() is its effect on the version: one      *)
(* committed save, none, or an error.  retry_recovery and reconcile_again  *)
(* are the same operation "recover", since the code never tells them apart.*)
(***************************************************************************)
EXTENDS Naturals, Sequences, FiniteSets

CONSTANTS
  Commands,       \* command ids
  Deliveries,     \* invocations of execute()
  Operations,     \* the operations operators use
  Permitted,      \* those the authorizer allows them
  MaxCheckpoint,  \* bound on checkpoint versions
  Crashes         \* whether deliveries may crash

AllOperations == {"recover", "quarantine", "release_quarantine", "resume", "dead_letter"}

ASSUME CommandAssumption ==
  /\ Operations \subseteq AllOperations
  /\ Permitted \subseteq AllOperations
  /\ Commands # {}
  /\ MaxCheckpoint \in Nat \ {0}
  /\ Crashes \in BOOLEAN

VARIABLES
  checkpoint,  \* store: version, and whether its boundary is completed
  control,     \* store: version and operational status
  commands,    \* store: the record of each command id
  dlv,         \* per delivery: pc, request, the versions it has read, its result
  runs,        \* history: per command, how often the operation was started
  authors,     \* history: the command behind each version of the control state
  recovered,   \* history: [cmd, version] of every checkpoint recover() replaced
  abandoned    \* history: commands whose delivery has died on them

vars == <<checkpoint, control, commands, dlv, runs, authors, recovered, abandoned>>
stores == <<checkpoint, control, commands>>
history == <<runs, authors, recovered, abandoned>>

ControlStates == [version : Nat, status : {"active", "quarantined", "dead_lettered"}]
Requests == [op : AllOperations, cp : Nat, ctl : Nat]
Outcomes == {"none", "executed", "rejected", "quarantined", "released",
             "dead_lettered", "no_op", "failed"}
Terminal == {"succeeded", "rejected", "failed"}

NoRequest == [op |-> "recover", cp |-> 0, ctl |-> 0]
Blank(pc) == [pc |-> pc, cmd |-> CHOOSE c \in Commands : TRUE, request |-> NoRequest,
              cp |-> [version |-> 0, completed |-> FALSE],
              ctl |-> [version |-> 0, status |-> "active"], result |-> "none"]
NoRecord == [status |-> "absent", version |-> 0, request |-> NoRequest,
             result |-> "none", ctl |-> 0]

TypeOK ==
  /\ checkpoint \in [version : 0..MaxCheckpoint, completed : BOOLEAN]
  /\ control \in ControlStates
  /\ commands \in [Commands ->
       [status : {"absent", "accepted", "executing"} \union Terminal, version : 0..3,
        request : Requests, result : Outcomes, ctl : Nat]]
  /\ dlv \in [Deliveries ->
       [pc : {"idle", "insert", "claim", "read", "control", "decide", "recover",
              "audit", "finish", "done"},
        cmd : Commands, request : Requests, cp : [version : Nat, completed : BOOLEAN],
        ctl : ControlStates, result : Outcomes]]
  /\ runs \in [Commands -> Nat]
  /\ authors \in Seq(Commands)
  /\ recovered \subseteq [cmd : Commands, version : Nat]
  /\ abandoned \subseteq Commands

Init ==
  /\ checkpoint = [version |-> 1, completed |-> FALSE]
  /\ control = [version |-> 0, status |-> "active"]
  /\ commands = [c \in Commands |-> NoRecord]
  /\ dlv = [d \in Deliveries |-> Blank("idle")]
  /\ runs = [c \in Commands |-> 0]
  /\ authors = << >>
  /\ recovered = {} /\ abandoned = {}

\* A delivery is over: nothing of it is used any more.
Return(d) == dlv' = [dlv EXCEPT ![d] = Blank("done")]
Goto(d, pc) == dlv' = [dlv EXCEPT ![d].pc = pc]
Result(d, pc, result) == dlv' = [dlv EXCEPT ![d].pc = pc, ![d].result = result]

-----------------------------------------------------------------------------
(* The command store.                                                      *)

\* updateIfVersion succeeds.
Updates(c, expected) == commands[c].version = expected

Update(c, status, result, ctl) ==
  commands' = [commands EXCEPT ![c] = [@ EXCEPT
                 !.status = status, !.version = commands[c].version + 1,
                 !.result = result, !.ctl = ctl]]

\* Mutant: a failed command is executed again.
AcceptsNewAfterFailure(c) == commands[c].status \in {"absent", "failed"}

\* decideDurableRecoveryOperation: anything already recorded is replayed (terminal),
\* reported (in flight) or refused (another request), never executed.
AcceptsNew(c) == commands[c].status = "absent"

-----------------------------------------------------------------------------
(* DurableRecoveryOperationOrchestrator.                                   *)

\* execute() loads the command.  The operator's expectations are versions that
\* some page has shown.
Submit(d, c) ==
  /\ dlv[d].pc = "idle"
  /\ IF AcceptsNew(c)
     THEN \E op \in Operations, cp \in 1..checkpoint.version, ctl \in 0..control.version :
            dlv' = [dlv EXCEPT ![d] =
              [@ EXCEPT !.pc = "insert", !.cmd = c,
                        !.request = [op |-> op, cp |-> cp, ctl |-> ctl]]]
     ELSE Return(d)
  /\ UNCHANGED <<stores, history>>

\* Mutant: the insertion trusts the load that came before it.
InsertUnchecked(d) ==
  /\ dlv[d].pc = "insert"
  /\ commands' = [commands EXCEPT ![dlv[d].cmd] =
       [status |-> "accepted", version |-> 1, request |-> dlv[d].request,
        result |-> "none", ctl |-> 0]]
  /\ Goto(d, "claim")
  /\ UNCHANGED <<checkpoint, control, history>>

\* insertIfAbsent; the loser routes by what the winner has recorded.
Insert(d) ==
  LET c == dlv[d].cmd
  IN /\ dlv[d].pc = "insert"
     /\ IF AcceptsNew(c)
        THEN /\ commands' = [commands EXCEPT ![c] =
                  [status |-> "accepted", version |-> 1, request |-> dlv[d].request,
                   result |-> "none", ctl |-> 0]]
             /\ Goto(d, "claim")
        ELSE Return(d) /\ UNCHANGED commands
     /\ UNCHANGED <<checkpoint, control, history>>

\* The record moves to executing, and the operation is started.
Claim(d) ==
  LET c == dlv[d].cmd
  IN /\ dlv[d].pc = "claim"
     /\ IF Updates(c, 1)
        THEN /\ Update(c, "executing", "none", 0)
             /\ runs' = [runs EXCEPT ![c] = @ + 1]
             /\ Goto(d, "read")
        ELSE Return(d) /\ UNCHANGED <<commands, runs>>
     /\ UNCHANGED <<checkpoint, control, authors, recovered, abandoned>>

\* Mutant: an operation that throws leaves its record as it is.
FinishUnlessFailed(d) ==
  /\ dlv[d].pc = "finish"
  /\ IF dlv[d].result # "failed" /\ Updates(dlv[d].cmd, 2)
     THEN Update(dlv[d].cmd, "succeeded", dlv[d].result, dlv[d].ctl.version)
     ELSE UNCHANGED commands
  /\ Return(d)
  /\ UNCHANGED <<checkpoint, control, history>>

\* The operation's result, or its error, becomes the record's terminal status.
Finish(d) ==
  LET c == dlv[d].cmd
      result == dlv[d].result
      status == CASE result \in {"rejected", "failed"} -> result
                  [] OTHER -> "succeeded"
  IN /\ dlv[d].pc = "finish"
     /\ IF Updates(c, 2)
        THEN Update(c, status, result, dlv[d].ctl.version)
        ELSE UNCHANGED commands
     /\ Return(d)
     /\ UNCHANGED <<checkpoint, control, history>>

-----------------------------------------------------------------------------
(* RecoveryOperationService.execute.                                       *)

\* requireCheckpoint.
ReadCheckpoint(d) ==
  /\ dlv[d].pc = "read"
  /\ dlv' = [dlv EXCEPT ![d].pc = "control", ![d].cp = checkpoint]
  /\ UNCHANGED <<stores, history>>

\* loadControlState.
ReadControl(d) ==
  /\ dlv[d].pc = "control"
  /\ dlv' = [dlv EXCEPT ![d].pc = "decide", ![d].ctl = control]
  /\ UNCHANGED <<stores, history>>

\* StaticRecoveryOperationAuthorizer.
Authorizes(op) == op \in Permitted

\* The refusals, in the code's order; all of them go by what was read before.
Verdict(request, cp, ctl) ==
  IF ~Authorizes(request.op) \/ cp.version # request.cp \/ ctl.version # request.ctl
  THEN "rejected"
  ELSE IF cp.completed THEN "no_op"
  ELSE IF ctl.status = "dead_lettered" THEN "rejected"
  ELSE IF request.op = "quarantine" /\ ctl.status = "quarantined" THEN "no_op"
  ELSE IF \/ request.op \in {"release_quarantine", "resume"} /\ ctl.status # "quarantined"
          \/ request.op = "recover" /\ ctl.status = "quarantined"
  THEN "rejected"
  ELSE "proceed"

\* What an operation that proceeds makes of the control state and of itself.
NextStatus(op) ==
  CASE op = "quarantine" -> "quarantined"
    [] op \in {"release_quarantine", "resume"} -> "active"
    [] op = "dead_letter" -> "dead_lettered"
    [] OTHER -> "unchanged"

Outcome(op) ==
  CASE op = "release_quarantine" -> "released"
    [] op \in {"resume", "recover"} -> "executed"
    [] OTHER -> NextStatus(op)

\* save() finds the control version the operation has read.
ControlUnchanged(ctl) == ctl.version = control.version

SaveControl(status) == control' = [version |-> control.version + 1, status |-> status]

\* Decide, and write the control state when the operation has one to write.  A
\* version conflict there is an error; resume and recover go on to recover().
Decide(d) ==
  LET request == dlv[d].request
      verdict == Verdict(request, dlv[d].cp, dlv[d].ctl)
  IN /\ dlv[d].pc = "decide"
     /\ \/ /\ verdict # "proceed"
           /\ Result(d, "audit", verdict)
           /\ UNCHANGED <<control, authors>>
        \/ /\ verdict = "proceed" /\ request.op = "recover"
           /\ Result(d, "recover", "executed")
           /\ UNCHANGED <<control, authors>>
        \/ /\ verdict = "proceed" /\ request.op # "recover"
           /\ ~ControlUnchanged(dlv[d].ctl)
           /\ Result(d, "finish", "failed")
           /\ UNCHANGED <<control, authors>>
        \/ /\ verdict = "proceed" /\ request.op # "recover"
           /\ ControlUnchanged(dlv[d].ctl)
           /\ SaveControl(NextStatus(request.op))
           /\ authors' = Append(authors, dlv[d].cmd)
           /\ dlv' = [dlv EXCEPT ![d] =
                [@ EXCEPT !.pc = IF request.op = "resume" THEN "recover" ELSE "audit",
                          !.ctl = control', !.result = Outcome(request.op)]]
     /\ UNCHANGED <<checkpoint, commands, runs, recovered, abandoned>>

\* coordinator.recover(): loads whatever checkpoint is current by now.
Recover(d) ==
  /\ dlv[d].pc = "recover"
  /\ \/ /\ ~checkpoint.completed /\ checkpoint.version < MaxCheckpoint
        /\ checkpoint' = [checkpoint EXCEPT !.version = @ + 1]
        /\ recovered' = recovered \union {[cmd |-> dlv[d].cmd, version |-> checkpoint.version]}
        /\ Goto(d, "audit")
     \/ Goto(d, "audit") /\ UNCHANGED <<checkpoint, recovered>>
     \/ Result(d, "audit", "failed") /\ UNCHANGED <<checkpoint, recovered>>
  /\ UNCHANGED <<control, commands, runs, authors, abandoned>>

\* Mutant: a failed audit write goes unnoticed, and so does a failed recovery.
AuditForgiving(d) ==
  /\ dlv[d].pc = "audit"
  /\ Result(d, "finish", IF dlv[d].result = "failed" THEN "quarantined" ELSE dlv[d].result)
  /\ UNCHANGED <<stores, history>>

\* The audit write; when it fails, its error is the operation's.
Audit(d) ==
  /\ dlv[d].pc = "audit"
  /\ \E result \in {dlv[d].result, "failed"} : Result(d, "finish", result)
  /\ UNCHANGED <<stores, history>>

-----------------------------------------------------------------------------
(* Environment.                                                            *)

\* The run's own worker saves a checkpoint, perhaps its last.
WorkerSaves ==
  /\ ~checkpoint.completed /\ checkpoint.version < MaxCheckpoint
  /\ \E completed \in BOOLEAN :
       checkpoint' = [version |-> checkpoint.version + 1, completed |-> completed]
  /\ UNCHANGED <<control, commands, dlv, history>>

\* The process of a delivery dies; the stores survive.
Crash(d) ==
  /\ Crashes /\ dlv[d].pc \notin {"idle", "done"}
  /\ Return(d)
  /\ abandoned' = IF dlv[d].pc = "insert" THEN abandoned
                  ELSE abandoned \union {dlv[d].cmd}
  /\ UNCHANGED <<stores, runs, authors, recovered>>

Step(d) ==
  \/ Insert(d) \/ Claim(d) \/ ReadCheckpoint(d) \/ ReadControl(d) \/ Decide(d)
  \/ Recover(d) \/ Audit(d) \/ Finish(d)

Next ==
  \/ \E d \in Deliveries, c \in Commands : Submit(d, c)
  \/ \E d \in Deliveries : Step(d) \/ Crash(d)
  \/ WorkerSaves

Spec == Init /\ [][Next]_vars

\* Every await of a delivery settles.
FairSpec == Spec /\ \A d \in Deliveries : WF_vars(Step(d))

-----------------------------------------------------------------------------
(* Properties.                                                             *)

\* day45, day47: the operation of a commandId is started at most once, however
\* often it is submitted, concurrently or again after a crash.
StartedOnce == \A c \in Commands : runs[c] <= 1

\* No control update is lost and none is repeated: every version of the control
\* state is the work of one command, and no command has made two; and "dead_lettered
\* is terminal" (day44-recovery-lifecycle.md), also against every operation that had
\* read the control state before.
OneAuthorPerVersion ==
  /\ [](/\ Len(authors) = control.version
        /\ \A i, j \in DOMAIN authors : authors[i] = authors[j] => i = j)
  /\ [][control.status = "dead_lettered" => control' = control]_vars

\* A terminal command tells the truth: a success that claims a new control state
\* has written the very version it reports, a rejection or no-op has written nothing.
\* (A failure may have: a control write precedes its audit and its recovery.)
TerminalTellsTruth ==
  /\ TypeOK
  /\ \A c \in Commands :
       LET record == commands[c]
       IN /\ record.result \in {"quarantined", "released", "dead_lettered"} =>
               record.ctl \in DOMAIN authors /\ authors[record.ctl] = c
          /\ record.result \in {"rejected", "no_op"} =>
               /\ \A i \in DOMAIN authors : authors[i] # c
               /\ \A r \in recovered : r.cmd # c

\* Every accepted command reaches a terminal status, unless the delivery that has
\* accepted it dies: conflicts, refusals, failing audits and failing recoveries
\* never leave a command executing.
CommandsTerminate ==
  \A c \in Commands :
    commands[c].status # "absent" ~> commands[c].status \in Terminal \/ c \in abandoned

\* day44-recovery-operation-service.md: "A stale operator page must not silently
\* mutate a newer Run": a command's recovery only replaces the checkpoint version
\* the operator has seen.
StalePageNeverMutates ==
  \A r \in recovered : r.version = commands[r.cmd].request.cp
=============================================================================
