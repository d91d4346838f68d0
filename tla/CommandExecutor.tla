---------------------------- MODULE CommandExecutor ----------------------------
(***************************************************************************)
(* DurableRecoveryCommandExecutor.executeOnce over a command store         *)
(* (recovery-command-store.ts): the first executor of recovery commands,   *)
(* which the orchestrator of RecoveryCommands was built after.  Unlike     *)
(* that one it takes up a command that somebody else has accepted and not  *)
(* started.  The store is the SQLite one (asLegacyCommandStore in          *)
(* sqlite-recovery-finalization.ts), which processes share: every await is *)
(* a place where other calls act, and a process may die at any of them.    *)
(* (The in-memory store has one process, where whoever inserts a command   *)
(* also reads it before anybody else has started it.)                      *)
(***************************************************************************)
EXTENDS Naturals

CONSTANTS
  Commands,  \* command ids
  Calls      \* callers of executeOnce(), each with one call at a time

VARIABLES
  records,  \* the store: status and version of each command
  call,     \* per call: pc, command, whether it has inserted it, its copy, its answer
  handled,  \* history: how often the command's handler was called
  settled,  \* history: how the handler has ended
  widowed   \* history: commands whose executing call has died

vars == <<records, call, handled, settled, widowed>>

Statuses == {"absent", "accepted", "executing", "succeeded", "failed"}
NoRecord == [status |-> "absent", version |-> 0]
Rest(answer) == [pc |-> "idle", cmd |-> CHOOSE c \in Commands : TRUE, inserted |-> FALSE,
                 copy |-> NoRecord, answer |-> answer]

TypeOK ==
  LET Records == [status : Statuses, version : 0..3]
  IN /\ records \in [Commands -> Records]
     /\ call \in [Calls -> [pc : {"idle", "insert", "require", "claim", "reload", "handle", "end"},
                            cmd : Commands, inserted : BOOLEAN, copy : Records,
                            answer : Statuses \union {"threw"}]]
     /\ handled \in [Commands -> Nat]
     /\ settled \in [Commands -> {"no", "returned", "threw"}]
     /\ widowed \subseteq Commands

Init ==
  /\ records = [c \in Commands |-> NoRecord]
  /\ call = [x \in Calls |-> Rest("absent")]
  /\ handled = [c \in Commands |-> 0]
  /\ settled = [c \in Commands |-> "no"]
  /\ widowed = {}

-----------------------------------------------------------------------------
(* The store.                                                              *)

Insert(c) == records' = [records EXCEPT ![c] = [status |-> "accepted", version |-> 1]]
Fits(c, copy) == records[c].version = copy.version

\* Mutant: versions alone decide, as in InMemoryRecoveryCommandStore.
TransitionAny(from, to) == <<from, to>> # <<"absent", "accepted">>

\* updateLegacyCommandIfVersion() knows two transitions and throws at any other.
Transition(from, to) ==
  \/ from = "accepted" /\ to = "executing"
  \/ from = "executing" /\ to \in {"succeeded", "failed"}

Moved(copy, status) == [status |-> status, version |-> copy.version + 1]

-----------------------------------------------------------------------------
(* executeOnce().                                                          *)

Begin(x, c) ==
  /\ call[x].pc = "idle"
  /\ call' = [call EXCEPT ![x] = [Rest("absent") EXCEPT !.pc = "insert", !.cmd = c]]
  /\ UNCHANGED <<records, handled, settled, widowed>>

InsertIfAbsent(x) ==
  LET c == call[x].cmd
      absent == records[c].status = "absent"
  IN /\ call[x].pc = "insert"
     /\ IF absent THEN Insert(c) ELSE UNCHANGED records
     /\ call' = [call EXCEPT ![x].pc = "require", ![x].inserted = absent]
     /\ UNCHANGED <<handled, settled, widowed>>

\* What another call has started or ended is the answer; what it has merely accepted
\* is executed here.
Require(x) ==
  LET record == records[call[x].cmd]
  IN /\ call[x].pc = "require"
     /\ call' = [call EXCEPT ![x] =
          IF ~@.inserted /\ record.status # "accepted" THEN Rest(record.status)
          ELSE [@ EXCEPT !.pc = "claim", !.copy = record]]
     /\ UNCHANGED <<records, handled, settled, widowed>>

\* The loser of the compare-and-swap answers with what is stored by then.  Whoever has
\* inserted a command and then reads it as executing, because another call was faster,
\* goes on as well, and only the store stops it.
Claim(x) ==
  LET c == call[x].cmd
      copy == call[x].copy
  IN /\ call[x].pc = "claim"
     /\ \/ /\ Fits(c, copy) /\ Transition(copy.status, "executing")
           /\ records' = [records EXCEPT ![c] = Moved(copy, "executing")]
           /\ call' = [call EXCEPT ![x].pc = "handle", ![x].copy = Moved(copy, "executing")]
        \/ /\ Fits(c, copy) /\ ~Transition(copy.status, "executing")
           /\ call' = [call EXCEPT ![x] = Rest("threw")]
           /\ UNCHANGED records
        \/ /\ ~Fits(c, copy)
           /\ call' = [call EXCEPT ![x].pc = "reload"]
           /\ UNCHANGED records
     /\ UNCHANGED <<handled, settled, widowed>>

Reload(x) ==
  /\ call[x].pc = "reload"
  /\ call' = [call EXCEPT ![x] = Rest(records[@.cmd].status)]
  /\ UNCHANGED <<records, handled, settled, widowed>>

Handle(x) ==
  LET c == call[x].cmd
  IN /\ call[x].pc = "handle"
     /\ handled' = [handled EXCEPT ![c] = @ + 1]
     /\ \E outcome \in {"returned", "threw"} : settled' = [settled EXCEPT ![c] = outcome]
     /\ call' = [call EXCEPT ![x].pc = "end"]
     /\ UNCHANGED <<records, widowed>>

\* succeeded and the record, or failed and the handler's error.
End(x) ==
  LET c == call[x].cmd
      copy == call[x].copy
      status == IF settled[c] = "returned" THEN "succeeded" ELSE "failed"
  IN /\ call[x].pc = "end"
     /\ records' = IF Fits(c, copy) /\ Transition(copy.status, status)
                   THEN [records EXCEPT ![c] = Moved(copy, status)] ELSE records
     /\ call' = [call EXCEPT ![x] =
          Rest(IF status = "failed" \/ ~Fits(c, copy) THEN "threw" ELSE status)]
     /\ UNCHANGED <<handled, settled, widowed>>

\* The process dies, or the store fails: the record stays as it is.
Die(x) ==
  /\ call[x].pc # "idle"
  /\ widowed' = IF call[x].pc \in {"handle", "end"} THEN widowed \union {call[x].cmd} ELSE widowed
  /\ call' = [call EXCEPT ![x] = Rest("absent")]
  /\ UNCHANGED <<records, handled, settled>>

Step(x) ==
  \/ InsertIfAbsent(x) \/ Require(x) \/ Claim(x) \/ Reload(x) \/ Handle(x) \/ End(x)

Next ==
  \E x \in Calls : Step(x) \/ Die(x) \/ (\E c \in Commands : Begin(x, c))

Spec == Init /\ [][Next]_vars

-----------------------------------------------------------------------------
(* Properties.                                                             *)

\* However many calls race for a command, repeat it or die on it, its handler is called
\* at most once; a record is succeeded or failed as the handler has ended; it is left
\* executing only by a call that works on it or has died; and nobody is told of a command
\* that is merely accepted, as nobody would ever run it.
HandledOnce ==
  /\ \A c \in Commands :
       /\ handled[c] <= 1
       /\ records[c].status = "succeeded" => settled[c] = "returned"
       /\ records[c].status = "failed" => settled[c] = "threw"
       /\ records[c].status = "executing" =>
            c \in widowed \/ \E x \in Calls : call[x].cmd = c /\ call[x].pc \in {"handle", "end"}
  /\ \A x \in Calls : call[x].answer # "accepted"
=============================================================================
