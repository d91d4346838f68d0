-------------------------- MODULE OutboxDispatcher --------------------------
(***************************************************************************)
(* The legacy outbox of one process (recovery-outbox.ts): the in-memory    *)
(* store and RecoveryOutboxDispatcher.dispatchPending, of which several    *)
(* passes may be under way at once.                                        *)
(*                                                                         *)
(* markAttempt and markDispatched take a copy of the record in an awaited  *)
(* require(), compare the version of that copy, and then write a successor *)
(* of it: the compare-and-swap is two steps here because it is two in the  *)
(* code.  (The window is one microtask; the model lets others take any     *)
(* number of steps in it.)  The records die with their process.            *)
(***************************************************************************)
EXTENDS Naturals, FiniteSets

CONSTANTS
  Events,       \* records that may be enqueued
  Dispatchers,  \* passes of dispatchPending that may overlap
  MaxAttempts   \* bound on the attempts counted for a record

VARIABLES
  record,     \* the store: the record of each event
  pass,       \* per dispatcher: its pc, the listed copies left, the copy in hand
  called,     \* external: how often the publisher was called for the event (to the bound)
  received,   \* external: the events whose publication it has confirmed
  overlapped  \* history: events that two passes had in hand at once

vars == <<record, pass, called, received, overlapped>>

Records == [status : {"absent", "pending", "dispatched"}, attempts : Nat, version : Nat]
NoRecord == [status |-> "absent", attempts |-> 0, version |-> 0]
Copies == [event : Events, copy : Records]
NoCopy == [event |-> CHOOSE e \in Events : TRUE, copy |-> NoRecord]
Resting == [pc |-> "idle", todo |-> {}, item |-> NoCopy]

TypeOK ==
  /\ record \in [Events -> Records]
  /\ pass \in [Dispatchers ->
       [pc : {"idle", "next", "attempt", "publish", "confirm", "mark"},
        todo : SUBSET Copies, item : Copies]]
  /\ called \in [Events -> 0..MaxAttempts]
  /\ received \subseteq Events
  /\ overlapped \subseteq Events

Init ==
  /\ record = [e \in Events |-> NoRecord]
  /\ pass = [d \in Dispatchers |-> Resting]
  /\ called = [e \in Events |-> 0]
  /\ received = {}
  /\ overlapped = {}

-----------------------------------------------------------------------------
(* InMemoryRecoveryOutboxStore.                                            *)

\* enqueueIfAbsent.
Enqueue(e) ==
  /\ record[e].status = "absent"
  /\ record' = [record EXCEPT ![e] = [status |-> "pending", attempts |-> 0, version |-> 1]]
  /\ UNCHANGED <<pass, called, received, overlapped>>

\* The records listPending returns copies of.
Pending == {e \in Events : record[e].status = "pending"}

\* The copy require() takes of the record of x; NoRecord stands for the conflict
\* assertVersion then throws when it is not of the version expected.
Current(x) ==
  [event |-> x.event,
   copy |-> IF record[x.event].version = x.copy.version
            THEN record[x.event] ELSE NoRecord]

\* The successor of the copy a call of markAttempt or markDispatched has in hand.
Successor(copy, status, attempts) ==
  [status |-> status, attempts |-> attempts, version |-> copy.version + 1]

-----------------------------------------------------------------------------
(* RecoveryOutboxDispatcher.dispatchPending.                               *)

\* The events a pass may still write.
InHand(d) ==
  {x.event : x \in pass[d].todo} \union
  IF pass[d].pc \in {"idle", "next"} THEN {} ELSE {pass[d].item.event}

\* The rest of the pass once the record in hand is done with or has failed.
Rest(d) ==
  IF pass[d].todo = {} THEN Resting ELSE [pass[d] EXCEPT !.pc = "next", !.item = NoCopy]

Goto(d, pc, item) == pass' = [pass EXCEPT ![d].pc = pc, ![d].item = item]

\* listPending.
List(d) ==
  /\ pass[d].pc = "idle" /\ Pending # {}
  /\ pass' = [pass EXCEPT ![d] =
       [pc |-> "next", item |-> NoCopy,
        todo |-> {[event |-> e, copy |-> record[e]] : e \in Pending}]]
  /\ overlapped' = overlapped \union
       {e \in Pending : \E other \in Dispatchers \ {d} : e \in InHand(other)}
  /\ UNCHANGED <<record, called, received>>

\* The next record of the pass: markAttempt takes its copy, or finds a conflict.
TakeNext(d) ==
  /\ pass[d].pc = "next"
  /\ \E x \in pass[d].todo :
       LET left == [pass[d] EXCEPT !.todo = @ \ {x}]
       IN pass' = [pass EXCEPT ![d] =
            IF Current(x).copy # NoRecord
            THEN [left EXCEPT !.pc = "attempt", !.item = Current(x)]
            ELSE IF left.todo = {} THEN Resting ELSE left]
  /\ UNCHANGED <<record, called, received, overlapped>>

\* markAttempt writes.
MarkAttempt(d) ==
  LET item == pass[d].item
      next == Successor(item.copy, item.copy.status, item.copy.attempts + 1)
  IN /\ pass[d].pc = "attempt" /\ item.copy.attempts < MaxAttempts
     /\ record' = [record EXCEPT ![item.event] = next]
     /\ Goto(d, "publish", [item EXCEPT !.copy = next])
     /\ UNCHANGED <<called, received, overlapped>>

\* The publisher is called, and confirms or throws.
Publish(d, confirmed) ==
  LET e == pass[d].item.event
  IN /\ pass[d].pc = "publish" /\ called[e] < MaxAttempts
     /\ called' = [called EXCEPT ![e] = @ + 1]
     /\ IF confirmed
        THEN Goto(d, "confirm", pass[d].item) /\ received' = received \union {e}
        ELSE pass' = [pass EXCEPT ![d] = Rest(d)] /\ UNCHANGED received
     /\ UNCHANGED <<record, overlapped>>

\* markDispatched takes its copy, or finds a conflict.
Confirm(d) ==
  LET current == Current(pass[d].item)
  IN /\ pass[d].pc = "confirm"
     /\ IF current.copy # NoRecord THEN Goto(d, "mark", current)
        ELSE pass' = [pass EXCEPT ![d] = Rest(d)]
     /\ UNCHANGED <<record, called, received, overlapped>>

\* markDispatched writes.
MarkDispatched(d) ==
  LET item == pass[d].item
  IN /\ pass[d].pc = "mark"
     /\ record' = [record EXCEPT ![item.event] =
                     Successor(item.copy, "dispatched", item.copy.attempts)]
     /\ pass' = [pass EXCEPT ![d] = Rest(d)]
     /\ UNCHANGED <<called, received, overlapped>>

\* The process dies with its records and passes.
Restart ==
  /\ record' = [e \in Events |-> NoRecord]
  /\ pass' = [d \in Dispatchers |-> Resting]
  /\ called' = [e \in Events |-> 0]
  /\ received' = {} /\ overlapped' = {}

Step(d) ==
  \/ List(d) \/ TakeNext(d) \/ MarkAttempt(d) \/ Publish(d, TRUE) \/ Publish(d, FALSE)
  \/ Confirm(d) \/ MarkDispatched(d)

Next ==
  \/ \E d \in Dispatchers : Step(d)
  \/ \E e \in Events : Enqueue(e)
  \/ Restart

Spec == Init /\ [][Next]_vars

-----------------------------------------------------------------------------
(* Properties.                                                             *)

Publishing(e) ==
  {d \in Dispatchers : pass[d].pc = "publish" /\ pass[d].item.event = e}

\* However passes overlap and lose each other's updates, a dispatched record was
\* confirmed by the publisher, and no attempt is counted that was not made.
DispatchedWasReceived ==
  \A e \in Events :
    /\ record[e].status = "dispatched" => e \in received
    /\ record[e].attempts <= called[e] + Cardinality(Publishing(e))

\* Passes that do not overlap lose nothing: attempts counts the calls of the
\* publisher, and a record that was received is dispatched or about to be marked.
CountedWithoutOverlap ==
  \A e \in Events \ overlapped :
    /\ record[e].attempts = called[e] + Cardinality(Publishing(e))
    /\ e \in received =>
         \/ record[e].status = "dispatched"
         \/ \E d \in Dispatchers : pass[d].pc \in {"confirm", "mark"} /\ pass[d].item.event = e
=============================================================================
