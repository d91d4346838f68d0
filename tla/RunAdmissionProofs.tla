------------------------- MODULE RunAdmissionProofs -------------------------
(***************************************************************************)
(* What RunAdmission promises for any number of runs, finite or not, any   *)
(* number of slots and any length of the queue: no slot leaks, no waiter   *)
(* is lost, runs start in turn, draining lets none start, and the exit     *)
(* code tells what the host was told.                                      *)
(*                                                                         *)
(* The invariant relates four records of the same fact, which the code     *)
(* keeps apart: the phases of the runs, the counters, the queue and the    *)
(* state of the lifecycle.                                                 *)
(***************************************************************************)
EXTENDS RunAdmission, FiniteSetTheorems, FunctionTheorems, SequenceTheorems, TLAPS

-----------------------------------------------------------------------------
(* Sequences without repetition.                                           *)

Injective(s) == \A i, j \in 1..Len(s) : s[i] = s[j] => i = j

LEMMA RemoveAtIndex ==
  ASSUME NEW S, NEW s \in Seq(S), NEW i \in 1..Len(s)
  PROVE  /\ RemoveAt(s, i) \in Seq(S)
         /\ Len(RemoveAt(s, i)) = Len(s) - 1
         /\ \A k \in 1..(Len(s) - 1) :
              RemoveAt(s, i)[k] = IF k < i THEN s[k] ELSE s[k + 1]
<1>1. PICK n \in Nat : n = Len(s) /\ i \in 1..n
  BY LenProperties
<1>2. \A k \in 1..n : s[k] \in S
  BY <1>1, ElementOfSeq
<1>3. PICK a : a = SubSeq(s, 1, i - 1)
  OBVIOUS
<1>4. PICK b : b = SubSeq(s, i + 1, n)
  OBVIOUS
<1>5. a \in Seq(S) /\ Len(a) = i - 1 /\ \A k \in 1..(i - 1) : a[k] = s[k]
  BY <1>1, <1>2, <1>3, SubSeqProperties
<1>6. b \in Seq(S) /\ Len(b) = n - i /\ \A k \in 1..(n - i) : b[k] = s[i + k]
  BY <1>1, <1>2, <1>4, SubSeqProperties
<1>7. RemoveAt(s, i) = a \o b
  BY <1>1, <1>3, <1>4 DEF RemoveAt
<1>8. /\ a \o b \in Seq(S) /\ Len(a \o b) = n - 1
      /\ \A k \in 1..(n - 1) : (a \o b)[k] = IF k <= i - 1 THEN a[k] ELSE b[k - (i - 1)]
  <2>1. /\ a \o b \in Seq(S) /\ Len(a \o b) = Len(a) + Len(b)
        /\ \A k \in 1..(Len(a) + Len(b)) :
             (a \o b)[k] = IF k <= Len(a) THEN a[k] ELSE b[k - Len(a)]
    BY <1>5, <1>6, ConcatProperties
  <2>2. Len(a) = i - 1 /\ Len(a) + Len(b) = n - 1
    BY <1>1, <1>5, <1>6
  <2> QED
    BY <2>1, <2>2
<1>9. \A k \in 1..(n - 1) : (a \o b)[k] = IF k < i THEN s[k] ELSE s[k + 1]
  BY <1>1, <1>5, <1>6, <1>8
<1> QED
  BY <1>1, <1>7, <1>8, <1>9

\* RemoveFirst takes out the one place where the element is.
LEMMA RemoveFirstIndex ==
  ASSUME NEW S, NEW s \in Seq(S), Injective(s), NEW i \in 1..Len(s)
  PROVE  RemoveFirst(s, s[i]) = RemoveAt(s, i)
<1>1. PICK I : I = {j \in 1..Len(s) : s[j] = s[i]}
  OBVIOUS
<1>2. I = {i}
  BY <1>1 DEF Injective
<1>3. Min(I) = i
  BY <1>2, LenProperties DEF Min
<1>4. SelectInSeq(s, LAMBDA v : v = s[i]) = i
  BY <1>1, <1>2, <1>3 DEF SelectInSeq
<1> QED
  BY <1>4 DEF RemoveFirst

-----------------------------------------------------------------------------
(* The inductive invariant.                                                *)

\* The queue holds the queued runs, each once.
QueueHoldsQueued ==
  /\ Injective(queue)
  /\ \A r \in Runs : phase[r] = "queued" <=> \E i \in 1..Len(queue) : queue[i] = r

\* Nobody waits while a slot is free or the controller is closed.
NoIdleSlot == queue # << >> => accepting /\ active = MaxConcurrentRuns

\* The counters match the runs they stand for.
SlotsMatch == IsFiniteSet(Running) /\ active = Cardinality(Running)
RunsMatch == IsFiniteSet(Entered) /\ lifecycle.activeRuns = Cardinality(Entered)

\* The queue is in the order of arrival.
InOrder ==
  /\ \A i, j \in 1..Len(queue) : i < j => ticket[queue[i]] < ticket[queue[j]]
  /\ \A r \in Runs : ticket[r] <= tickets

\* A lifecycle that drains has closed the controller, a stopped one is empty, and the
\* shutdown sequence is over only then.
DrainClosed == lifecycle.state # "RUNNING" => ~accepting
StoppedIsEmpty == lifecycle.state = "STOPPED" => Entered = {}
ShutdownIsLast == shutdown = "stopped" => lifecycle.state = "STOPPED"

IInv ==
  /\ TypeOK /\ QueueHoldsQueued /\ NoIdleSlot /\ SlotsMatch /\ RunsMatch
  /\ InOrder /\ DrainClosed /\ StoppedIsEmpty /\ ShutdownIsLast /\ ExitCodeTells

-----------------------------------------------------------------------------
(* The parts of the model the actions share.                               *)

\* A run's phase decides whether it counts as running and as entered.
LEMMA Membership ==
  ASSUME NEW r \in Runs
  PROVE  /\ r \in Running <=> phase[r] = "running"
         /\ r \in Entered <=> phase[r] \in {"queued", "running", "leaving"}
BY DEF Running, Entered

LEMMA QueueTypes ==
  ASSUME IInv
  PROVE  /\ queue \in Seq(Runs) /\ Len(queue) \in Nat
         /\ Injective(queue)
         /\ \A i \in 1..Len(queue) : queue[i] \in Runs /\ phase[queue[i]] = "queued"
         /\ queue = << >> <=> Len(queue) = 0
<1>1. queue \in Seq(Runs)
  BY DEF IInv, TypeOK
<1>2. \A i \in 1..Len(queue) : queue[i] \in Runs
  BY <1>1, ElementOfSeq
<1> QED
  BY <1>1, <1>2, LenProperties, EmptySeq DEF IInv, QueueHoldsQueued

\* A step that moves no run in or out and leaves the queue alone keeps what the
\* invariant says of admission.
LEMMA AdmissionKeeps ==
  ASSUME IInv, UNCHANGED <<phase, active, queue, accepting, lifecycle, ticket, tickets>>,
         shutdown' = "stopped" => lifecycle.state = "STOPPED",
         TypeOK', ExitCodeTells'
  PROVE  IInv'
<1>1. Running' = Running /\ Entered' = Entered
  BY DEF Running, Entered
<1>2. QueueHoldsQueued' /\ NoIdleSlot' /\ InOrder'
  BY DEF IInv, QueueHoldsQueued, Injective, NoIdleSlot, InOrder
<1>3. SlotsMatch' /\ RunsMatch'
  BY <1>1 DEF IInv, SlotsMatch, RunsMatch
<1>4. DrainClosed' /\ StoppedIsEmpty' /\ ShutdownIsLast'
  BY <1>1 DEF IInv, DrainClosed, StoppedIsEmpty, ShutdownIsLast
<1> QED
  BY <1>2, <1>3, <1>4 DEF IInv

\* leaveLifecycle takes exactly one run out, and stops a drained runtime that is empty.
LEMMA LeaveEffect ==
  ASSUME IInv, NEW r \in Entered, Entered' = Entered \ {r}, LeaveLifecycle
  PROVE  /\ lifecycle' \in [state : {"RUNNING", "DRAINING", "STOPPED"}, activeRuns : Nat]
         /\ RunsMatch'
         /\ lifecycle'.state = "RUNNING" <=> lifecycle.state = "RUNNING"
         /\ lifecycle.state # "STOPPED"
         /\ StoppedIsEmpty'
<1>1. /\ IsFiniteSet(Entered \ {r})
      /\ Cardinality(Entered \ {r}) = Cardinality(Entered) - 1
      /\ Cardinality(Entered \ {r}) \in Nat
      /\ Cardinality(Entered \ {r}) = 0 => Entered \ {r} = {}
  BY FS_RemoveElement, FS_CardinalityType, FS_EmptySet DEF IInv, RunsMatch
<1>2. PICK n \in Nat : n = Cardinality(Entered \ {r}) /\ lifecycle.activeRuns - 1 = n
  BY <1>1 DEF IInv, RunsMatch
<1>3. PICK l : l = [lifecycle EXCEPT !.activeRuns = n]
  OBVIOUS
<1>4. /\ l \in [state : {"RUNNING", "DRAINING", "STOPPED"}, activeRuns : Nat]
      /\ l.state = lifecycle.state /\ l.activeRuns = n
  BY <1>3 DEF IInv, TypeOK
<1>5. lifecycle' = FinishDrainIfPossible(l)
  BY <1>2, <1>3 DEF LeaveLifecycle
<1>6. /\ lifecycle' \in [state : {"RUNNING", "DRAINING", "STOPPED"}, activeRuns : Nat]
      /\ lifecycle'.activeRuns = n
      /\ lifecycle'.state = IF l.state = "DRAINING" /\ n = 0 THEN "STOPPED" ELSE l.state
  BY <1>4, <1>5 DEF FinishDrainIfPossible
<1>7. lifecycle.state # "STOPPED"
  BY DEF IInv, StoppedIsEmpty
<1> QED
  BY <1>1, <1>2, <1>4, <1>6, <1>7 DEF RunsMatch, StoppedIsEmpty

\* close() answers every waiter: what was queued is leaving, all else stays.
LEMMA CloseEffect ==
  ASSUME IInv, Close
  PROVE  /\ phase' \in [Runs -> Phases] /\ ~accepting' /\ queue' = << >>
         /\ \A r \in Runs : phase'[r] = IF phase[r] = "queued" THEN "leaving" ELSE phase[r]
<1>1. \A r \in Runs : r \in ToSet(queue) <=> phase[r] = "queued"
  <2>1. DOMAIN queue = 1..Len(queue)
    BY QueueTypes, LenProperties
  <2> QED
    BY <2>1 DEF IInv, QueueHoldsQueued, ToSet
<1>2. phase \in [Runs -> Phases]
  BY DEF IInv, TypeOK
<1> QED
  BY <1>1, <1>2 DEF Close, Phases

\* beginDrain closes the controller and answers every waiter; no run enters or ends.
LEMMA DrainKeeps ==
  ASSUME IInv, BeginDrain, UNCHANGED <<active, host, ticket, tickets>>,
         shutdown' = shutdown \/ (shutdown = "closing" /\ shutdown' = "draining")
  PROVE  IInv' /\ Running' = Running /\ Entered' = Entered
         /\ (lifecycle.state = "STOPPED" => lifecycle'.state = "STOPPED")
<1>1. /\ phase' \in [Runs -> Phases] /\ accepting' = FALSE /\ queue' = << >>
      /\ Running' = Running /\ Entered' = Entered
      /\ \A r \in Runs : phase'[r] # "queued"
  <2>1. CASE accepting
    <3>1. /\ phase' \in [Runs -> Phases] /\ accepting' = FALSE /\ queue' = << >>
          /\ \A r \in Runs : phase'[r] = IF phase[r] = "queued" THEN "leaving" ELSE phase[r]
      <4>1. Close
        BY <2>1 DEF BeginDrain
      <4> QED
        BY <4>1, CloseEffect DEF Close
    <3>2. Running' = Running /\ Entered' = Entered
      BY <3>1 DEF Running, Entered
    <3> QED
      BY <3>1, <3>2
  <2>2. CASE ~accepting
    <3>1. UNCHANGED <<accepting, queue, phase>> /\ queue = << >> /\ Len(queue) = 0
      BY <2>2, QueueTypes DEF BeginDrain, IInv, NoIdleSlot
    <3>2. Running' = Running /\ Entered' = Entered
      BY <3>1 DEF Running, Entered
    <3>3. \A r \in Runs : phase'[r] # "queued"
      BY <3>1 DEF IInv, QueueHoldsQueued
    <3> QED
      BY <2>2, <3>1, <3>2, <3>3 DEF IInv, TypeOK
  <2> QED
    BY <2>1, <2>2
<1>2. /\ lifecycle' \in [state : {"RUNNING", "DRAINING", "STOPPED"}, activeRuns : Nat]
      /\ lifecycle'.activeRuns = lifecycle.activeRuns
      /\ lifecycle.state = "STOPPED" => lifecycle'.state = "STOPPED"
      /\ lifecycle'.state # "RUNNING"
      /\ lifecycle'.state = "STOPPED" => lifecycle.state = "STOPPED" \/ lifecycle.activeRuns = 0
  <2>1. PICK l : l = [lifecycle EXCEPT !.state = "DRAINING"]
    OBVIOUS
  <2>2. /\ l \in [state : {"RUNNING", "DRAINING", "STOPPED"}, activeRuns : Nat]
        /\ l.state = "DRAINING" /\ l.activeRuns = lifecycle.activeRuns
    BY <2>1 DEF IInv, TypeOK
  <2>3. CASE lifecycle.state = "STOPPED"
    BY <2>3 DEF BeginDrain, IInv, TypeOK
  <2>4. CASE lifecycle.state # "STOPPED"
    <3>1. lifecycle' = FinishDrainIfPossible(l)
      BY <2>1, <2>4 DEF BeginDrain
    <3> QED
      BY <2>2, <2>4, <3>1 DEF FinishDrainIfPossible
  <2> QED
    BY <2>3, <2>4
<1>3. TypeOK'
  <2>1. queue' \in Seq(Runs) /\ Len(queue') = 0
    BY <1>1
  <2>2. 0 <= MaxQueuedRuns
    BY AdmissionAssumption
  <2>3. /\ UNCHANGED <<active, host, ticket, tickets>>
        /\ shutdown' \in {"idle", "closing", "draining", "stopped", "failed"}
    BY DEF IInv, TypeOK
  <2> QED
    BY <1>1, <1>2, <2>1, <2>2, <2>3 DEF IInv, TypeOK
<1>4. QueueHoldsQueued' /\ NoIdleSlot' /\ InOrder'
  <2>1. Len(queue') = 0
    BY <1>1
  <2>2. \A i \in 1..Len(queue') : FALSE
    BY <2>1
  <2> QED
    BY <1>1, <2>2 DEF IInv, QueueHoldsQueued, Injective, NoIdleSlot, InOrder
<1>5. SlotsMatch' /\ RunsMatch'
  BY <1>1, <1>2 DEF IInv, SlotsMatch, RunsMatch
<1>6. DrainClosed' /\ ShutdownIsLast'
  BY <1>1, <1>2 DEF IInv, DrainClosed, ShutdownIsLast
<1>7. StoppedIsEmpty'
  BY <1>1, <1>2, FS_EmptySet DEF IInv, StoppedIsEmpty, RunsMatch
<1>8. ExitCodeTells'
  BY <1>1 DEF IInv, ExitCodeTells
<1> QED
  BY <1>1, <1>2, <1>3, <1>4, <1>5, <1>6, <1>7, <1>8 DEF IInv

-----------------------------------------------------------------------------
(* The actions.                                                            *)

LEMMA RejectedKeeps ==
  ASSUME IInv, NEW r \in Runs, Rejected(r)
  PROVE  IInv'
<1>1. /\ phase' \in [Runs -> Phases] /\ phase[r] = "idle" /\ phase'[r] = "done"
      /\ \A s \in Runs : s # r => phase'[s] = phase[s]
  BY DEF Rejected, IInv, TypeOK, Phases
<1>2. UNCHANGED <<active, queue, accepting, lifecycle, shutdown, host, ticket, tickets>>
  BY DEF Rejected, history
<1>3. Running' = Running /\ Entered' = Entered
  BY <1>1 DEF Running, Entered
<1>4. TypeOK'
  BY <1>1, <1>2 DEF IInv, TypeOK
<1>5. QueueHoldsQueued' /\ NoIdleSlot' /\ InOrder'
  BY <1>1, <1>2 DEF IInv, QueueHoldsQueued, Injective, NoIdleSlot, InOrder
<1>6. SlotsMatch' /\ RunsMatch' /\ DrainClosed' /\ StoppedIsEmpty' /\ ShutdownIsLast'
  BY <1>2, <1>3 DEF IInv, SlotsMatch, RunsMatch, DrainClosed, StoppedIsEmpty, ShutdownIsLast
<1>7. ExitCodeTells'
  BY <1>2, <1>3 DEF IInv, ExitCodeTells
<1> QED
  BY <1>4, <1>5, <1>6, <1>7 DEF IInv

\* A run that arrives is entered, wherever it goes.
LEMMA ArriveEffect ==
  ASSUME IInv, NEW r \in Runs, Arrive(r), NEW p \in {"queued", "running", "leaving"},
         phase' = [phase EXCEPT ![r] = p]
  PROVE  /\ phase' \in [Runs -> Phases] /\ phase[r] = "idle" /\ phase'[r] = p
         /\ \A s \in Runs : s # r => phase'[s] = phase[s]
         /\ Entered' = Entered \union {r}
         /\ Running' = IF p = "running" THEN Running \union {r} ELSE Running
         /\ lifecycle' \in [state : {"RUNNING", "DRAINING", "STOPPED"}, activeRuns : Nat]
         /\ RunsMatch' /\ DrainClosed' /\ StoppedIsEmpty' /\ ShutdownIsLast' /\ ExitCodeTells'
         /\ UNCHANGED <<accepting, shutdown, host>>
<1>1. /\ phase' \in [Runs -> Phases] /\ phase[r] = "idle" /\ phase'[r] = p
      /\ \A s \in Runs : s # r => phase'[s] = phase[s]
      /\ UNCHANGED <<accepting, shutdown, host>>
      /\ lifecycle.state = "RUNNING"
  BY DEF Arrive, IInv, TypeOK, Phases
<1>2. /\ Entered' = Entered \union {r} /\ r \notin Entered
      /\ Running' = IF p = "running" THEN Running \union {r} ELSE Running
  BY <1>1 DEF Entered, Running
<1>3. /\ IsFiniteSet(Entered')
      /\ Cardinality(Entered') = Cardinality(Entered) + 1
  BY <1>2, FS_AddElement DEF IInv, RunsMatch
<1>4. /\ lifecycle' \in [state : {"RUNNING", "DRAINING", "STOPPED"}, activeRuns : Nat]
      /\ lifecycle'.state = "RUNNING"
      /\ lifecycle'.activeRuns = lifecycle.activeRuns + 1
  BY <1>1 DEF Arrive, IInv, TypeOK
<1>5. RunsMatch'
  BY <1>3, <1>4 DEF IInv, RunsMatch
<1>6. DrainClosed' /\ StoppedIsEmpty' /\ ShutdownIsLast'
  BY <1>1, <1>4 DEF IInv, DrainClosed, StoppedIsEmpty, ShutdownIsLast
<1>7. ExitCodeTells'
  BY <1>1 DEF IInv, ExitCodeTells, ShutdownIsLast
<1> QED
  BY <1>1, <1>2, <1>4, <1>5, <1>6, <1>7

LEMMA ArriveKeeps ==
  ASSUME IInv, NEW r \in Runs, Arrive(r)
  PROVE  IInv'
<1>0. active \in Nat /\ MaxConcurrentRuns \in Nat /\ tickets \in Nat /\ ticket \in [Runs -> Nat]
  BY AdmissionAssumption DEF IInv, TypeOK
<1>1. CASE phase' = [phase EXCEPT ![r] = "leaving"] /\ UNCHANGED <<active, queue, ticket, tickets>>
  <2>1. /\ phase' \in [Runs -> Phases] /\ phase[r] = "idle" /\ phase'[r] = "leaving"
        /\ \A s \in Runs : s # r => phase'[s] = phase[s]
        /\ Running' = Running
        /\ lifecycle' \in [state : {"RUNNING", "DRAINING", "STOPPED"}, activeRuns : Nat]
        /\ RunsMatch' /\ DrainClosed' /\ StoppedIsEmpty' /\ ShutdownIsLast' /\ ExitCodeTells'
        /\ UNCHANGED <<accepting, shutdown, host>>
    BY <1>1, ArriveEffect
  <2>2. TypeOK'
    BY <1>1, <2>1 DEF IInv, TypeOK
  <2>3. QueueHoldsQueued' /\ NoIdleSlot' /\ InOrder'
    BY <1>1, <2>1 DEF IInv, QueueHoldsQueued, Injective, NoIdleSlot, InOrder
  <2>4. SlotsMatch'
    BY <1>1, <2>1 DEF IInv, SlotsMatch
  <2> QED
    BY <2>1, <2>2, <2>3, <2>4 DEF IInv
<1>2. CASE /\ accepting /\ FreeSlot /\ active' = active + 1
           /\ phase' = [phase EXCEPT ![r] = "running"]
           /\ UNCHANGED <<queue, ticket, tickets>>
  <2>1. /\ phase' \in [Runs -> Phases] /\ phase[r] = "idle" /\ phase'[r] = "running"
        /\ \A s \in Runs : s # r => phase'[s] = phase[s]
        /\ Running' = Running \union {r}
        /\ lifecycle' \in [state : {"RUNNING", "DRAINING", "STOPPED"}, activeRuns : Nat]
        /\ RunsMatch' /\ DrainClosed' /\ StoppedIsEmpty' /\ ShutdownIsLast' /\ ExitCodeTells'
        /\ UNCHANGED <<accepting, shutdown, host>>
    BY <1>2, ArriveEffect
  <2>2. active' \in 0..MaxConcurrentRuns
    BY <1>0, <1>2 DEF FreeSlot
  <2>3. TypeOK'
    BY <1>2, <2>1, <2>2 DEF IInv, TypeOK
  <2>4. queue = << >>
    BY <1>0, <1>2 DEF FreeSlot, IInv, NoIdleSlot
  <2>5. QueueHoldsQueued' /\ NoIdleSlot' /\ InOrder'
    BY <1>2, <2>1, <2>4 DEF IInv, QueueHoldsQueued, Injective, NoIdleSlot, InOrder
  <2>6. SlotsMatch'
    <3>1. r \notin Running
      BY <2>1 DEF Running
    <3>2. IsFiniteSet(Running') /\ Cardinality(Running') = Cardinality(Running) + 1
      BY <2>1, <3>1, FS_AddElement DEF IInv, SlotsMatch
    <3> QED
      BY <1>2, <3>2 DEF IInv, SlotsMatch
  <2> QED
    BY <2>1, <2>3, <2>5, <2>6 DEF IInv
<1>3. CASE /\ accepting /\ ~FreeSlot /\ Len(queue) < MaxQueuedRuns
           /\ Enqueue(r)
           /\ phase' = [phase EXCEPT ![r] = "queued"]
           /\ tickets' = tickets + 1
           /\ ticket' = [ticket EXCEPT ![r] = tickets + 1]
           /\ UNCHANGED active
  <2>1. /\ phase' \in [Runs -> Phases] /\ phase[r] = "idle" /\ phase'[r] = "queued"
        /\ \A s \in Runs : s # r => phase'[s] = phase[s]
        /\ Running' = Running
        /\ lifecycle' \in [state : {"RUNNING", "DRAINING", "STOPPED"}, activeRuns : Nat]
        /\ RunsMatch' /\ DrainClosed' /\ StoppedIsEmpty' /\ ShutdownIsLast' /\ ExitCodeTells'
        /\ UNCHANGED <<accepting, shutdown, host>>
    BY <1>3, ArriveEffect
  <2>2. PICK n \in Nat : n = Len(queue)
    BY QueueTypes
  <2>3. /\ queue' \in Seq(Runs) /\ Len(queue') = n + 1 /\ queue' # << >>
        /\ queue'[n + 1] = r /\ \A i \in 1..n : queue'[i] = queue[i]
    BY <1>3, <2>2, QueueTypes, AppendProperties DEF Enqueue
  <2>4. \A i \in 1..n : queue[i] \in Runs /\ queue[i] # r
    BY <2>1, <2>2, QueueTypes
  <2>5. /\ tickets' \in Nat /\ ticket' \in [Runs -> Nat] /\ ticket'[r] = tickets + 1
        /\ \A s \in Runs : s # r => ticket'[s] = ticket[s]
    BY <1>0, <1>3
  <2>6. TypeOK'
    <3>1. Len(queue') <= MaxQueuedRuns
      BY <1>3, <2>2, <2>3, AdmissionAssumption
    <3> QED
      BY <1>3, <2>1, <2>3, <2>5, <3>1 DEF IInv, TypeOK
  <2>7. QueueHoldsQueued'
    <3>1. Injective(queue')
      BY <2>2, <2>3, <2>4, QueueTypes DEF Injective
    <3>2. ASSUME NEW s \in Runs PROVE phase'[s] = "queued" <=> \E i \in 1..Len(queue') : queue'[i] = s
      <4>1. CASE s = r
        BY <2>1, <2>2, <2>3, <4>1
      <4>2. CASE s # r
        <5>1. phase[s] = "queued" <=> \E i \in 1..n : queue[i] = s
          BY <2>2 DEF IInv, QueueHoldsQueued
        <5>2. (\E i \in 1..n : queue[i] = s) <=> \E i \in 1..(n + 1) : queue'[i] = s
          BY <2>2, <2>3, <4>2
        <5> QED
          BY <2>1, <2>3, <4>2, <5>1, <5>2
      <4> QED
        BY <4>1, <4>2
    <3> QED
      BY <3>1, <3>2 DEF QueueHoldsQueued
  <2>8. NoIdleSlot'
    BY <1>0, <1>3, <2>1 DEF FreeSlot, NoIdleSlot, IInv, TypeOK
  <2>9. InOrder'
    <3>1. \A s \in Runs : ticket'[s] <= tickets'
      BY <1>0, <1>3, <2>5 DEF IInv, InOrder
    <3>2. ASSUME NEW i \in 1..(n + 1), NEW j \in 1..(n + 1), i < j
          PROVE  ticket'[queue'[i]] < ticket'[queue'[j]]
      <4>1. i \in 1..n /\ ticket'[queue'[i]] = ticket[queue[i]] /\ ticket[queue[i]] \in Nat
        <5>1. i \in 1..n
          BY <2>2, <3>2
        <5>2. queue'[i] = queue[i] /\ queue[i] \in Runs /\ queue[i] # r
          BY <2>3, <2>4, <5>1
        <5> QED
          BY <1>0, <2>5, <5>1, <5>2
      <4>2. CASE j = n + 1
        BY <1>0, <2>2, <2>3, <2>4, <2>5, <4>1, <4>2 DEF IInv, InOrder
      <4>3. CASE j # n + 1
        <5>1. j \in 1..n /\ ticket'[queue'[j]] = ticket[queue[j]]
          BY <2>2, <2>3, <2>4, <2>5, <4>3
        <5> QED
          BY <2>2, <3>2, <4>1, <5>1 DEF IInv, InOrder
      <4> QED
        BY <4>2, <4>3
    <3> QED
      BY <2>3, <3>1, <3>2 DEF InOrder
  <2>10. SlotsMatch'
    BY <1>3, <2>1 DEF IInv, SlotsMatch
  <2> QED
    BY <2>1, <2>6, <2>7, <2>8, <2>9, <2>10 DEF IInv
<1> QED
  BY <1>1, <1>2, <1>3 DEF Arrive, history

\* Taking one waiter out, wherever it stands, leaves the queue of the others.
LEMMA DequeueEffect ==
  ASSUME IInv, NEW i \in 1..Len(queue),
         queue' \in Seq(Runs), Len(queue') = Len(queue) - 1,
         \A k \in 1..(Len(queue) - 1) : queue'[k] = IF k < i THEN queue[k] ELSE queue[k + 1],
         phase'[queue[i]] # "queued",
         \A s \in Runs : s # queue[i] => (phase'[s] = "queued" <=> phase[s] = "queued"),
         UNCHANGED <<ticket, tickets>>
  PROVE  QueueHoldsQueued' /\ InOrder'
<1>1. PICK n \in Nat : n = Len(queue) /\ i \in 1..n
  BY QueueTypes
<1>2. /\ Len(queue') = n - 1 /\ n - 1 \in Nat
      /\ \A k \in 1..(n - 1) : queue'[k] = IF k < i THEN queue[k] ELSE queue[k + 1]
  BY <1>1
<1>3. \A j, k \in 1..n : queue[j] = queue[k] => j = k
  BY <1>1, QueueTypes DEF Injective
<1>4. Injective(queue')
  <2>1. ASSUME NEW j \in 1..(n - 1), NEW k \in 1..(n - 1), queue'[j] = queue'[k] PROVE j = k
    <3>1. PICK a \in 1..n : queue'[j] = queue[a] /\ a = IF j < i THEN j ELSE j + 1
      BY <1>1, <1>2
    <3>2. PICK b \in 1..n : queue'[k] = queue[b] /\ b = IF k < i THEN k ELSE k + 1
      BY <1>1, <1>2
    <3>3. a = b
      BY <2>1, <3>1, <3>2, <1>3
    <3> QED
      BY <1>1, <3>1, <3>2, <3>3
  <2> QED
    BY <1>2, <2>1 DEF Injective
<1>5. ASSUME NEW s \in Runs PROVE phase'[s] = "queued" <=> \E k \in 1..(n - 1) : queue'[k] = s
  <2>1. CASE s = queue[i]
    BY <1>1, <1>2, <1>3, <2>1
  <2>2. CASE s # queue[i]
    <3>1. phase'[s] = "queued" <=> \E j \in 1..n : queue[j] = s
      BY <1>1, <2>2 DEF IInv, QueueHoldsQueued
    <3>2. ASSUME NEW j \in 1..n, queue[j] = s PROVE \E k \in 1..(n - 1) : queue'[k] = s
      <4>1. CASE j < i
        BY <1>1, <1>2, <3>2, <4>1
      <4>2. CASE j > i
        <5>1. j - 1 \in 1..(n - 1) /\ queue'[j - 1] = queue[j]
          BY <1>1, <1>2, <4>2
        <5> QED
          BY <3>2, <5>1
      <4>3. j # i
        BY <2>2, <3>2
      <4> QED
        BY <1>1, <4>1, <4>2, <4>3
    <3>3. ASSUME NEW k \in 1..(n - 1), queue'[k] = s PROVE \E j \in 1..n : queue[j] = s
      BY <1>1, <1>2, <3>3
    <3> QED
      BY <3>1, <3>2, <3>3
  <2> QED
    BY <2>1, <2>2
<1>6. ASSUME NEW j \in 1..(n - 1), NEW k \in 1..(n - 1), j < k
      PROVE  ticket[queue'[j]] < ticket[queue'[k]]
  BY <1>1, <1>2, <1>6 DEF IInv, InOrder
<1> QED
  BY <1>2, <1>4, <1>5, <1>6 DEF IInv, QueueHoldsQueued, InOrder

LEMMA WaiterFailsKeeps ==
  ASSUME IInv, NEW r \in Runs, WaiterFails(r)
  PROVE  IInv'
<1>1. /\ phase' \in [Runs -> Phases] /\ phase[r] = "queued" /\ phase'[r] = "leaving"
      /\ \A s \in Runs : s # r => phase'[s] = phase[s]
  BY DEF WaiterFails, IInv, TypeOK, Phases
<1>2. UNCHANGED <<active, accepting, lifecycle, shutdown, host, ticket, tickets>>
  BY DEF WaiterFails, history
<1>3. Running' = Running /\ Entered' = Entered
  BY <1>1 DEF Running, Entered
<1>4. PICK i \in 1..Len(queue) : queue[i] = r
  BY <1>1 DEF IInv, QueueHoldsQueued
<1>5. queue' = RemoveAt(queue, i)
  BY <1>4, QueueTypes, RemoveFirstIndex DEF WaiterFails, RemoveWaiter
<1>6. /\ queue' \in Seq(Runs) /\ Len(queue') = Len(queue) - 1
      /\ \A k \in 1..(Len(queue) - 1) : queue'[k] = IF k < i THEN queue[k] ELSE queue[k + 1]
  BY <1>5, QueueTypes, RemoveAtIndex
<1>7. TypeOK'
  <2>1. Len(queue') <= MaxQueuedRuns
    BY <1>6, QueueTypes, AdmissionAssumption DEF IInv, TypeOK
  <2> QED
    BY <1>1, <1>2, <1>6, <2>1 DEF IInv, TypeOK
<1>8. QueueHoldsQueued' /\ InOrder'
  BY <1>1, <1>2, <1>4, <1>6, DequeueEffect
<1>9. NoIdleSlot'
  <2>1. queue # << >>
    BY <1>4, QueueTypes
  <2> QED
    BY <1>2, <2>1 DEF IInv, NoIdleSlot
<1>10. SlotsMatch' /\ RunsMatch' /\ DrainClosed' /\ StoppedIsEmpty' /\ ShutdownIsLast'
  BY <1>2, <1>3 DEF IInv, SlotsMatch, RunsMatch, DrainClosed, StoppedIsEmpty, ShutdownIsLast
<1>11. ExitCodeTells'
  BY <1>2, <1>3 DEF IInv, ExitCodeTells
<1> QED
  BY <1>7, <1>8, <1>9, <1>10, <1>11 DEF IInv

\* Whoever leaves was entered, so the shutdown was not over.
LEMMA LeavingKeeps ==
  ASSUME IInv, NEW r \in Entered, Entered' = Entered \ {r}, LeaveLifecycle,
         UNCHANGED <<shutdown, host>>, accepting' = accepting
  PROVE  DrainClosed' /\ ShutdownIsLast' /\ ExitCodeTells'
<1>1. lifecycle.state # "STOPPED" /\ (lifecycle'.state = "RUNNING" <=> lifecycle.state = "RUNNING")
  BY LeaveEffect
<1>2. shutdown # "stopped"
  BY <1>1 DEF IInv, ShutdownIsLast
<1> QED
  BY <1>1, <1>2 DEF IInv, DrainClosed, ShutdownIsLast, ExitCodeTells

LEMMA LeaveKeeps ==
  ASSUME IInv, NEW r \in Runs, Leave(r)
  PROVE  IInv'
<1>1. /\ phase' \in [Runs -> Phases] /\ phase[r] = "leaving" /\ phase'[r] = "done"
      /\ \A s \in Runs : s # r => phase'[s] = phase[s]
  BY DEF Leave, IInv, TypeOK, Phases
<1>2. UNCHANGED <<active, queue, accepting, shutdown, host, ticket, tickets>> /\ LeaveLifecycle
  BY DEF Leave, history
<1>3. Running' = Running /\ r \in Entered /\ Entered' = Entered \ {r}
  BY <1>1 DEF Running, Entered
<1>4. /\ lifecycle' \in [state : {"RUNNING", "DRAINING", "STOPPED"}, activeRuns : Nat]
      /\ RunsMatch' /\ StoppedIsEmpty' /\ DrainClosed' /\ ShutdownIsLast' /\ ExitCodeTells'
  BY <1>2, <1>3, LeaveEffect, LeavingKeeps
<1>5. TypeOK'
  BY <1>1, <1>2, <1>4 DEF IInv, TypeOK
<1>6. QueueHoldsQueued' /\ NoIdleSlot' /\ InOrder' /\ SlotsMatch'
  BY <1>1, <1>2, <1>3 DEF IInv, QueueHoldsQueued, Injective, NoIdleSlot, InOrder, SlotsMatch
<1> QED
  BY <1>4, <1>5, <1>6 DEF IInv

\* A slot that is given back goes to the first waiter, who counts in its place.
LEMMA FinishKeeps ==
  ASSUME IInv, NEW r \in Runs, Finish(r)
  PROVE  IInv'
<1>1. /\ UNCHANGED <<accepting, shutdown, host, ticket, tickets>> /\ LeaveLifecycle
      /\ phase[r] = "running" /\ phase \in [Runs -> Phases]
  BY DEF Finish, history, IInv, TypeOK
<1>2. r \in Running /\ r \in Entered
  BY <1>1 DEF Running, Entered
<1>3. ASSUME TypeOK', QueueHoldsQueued', NoIdleSlot', InOrder', SlotsMatch', Entered' = Entered \ {r}
      PROVE  IInv'
  BY <1>1, <1>2, <1>3, LeaveEffect, LeavingKeeps DEF IInv
<1>4. lifecycle' \in [state : {"RUNNING", "DRAINING", "STOPPED"}, activeRuns : Nat]
  <2>1. Entered' = Entered \ {r}
    <3>1. CASE accepting /\ queue # << >>
      <4>1. Head(queue) \in Runs /\ Head(queue) # r /\ phase[Head(queue)] = "queued"
        BY <1>1, <3>1, QueueTypes
      <4> QED
        BY <1>1, <3>1, <4>1 DEF Finish, Release, Entered, Phases
    <3>2. CASE ~(accepting /\ queue # << >>)
      BY <1>1, <3>2 DEF Finish, Release, Entered, Phases
    <3> QED
      BY <3>1, <3>2
  <2> QED
    BY <1>1, <1>2, <2>1, LeaveEffect
<1>5. CASE accepting /\ queue # << >>
  <2>1. PICK h : h = queue[1]
    OBVIOUS
  <2>2. /\ 1 \in 1..Len(queue) /\ Head(queue) = h
        /\ h \in Runs /\ phase[h] = "queued" /\ h # r
    BY <1>1, <1>5, <2>1, QueueTypes
  <2>3. /\ phase' = [phase EXCEPT ![r] = "done", ![h] = "running"]
        /\ queue' = Tail(queue)
        /\ active' = active
    BY <1>5, <2>2 DEF Finish, Release
  <2>4. /\ phase' \in [Runs -> Phases] /\ phase'[r] = "done" /\ phase'[h] = "running"
        /\ \A s \in Runs : s # r /\ s # h => phase'[s] = phase[s]
    BY <1>1, <2>2, <2>3 DEF Phases
  <2>5. /\ queue' \in Seq(Runs) /\ Len(queue') = Len(queue) - 1
        /\ \A k \in 1..(Len(queue) - 1) : queue'[k] = IF k < 1 THEN queue[k] ELSE queue[k + 1]
    <3>1. /\ queue' \in Seq(Runs) /\ Len(queue') = Len(queue) - 1
          /\ \A k \in 1..Len(queue') : queue'[k] = queue[k + 1]
      BY <1>5, <2>3, QueueTypes, HeadTailProperties
    <3> QED
      BY <3>1, QueueTypes
  <2>6. Entered' = Entered \ {r} /\ Running' = (Running \ {r}) \union {h}
    BY <1>1, <2>2, <2>4 DEF Entered, Running
  <2>7. TypeOK'
    <3>1. Len(queue') <= MaxQueuedRuns
      BY <2>5, QueueTypes, AdmissionAssumption DEF IInv, TypeOK
    <3> QED
      BY <1>1, <1>4, <2>3, <2>4, <2>5, <3>1 DEF IInv, TypeOK
  <2>8. QueueHoldsQueued' /\ InOrder'
    BY <1>1, <2>1, <2>2, <2>4, <2>5, DequeueEffect
  <2>9. NoIdleSlot'
    BY <1>1, <1>5, <2>3 DEF IInv, NoIdleSlot
  <2>10. SlotsMatch'
    <3>1. h \notin Running \ {r}
      BY <2>2 DEF Running
    <3>2. PICK R : R = Running \ {r}
      OBVIOUS
    <3>3. IsFiniteSet(R) /\ Cardinality(R) = active - 1
      BY <1>2, <3>2, FS_RemoveElement DEF IInv, SlotsMatch
    <3>4. IsFiniteSet(R \union {h}) /\ Cardinality(R \union {h}) = active - 1 + 1
      BY <3>1, <3>2, <3>3, FS_AddElement
    <3>5. active \in Int
      BY AdmissionAssumption DEF IInv, TypeOK
    <3> QED
      BY <2>3, <2>6, <3>2, <3>4, <3>5 DEF SlotsMatch
  <2> QED
    BY <1>3, <2>6, <2>7, <2>8, <2>9, <2>10
<1>6. CASE ~(accepting /\ queue # << >>)
  <2>1. /\ phase' = [phase EXCEPT ![r] = "done"]
        /\ queue' = queue
        /\ active' = active - 1
    BY <1>6 DEF Finish, Release
  <2>2. queue = << >>
    BY <1>6 DEF IInv, NoIdleSlot
  <2>3. /\ phase' \in [Runs -> Phases] /\ phase'[r] = "done"
        /\ \A s \in Runs : s # r => phase'[s] = phase[s]
    BY <1>1, <2>1 DEF Phases
  <2>4. Entered' = Entered \ {r} /\ Running' = Running \ {r}
    BY <1>1, <2>3 DEF Entered, Running
  <2>5. /\ IsFiniteSet(Running') /\ Cardinality(Running') = active - 1
        /\ active - 1 \in Nat
    <3>1. PICK R : R = Running \ {r}
      OBVIOUS
    <3>2. IsFiniteSet(R) /\ Cardinality(R) = active - 1
      BY <1>2, <3>1, FS_RemoveElement DEF IInv, SlotsMatch
    <3>3. Cardinality(R) \in Nat
      BY <3>2, FS_CardinalityType
    <3> QED
      BY <2>4, <3>1, <3>2, <3>3
  <2>6. active' \in 0..MaxConcurrentRuns
    BY <2>1, <2>5, AdmissionAssumption DEF IInv, TypeOK
  <2>7. TypeOK'
    BY <1>1, <1>4, <2>1, <2>3, <2>6 DEF IInv, TypeOK
  <2>8. QueueHoldsQueued' /\ InOrder' /\ NoIdleSlot'
    BY <1>1, <2>1, <2>2, <2>3 DEF IInv, QueueHoldsQueued, Injective, NoIdleSlot, InOrder
  <2>9. SlotsMatch'
    BY <2>1, <2>5 DEF SlotsMatch
  <2> QED
    BY <1>3, <2>4, <2>7, <2>8, <2>9
<1> QED
  BY <1>5, <1>6

\* Steps of the host alone: signals, escalation, the shutdown sequence.
LEMMA HostKeeps ==
  ASSUME IInv,
         Escalate \/ RaceEnds \/ ServerCloseFailed \/ Drained \/ \E signal \in Signals : Signal(signal)
  PROVE  IInv'
<1>1. UNCHANGED <<phase, active, queue, accepting, lifecycle, ticket, tickets>>
  BY DEF Escalate, RaceEnds, ServerCloseFailed, Drained, Signal, history
<1>2. Entered' = Entered
  BY <1>1 DEF Entered
<1>3. /\ host \in [signals : SUBSET Signals, exitCode : {0, 1},
                   escalation : {"none", "waiting", "completed", "failed", "deadline_exceeded"}]
      /\ shutdown \in {"idle", "closing", "draining", "stopped", "failed"}
      /\ ExitCodeTells /\ ShutdownIsLast /\ StoppedIsEmpty
  BY DEF IInv, TypeOK
<1>4. ASSUME /\ host' \in [signals : SUBSET Signals, exitCode : {0, 1},
                          escalation : {"none", "waiting", "completed", "failed", "deadline_exceeded"}]
             /\ shutdown' \in {"idle", "closing", "draining", "stopped", "failed"},
             shutdown' = "stopped" => lifecycle.state = "STOPPED",
             ExitCodeTells'
      PROVE  IInv'
  <2>1. TypeOK'
    BY <1>1, <1>4 DEF IInv, TypeOK
  <2> QED
    BY <1>1, <1>4, <2>1, AdmissionKeeps
<1>5. ASSUME NEW signal \in Signals, Signal(signal) PROVE IInv'
  <2>1. PICK h : h = [host EXCEPT !.signals = @ \ {signal},
                                  !.exitCode = IF shutdown = "failed" THEN 1 ELSE @]
    OBVIOUS
  <2>2. /\ h \in [signals : SUBSET Signals, exitCode : {0, 1},
                  escalation : {"none", "waiting", "completed", "failed", "deadline_exceeded"}]
        /\ h.signals # Signals /\ h.escalation = host.escalation
        /\ h.exitCode = IF shutdown = "failed" THEN 1 ELSE host.exitCode
    BY <1>3, <1>5, <2>1
  <2>3. host' = h /\ shutdown' = IF shutdown = "idle" THEN "closing" ELSE shutdown
    BY <1>5, <2>1 DEF Signal, CallShutdown
  <2> QED
    BY <1>2, <1>3, <1>4, <2>2, <2>3 DEF ExitCodeTells, ShutdownIsLast
<1>6. CASE Escalate
  <2>1. PICK h : h = [host EXCEPT !.escalation = "waiting"]
    OBVIOUS
  <2>2. /\ h \in [signals : SUBSET Signals, exitCode : {0, 1},
                  escalation : {"none", "waiting", "completed", "failed", "deadline_exceeded"}]
        /\ h.signals = host.signals /\ h.escalation = "waiting" /\ h.exitCode = host.exitCode
    BY <1>3, <2>1
  <2>3. /\ host' = h /\ shutdown' = IF shutdown = "idle" THEN "closing" ELSE shutdown
        /\ host.escalation = "none"
    BY <1>6, <2>1 DEF Escalate, CallShutdown
  <2> QED
    BY <1>2, <1>3, <1>4, <2>2, <2>3 DEF ExitCodeTells, ShutdownIsLast
<1>7. CASE RaceEnds
  <2>1. shutdown' = shutdown /\ host.escalation = "waiting"
    BY <1>7 DEF RaceEnds
  <2>2. CASE /\ Outcome \in {"completed", "failed"}
             /\ host' = [host EXCEPT !.escalation = Outcome,
                                     !.exitCode = IF Outcome = "failed" THEN 1 ELSE @]
    <3>1. PICK o \in {"completed", "failed"} :
            /\ host' = [host EXCEPT !.escalation = o, !.exitCode = IF o = "failed" THEN 1 ELSE @]
            /\ o = "completed" <=> shutdown = "stopped"
            /\ o = "failed" <=> shutdown = "failed"
      BY <1>3, <2>2 DEF Outcome
    <3>2. /\ host' \in [signals : SUBSET Signals, exitCode : {0, 1},
                    escalation : {"none", "waiting", "completed", "failed", "deadline_exceeded"}]
          /\ host'.signals = host.signals /\ host'.escalation = o
          /\ host'.exitCode = IF o = "failed" THEN 1 ELSE host.exitCode
      BY <1>3, <3>1
    <3> QED
      BY <1>2, <1>3, <1>4, <2>1, <3>1, <3>2 DEF ExitCodeTells, ShutdownIsLast, StoppedIsEmpty
  <2>3. CASE host' = [host EXCEPT !.escalation = "deadline_exceeded", !.exitCode = 1]
    <3>1. /\ host' \in [signals : SUBSET Signals, exitCode : {0, 1},
                    escalation : {"none", "waiting", "completed", "failed", "deadline_exceeded"}]
          /\ host'.signals = host.signals /\ host'.escalation = "deadline_exceeded"
          /\ host'.exitCode = 1
      BY <1>3, <2>3
    <3> QED
      BY <1>2, <1>3, <1>4, <2>1, <3>1 DEF ExitCodeTells, ShutdownIsLast
  <2> QED
    BY <1>7, <2>2, <2>3 DEF RaceEnds
<1>8. CASE ServerCloseFailed
  <2>1. /\ host' \in [signals : SUBSET Signals, exitCode : {0, 1},
                  escalation : {"none", "waiting", "completed", "failed", "deadline_exceeded"}]
        /\ host'.signals = host.signals /\ host'.escalation = host.escalation
        /\ host'.exitCode = IF host.signals # Signals THEN 1 ELSE host.exitCode
    BY <1>3, <1>8 DEF ServerCloseFailed
  <2>2. shutdown = "closing" /\ shutdown' = "failed"
    BY <1>8 DEF ServerCloseFailed
  <2> QED
    BY <1>2, <1>3, <1>4, <2>1, <2>2 DEF ExitCodeTells
<1>9. CASE Drained
  <2>1. host' = host /\ shutdown = "draining" /\ shutdown' = "stopped" /\ lifecycle.state = "STOPPED"
    BY <1>9 DEF Drained
  <2> QED
    BY <1>2, <1>3, <1>4, <2>1 DEF ExitCodeTells
<1> QED
  BY <1>5, <1>6, <1>7, <1>8, <1>9

LEMMA StutterKeeps == IInv /\ UNCHANGED vars => IInv'
<1> SUFFICES ASSUME IInv, UNCHANGED vars PROVE IInv'
  OBVIOUS
<1>1. UNCHANGED <<phase, active, queue, accepting, lifecycle, shutdown, host, ticket, tickets>>
  BY DEF vars
<1>2. TypeOK' /\ ExitCodeTells'
  BY <1>1 DEF IInv, TypeOK, ExitCodeTells, Entered
<1>3. shutdown' = "stopped" => lifecycle.state = "STOPPED"
  BY <1>1 DEF IInv, ShutdownIsLast
<1> QED
  BY <1>1, <1>2, <1>3, AdmissionKeeps

LEMMA InitHolds == Init => IInv
<1> SUFFICES ASSUME Init PROVE IInv
  OBVIOUS
<1>1. Running = {} /\ Entered = {}
  BY DEF Init, Running, Entered
<1>2. queue \in Seq(Runs) /\ Len(queue) = 0 /\ queue = << >> /\ \A i \in 1..Len(queue) : FALSE
  BY DEF Init
<1>3. TypeOK
  BY <1>2, AdmissionAssumption DEF Init, TypeOK, Phases
<1>4. QueueHoldsQueued /\ NoIdleSlot /\ InOrder
  BY <1>2 DEF Init, QueueHoldsQueued, Injective, NoIdleSlot, InOrder
<1>5. SlotsMatch /\ RunsMatch
  BY <1>1, FS_EmptySet DEF Init, SlotsMatch, RunsMatch
<1>6. DrainClosed /\ StoppedIsEmpty /\ ShutdownIsLast /\ ExitCodeTells
  BY DEF Init, DrainClosed, StoppedIsEmpty, ShutdownIsLast, ExitCodeTells
<1> QED
  BY <1>3, <1>4, <1>5, <1>6 DEF IInv

\* The steps that begin a drain.
LEMMA DrainSteps ==
  ASSUME IInv, HostBeginsDrain \/ ServerClosed
  PROVE  /\ IInv' /\ Running' = Running /\ Entered' = Entered
         /\ lifecycle.state = "STOPPED" => lifecycle'.state = "STOPPED"
<1>1. /\ BeginDrain /\ UNCHANGED <<active, host, ticket, tickets>>
      /\ shutdown' = shutdown \/ (shutdown = "closing" /\ shutdown' = "draining")
  BY DEF HostBeginsDrain, ServerClosed, history
<1> QED
  BY <1>1, DrainKeeps

LEMMA Inductive == IInv /\ [Next]_vars => IInv'
<1> SUFFICES ASSUME IInv, [Next]_vars PROVE IInv'
  OBVIOUS
<1>1. ASSUME NEW r \in Runs,
             Rejected(r) \/ Arrive(r) \/ WaiterFails(r) \/ Finish(r) \/ Leave(r)
      PROVE  IInv'
  BY <1>1, RejectedKeeps, ArriveKeeps, WaiterFailsKeeps, FinishKeeps, LeaveKeeps
<1> QED
  BY <1>1, DrainSteps, HostKeeps, StutterKeeps DEF Next

-----------------------------------------------------------------------------
(* The theorems.                                                           *)

\* Every state of every behaviour satisfies the inductive invariant.
THEOREM AdmissionInvariant == Spec => []IInv
BY InitHolds, Inductive, PTL DEF Spec

\* RunAdmissionController leaks no slot and loses no waiter: the counters match the
\* runs, and the queue holds exactly the queued runs, only while no slot is free.
THEOREM SlotsNeverLeak == Spec => []QueueIsLive
<1>1. IInv => QueueIsLive
  <2> SUFFICES ASSUME IInv PROVE QueueIsLive
    OBVIOUS
  <2>1. PICK n \in Nat : n = Len(queue) /\ queue \in [1..n -> Runs] /\ DOMAIN queue = 1..n
    BY QueueTypes, LenProperties
  <2>2. ToSet(queue) = {r \in Runs : phase[r] = "queued"}
    BY <2>1 DEF ToSet, IInv, QueueHoldsQueued
  <2>3. n = Cardinality(ToSet(queue))
    <3>1. \A i, j \in 1..n : queue[i] = queue[j] => i = j
      BY <2>1 DEF IInv, QueueHoldsQueued, Injective
    <3>2. ExistsBijection(1..n, ToSet(queue))
      <4>1. queue \in [1..n -> ToSet(queue)] /\ \A e \in ToSet(queue) : \E i \in 1..n : queue[i] = e
        BY <2>1 DEF ToSet
      <4>2. queue \in Bijection(1..n, ToSet(queue))
        BY <3>1, <4>1, Fun_IsBij
      <4> QED
        BY <4>2 DEF ExistsBijection
    <3>3. IsFiniteSet(1..n) /\ Cardinality(1..n) = n
      BY FS_Interval
    <3> QED
      BY <3>2, <3>3, FS_Bijection
  <2> QED
    BY <2>1, <2>2, <2>3 DEF IInv, SlotsMatch, RunsMatch, NoIdleSlot, QueueIsLive
<1> QED
  BY <1>1, AdmissionInvariant, PTL

\* The exit code of the process says what the host was told of the shutdown.
THEOREM ExitCode == Spec => []ExitCodeTells
<1>1. IInv => ExitCodeTells
  BY DEF IInv
<1> QED
  BY <1>1, AdmissionInvariant, PTL

\* Runs start in the order in which they were queued, none starts once draining has
\* begun, a stopped runtime stays stopped, and drain() has waited for every run.
THEOREM InTurn == Spec => StartsInTurn
<1> DEFINE Turn ==
      /\ \A r, s \in Runs :
           phase[r] = "queued" /\ phase'[r] = "running" /\ phase[s] = "queued"
             => ticket[r] <= ticket[s]
      /\ lifecycle.state # "RUNNING" => Running' \subseteq Running
      /\ lifecycle.state = "STOPPED" => lifecycle'.state = "STOPPED"
      /\ shutdown' = "stopped" => Entered' = {} /\ Running' = {}
<1>1. ASSUME IInv, IInv', Next PROVE Turn
  <2>0. phase \in [Runs -> Phases]
    BY <1>1 DEF IInv, TypeOK
  <2>1. shutdown' = "stopped" => Entered' = {} /\ Running' = {}
    <3>1. Running' \subseteq Entered'
      BY DEF Running, Entered
    <3> QED
      BY <1>1, <3>1 DEF IInv, ShutdownIsLast, StoppedIsEmpty
  <2>2. ASSUME \A r \in Runs : phase'[r] = "running" => phase[r] = "running",
               lifecycle.state = "STOPPED" => lifecycle'.state = "STOPPED"
        PROVE  Turn
    BY <2>1, <2>2 DEF Running
  <2>3. ASSUME NEW r \in Runs, Finish(r) PROVE Turn
    <3>1. /\ r \in Entered /\ phase[r] = "running"
      BY <2>3 DEF Finish, Entered
    <3>2. lifecycle.state # "STOPPED"
      BY <1>1, <3>1 DEF IInv, StoppedIsEmpty
    <3>3. CASE accepting /\ queue # << >>
      <4>1. PICK h : h = queue[1]
        OBVIOUS
      <4>2. /\ 1 \in 1..Len(queue) /\ Head(queue) = h
            /\ h \in Runs /\ phase[h] = "queued"
        BY <1>1, <3>3, <4>1, QueueTypes
      <4>3. /\ phase' = [phase EXCEPT ![r] = "done", ![h] = "running"]
        BY <2>3, <3>3, <4>2 DEF Finish, Release
      <4>4. \A s \in Runs : phase[s] = "queued" /\ phase'[s] = "running" => s = h
        BY <2>0, <4>2, <4>3
      <4>5. ASSUME NEW s \in Runs, phase[s] = "queued" PROVE ticket[h] <= ticket[s]
        <5>1. PICK j \in 1..Len(queue) : queue[j] = s
          BY <1>1, <4>5 DEF IInv, QueueHoldsQueued
        <5>2. ticket[h] \in Nat /\ ticket[s] \in Nat
          BY <1>1, <4>2 DEF IInv, TypeOK
        <5>3. CASE j = 1
          BY <4>1, <5>1, <5>2, <5>3
        <5>4. CASE j # 1
          <6>1. 1 < j
            BY <1>1, <5>1, <5>4, QueueTypes
          <6> QED
            BY <1>1, <4>1, <4>2, <5>1, <5>2, <6>1 DEF IInv, InOrder
        <5> QED
          BY <5>3, <5>4
      <4>6. lifecycle.state = "RUNNING"
        BY <1>1, <3>3 DEF IInv, DrainClosed
      <4> QED
        BY <2>1, <4>4, <4>5, <4>6
    <3>4. CASE ~(accepting /\ queue # << >>)
      <4>1. phase' = [phase EXCEPT ![r] = "done"]
        BY <2>3, <3>4 DEF Finish, Release
      <4> QED
        BY <2>0, <2>2, <3>2, <4>1
    <3> QED
      BY <3>3, <3>4
  <2>4. ASSUME NEW r \in Runs, Arrive(r) PROVE Turn
    <3>1. /\ phase[r] = "idle" /\ lifecycle.state = "RUNNING"
          /\ \A s \in Runs : s # r => phase'[s] = phase[s]
      BY <2>0, <2>4 DEF Arrive
    <3> QED
      BY <2>1, <3>1
  <2>5. ASSUME NEW r \in Runs, Rejected(r) \/ WaiterFails(r) PROVE Turn
    <3>1. /\ \A s \in Runs : phase'[s] = "running" => phase[s] = "running"
          /\ lifecycle' = lifecycle
      BY <2>0, <2>5 DEF Rejected, WaiterFails
    <3> QED
      BY <2>2, <3>1
  <2>6. ASSUME NEW r \in Runs, Leave(r) PROVE Turn
    <3>1. \A s \in Runs : phase'[s] = "running" => phase[s] = "running"
      BY <2>0, <2>6 DEF Leave
    <3>2. lifecycle.state # "STOPPED"
      BY <1>1, <2>6 DEF Leave, Entered, IInv, StoppedIsEmpty
    <3> QED
      BY <2>2, <3>1, <3>2
  <2>7. CASE HostBeginsDrain \/ ServerClosed
    <3>1. /\ Running' = Running
          /\ lifecycle.state = "STOPPED" => lifecycle'.state = "STOPPED"
      BY <1>1, <2>7, DrainSteps
    <3> QED
      BY <2>2, <3>1 DEF Running
  <2>8. CASE Escalate \/ RaceEnds \/ ServerCloseFailed \/ Drained \/ \E signal \in Signals : Signal(signal)
    <3>1. phase' = phase /\ lifecycle' = lifecycle
      BY <2>8 DEF Escalate, RaceEnds, ServerCloseFailed, Drained, Signal
    <3> QED
      BY <2>2, <3>1
  <2> QED
    BY <1>1, <2>3, <2>4, <2>5, <2>6, <2>7, <2>8 DEF Next
<1>2. IInv /\ [Next]_vars => [Turn]_vars
  BY <1>1, Inductive
<1> QED
  BY <1>2, AdmissionInvariant, PTL DEF Spec, StartsInTurn
=============================================================================
