-------------------------- MODULE RecoveryPartsProofs --------------------------
(***************************************************************************)
(* What the parts of RecoveryParts promise for any number of callers,      *)
(* runs, versions, requests, facts and provider profiles.                  *)
(*                                                                         *)
(* A behaviour of RecoveryParts is one of a single part, so there is one   *)
(* invariant for each part, stated over the variables s1 to s7 of it.      *)
(***************************************************************************)
EXTENDS RecoveryParts, Sequences, FiniteSetTheorems, SequenceTheorems, TLAPS

LEMMA Bounds ==
  /\ MaxVersion \in Nat \ {0} /\ MaxAttempts \in Nat \ {0} /\ MaxRotations \in Nat \ {0}
  /\ MaxEpoch \in Nat \ {0} /\ MaxTime \in Nat \ {0}
  /\ MaxConflicts \in Nat /\ MaxWithdrawals \in Nat /\ MaxChanges \in Nat
  /\ MaxRevision \in Nat /\ MaxAge \in Nat
<1> DEFINE P == {MaxVersion, MaxAttempts, MaxRotations, MaxEpoch, MaxTime}
           Q == {MaxConflicts, MaxWithdrawals, MaxChanges, MaxRevision, MaxAge}
<1>1. P \subseteq Nat \ {0} /\ Q \subseteq Nat
  BY PartsAssumption
<1>2. MaxVersion \in P /\ MaxAttempts \in P /\ MaxRotations \in P /\ MaxEpoch \in P /\ MaxTime \in P
  OBVIOUS
<1>3. /\ MaxConflicts \in Q /\ MaxWithdrawals \in Q /\ MaxChanges \in Q
      /\ MaxRevision \in Q /\ MaxAge \in Q
  OBVIOUS
<1> QED
  BY <1>1, <1>2, <1>3

LEMMA SomeThing == (CHOOSE r \in Things : TRUE) \in Things
BY PartsAssumption, Zenon

LEMMA SomeActor == (CHOOSE c \in Actors : TRUE) \in Actors
BY PartsAssumption, Zenon

-----------------------------------------------------------------------------
(* The table of checkpoints: s1 is stored, s2 call, s3 loaded, s4 actual.  *)

\* What a caller has loaded is no later than what is stored, and, once its statement has
\* changed no row, earlier; and so is what a conflict reports.
TableInv ==
  /\ Table!TypeOK
  /\ \A c \in Actors :
       /\ s3[c].version <= s1[s3[c].run].version
       /\ s2[c] = "refused" => s3[c].version < s1[s3[c].run].version
  /\ Table!ConflictTellsWhy

LEMMA TableInit == Table!Init => TableInv
<1> SUFFICES ASSUME Table!Init PROVE TableInv
  OBVIOUS
<1>1. s1 \in [Things -> [version : 0..MaxVersion, author : Actors]]
  BY Bounds, SomeActor DEF Table!Init, Table!Empty
<1>2. s3 \in [Actors -> [run : Things, version : 0..MaxVersion]]
  BY Bounds, SomeThing DEF Table!Init
<1>3. Table!TypeOK
  BY <1>1, <1>2, Bounds DEF Table!Init, Table!TypeOK
<1>4. \A c \in Actors : s3[c].version = 0 /\ s2[c] = "idle" /\ s1[s3[c].run].version = 0
  BY SomeThing DEF Table!Init, Table!Empty
<1> QED
  BY <1>3, <1>4 DEF TableInv, Table!ConflictTellsWhy

LEMMA TableStep == ASSUME TableInv, Table!Next PROVE TableInv'
<1>0. /\ s1 \in [Things -> [version : 0..MaxVersion, author : Actors]]
      /\ s2 \in [Actors -> {"idle", "refused", "saved", "conflict"}]
      /\ s3 \in [Actors -> [run : Things, version : 0..MaxVersion]]
      /\ s4 \in [Actors -> 0..MaxVersion]
      /\ MaxVersion \in Nat
  BY Bounds DEF TableInv, Table!TypeOK
<1>10. /\ \A r \in Things : s1[r].version \in 0..MaxVersion
       /\ \A x \in Actors : s3[x].version \in 0..MaxVersion /\ s3[x].run \in Things
  BY <1>0
<1>11. /\ \A r \in Things : s1[r].version \in Nat
       /\ \A x \in Actors : s3[x].version \in Nat
  BY <1>0, <1>10
<1>1. ASSUME NEW c \in Actors, Table!Load(c) PROVE TableInv'
  <2>1. PICK r \in Things : s3' = [s3 EXCEPT ![c] = [run |-> r, version |-> s1[r].version]]
    BY <1>1 DEF Table!Load
  <2>2. s2[c] = "idle" /\ UNCHANGED <<s1, s2, s4>>
    BY <1>1 DEF Table!Load
  <2>3. Table!TypeOK'
    BY <1>0, <2>1, <2>2 DEF Table!TypeOK
  <2>4. \A x \in Actors \ {c} : s3'[x] = s3[x]
    BY <1>0, <2>1
  <2>5. s3'[c].run = r /\ s3'[c].version = s1[r].version
    BY <1>0, <2>1
  <2>6. ASSUME NEW x \in Actors
        PROVE  /\ s3'[x].version <= s1'[s3'[x].run].version
               /\ s2'[x] = "refused" => s3'[x].version < s1'[s3'[x].run].version
               /\ s2'[x] = "conflict" => s4'[x] > s3'[x].version
    <3>1. CASE x = c
      BY <1>11, <2>2, <2>5, <3>1
    <3>2. CASE x # c
      BY <2>2, <2>4, <3>2 DEF TableInv, Table!ConflictTellsWhy
    <3> QED
      BY <3>1, <3>2
  <2> QED
    BY <2>3, <2>6 DEF TableInv, Table!ConflictTellsWhy
<1>2. ASSUME NEW c \in Actors, Table!Save(c), Table!RowMatches(c) PROVE TableInv'
  <2>1. /\ s2[c] = "idle" /\ UNCHANGED <<s3, s4>> /\ s2' = [s2 EXCEPT ![c] = "saved"]
        /\ s1' = [s1 EXCEPT ![s3[c].run] = [version |-> s3[c].version + 1, author |-> c]]
        /\ s3[c].version < MaxVersion
    BY <1>2 DEF Table!Save
  <2>2. s3[c].version + 1 \in 0..MaxVersion /\ s1[s3[c].run].version = s3[c].version
    BY <1>0, <1>2, <2>1 DEF Table!RowMatches
  <2>3. Table!TypeOK'
    BY <1>0, <2>1, <2>2 DEF Table!TypeOK
  <2>4. \A r \in Things : s1'[r].version >= s1[r].version
    BY <1>0, <2>1, <2>2
  <2>5. \A r \in Things : s1'[r].version \in Nat
    <3>1. \A r \in Things : s1'[r].version \in 0..MaxVersion
      BY <2>3 DEF Table!TypeOK
    <3> QED
      BY <1>0, <3>1
  <2>6. ASSUME NEW x \in Actors
        PROVE  /\ s3'[x].version <= s1'[s3'[x].run].version
               /\ s2'[x] = "refused" => s3'[x].version < s1'[s3'[x].run].version
               /\ s2'[x] = "conflict" => s4'[x] > s3'[x].version
    <3>1. s3'[x] = s3[x] /\ s4'[x] = s4[x] /\ (s2'[x] # s2[x] => s2'[x] = "saved")
      BY <1>0, <2>1
    <3> QED
      BY <1>10, <1>11, <2>4, <2>5, <3>1 DEF TableInv, Table!ConflictTellsWhy
  <2> QED
    BY <2>3, <2>6 DEF TableInv, Table!ConflictTellsWhy
<1>3. ASSUME NEW c \in Actors, Table!Save(c), ~Table!RowMatches(c) PROVE TableInv'
  <2>1. /\ s2[c] = "idle" /\ UNCHANGED <<s1, s3, s4>> /\ s2' = [s2 EXCEPT ![c] = "refused"]
    BY <1>3 DEF Table!Save
  <2>2. s3[c].version < s1[s3[c].run].version
    <3>1. s3[c].version <= s1[s3[c].run].version /\ s1[s3[c].run].version # s3[c].version
      BY <1>3 DEF TableInv, Table!RowMatches
    <3> QED
      BY <1>10, <1>11, <3>1
  <2> QED
    BY <1>0, <2>1, <2>2 DEF TableInv, Table!TypeOK, Table!ConflictTellsWhy
<1>4. ASSUME NEW c \in Actors, Table!LoadLatest(c) PROVE TableInv'
  <2>1. /\ s2[c] = "refused" /\ UNCHANGED <<s1, s3>> /\ s2' = [s2 EXCEPT ![c] = "conflict"]
        /\ s4' = [s4 EXCEPT ![c] = s1[s3[c].run].version]
    BY <1>4 DEF Table!LoadLatest
  <2>2. s1[s3[c].run].version \in 0..MaxVersion /\ s3[c].version < s1[s3[c].run].version
    BY <1>0, <2>1 DEF TableInv
  <2> QED
    BY <1>0, <2>1, <2>2 DEF TableInv, Table!TypeOK, Table!ConflictTellsWhy
<1>5. ASSUME NEW c \in Actors, Table!TakeAnswer(c) PROVE TableInv'
  BY <1>0, <1>5 DEF Table!TakeAnswer, TableInv, Table!TypeOK, Table!ConflictTellsWhy
<1>6. ASSUME NEW c \in Actors, Table!Die(c) PROVE TableInv'
  <2>1. /\ UNCHANGED s1 /\ s2' = [s2 EXCEPT ![c] = "idle"] /\ s4' = [s4 EXCEPT ![c] = 0]
        /\ s3' = [s3 EXCEPT ![c].version = 0]
    BY <1>6 DEF Table!Die
  <2>2. /\ \A x \in Actors \ {c} : s3'[x] = s3[x]
        /\ s3'[c].run = s3[c].run /\ s3'[c].version = 0
    BY <1>0, <2>1
  <2>3. Table!TypeOK'
    <3>1. 0 \in 0..MaxVersion
      BY <1>0
    <3>2. s3' \in [Actors -> [run : Things, version : 0..MaxVersion]]
      BY <1>0, <2>1, <3>1
    <3> QED
      BY <1>0, <2>1, <3>1, <3>2 DEF Table!TypeOK
  <2> QED
    BY <1>0, <2>1, <2>2, <2>3 DEF TableInv, Table!ConflictTellsWhy
<1> QED
  BY <1>1, <1>2, <1>3, <1>4, <1>5, <1>6 DEF Table!Next, Table!Step, Table!Save

\* Every reachable state of the table satisfies its invariant.
LEMMA TableAlways == Spec => [](part = "table" => TableInv)
<1>1. Init => (part = "table" => TableInv)
  BY TableInit DEF Init
<1>2. (part = "table" => TableInv) /\ [Next]_vars => (part = "table" => TableInv)'
  <2> SUFFICES ASSUME part = "table" => TableInv, [Next]_vars, part' = "table"
               PROVE  TableInv'
    OBVIOUS
  <2>1. CASE Next
    <3>1. part = "table" /\ Table!Next
      BY <2>1 DEF Next
    <3> QED
      BY <3>1, TableStep
  <2>2. CASE UNCHANGED vars
    BY <2>2 DEF vars, TableInv, Table!TypeOK, Table!ConflictTellsWhy
  <2> QED
    BY <2>1, <2>2
<1> QED
  BY <1>1, <1>2, PTL DEF Spec

-----------------------------------------------------------------------------
(* The command executor: s1 is records, s2 call, s3 handled, s4 settled,   *)
(* s5 widowed.                                                             *)

ExecRecords == [status : Executor!Statuses, version : 0..3]
ExecCalls == [pc : {"idle", "insert", "require", "claim", "reload", "handle", "end"},
              cmd : Things, inserted : BOOLEAN, copy : ExecRecords,
              answer : Executor!Statuses \union {"threw"}]

\* The version of a record tells how far its command has come.
Staged(r) ==
  /\ r.status = "absent" <=> r.version = 0
  /\ r.status = "accepted" <=> r.version = 1
  /\ r.status = "executing" <=> r.version = 2

Executes(x, c) == s2[x].pc \in {"handle", "end"} /\ s2[x].cmd = c

\* What a record says of its command's handler.
RecordIsSound(c) ==
  /\ Staged(s1[c])
  /\ s1[c].version < 2 => s3[c] = 0
  /\ s1[c].version = 2 => c \in s5 \/ \E x \in Actors : Executes(x, c)
  /\ s1[c].status = "succeeded" => s4[c] = "returned"
  /\ s1[c].status = "failed" => s4[c] = "threw"
  /\ s3[c] <= 1

\* Until it claims a command, a call knows a stage that the record has reached; past the
\* claim it is alone with it.
CallIsSound(x) ==
  /\ s2[x].pc = "require" /\ s2[x].inserted => s1[s2[x].cmd].version >= 1
  /\ s2[x].pc = "claim" => /\ Staged(s2[x].copy) /\ s2[x].copy.version >= 1
                           /\ s2[x].copy.version <= s1[s2[x].cmd].version
  /\ s2[x].pc = "reload" => s1[s2[x].cmd].version >= 2
  /\ s2[x].pc \in {"handle", "end"} =>
       /\ s1[s2[x].cmd].version = 2
       /\ s2[x].copy.status = "executing" /\ s2[x].copy.version = 2
       /\ \A y \in Actors : Executes(y, s2[x].cmd) => y = x
  /\ s2[x].pc = "handle" => s3[s2[x].cmd] = 0
  /\ s2[x].pc = "end" => s4[s2[x].cmd] \in {"returned", "threw"}
  /\ s2[x].answer # "accepted"

ExecTypes ==
  /\ s1 \in [Things -> ExecRecords] /\ s2 \in [Actors -> ExecCalls]
  /\ s3 \in [Things -> Nat] /\ s4 \in [Things -> {"no", "returned", "threw"}]
  /\ s5 \subseteq Things

ExecInv ==
  /\ ExecTypes
  /\ \A c \in Things : RecordIsSound(c)
  /\ \A x \in Actors : CallIsSound(x)

LEMMA RestType ==
  ASSUME NEW answer \in Executor!Statuses \union {"threw"}
  PROVE  /\ Executor!Rest(answer) \in ExecCalls
         /\ Executor!Rest(answer).pc = "idle" /\ Executor!Rest(answer).answer = answer
<1>1. Executor!NoRecord \in ExecRecords
  BY DEF Executor!NoRecord, ExecRecords, Executor!Statuses
<1> QED
  BY <1>1, SomeThing DEF Executor!Rest, ExecCalls

LEMMA MovedType ==
  ASSUME NEW r \in ExecRecords, r.version \in {1, 2}, NEW s \in Executor!Statuses
  PROVE  /\ Executor!Moved(r, s) \in ExecRecords
         /\ Executor!Moved(r, s).status = s /\ Executor!Moved(r, s).version = r.version + 1
BY DEF Executor!Moved, ExecRecords

\* The fields of a call, one at a time.
LEMMA ExecFields ==
  ASSUME NEW r \in ExecCalls
  PROVE  /\ \A pc \in {"idle", "insert", "require", "claim", "reload", "handle", "end"} :
              [r EXCEPT !.pc = pc] \in ExecCalls
         /\ \A c \in Things : [r EXCEPT !.cmd = c] \in ExecCalls
         /\ \A b \in BOOLEAN : [r EXCEPT !.inserted = b] \in ExecCalls
         /\ \A k \in ExecRecords : [r EXCEPT !.copy = k] \in ExecCalls
<1>1. ASSUME NEW pc \in {"idle", "insert", "require", "claim", "reload", "handle", "end"}
      PROVE  [r EXCEPT !.pc = pc] \in ExecCalls
  BY DEF ExecCalls
<1>2. ASSUME NEW c \in Things PROVE [r EXCEPT !.cmd = c] \in ExecCalls
  BY DEF ExecCalls
<1>3. ASSUME NEW b \in BOOLEAN PROVE [r EXCEPT !.inserted = b] \in ExecCalls
  BY DEF ExecCalls
<1>4. ASSUME NEW k \in ExecRecords PROVE [r EXCEPT !.copy = k] \in ExecCalls
  BY DEF ExecCalls
<1> QED
  BY <1>1, <1>2, <1>3, <1>4

\* The record of one command and one call change, which had the command before.
LEMMA ExecFrame ==
  ASSUME ExecInv, NEW x \in Actors, NEW c \in Things, s2[x].cmd = c \/ s2[x].pc = "idle",
         NEW r \in ExecCalls, s2' = [s2 EXCEPT ![x] = r],
         NEW k \in ExecRecords, s1' = [s1 EXCEPT ![c] = k], k.version >= s1[c].version,
         ExecTypes', RecordIsSound(c)', CallIsSound(x)',
         r.pc \in {"handle", "end"} => r.cmd = c,
         \A y \in Actors \ {x} : Executes(y, c) => k.version = 2 /\ ~Executes(x, c)',
         \A t \in Things \ {c} : s3'[t] = s3[t] /\ s4'[t] = s4[t],
         (\E y \in Actors \ {x} : Executes(y, c)) => s3'[c] = s3[c] /\ s4'[c] = s4[c],
         s5 \subseteq s5'
  PROVE  ExecInv'
<1>1. \A y \in Actors \ {x} : s2'[y] = s2[y]
  BY DEF ExecInv, ExecTypes
<1>2. s2'[x] = r
  BY DEF ExecInv, ExecTypes
<1>3. s1'[c] = k /\ \A t \in Things \ {c} : s1'[t] = s1[t]
  BY DEF ExecInv, ExecTypes
<1>4. \A y \in Actors : s2[y].cmd \in Things /\ s2[y].copy.version \in 0..3
  BY DEF ExecInv, ExecTypes, ExecCalls, ExecRecords
<1>5. \A t \in Things : s1[t].version \in 0..3 /\ s1'[t].version \in 0..3
  BY DEF ExecInv, ExecTypes, ExecRecords
<1>6. ASSUME NEW t \in Things \ {c} PROVE RecordIsSound(t)'
  <2>1. ASSUME NEW y \in Actors, Executes(y, t) PROVE Executes(y, t)'
    <3>1. y # x
      BY <2>1 DEF Executes
    <3> QED
      BY <1>1, <2>1, <3>1 DEF Executes
  <2> QED
    BY <1>3, <2>1 DEF ExecInv, RecordIsSound, Staged
<1>7. ASSUME NEW y \in Actors \ {x} PROVE CallIsSound(y)'
  <2>1. CallIsSound(y)
    BY DEF ExecInv
  <2>2. s1'[s2[y].cmd].version >= s1[s2[y].cmd].version
    BY <1>3, <1>4, <1>5
  <2>3. ASSUME s2[y].pc \in {"handle", "end"}
        PROVE  /\ s1'[s2[y].cmd].version = 2
               /\ s3'[s2[y].cmd] = s3[s2[y].cmd] /\ s4'[s2[y].cmd] = s4[s2[y].cmd]
               /\ \A z \in Actors : Executes(z, s2[y].cmd)' => z = y
    <3>1. CASE s2[y].cmd = c
      <4>1. Executes(y, c)
        BY <2>3, <3>1 DEF Executes
      <4>2. ASSUME NEW z \in Actors, Executes(z, c)' PROVE z = y
        <5>1. z # x
          BY <4>1, <4>2
        <5>2. Executes(z, c)
          BY <1>1, <4>2, <5>1 DEF Executes
        <5> QED
          BY <2>1, <2>3, <3>1, <5>2 DEF CallIsSound
      <4> QED
        BY <1>3, <3>1, <4>1, <4>2
    <3>2. CASE s2[y].cmd # c
      <4>1. ASSUME NEW z \in Actors, Executes(z, s2[y].cmd)' PROVE z = y
        <5>1. z # x
          BY <1>2, <3>2, <4>1 DEF Executes
        <5>2. Executes(z, s2[y].cmd)
          BY <1>1, <4>1, <5>1 DEF Executes
        <5> QED
          BY <2>1, <2>3, <5>2 DEF CallIsSound
      <4> QED
        BY <1>3, <1>4, <2>1, <2>3, <3>2, <4>1 DEF CallIsSound
    <3> QED
      BY <3>1, <3>2
  <2>4. s2'[y] = s2[y]
    BY <1>1
  <2>5. s1[s2[y].cmd].version \in Nat /\ s1'[s2[y].cmd].version \in Nat /\ s2[y].copy.version \in Nat
    BY <1>4, <1>5
  <2> QED
    BY <2>1, <2>2, <2>3, <2>4, <2>5 DEF CallIsSound, Executes
<1> QED
  BY <1>6, <1>7 DEF ExecInv

\* A call goes on without touching the command's record or handler.
LEMMA CallMoves ==
  ASSUME ExecInv, NEW x \in Actors, NEW r \in ExecCalls, s2' = [s2 EXCEPT ![x] = r],
         UNCHANGED <<s1, s3, s4>>, s5 \subseteq s5', s5' \subseteq Things,
         r.pc \notin {"handle", "end"},
         s2[x].pc \in {"handle", "end"} => s2[x].cmd \in s5',
         CallIsSound(x)'
  PROVE  ExecInv'
<1>8. PICK c \in Things : s2[x].cmd = c
  BY DEF ExecInv, ExecTypes, ExecCalls
<1>1. s1[c] \in ExecRecords
  BY DEF ExecInv, ExecTypes
<1>2. s1' = [s1 EXCEPT ![c] = s1[c]] /\ s1[c].version >= s1[c].version
  BY <1>1 DEF ExecInv, ExecTypes, ExecRecords
<1>3. ExecTypes'
  BY DEF ExecInv, ExecTypes
<1>4. s2'[x] = r /\ \A y \in Actors \ {x} : s2'[y] = s2[y]
  BY DEF ExecInv, ExecTypes
<1>5. RecordIsSound(c)'
  <2>1. ASSUME NEW y \in Actors, Executes(y, c), c \notin s5' PROVE Executes(y, c)'
    <3>1. y # x
      BY <1>8, <2>1 DEF Executes
    <3> QED
      BY <1>4, <2>1, <3>1 DEF Executes
  <2> QED
    BY <1>1, <2>1 DEF ExecInv, RecordIsSound, Staged
<1>6. \A y \in Actors \ {x} : Executes(y, c) => s1[c].version = 2
  BY DEF ExecInv, CallIsSound, Executes
<1>7. ~Executes(x, c)'
  BY <1>4 DEF Executes
<1> QED
  BY <1>1, <1>2, <1>3, <1>4, <1>5, <1>6, <1>7, <1>8, ExecFrame

LEMMA ExecInit == Executor!Init => ExecInv
<1> SUFFICES ASSUME Executor!Init PROVE ExecInv
  OBVIOUS
<1>1. Executor!NoRecord \in ExecRecords /\ Staged(Executor!NoRecord)
  BY DEF Executor!NoRecord, ExecRecords, Executor!Statuses, Staged
<1>2. "absent" \in Executor!Statuses
  BY DEF Executor!Statuses
<1>3. ExecTypes
  BY <1>1, <1>2, RestType DEF Executor!Init, ExecTypes
<1>4. ASSUME NEW c \in Things PROVE RecordIsSound(c)
  BY <1>1 DEF Executor!Init, RecordIsSound, Executor!NoRecord
<1>5. ASSUME NEW x \in Actors PROVE CallIsSound(x)
  <2>1. s2[x].pc = "idle" /\ s2[x].answer = "absent"
    BY <1>2, RestType DEF Executor!Init
  <2> QED
    BY <2>1 DEF CallIsSound
<1> QED
  BY <1>3, <1>4, <1>5 DEF ExecInv

LEMMA ExecTypesOf ==
  ASSUME ExecInv, NEW x \in Actors
  PROVE  /\ s2[x] \in ExecCalls /\ s2[x].cmd \in Things /\ s2[x].copy \in ExecRecords
         /\ s1[s2[x].cmd] \in ExecRecords /\ s1[s2[x].cmd].version \in 0..3
         /\ s1[s2[x].cmd].status \in Executor!Statuses
         /\ s1 \in [Things -> ExecRecords] /\ s2 \in [Actors -> ExecCalls]
         /\ s3 \in [Things -> Nat] /\ s4 \in [Things -> {"no", "returned", "threw"}]
         /\ s5 \subseteq Things /\ s3[s2[x].cmd] \in Nat
BY DEF ExecInv, ExecTypes, ExecCalls, ExecRecords

LEMMA BeginKeeps ==
  ASSUME ExecInv, NEW x \in Actors, NEW c \in Things, Executor!Begin(x, c)
  PROVE  ExecInv'
<1>1. PICK a : a = Executor!Rest("absent")
  OBVIOUS
<1>2. a \in ExecCalls /\ a.answer = "absent"
  BY <1>1, RestType DEF Executor!Statuses
<1>3. PICK b : b = [a EXCEPT !.pc = "insert"]
  OBVIOUS
<1>4. b \in ExecCalls /\ b.pc = "insert" /\ b.answer = "absent"
  BY <1>2, <1>3, ExecFields DEF ExecCalls
<1>5. PICK r : r = [b EXCEPT !.cmd = c]
  OBVIOUS
<1>6. r \in ExecCalls /\ r.pc = "insert" /\ r.answer = "absent"
  BY <1>4, <1>5, ExecFields DEF ExecCalls
<1>7. r = [Executor!Rest("absent") EXCEPT !.pc = "insert", !.cmd = c]
  BY <1>1, <1>2, <1>3, <1>5 DEF ExecCalls
<1>8. s2[x].pc = "idle" /\ s2' = [s2 EXCEPT ![x] = r] /\ UNCHANGED <<s1, s3, s4, s5>>
  BY <1>7 DEF Executor!Begin
<1>9. CallIsSound(x)'
  BY <1>6, <1>8, ExecTypesOf DEF CallIsSound
<1> QED
  BY <1>6, <1>8, <1>9, ExecTypesOf, CallMoves

LEMMA InsertKeeps ==
  ASSUME ExecInv, NEW x \in Actors, Executor!InsertIfAbsent(x)
  PROVE  ExecInv'
<1>12. PICK c \in Things : s2[x].cmd = c
  BY ExecTypesOf
<1>13. PICK absent \in BOOLEAN : absent = (s1[c].status = "absent")
  OBVIOUS
<1>0. /\ s2[x].pc = "insert" /\ UNCHANGED <<s3, s4, s5>>
      /\ s2' = [s2 EXCEPT ![x].pc = "require", ![x].inserted = absent]
      /\ IF absent THEN s1' = [s1 EXCEPT ![c] = [status |-> "accepted", version |-> 1]]
                   ELSE s1' = s1
  BY <1>12, <1>13 DEF Executor!InsertIfAbsent, Executor!Insert
<1>1. PICK a : a = [s2[x] EXCEPT !.pc = "require"]
  OBVIOUS
<1>2. /\ a \in ExecCalls
      /\ a.pc = "require" /\ a.cmd = c /\ a.answer = s2[x].answer
  <2>1. s2[x] \in ExecCalls
    BY ExecTypesOf
  <2>2. a \in ExecCalls
    BY <1>1, <2>1, ExecFields
  <2> QED
    BY <1>1, <1>12, <2>1, <2>2 DEF ExecCalls
<1>3. PICK r : r = [a EXCEPT !.inserted = absent]
  OBVIOUS
<1>5. r \in ExecCalls /\ r.pc = "require" /\ r.cmd = c /\ r.answer = s2[x].answer /\ r.inserted = absent
  <2>1. r \in ExecCalls
    BY <1>2, <1>3, ExecFields
  <2> QED
    BY <1>2, <1>3, <2>1 DEF ExecCalls
<1>6. r = [s2[x] EXCEPT !.pc = "require", !.inserted = absent]
  BY <1>1, <1>3, ExecTypesOf DEF ExecCalls
<1>7. s2' = [s2 EXCEPT ![x] = r]
  BY <1>0, <1>6, ExecTypesOf
<1>8. s2'[x] = r
  BY <1>7, ExecTypesOf
<1>9. s2[x].answer # "accepted"
  BY DEF ExecInv, CallIsSound
<1>10. CASE absent
  <2>1. PICK k : k = [status |-> "accepted", version |-> 1]
    OBVIOUS
  <2>2. k \in ExecRecords /\ k.version = 1 /\ k.status = "accepted"
    BY <2>1 DEF ExecRecords, Executor!Statuses
  <2>3. s1' = [s1 EXCEPT ![c] = k]
    BY <1>0, <1>10, <2>1
  <2>4. s1'[c] = k
    BY <2>3, ExecTypesOf
  <2>5. s1[c].version = 0 /\ s3[c] = 0
    <3>1. s1[c].status = "absent"
      BY <1>10, <1>13, Zenon
    <3> QED
      BY <1>12, <3>1, ExecTypesOf DEF ExecInv, RecordIsSound, Staged
  <2>6. ExecTypes'
    BY <1>0, <1>5, <1>7, <2>2, <2>3, ExecTypesOf DEF ExecTypes
  <2>7. RecordIsSound(c)'
    <3>1. s3'[c] = 0 /\ s1'[c].version = 1 /\ s1'[c].status = "accepted"
      BY <1>0, <2>2, <2>4, <2>5
    <3> QED
      BY <3>1 DEF RecordIsSound, Staged
  <2>8. CallIsSound(x)'
    BY <1>5, <1>8, <1>9, <2>2, <2>4 DEF CallIsSound
  <2>9. \A y \in Actors : ~Executes(y, c)
    BY <2>5 DEF ExecInv, CallIsSound, Executes
  <2>10. k.version >= s1[c].version /\ r.pc \notin {"handle", "end"}
    BY <1>5, <2>2, <2>5
  <2>11. \A t \in Things \ {c} : s3'[t] = s3[t] /\ s4'[t] = s4[t]
    BY <1>0
  <2> QED
    BY <1>0, <1>5, <1>7, <2>2, <2>3, <2>5, <2>6, <2>7, <2>8, <2>9, <2>10, <2>11, <1>12, ExecFrame
<1>11. CASE ~absent
  <2>1. UNCHANGED <<s1, s3, s4, s5>>
    BY <1>0, <1>11
  <2>3. s1[c].version >= 1
    <3>1. s1[c].status # "absent"
      BY <1>11, <1>13, Zenon
    <3>2. s1[c].version # 0 /\ s1[c].version \in 0..3
      BY <1>12, <3>1, ExecTypesOf DEF ExecInv, RecordIsSound, Staged
    <3> QED
      BY <3>2
  <2>2. CallIsSound(x)'
    BY <1>5, <1>8, <1>9, <1>11, <1>12, <1>13, <2>1, <2>3 DEF CallIsSound
  <2> QED
    BY <1>0, <1>5, <1>7, <2>1, <2>2, ExecTypesOf, CallMoves
<1> QED
  BY <1>10, <1>11

LEMMA RequireKeeps ==
  ASSUME ExecInv, NEW x \in Actors, Executor!Require(x)
  PROVE  ExecInv'
<1> DEFINE c == s2[x].cmd
<1>0. s2[x].pc = "require" /\ UNCHANGED <<s1, s3, s4, s5>>
  BY DEF Executor!Require
<1>1. CASE ~s2[x].inserted /\ s1[c].status # "accepted"
  <2>1. PICK r : r = Executor!Rest(s1[c].status)
    OBVIOUS
  <2>2. r \in ExecCalls /\ r.pc = "idle" /\ r.answer = s1[c].status
    BY <2>1, ExecTypesOf, RestType
  <2>3. s2' = [s2 EXCEPT ![x] = r]
    BY <1>1, <2>1 DEF Executor!Require
  <2>4. CallIsSound(x)'
    BY <1>1, <2>2, <2>3, ExecTypesOf DEF CallIsSound
  <2> QED
    BY <1>0, <2>2, <2>3, <2>4, ExecTypesOf, CallMoves
<1>2. CASE s2[x].inserted \/ s1[c].status = "accepted"
  <2>1. PICK a : a = [s2[x] EXCEPT !.pc = "claim"]
    OBVIOUS
  <2>2. a \in ExecCalls /\ a.pc = "claim" /\ a.cmd = c /\ a.answer = s2[x].answer
    <3>1. s2[x] \in ExecCalls
      BY ExecTypesOf
    <3>2. a \in ExecCalls
      BY <2>1, <3>1, ExecFields
    <3> QED
      BY <2>1, <3>1, <3>2 DEF ExecCalls
  <2>3. PICK r : r = [a EXCEPT !.copy = s1[c]]
    OBVIOUS
  <2>4. r \in ExecCalls /\ r.pc = "claim" /\ r.cmd = c /\ r.answer = s2[x].answer /\ r.copy = s1[c]
    <3>1. s1[c] \in ExecRecords
      BY ExecTypesOf
    <3>2. r \in ExecCalls
      BY <2>2, <2>3, <3>1, ExecFields
    <3> QED
      BY <2>2, <2>3, <3>2 DEF ExecCalls
  <2>5. r = [s2[x] EXCEPT !.pc = "claim", !.copy = s1[c]]
    BY <2>1, <2>3, ExecTypesOf DEF ExecCalls
  <2>6. s2' = [s2 EXCEPT ![x] = r]
    BY <1>2, <2>5, ExecTypesOf DEF Executor!Require
  <2>7. s2'[x] = r
    BY <2>6, ExecTypesOf
  <2>8. Staged(s1[c]) /\ s1[c].version >= 1 /\ s1[c].version <= s1[c].version
    <3>1. Staged(s1[c])
      BY ExecTypesOf DEF ExecInv, RecordIsSound
    <3>2. s2[x].inserted => s1[c].version >= 1
      BY <1>0 DEF ExecInv, CallIsSound
    <3> QED
      BY <1>2, <3>1, <3>2, ExecTypesOf DEF Staged
  <2>9. CallIsSound(x)'
    <3>1. s2[x].answer # "accepted"
      BY DEF ExecInv, CallIsSound
    <3> QED
      BY <1>0, <2>4, <2>7, <2>8, <3>1 DEF CallIsSound, Staged
  <2> QED
    BY <1>0, <2>4, <2>6, <2>9, ExecTypesOf, CallMoves
<1> QED
  BY <1>1, <1>2

LEMMA ClaimKeeps ==
  ASSUME ExecInv, NEW x \in Actors, Executor!Claim(x)
  PROVE  ExecInv'
<1>1. PICK c \in Things : s2[x].cmd = c
  BY ExecTypesOf
<1>2. PICK copy \in ExecRecords : copy = s2[x].copy
  BY ExecTypesOf
<1>3. /\ s2[x].pc = "claim" /\ UNCHANGED <<s3, s4, s5>>
      /\ s2[x] \in ExecCalls /\ s1[c] \in ExecRecords
  BY <1>1, ExecTypesOf DEF Executor!Claim
<1>4. /\ Staged(copy) /\ copy.version >= 1 /\ copy.version <= s1[c].version
      /\ s2[x].answer # "accepted"
  BY <1>1, <1>2, <1>3 DEF ExecInv, CallIsSound
<1>5. copy.version \in 0..3 /\ s1[c].version \in 0..3
  BY <1>3 DEF ExecRecords
<1>6. CASE Executor!Fits(c, copy) /\ Executor!Transition(copy.status, "executing")
  <2>1. copy.version = 1 /\ s1[c].version = 1
    BY <1>4, <1>5, <1>6 DEF Executor!Fits, Executor!Transition, Staged
  <2>2. PICK k : k = Executor!Moved(copy, "executing")
    OBVIOUS
  <2>3. k \in ExecRecords /\ k.status = "executing" /\ k.version = 2
    <3>1. "executing" \in Executor!Statuses
      BY DEF Executor!Statuses
    <3> QED
      BY <2>1, <2>2, <3>1, MovedType
  <2>4. s1' = [s1 EXCEPT ![c] = k]
    BY <1>1, <1>2, <1>6, <2>2 DEF Executor!Claim, Executor!Fits, Executor!Transition
  <2>5. s2' = [s2 EXCEPT ![x].pc = "handle", ![x].copy = k]
    BY <1>1, <1>2, <1>6, <2>2 DEF Executor!Claim, Executor!Fits, Executor!Transition
  <2>6. PICK a : a = [s2[x] EXCEPT !.pc = "handle"]
    OBVIOUS
  <2>7. a \in ExecCalls
    BY <1>3, <2>6, ExecFields
  <2>8. a.pc = "handle" /\ a.cmd = c /\ a.answer = s2[x].answer
    BY <1>1, <1>3, <2>6 DEF ExecCalls
  <2>9. PICK r : r = [a EXCEPT !.copy = k]
    OBVIOUS
  <2>10. r \in ExecCalls
    BY <2>3, <2>7, <2>9, ExecFields
  <2>11. r.pc = "handle" /\ r.cmd = c /\ r.answer = s2[x].answer /\ r.copy = k
    BY <2>7, <2>8, <2>9 DEF ExecCalls
  <2>12. s2' = [s2 EXCEPT ![x] = r]
    BY <1>3, <2>5, <2>6, <2>9, ExecTypesOf DEF ExecCalls
  <2>13. s2'[x] = r /\ s1'[c] = k /\ \A y \in Actors \ {x} : s2'[y] = s2[y]
    BY <2>4, <2>12, ExecTypesOf
  <2>14. \A y \in Actors : ~Executes(y, c)
    BY <2>1 DEF ExecInv, CallIsSound, Executes
  <2>15. s3[c] = 0
    BY <2>1 DEF ExecInv, RecordIsSound
  <2>16. ExecTypes'
    BY <1>3, <2>3, <2>4, <2>10, <2>12, ExecTypesOf DEF ExecTypes
  <2>17. RecordIsSound(c)'
    <3>1. Executes(x, c)'
      BY <2>11, <2>13 DEF Executes
    <3>2. s3'[c] = 0
      BY <1>3, <2>15
    <3> QED
      BY <2>3, <2>13, <3>1, <3>2 DEF RecordIsSound, Staged
  <2>18. CallIsSound(x)'
    <3>1. \A y \in Actors : Executes(y, c)' => y = x
      BY <2>13, <2>14 DEF Executes
    <3>2. s3'[c] = 0
      BY <1>3, <2>15
    <3> QED
      BY <1>4, <2>3, <2>11, <2>13, <3>1, <3>2 DEF CallIsSound, Executes
  <2>19. k.version >= s1[c].version
    BY <2>1, <2>3
  <2>20. \A t \in Things \ {c} : s3'[t] = s3[t] /\ s4'[t] = s4[t]
    BY <1>3
  <2> QED
    BY <1>1, <1>3, <2>3, <2>4, <2>10, <2>11, <2>12, <2>14, <2>16, <2>17, <2>18, <2>19, <2>20, ExecFrame
<1>7. CASE Executor!Fits(c, copy) /\ ~Executor!Transition(copy.status, "executing")
  <2>1. s2' = [s2 EXCEPT ![x] = Executor!Rest("threw")] /\ UNCHANGED s1
    BY <1>1, <1>2, <1>7 DEF Executor!Claim, Executor!Fits, Executor!Transition
  <2>2. PICK r : r = Executor!Rest("threw")
    OBVIOUS
  <2>3. r \in ExecCalls /\ r.pc = "idle" /\ r.answer = "threw"
    BY <2>2, RestType
  <2>4. CallIsSound(x)'
    BY <2>1, <2>2, <2>3, ExecTypesOf DEF CallIsSound
  <2> QED
    BY <1>3, <2>1, <2>2, <2>3, <2>4, ExecTypesOf, CallMoves
<1>8. CASE ~Executor!Fits(c, copy)
  <2>1. s2' = [s2 EXCEPT ![x].pc = "reload"] /\ UNCHANGED s1
    BY <1>1, <1>2, <1>8 DEF Executor!Claim, Executor!Fits
  <2>2. PICK r : r = [s2[x] EXCEPT !.pc = "reload"]
    OBVIOUS
  <2>3. r \in ExecCalls
    BY <1>3, <2>2, ExecFields
  <2>4. r.pc = "reload" /\ r.cmd = c /\ r.answer = s2[x].answer
    BY <1>1, <1>3, <2>2 DEF ExecCalls
  <2>5. s2' = [s2 EXCEPT ![x] = r]
    BY <2>1, <2>2, ExecTypesOf
  <2>6. s1[c].version >= 2
    BY <1>4, <1>5, <1>8 DEF Executor!Fits
  <2>7. s2'[x] = r /\ s1'[c] = s1[c]
    BY <2>1, <2>5, ExecTypesOf
  <2>8. CallIsSound(x)'
    BY <1>4, <2>4, <2>6, <2>7 DEF CallIsSound
  <2> QED
    BY <1>3, <2>1, <2>3, <2>4, <2>5, <2>8, ExecTypesOf, CallMoves
<1> QED
  BY <1>6, <1>7, <1>8

LEMMA ReloadKeeps ==
  ASSUME ExecInv, NEW x \in Actors, Executor!Reload(x)
  PROVE  ExecInv'
<1>1. PICK c \in Things : s2[x].cmd = c
  BY ExecTypesOf
<1>2. /\ s2[x].pc = "reload" /\ UNCHANGED <<s1, s3, s4, s5>>
      /\ s2' = [s2 EXCEPT ![x] = Executor!Rest(s1[c].status)]
  BY <1>1, ExecTypesOf DEF Executor!Reload
<1>3. s1[c].version >= 2 /\ s1[c].version \in 0..3 /\ Staged(s1[c])
  BY <1>1, <1>2, ExecTypesOf DEF ExecInv, CallIsSound, RecordIsSound
<1>4. s1[c].status \in Executor!Statuses /\ s1[c].status # "accepted"
  BY <1>1, <1>3, ExecTypesOf DEF Staged
<1>5. PICK r : r = Executor!Rest(s1[c].status)
  OBVIOUS
<1>6. r \in ExecCalls /\ r.pc = "idle" /\ r.answer # "accepted"
  BY <1>4, <1>5, RestType
<1>7. CallIsSound(x)'
  BY <1>2, <1>5, <1>6, ExecTypesOf DEF CallIsSound
<1> QED
  BY <1>2, <1>5, <1>6, <1>7, ExecTypesOf, CallMoves

LEMMA ExecDies ==
  ASSUME ExecInv, NEW x \in Actors, Executor!Die(x)
  PROVE  ExecInv'
<1>1. PICK r : r = Executor!Rest("absent")
  OBVIOUS
<1>2. r \in ExecCalls /\ r.pc = "idle" /\ r.answer = "absent"
  BY <1>1, RestType DEF Executor!Statuses
<1>3. /\ s2' = [s2 EXCEPT ![x] = r] /\ UNCHANGED <<s1, s3, s4>>
      /\ s5' = IF s2[x].pc \in {"handle", "end"} THEN s5 \union {s2[x].cmd} ELSE s5
  BY <1>1 DEF Executor!Die
<1>4. s5 \subseteq s5' /\ s5' \subseteq Things /\ (s2[x].pc \in {"handle", "end"} => s2[x].cmd \in s5')
  BY <1>3, ExecTypesOf
<1>5. CallIsSound(x)'
  BY <1>2, <1>3, ExecTypesOf DEF CallIsSound
<1> QED
  BY <1>2, <1>3, <1>4, <1>5, CallMoves

LEMMA HandleKeeps ==
  ASSUME ExecInv, NEW x \in Actors, Executor!Handle(x)
  PROVE  ExecInv'
<1>1. PICK c \in Things : s2[x].cmd = c
  BY ExecTypesOf
<1>2. /\ s2[x].pc = "handle" /\ UNCHANGED <<s1, s5>> /\ s2[x] \in ExecCalls
      /\ s3' = [s3 EXCEPT ![c] = s3[c] + 1]
      /\ s2' = [s2 EXCEPT ![x].pc = "end"]
  BY <1>1, ExecTypesOf DEF Executor!Handle
<1>3. PICK outcome \in {"returned", "threw"} : s4' = [s4 EXCEPT ![c] = outcome]
  BY <1>1 DEF Executor!Handle
<1>4. PICK r : r = [s2[x] EXCEPT !.pc = "end"]
  OBVIOUS
<1>5. r \in ExecCalls
  BY <1>2, <1>4, ExecFields
<1>6. r.pc = "end" /\ r.cmd = c /\ r.answer = s2[x].answer /\ r.copy = s2[x].copy
  BY <1>1, <1>2, <1>4 DEF ExecCalls
<1>7. s2' = [s2 EXCEPT ![x] = r]
  BY <1>2, <1>4, ExecTypesOf
<1>8. s2'[x] = r /\ \A y \in Actors \ {x} : s2'[y] = s2[y]
  BY <1>7, ExecTypesOf
<1>9. /\ s1[c].version = 2 /\ s2[x].copy.status = "executing" /\ s2[x].copy.version = 2
      /\ \A y \in Actors : Executes(y, c) => y = x
      /\ s3[c] = 0 /\ s2[x].answer # "accepted"
  BY <1>1, <1>2 DEF ExecInv, CallIsSound
<1>10. s1' = [s1 EXCEPT ![c] = s1[c]] /\ s1[c] \in ExecRecords /\ s1[c].version >= s1[c].version
  BY <1>2, <1>9, ExecTypesOf, <1>1
<1>11. s3'[c] = 1 /\ s4'[c] = outcome
  BY <1>2, <1>3, <1>9, ExecTypesOf
<1>12. ExecTypes'
  BY <1>2, <1>3, <1>5, <1>7, ExecTypesOf DEF ExecTypes
<1>13. Executes(x, c)'
  BY <1>6, <1>8 DEF Executes
<1>14. RecordIsSound(c)'
  <2>1. Staged(s1[c]) /\ s1[c].status = "executing" /\ s1'[c] = s1[c]
    BY <1>2, <1>9 DEF ExecInv, RecordIsSound, Staged
  <2> QED
    BY <1>9, <1>11, <1>13, <2>1 DEF RecordIsSound
<1>15. CallIsSound(x)'
  <2>1. \A y \in Actors : Executes(y, c)' => y = x
    BY <1>8, <1>9 DEF Executes
  <2> QED
    BY <1>2, <1>6, <1>8, <1>9, <1>11, <2>1 DEF CallIsSound, Executes
<1>16. \A t \in Things \ {c} : s3'[t] = s3[t] /\ s4'[t] = s4[t]
  BY <1>2, <1>3, ExecTypesOf
<1>17. \A y \in Actors \ {x} : ~Executes(y, c)
  BY <1>9
<1>18. s5 \subseteq s5'
  BY <1>2
<1> QED
  BY <1>1, <1>5, <1>6, <1>7, <1>10, <1>12, <1>14, <1>15, <1>16, <1>17, <1>18, ExecFrame

LEMMA EndKeeps ==
  ASSUME ExecInv, NEW x \in Actors, Executor!End(x)
  PROVE  ExecInv'
<1>1. PICK c \in Things : s2[x].cmd = c
  BY ExecTypesOf
<1>2. PICK copy \in ExecRecords : copy = s2[x].copy
  BY ExecTypesOf
<1>3. s2[x].pc = "end" /\ UNCHANGED <<s3, s4, s5>> /\ s2[x] \in ExecCalls
  BY ExecTypesOf DEF Executor!End
<1>4. /\ s1[c].version = 2 /\ copy.status = "executing" /\ copy.version = 2
      /\ \A y \in Actors : Executes(y, c) => y = x
      /\ s4[c] \in {"returned", "threw"}
  BY <1>1, <1>2, <1>3 DEF ExecInv, CallIsSound
<1>5. PICK status \in {"succeeded", "failed"} :
        status = IF s4[c] = "returned" THEN "succeeded" ELSE "failed"
  OBVIOUS
<1>6. Executor!Fits(c, copy) /\ Executor!Transition(copy.status, status)
  BY <1>4 DEF Executor!Fits, Executor!Transition
<1>7. PICK k : k = Executor!Moved(copy, status)
  OBVIOUS
<1>8. k \in ExecRecords /\ k.status = status /\ k.version = 3
  <2>1. status \in Executor!Statuses
    BY DEF Executor!Statuses
  <2> QED
    BY <1>4, <1>7, <2>1, MovedType
<1>9. s1' = [s1 EXCEPT ![c] = k]
  BY <1>1, <1>2, <1>5, <1>6, <1>7 DEF Executor!End
<1>10. PICK answer \in {"succeeded", "threw"} : s2' = [s2 EXCEPT ![x] = Executor!Rest(answer)]
  <2>1. PICK answer : answer = IF status = "failed" \/ ~Executor!Fits(c, copy) THEN "threw" ELSE status
    OBVIOUS
  <2>2. answer \in {"succeeded", "threw"}
    BY <2>1
  <2>3. s2' = [s2 EXCEPT ![x] = Executor!Rest(answer)]
    BY <1>1, <1>2, <1>5, <2>1 DEF Executor!End
  <2> QED
    BY <2>2, <2>3
<1>11. PICK r : r = Executor!Rest(answer)
  OBVIOUS
<1>12. r \in ExecCalls /\ r.pc = "idle" /\ r.answer = answer
  <2>1. answer \in Executor!Statuses \union {"threw"}
    BY DEF Executor!Statuses
  <2> QED
    BY <1>11, <2>1, RestType
<1>13. s2' = [s2 EXCEPT ![x] = r] /\ s2'[x] = r /\ s1'[c] = k
  BY <1>9, <1>10, <1>11, ExecTypesOf
<1>14. ExecTypes'
  BY <1>3, <1>8, <1>9, <1>12, <1>13, ExecTypesOf DEF ExecTypes
<1>15. RecordIsSound(c)'
  <2>1. s3'[c] <= 1
    BY <1>3 DEF ExecInv, RecordIsSound
  <2>2. status = "succeeded" => s4'[c] = "returned"
    BY <1>3, <1>5
  <2>3. status = "failed" => s4'[c] = "threw"
    BY <1>3, <1>4, <1>5
  <2> QED
    BY <1>8, <1>13, <2>1, <2>2, <2>3 DEF RecordIsSound, Staged
<1>16. CallIsSound(x)'
  BY <1>12, <1>13 DEF CallIsSound
<1>17. \A t \in Things \ {c} : s3'[t] = s3[t] /\ s4'[t] = s4[t]
  BY <1>3
<1>18. \A y \in Actors \ {x} : ~Executes(y, c)
  BY <1>4
<1>19. k.version >= s1[c].version /\ s5 \subseteq s5'
  BY <1>3, <1>4, <1>8
<1> QED
  BY <1>1, <1>8, <1>9, <1>12, <1>13, <1>14, <1>15, <1>16, <1>17, <1>18, <1>19, ExecFrame

\* Every reachable state of the executor satisfies its invariant.
LEMMA ExecAlways == Spec => [](part = "executor" => ExecInv)
<1>1. Init => (part = "executor" => ExecInv)
  BY ExecInit DEF Init
<1>2. (part = "executor" => ExecInv) /\ [Next]_vars => (part = "executor" => ExecInv)'
  <2> SUFFICES ASSUME part = "executor" => ExecInv, [Next]_vars, part' = "executor"
               PROVE  ExecInv'
    OBVIOUS
  <2>1. CASE Next
    <3>1. ExecInv /\ Executor!Next
      BY <2>1 DEF Next
    <3>2. PICK x \in Actors :
            Executor!Step(x) \/ Executor!Die(x) \/ \E c \in Things : Executor!Begin(x, c)
      BY <3>1 DEF Executor!Next
    <3> QED
      BY <3>1, <3>2, BeginKeeps, InsertKeeps, RequireKeeps, ClaimKeeps, ReloadKeeps, HandleKeeps,
         EndKeeps, ExecDies DEF Executor!Step
  <2>2. CASE UNCHANGED vars
    BY <2>2 DEF vars, ExecInv, ExecTypes, RecordIsSound, CallIsSound, Executes
  <2> QED
    BY <2>1, <2>2
<1> QED
  BY <1>1, <1>2, PTL DEF Spec

\* Executor!HandledOnce, by the invariant.
LEMMA ExecHolds == ASSUME ExecInv PROVE Executor!TypeOK /\ Executor!HandledOnce
<1>1. Executor!TypeOK
  BY DEF ExecInv, ExecTypes, Executor!TypeOK, ExecCalls, ExecRecords
<1>2. ASSUME NEW c \in Things
      PROVE  /\ s3[c] <= 1
             /\ s1[c].status = "succeeded" => s4[c] = "returned"
             /\ s1[c].status = "failed" => s4[c] = "threw"
             /\ s1[c].status = "executing" =>
                  c \in s5 \/ \E x \in Actors : s2[x].cmd = c /\ s2[x].pc \in {"handle", "end"}
  <2>1. RecordIsSound(c)
    BY DEF ExecInv
  <2> QED
    BY <2>1 DEF RecordIsSound, Staged, Executes
<1>3. \A x \in Actors : s2[x].answer # "accepted"
  BY DEF ExecInv, CallIsSound
<1> QED
  BY <1>1, <1>2, <1>3 DEF Executor!HandledOnce

-----------------------------------------------------------------------------
(* The cutover: s1 is evidence, s2 fence, s3 worker, s4 done.              *)

CutoverWorkers == [gateway : BOOLEAN, allowed : BOOLEAN,
                   since : 0..MaxWithdrawals, epoch : 0..MaxRotations]

CutoverTypes ==
  /\ s1 \in [facts : SUBSET Facts, withdrawn : 0..MaxWithdrawals]
  /\ s2 \in [epoch : 0..MaxRotations, owner : Actors \union {Cutover!Nobody}]
  /\ s3 \in [Actors -> CutoverWorkers]
  /\ s4 \in [beside : SUBSET Facts, late : BOOLEAN, epoch : 0..MaxRotations]

\* A permission that is as old as the last withdrawal is still founded on all facts; and no
\* update was made under an epoch that is yet to come.
CutoverInv ==
  /\ CutoverTypes
  /\ \A w \in Actors :
       /\ s3[w].since <= s1.withdrawn
       /\ s3[w].allowed /\ s3[w].since = s1.withdrawn => s1.facts = Facts
  /\ s4.epoch <= s2.epoch
  /\ Cutover!NoMixedWriters

LEMMA CutoverBounds ==
  /\ MaxWithdrawals \in Nat /\ MaxRotations \in Nat
  /\ 0..MaxWithdrawals \subseteq Nat /\ 0..MaxRotations \subseteq Nat
  /\ 0 \in 0..MaxWithdrawals /\ 0 \in 0..MaxRotations
BY Bounds

\* One worker changes.
LEMMA WorkerFields ==
  ASSUME NEW r \in CutoverWorkers
  PROVE  /\ \A b \in BOOLEAN : [r EXCEPT !.gateway = b] \in CutoverWorkers
         /\ \A b \in BOOLEAN : [r EXCEPT !.allowed = b] \in CutoverWorkers
         /\ \A n \in 0..MaxWithdrawals : [r EXCEPT !.since = n] \in CutoverWorkers
         /\ \A n \in 0..MaxRotations : [r EXCEPT !.epoch = n] \in CutoverWorkers
<1>1. ASSUME NEW b \in BOOLEAN
      PROVE  [r EXCEPT !.gateway = b] \in CutoverWorkers /\ [r EXCEPT !.allowed = b] \in CutoverWorkers
  BY DEF CutoverWorkers
<1>2. ASSUME NEW n \in 0..MaxWithdrawals PROVE [r EXCEPT !.since = n] \in CutoverWorkers
  BY DEF CutoverWorkers
<1>3. ASSUME NEW n \in 0..MaxRotations PROVE [r EXCEPT !.epoch = n] \in CutoverWorkers
  BY DEF CutoverWorkers
<1> QED
  BY <1>1, <1>2, <1>3

LEMMA CutoverInit == Cutover!Init => CutoverInv
<1> SUFFICES ASSUME Cutover!Init PROVE CutoverInv
  OBVIOUS
<1>1. CutoverTypes
  BY CutoverBounds DEF Cutover!Init, CutoverTypes, CutoverWorkers
<1> QED
  BY <1>1, CutoverBounds DEF Cutover!Init, CutoverInv, Cutover!NoMixedWriters

LEMMA WorkerChanges ==
  ASSUME CutoverInv, NEW w \in Actors, NEW r \in CutoverWorkers, s3' = [s3 EXCEPT ![w] = r],
         UNCHANGED <<s1, s2>>, CutoverTypes', s4'.epoch <= s2.epoch, Cutover!NoMixedWriters',
         r.since <= s1.withdrawn,
         r.allowed /\ r.since = s1.withdrawn => s1.facts = Facts
  PROVE  CutoverInv'
<1>1. s3'[w] = r /\ \A v \in Actors \ {w} : s3'[v] = s3[v]
  BY DEF CutoverInv, CutoverTypes
<1> QED
  BY <1>1 DEF CutoverInv

LEMMA CutoverStep == ASSUME CutoverInv, Cutover!Next PROVE CutoverInv'
<1>0. /\ s3 \in [Actors -> CutoverWorkers]
      /\ \A w \in Actors : s3[w] \in CutoverWorkers /\ s3[w].since \in 0..MaxWithdrawals
                           /\ s3[w].epoch \in 0..MaxRotations
      /\ s1.withdrawn \in 0..MaxWithdrawals /\ s1.facts \subseteq Facts
      /\ s2.epoch \in 0..MaxRotations /\ s4.epoch \in 0..MaxRotations
  BY DEF CutoverInv, CutoverTypes, CutoverWorkers
<1>1. ASSUME NEW w \in Actors, Cutover!Bootstrap(w) PROVE CutoverInv'
  <2>1. s3' = [s3 EXCEPT ![w].gateway = TRUE] /\ UNCHANGED <<s1, s2, s4>>
    BY <1>1 DEF Cutover!Bootstrap
  <2>2. PICK r : r = [s3[w] EXCEPT !.gateway = TRUE]
    OBVIOUS
  <2>3. r \in CutoverWorkers
    BY <1>0, <2>2, WorkerFields
  <2>4. s3' = [s3 EXCEPT ![w] = r] /\ r.since = s3[w].since /\ r.allowed = s3[w].allowed
    BY <1>0, <2>1, <2>2 DEF CutoverWorkers
  <2>5. CutoverTypes'
    BY <2>1, <2>3, <2>4 DEF CutoverInv, CutoverTypes
  <2>6. Cutover!NoMixedWriters' /\ s4'.epoch <= s2.epoch
    BY <2>1 DEF CutoverInv, Cutover!NoMixedWriters
  <2> QED
    BY <2>1, <2>3, <2>4, <2>5, <2>6, WorkerChanges DEF CutoverInv
<1>2. ASSUME NEW w \in Actors, Cutover!Check(w) PROVE CutoverInv'
  <2>1. /\ s3' = [s3 EXCEPT ![w].allowed = TRUE, ![w].since = s1.withdrawn]
        /\ UNCHANGED <<s1, s2, s4>> /\ s1.facts = Facts
    BY <1>2 DEF Cutover!Check, Cutover!Eligible
  <2>2. PICK a : a = [s3[w] EXCEPT !.allowed = TRUE]
    OBVIOUS
  <2>3. a \in CutoverWorkers
    BY <1>0, <2>2, WorkerFields
  <2>4. PICK r : r = [a EXCEPT !.since = s1.withdrawn]
    OBVIOUS
  <2>5. r \in CutoverWorkers /\ r.since = s1.withdrawn
    BY <1>0, <2>3, <2>4, WorkerFields DEF CutoverWorkers
  <2>6. s3' = [s3 EXCEPT ![w] = r]
    BY <1>0, <2>1, <2>2, <2>4 DEF CutoverWorkers
  <2>7. CutoverTypes'
    BY <2>1, <2>5, <2>6 DEF CutoverInv, CutoverTypes
  <2>8. Cutover!NoMixedWriters' /\ s4'.epoch <= s2.epoch
    BY <2>1 DEF CutoverInv, Cutover!NoMixedWriters
  <2>9. r.since <= s1.withdrawn
    BY <1>0, <2>5, CutoverBounds
  <2> QED
    BY <2>1, <2>5, <2>6, <2>7, <2>8, <2>9, WorkerChanges
<1>3. ASSUME NEW w \in Actors, Cutover!Operate(w) PROVE CutoverInv'
  <2>1. /\ s3' = [s3 EXCEPT ![w].allowed = FALSE] /\ s3[w].allowed
        /\ UNCHANGED <<s1, s2>>
        /\ s4' = [s4 EXCEPT !.beside = Facts \ s1.facts, !.late = s3[w].since # s1.withdrawn]
    BY <1>3 DEF Cutover!Operate
  <2>2. PICK r : r = [s3[w] EXCEPT !.allowed = FALSE]
    OBVIOUS
  <2>3. r \in CutoverWorkers
    BY <1>0, <2>2, WorkerFields
  <2>4. s3' = [s3 EXCEPT ![w] = r] /\ r.since = s3[w].since /\ ~r.allowed
    BY <1>0, <2>1, <2>2 DEF CutoverWorkers
  <2>5. s4 \in [beside : SUBSET Facts, late : BOOLEAN, epoch : 0..MaxRotations]
    BY DEF CutoverInv, CutoverTypes
  <2>6. /\ s4' \in [beside : SUBSET Facts, late : BOOLEAN, epoch : 0..MaxRotations]
        /\ s4'.epoch = s4.epoch /\ s4'.beside = Facts \ s1.facts
        /\ s4'.late = (s3[w].since # s1.withdrawn)
    BY <2>1, <2>5
  <2>7. CutoverTypes'
    <3>1. s3' \in [Actors -> CutoverWorkers]
      BY <1>0, <2>3, <2>4
    <3> QED
      BY <2>1, <2>6, <3>1 DEF CutoverInv, CutoverTypes
  <2>8. s4'.beside # {} => s4'.late
    <3>1. CASE s3[w].since = s1.withdrawn
      BY <2>1, <2>6, <3>1 DEF CutoverInv
    <3>2. CASE s3[w].since # s1.withdrawn
      BY <2>6, <3>2
    <3> QED
      BY <3>1, <3>2
  <2>9. s4'.epoch <= s2.epoch /\ r.since <= s1.withdrawn
    BY <2>4, <2>6 DEF CutoverInv
  <2> QED
    BY <2>1, <2>3, <2>4, <2>7, <2>8, <2>9, WorkerChanges DEF Cutover!NoMixedWriters
<1>4. ASSUME NEW w \in Actors, Cutover!Rotate(w) PROVE CutoverInv'
  <2>1. /\ s2.epoch < MaxRotations /\ s2' = [epoch |-> s2.epoch + 1, owner |-> w]
        /\ UNCHANGED <<s1, s3, s4>>
    BY <1>4 DEF Cutover!Rotate
  <2>2. s2.epoch + 1 \in 0..MaxRotations /\ s4.epoch <= s2.epoch + 1
    BY <1>0, <2>1, CutoverBounds DEF CutoverInv
  <2>3. s2' \in [epoch : 0..MaxRotations, owner : Actors \union {Cutover!Nobody}]
    BY <2>1, <2>2
  <2> QED
    BY <2>1, <2>2, <2>3 DEF CutoverInv, CutoverTypes, Cutover!NoMixedWriters
<1>5. ASSUME NEW w \in Actors, Cutover!Learn(w) PROVE CutoverInv'
  <2>1. s3' = [s3 EXCEPT ![w].epoch = s2.epoch] /\ UNCHANGED <<s1, s2, s4>>
    BY <1>5 DEF Cutover!Learn
  <2>2. PICK r : r = [s3[w] EXCEPT !.epoch = s2.epoch]
    OBVIOUS
  <2>3. r \in CutoverWorkers
    BY <1>0, <2>2, WorkerFields
  <2>4. s3' = [s3 EXCEPT ![w] = r] /\ r.since = s3[w].since /\ r.allowed = s3[w].allowed
    BY <1>0, <2>1, <2>2 DEF CutoverWorkers
  <2>5. CutoverTypes'
    BY <2>1, <2>3, <2>4 DEF CutoverInv, CutoverTypes
  <2>6. Cutover!NoMixedWriters' /\ s4'.epoch <= s2.epoch
    BY <2>1 DEF CutoverInv, Cutover!NoMixedWriters
  <2> QED
    BY <2>1, <2>3, <2>4, <2>5, <2>6, WorkerChanges DEF CutoverInv
<1>6. ASSUME NEW w \in Actors, Cutover!GuardedUpdate(w) PROVE CutoverInv'
  <2>1. /\ s2.epoch = s3[w].epoch /\ UNCHANGED <<s1, s2, s3>>
        /\ s4' = [s4 EXCEPT !.epoch = s3[w].epoch]
    BY <1>6 DEF Cutover!GuardedUpdate, Cutover!MayUpdate
  <2>2. s4 \in [beside : SUBSET Facts, late : BOOLEAN, epoch : 0..MaxRotations]
    BY DEF CutoverInv, CutoverTypes
  <2>3. /\ s4' \in [beside : SUBSET Facts, late : BOOLEAN, epoch : 0..MaxRotations]
        /\ s4'.epoch = s2.epoch /\ s4'.beside = s4.beside /\ s4'.late = s4.late
    BY <1>0, <2>1, <2>2
  <2>4. s4'.epoch <= s2'.epoch
    BY <1>0, <2>1, <2>3, CutoverBounds
  <2> QED
    BY <2>1, <2>3, <2>4 DEF CutoverInv, CutoverTypes, Cutover!NoMixedWriters
<1>7. CASE Cutover!Gather
  <2>1. PICK fact \in Facts \ s1.facts : s1' = [s1 EXCEPT !.facts = @ \union {fact}]
    BY <1>7 DEF Cutover!Gather
  <2>2. UNCHANGED <<s2, s3, s4>>
    BY <1>7 DEF Cutover!Gather
  <2>3. s1 \in [facts : SUBSET Facts, withdrawn : 0..MaxWithdrawals]
    BY DEF CutoverInv, CutoverTypes
  <2>4. /\ s1' \in [facts : SUBSET Facts, withdrawn : 0..MaxWithdrawals]
        /\ s1'.withdrawn = s1.withdrawn /\ s1'.facts = s1.facts \union {fact}
    BY <2>1, <2>3
  <2>5. s1.facts # Facts
    BY <2>1
  <2> QED
    BY <2>2, <2>4, <2>5 DEF CutoverInv, CutoverTypes, Cutover!NoMixedWriters
<1>8. CASE Cutover!Withdraw
  <2>1. PICK fact \in s1.facts :
          s1' = [facts |-> s1.facts \ {fact}, withdrawn |-> s1.withdrawn + 1]
    BY <1>8 DEF Cutover!Withdraw
  <2>2. UNCHANGED <<s2, s3, s4>> /\ s1.withdrawn < MaxWithdrawals
    BY <1>8 DEF Cutover!Withdraw
  <2>3. s1.withdrawn + 1 \in 0..MaxWithdrawals
    BY <1>0, <2>2, CutoverBounds
  <2>4. CutoverTypes'
    BY <1>0, <2>1, <2>2, <2>3 DEF CutoverInv, CutoverTypes
  <2>5. \A w \in Actors : s3[w].since <= s1.withdrawn + 1 /\ s3[w].since # s1.withdrawn + 1
    BY <1>0, CutoverBounds DEF CutoverInv
  <2> QED
    BY <2>1, <2>2, <2>4, <2>5 DEF CutoverInv, Cutover!NoMixedWriters
<1> QED
  BY <1>1, <1>2, <1>3, <1>4, <1>5, <1>6, <1>7, <1>8 DEF Cutover!Next

\* Every reachable state of the cutover satisfies its invariant.
LEMMA CutoverAlways == Spec => [](part = "cutover" => CutoverInv)
<1>1. Init => (part = "cutover" => CutoverInv)
  BY CutoverInit DEF Init
<1>2. (part = "cutover" => CutoverInv) /\ [Next]_vars => (part = "cutover" => CutoverInv)'
  <2> SUFFICES ASSUME part = "cutover" => CutoverInv, [Next]_vars, part' = "cutover"
               PROVE  CutoverInv'
    OBVIOUS
  <2>1. CASE Next
    <3>1. part = "cutover" /\ Cutover!Next
      BY <2>1 DEF Next
    <3> QED
      BY <3>1, CutoverStep
  <2>2. CASE UNCHANGED vars
    BY <2>2 DEF vars, CutoverInv, CutoverTypes, Cutover!NoMixedWriters
  <2> QED
    BY <2>1, <2>2
<1> QED
  BY <1>1, <1>2, PTL DEF Spec

\* A guarded update is made under the epoch of the fence, which no update is ahead of.
LEMMA EpochsOnlyGrow == ASSUME CutoverInv, Cutover!Next PROVE Cutover!EpochsGrow
<1>1. s4.epoch \in Nat /\ s2.epoch \in Nat /\ s4.epoch <= s2.epoch
  BY CutoverBounds DEF CutoverInv, CutoverTypes
<1>2. s4'.epoch = s4.epoch \/ s4'.epoch = s2.epoch
  <2>1. s4 \in [beside : SUBSET Facts, late : BOOLEAN, epoch : 0..MaxRotations]
    BY DEF CutoverInv, CutoverTypes
  <2>2. ASSUME NEW w \in Actors, Cutover!Operate(w) PROVE s4'.epoch = s4.epoch
    BY <2>1, <2>2 DEF Cutover!Operate
  <2>3. ASSUME NEW w \in Actors, Cutover!GuardedUpdate(w) PROVE s4'.epoch = s2.epoch
    BY <2>1, <2>3 DEF Cutover!GuardedUpdate, Cutover!MayUpdate
  <2>4. ASSUME NEW w \in Actors,
               Cutover!Bootstrap(w) \/ Cutover!Check(w) \/ Cutover!Rotate(w) \/ Cutover!Learn(w)
        PROVE  s4' = s4
    BY <2>4 DEF Cutover!Bootstrap, Cutover!Check, Cutover!Rotate, Cutover!Learn
  <2>5. CASE Cutover!Gather \/ Cutover!Withdraw
    BY <2>5 DEF Cutover!Gather, Cutover!Withdraw
  <2> QED
    BY <2>2, <2>3, <2>4, <2>5 DEF Cutover!Next
<1> QED
  BY <1>1, <1>2 DEF Cutover!EpochsGrow

-----------------------------------------------------------------------------
(* The ingress: s1 is authority, s2 command, s3 call.                      *)

IngressRecords == [status : {"absent", "executing"} \union Ingress!TerminalStatuses,
                   owner : Ingress!Owners \union {"none"},
                   request : Requests \union {Ingress!NoRequest}, snapshot : BOOLEAN,
                   author : Actors \union {Ingress!Nobody}]
IngressCalls == [pc : {"idle", "tenant", "permission", "entry", "handler", "answered", "dead"},
                 request : Requests \union {Ingress!NoRequest}, owner : Ingress!Owners,
                 answer : Ingress!Answers, since : 0..MaxChanges]
Authorities == [tenant : Ingress!Tenants, permitted : SUBSET Ingress!Principals,
                version : 0..MaxChanges]

IngressTypes ==
  /\ s1 \in Authorities /\ s2 \in [Ingress!Commands -> IngressRecords]
  /\ s3 \in [Actors -> IngressCalls]

\* A record that is there was made by one call, for its request and its owner, and this
\* call is past the claim and has not been denied.
RecordHasCall(id) ==
  /\ s2[id].status = "absent" => s2[id].author = Ingress!Nobody
  /\ s2[id].status # "absent" =>
       LET x == s2[id].author
       IN /\ x \in Actors
          /\ s3[x].request.command = id
          /\ s2[id].request = s3[x].request /\ s2[id].owner = s3[x].owner
          /\ s3[x].pc \in {"handler", "answered", "dead"}
          /\ s3[x].answer \notin Ingress!Denials
  /\ s2[id].status \in Ingress!TerminalStatuses => (s2[id].snapshot <=> s2[id].status # "failed")

\* What a call knows, unless the authority has changed since it arrived, and what its
\* answer says of the record.
CallTellsTruth(c) ==
  LET record == s2[s3[c].request.command]
  IN /\ s3[c].pc # "idle" => s3[c].request \in Requests
     /\ s3[c].pc # "answered" => s3[c].answer = "none"
     /\ s3[c].since <= s1.version
     /\ s3[c].since = s1.version =>
          /\ s3[c].pc \in {"permission", "entry"} => s1.tenant = "own"
          /\ s3[c].pc = "entry" => s3[c].request.actor \in s1.permitted
     /\ s3[c].answer \in {"200 new", "200 replay"} =>
          /\ record.status \in Ingress!TerminalStatuses /\ record.snapshot
          /\ record.request = s3[c].request /\ record.owner = s3[c].owner
     /\ s3[c].answer = "200 new" => record.author = c
     /\ s3[c].answer = "202" => /\ record.author # c /\ record.status # "absent"
                                /\ record.request = s3[c].request
     /\ s3[c].answer = "503" => record.status = "failed" /\ ~record.snapshot
     /\ s3[c].pc = "handler" => record.author = c /\ record.status = "executing"

IngressInv ==
  /\ IngressTypes
  /\ \A id \in Ingress!Commands : RecordHasCall(id)
  /\ \A c \in Actors : CallTellsTruth(c)

\* The fields of a call, one at a time.
LEMMA IngressFields ==
  ASSUME NEW r \in IngressCalls
  PROVE  /\ \A pc \in {"idle", "tenant", "permission", "entry", "handler", "answered", "dead"} :
              [r EXCEPT !.pc = pc] \in IngressCalls
         /\ \A q \in Requests : [r EXCEPT !.request = q] \in IngressCalls
         /\ \A o \in Ingress!Owners : [r EXCEPT !.owner = o] \in IngressCalls
         /\ \A a \in Ingress!Answers : [r EXCEPT !.answer = a] \in IngressCalls
         /\ \A n \in 0..MaxChanges : [r EXCEPT !.since = n] \in IngressCalls
<1>1. ASSUME NEW pc \in {"idle", "tenant", "permission", "entry", "handler", "answered", "dead"}
      PROVE  [r EXCEPT !.pc = pc] \in IngressCalls
  BY DEF IngressCalls
<1>2. ASSUME NEW q \in Requests PROVE [r EXCEPT !.request = q] \in IngressCalls
  BY DEF IngressCalls
<1>3. ASSUME NEW o \in Ingress!Owners PROVE [r EXCEPT !.owner = o] \in IngressCalls
  BY DEF IngressCalls
<1>4. ASSUME NEW a \in Ingress!Answers PROVE [r EXCEPT !.answer = a] \in IngressCalls
  BY DEF IngressCalls
<1>5. ASSUME NEW n \in 0..MaxChanges PROVE [r EXCEPT !.since = n] \in IngressCalls
  BY DEF IngressCalls
<1> QED
  BY <1>1, <1>2, <1>3, <1>4, <1>5

LEMMA IngressTypesOf ==
  ASSUME IngressInv, NEW c \in Actors
  PROVE  /\ s1 \in Authorities /\ s1.version \in 0..MaxChanges /\ s1.version \in Nat
         /\ s2 \in [Ingress!Commands -> IngressRecords] /\ s3 \in [Actors -> IngressCalls]
         /\ s3[c] \in IngressCalls /\ s3[c].owner \in Ingress!Owners /\ s3[c].since \in Nat
<1>1. s1.version \in 0..MaxChanges /\ s3[c].since \in 0..MaxChanges
  BY DEF IngressInv, IngressTypes, Authorities, IngressCalls
<1>2. 0..MaxChanges \subseteq Nat
  BY Bounds
<1> QED
  BY <1>1, <1>2 DEF IngressInv, IngressTypes, IngressCalls

LEMMA RequestHasCommand ==
  ASSUME NEW request \in Requests
  PROVE  request.command \in Ingress!Commands
BY DEF Ingress!Commands

\* What a call knows depends on the call, its record and the authority alone.
LEMMA SameView ==
  ASSUME NEW x \in Actors, CallTellsTruth(x), s3'[x] = s3[x], s1' = s1,
         s2'[s3[x].request.command] = s2[s3[x].request.command]
  PROVE  CallTellsTruth(x)'
<1>1. PICK y : y = s3[x]
  OBVIOUS
<1>2. PICK k : k = s2[y.request.command]
  OBVIOUS
<1>3. s3'[x] = y /\ s2'[y.request.command] = k
  BY <1>1, <1>2
<1>4. s2'[s3'[x].request.command] = k
  BY <1>3
<1>5. s2[s3[x].request.command] = k
  BY <1>1, <1>2
<1> QED
  BY <1>1, <1>3, <1>4, <1>5 DEF CallTellsTruth

\* One call changes, without the store; it has made no record, or stays the maker of it.
LEMMA IngressCallChanges ==
  ASSUME IngressInv, NEW c \in Actors, NEW r \in IngressCalls, s3' = [s3 EXCEPT ![c] = r],
         UNCHANGED <<s1, s2>>, CallTellsTruth(c)',
         \/ s3[c].pc \notin {"handler", "answered", "dead"}
         \/ /\ r.request = s3[c].request /\ r.owner = s3[c].owner
            /\ r.pc \in {"handler", "answered", "dead"} /\ r.answer \notin Ingress!Denials
  PROVE  IngressInv'
<1>1. s3'[c] = r /\ \A x \in Actors \ {c} : s3'[x] = s3[x]
  BY DEF IngressInv, IngressTypes
<1>2. IngressTypes'
  BY DEF IngressInv, IngressTypes
<1>3. ASSUME NEW id \in Ingress!Commands PROVE RecordHasCall(id)'
  BY <1>1 DEF IngressInv, RecordHasCall
<1>4. ASSUME NEW x \in Actors \ {c} PROVE CallTellsTruth(x)'
  <2>1. s3'[x] = s3[x] /\ s2' = s2 /\ s1' = s1 /\ CallTellsTruth(x)
    BY <1>1 DEF IngressInv
  <2> QED
    BY <2>1, SameView
<1> QED
  BY <1>2, <1>3, <1>4 DEF IngressInv

\* A call is answered without having claimed, or after its handler has thrown.
LEMMA IngressAnswers ==
  ASSUME IngressInv, NEW c \in Actors, NEW answer \in Ingress!Answers, Ingress!Answer(c, answer),
         UNCHANGED <<s1, s2>>, s3[c].pc # "idle",
         s3[c].pc = "handler" => answer \in {"500", "409"},
         s3[c].pc \notin {"answered", "dead"},
         LET record == s2[s3[c].request.command]
         IN /\ answer # "200 new"
            /\ answer = "200 replay" => /\ record.status \in Ingress!TerminalStatuses
                                        /\ record.snapshot
                                        /\ record.request = s3[c].request /\ record.owner = s3[c].owner
            /\ answer = "202" => /\ record.author # c /\ record.status # "absent"
                                 /\ record.request = s3[c].request
            /\ answer = "503" => record.status = "failed" /\ ~record.snapshot
  PROVE  IngressInv'
<1>1. PICK a : a = [s3[c] EXCEPT !.pc = "answered"]
  OBVIOUS
<1>2. a \in IngressCalls
  BY <1>1, IngressTypesOf, IngressFields
<1>3. PICK r : r = [a EXCEPT !.answer = answer]
  OBVIOUS
<1>4. r \in IngressCalls
  BY <1>2, <1>3, IngressFields
<1>5. /\ r.pc = "answered" /\ r.answer = answer /\ r.request = s3[c].request
      /\ r.owner = s3[c].owner /\ r.since = s3[c].since
  BY <1>1, <1>2, <1>3, IngressTypesOf DEF IngressCalls
<1>6. s3' = [s3 EXCEPT ![c] = r] /\ s3'[c] = r
  BY <1>1, <1>3, IngressTypesOf DEF Ingress!Answer, IngressCalls
<1>7. CallTellsTruth(c)'
  <2>1. CallTellsTruth(c)
    BY DEF IngressInv
  <2> QED
    BY <1>5, <1>6, <2>1 DEF CallTellsTruth
<1>8. answer \in {"500", "409"} => answer \notin Ingress!Denials
  BY DEF Ingress!Denials
<1> QED
  BY <1>4, <1>5, <1>6, <1>7, <1>8, IngressCallChanges

\* A call goes on.
LEMMA IngressGoes ==
  ASSUME IngressInv, NEW c \in Actors, NEW pc \in {"permission", "entry", "dead"},
         Ingress!Goto(c, pc), UNCHANGED <<s1, s2>>, s3[c].pc \notin {"idle", "answered", "dead"},
         pc # "dead" => s3[c].pc # "handler",
         s3[c].since = s1.version =>
           /\ pc \in {"permission", "entry"} => s1.tenant = "own"
           /\ pc = "entry" => s3[c].request.actor \in s1.permitted
  PROVE  IngressInv'
<1>1. PICK r : r = [s3[c] EXCEPT !.pc = pc]
  OBVIOUS
<1>2. r \in IngressCalls
  BY <1>1, IngressTypesOf, IngressFields
<1>3. /\ r.pc = pc /\ r.answer = s3[c].answer /\ r.request = s3[c].request
      /\ r.owner = s3[c].owner /\ r.since = s3[c].since
  BY <1>1, IngressTypesOf DEF IngressCalls
<1>4. s3' = [s3 EXCEPT ![c] = r] /\ s3'[c] = r
  BY <1>1, IngressTypesOf DEF Ingress!Goto, IngressCalls
<1>5. CallTellsTruth(c)
  BY DEF IngressInv
<1>6. s3[c].answer = "none"
  BY <1>5 DEF CallTellsTruth
<1>7. CallTellsTruth(c)'
  BY <1>3, <1>4, <1>5, <1>6 DEF CallTellsTruth
<1>8. "none" \notin Ingress!Denials
  BY DEF Ingress!Denials
<1> QED
  BY <1>2, <1>3, <1>4, <1>6, <1>7, <1>8, IngressCallChanges

\* The record of a call changes: it is made by it, or ended by it.
LEMMA IngressRecordChanges ==
  ASSUME IngressInv, NEW c \in Actors, NEW r \in IngressCalls, s3' = [s3 EXCEPT ![c] = r],
         UNCHANGED s1, CallTellsTruth(c)',
         NEW id \in Ingress!Commands, NEW k \in IngressRecords, s2' = [s2 EXCEPT ![id] = k],
         s3[c].request.command = id, r.request = s3[c].request, r.owner = s3[c].owner,
         \/ s2[id].status = "absent" /\ s3[c].pc = "entry" /\ k.status = "executing"
         \/ /\ s2[id].status = "executing" /\ s2[id].author = c
            /\ k.status \in Ingress!TerminalStatuses,
         k.author = c /\ k.request = s3[c].request /\ k.owner = s3[c].owner,
         k.status \in Ingress!TerminalStatuses => (k.snapshot <=> k.status # "failed"),
         r.pc \in {"handler", "answered", "dead"}, r.answer \notin Ingress!Denials
  PROVE  IngressInv'
<1>1. s3'[c] = r /\ \A x \in Actors \ {c} : s3'[x] = s3[x]
  BY DEF IngressInv, IngressTypes
<1>2. s2'[id] = k /\ \A i \in Ingress!Commands \ {id} : s2'[i] = s2[i]
  BY DEF IngressInv, IngressTypes
<1>3. IngressTypes'
  BY DEF IngressInv, IngressTypes
<1>4. k.status # "absent"
  BY DEF Ingress!TerminalStatuses
<1>5. ASSUME NEW i \in Ingress!Commands PROVE RecordHasCall(i)'
  <2>1. CASE i = id
    BY <1>1, <1>2, <1>4, <2>1 DEF RecordHasCall
  <2>2. CASE i # id
    <3>1. s2'[i] = s2[i] /\ RecordHasCall(i)
      BY <1>2, <2>2 DEF IngressInv
    <3>2. CASE s2[i].author = c
      BY <1>1, <2>2, <3>1, <3>2 DEF RecordHasCall
    <3>3. CASE s2[i].author # c
      BY <1>1, <3>1, <3>3 DEF RecordHasCall
    <3> QED
      BY <3>2, <3>3
  <2> QED
    BY <2>1, <2>2
<1>6. ASSUME NEW x \in Actors \ {c} PROVE CallTellsTruth(x)'
  <2>1. CallTellsTruth(x) /\ s3'[x] = s3[x]
    BY <1>1 DEF IngressInv
  <2>2. s2'[s3[x].request.command] = s2[s3[x].request.command] \/ s3[x].request.command = id
    <3>1. CASE s3[x].request.command \in Ingress!Commands
      BY <1>2, <3>1
    <3>2. CASE s3[x].request.command \notin Ingress!Commands
      BY <3>2 DEF IngressInv, IngressTypes
    <3> QED
      BY <3>1, <3>2
  <2>3. CASE s2'[s3[x].request.command] = s2[s3[x].request.command]
    BY <2>1, <2>3, SameView
  <2>4. CASE s3[x].request.command = id
    <3>1. s3[x].pc # "handler" /\ s3[x].answer \notin {"200 new", "200 replay", "503"}
      BY <2>1, <2>4 DEF CallTellsTruth, Ingress!TerminalStatuses
    <3>2. s3[x].answer = "202" => s2[id].status # "absent" /\ s2[id].request = s3[x].request
      BY <2>1, <2>4 DEF CallTellsTruth
    <3>3. s3[x].answer = "202" => s2[id].author = c
      BY <3>2
    <3>4. s3[x].answer = "202" => s3[c].request = s3[x].request
      BY <3>2, <3>3 DEF IngressInv, RecordHasCall
    <3>5. s2'[s3'[x].request.command] = k
      BY <1>2, <2>1, <2>4
    <3>6. /\ s3[x].pc # "idle" => s3[x].request \in Requests
          /\ s3[x].pc # "answered" => s3[x].answer = "none"
          /\ s3[x].since <= s1.version
          /\ s3[x].since = s1.version =>
               /\ s3[x].pc \in {"permission", "entry"} => s1.tenant = "own"
               /\ s3[x].pc = "entry" => s3[x].request.actor \in s1.permitted
      BY <2>1 DEF CallTellsTruth
    <3>7. s3[x].answer = "202" => k.author # x /\ k.request = s3[x].request
      BY <3>4
    <3> QED
      BY <1>4, <2>1, <3>1, <3>5, <3>6, <3>7 DEF CallTellsTruth
  <2> QED
    BY <2>2, <2>3, <2>4
<1> QED
  BY <1>3, <1>5, <1>6 DEF IngressInv

LEMMA IngressInit == ASSUME Ingress!Init PROVE IngressInv
<1>1. s1 \in [tenant : Ingress!Tenants, permitted : SUBSET Ingress!Principals, version : {0}]
  BY DEF Ingress!Init
<1>2. 0 \in 0..MaxChanges
  BY Bounds
<1>3. s1 \in Authorities /\ s1.version = 0
  BY <1>1, <1>2 DEF Authorities
<1>4. \A id \in Ingress!Commands : s2[id] = Ingress!Absent
  BY DEF Ingress!Init
<1>5. Ingress!Absent \in IngressRecords
  BY DEF IngressRecords, Ingress!Absent
<1>6. s2 \in [Ingress!Commands -> IngressRecords]
  BY <1>5 DEF Ingress!Init
<1>7. PICK r : r = [pc |-> "idle", request |-> Ingress!NoRequest, owner |-> "legacy",
                    answer |-> "none", since |-> 0]
  OBVIOUS
<1>8. r \in IngressCalls
  BY <1>2, <1>7 DEF IngressCalls, Ingress!Owners, Ingress!Answers
<1>9. s3 = [c \in Actors |-> r]
  BY <1>7 DEF Ingress!Init
<1>10. s3 \in [Actors -> IngressCalls]
  BY <1>8, <1>9
<1>11. ASSUME NEW c \in Actors PROVE CallTellsTruth(c)
  <2>1. s3[c] = r
    BY <1>9
  <2> QED
    BY <1>3, <1>7, <2>1 DEF CallTellsTruth
<1>12. ASSUME NEW id \in Ingress!Commands PROVE RecordHasCall(id)
  BY <1>4 DEF RecordHasCall, Ingress!Absent, Ingress!TerminalStatuses
<1> QED
  BY <1>3, <1>6, <1>10, <1>11, <1>12 DEF IngressInv, IngressTypes

\* A call arrives and knows nothing yet; it may be denied at once.
LEMMA IngressArrives ==
  ASSUME IngressInv, NEW c \in Actors, Ingress!Arrive(c)
  PROVE  IngressInv'
<1>1. s3[c].pc = "idle" /\ UNCHANGED <<s1, s2>>
  BY DEF Ingress!Arrive
<1>2. PICK request \in Requests, owner \in Ingress!Owners :
        s3' = [s3 EXCEPT ![c] =
          IF ~request.authenticated
          THEN [[s3[c] EXCEPT !.request = request, !.owner = owner, !.since = s1.version]
                  EXCEPT !.pc = "answered", !.answer = "401"]
          ELSE IF ~request.wellFormed
          THEN [[s3[c] EXCEPT !.request = request, !.owner = owner, !.since = s1.version]
                  EXCEPT !.pc = "answered", !.answer = "400"]
          ELSE [[s3[c] EXCEPT !.request = request, !.owner = owner, !.since = s1.version]
                  EXCEPT !.pc = "tenant"]]
  BY DEF Ingress!Arrive
<1>3. PICK a : a = [[[s3[c] EXCEPT !.request = request] EXCEPT !.owner = owner]
                      EXCEPT !.since = s1.version]
  OBVIOUS
<1>4. a \in IngressCalls
  <2>1. [s3[c] EXCEPT !.request = request] \in IngressCalls
    BY IngressTypesOf, IngressFields
  <2>2. [[s3[c] EXCEPT !.request = request] EXCEPT !.owner = owner] \in IngressCalls
    BY <2>1, IngressFields
  <2> QED
    BY <1>3, <2>2, IngressTypesOf, IngressFields
<1>5. CallTellsTruth(c)
  BY DEF IngressInv
<1>6. s3[c].answer = "none"
  BY <1>1, <1>5 DEF CallTellsTruth
<1>7. /\ a.request = request /\ a.owner = owner /\ a.since = s1.version
      /\ a.pc = s3[c].pc /\ a.answer = "none"
  BY <1>3, <1>6, IngressTypesOf DEF IngressCalls
<1>8. a = [s3[c] EXCEPT !.request = request, !.owner = owner, !.since = s1.version]
  BY <1>3, IngressTypesOf DEF IngressCalls
<1>9. s3' = [s3 EXCEPT ![c] = IF ~request.authenticated
                              THEN [a EXCEPT !.pc = "answered", !.answer = "401"]
                              ELSE IF ~request.wellFormed
                              THEN [a EXCEPT !.pc = "answered", !.answer = "400"]
                              ELSE [a EXCEPT !.pc = "tenant"]]
  BY <1>2, <1>8
<1>10. ASSUME NEW r \in IngressCalls, s3' = [s3 EXCEPT ![c] = r], r.request = request,
              r.since = s1.version,
              \/ r.pc = "answered" /\ r.answer \in {"401", "400"}
              \/ r.pc = "tenant" /\ r.answer = "none"
       PROVE  IngressInv'
  <2>1. s3'[c] = r
    BY <1>10, IngressTypesOf
  <2>2. s1' = s1 /\ s1.version <= s1.version
    BY <1>1, IngressTypesOf
  <2>3. /\ s3'[c].request \in Requests /\ s3'[c].since <= s1'.version
        /\ s3'[c].pc \in {"answered", "tenant"} /\ s3'[c].answer \in {"401", "400", "none"}
        /\ s3'[c].pc # "answered" => s3'[c].answer = "none"
    BY <1>10, <2>1, <2>2
  <2>4. CallTellsTruth(c)'
    BY <2>3 DEF CallTellsTruth
  <2> QED
    BY <1>1, <1>10, <2>4, IngressCallChanges
<1>11. ASSUME NEW answer \in {"401", "400"},
              s3' = [s3 EXCEPT ![c] = [a EXCEPT !.pc = "answered", !.answer = answer]]
       PROVE  IngressInv'
  <2>1. PICK r : r = [[a EXCEPT !.pc = "answered"] EXCEPT !.answer = answer]
    OBVIOUS
  <2>2. answer \in Ingress!Answers
    BY DEF Ingress!Answers
  <2>3. r \in IngressCalls
    BY <1>4, <2>1, <2>2, IngressFields
  <2>4. r.pc = "answered" /\ r.answer = answer /\ r.request = request /\ r.since = s1.version
    BY <1>4, <1>7, <2>1 DEF IngressCalls
  <2>5. r = [a EXCEPT !.pc = "answered", !.answer = answer]
    BY <1>4, <2>1 DEF IngressCalls
  <2> QED
    BY <1>10, <1>11, <2>3, <2>4, <2>5
<1>12. ASSUME s3' = [s3 EXCEPT ![c] = [a EXCEPT !.pc = "tenant"]] PROVE IngressInv'
  <2>1. PICK r : r = [a EXCEPT !.pc = "tenant"]
    OBVIOUS
  <2>2. r \in IngressCalls
    BY <1>4, <2>1, IngressFields
  <2>3. r.pc = "tenant" /\ r.answer = "none" /\ r.request = request /\ r.since = s1.version
    BY <1>4, <1>7, <2>1 DEF IngressCalls
  <2> QED
    BY <1>10, <1>12, <2>1, <2>2, <2>3
<1> QED
  BY <1>9, <1>11, <1>12

\* The claim makes a record for its call, which goes to the handler.
LEMMA IngressClaims ==
  ASSUME IngressInv, NEW c \in Actors, Ingress!ClaimNew(c)
  PROVE  IngressInv'
<1>1. s3[c].pc = "entry" /\ UNCHANGED s1
  BY DEF Ingress!ClaimNew, Ingress!Supported
<1>2. CallTellsTruth(c)
  BY DEF IngressInv
<1>3. s3[c].request \in Requests /\ s3[c].answer = "none" /\ s3[c].since <= s1.version
  BY <1>1, <1>2 DEF CallTellsTruth
<1>4. PICK id \in Ingress!Commands : id = s3[c].request.command
  BY <1>3, RequestHasCommand
<1>5. PICK k : k = [status |-> "executing", owner |-> s3[c].owner, request |-> s3[c].request,
                    snapshot |-> FALSE, author |-> c]
  OBVIOUS
<1>6. k \in IngressRecords
  BY <1>3, <1>5, IngressTypesOf DEF IngressRecords
<1>7. s2[id].status = "absent" /\ s2' = [s2 EXCEPT ![id] = k]
  BY <1>4, <1>5 DEF Ingress!ClaimNew, Ingress!Free
<1>8. PICK r : r = [s3[c] EXCEPT !.pc = "handler"]
  OBVIOUS
<1>9. r \in IngressCalls
  BY <1>8, IngressTypesOf, IngressFields
<1>10. /\ r.pc = "handler" /\ r.answer = "none" /\ r.request = s3[c].request
       /\ r.owner = s3[c].owner /\ r.since = s3[c].since
  BY <1>3, <1>8, IngressTypesOf DEF IngressCalls
<1>11. s3' = [s3 EXCEPT ![c] = r]
  BY <1>8, IngressTypesOf DEF Ingress!ClaimNew, Ingress!Goto
<1>12. s3'[c] = r /\ s2'[id] = k
  BY <1>7, <1>11, IngressTypesOf
<1>13. s2'[s3'[c].request.command] = k
  BY <1>4, <1>10, <1>12
<1>14. CallTellsTruth(c)'
  <2>1. /\ s3'[c].request \in Requests /\ s3'[c].since <= s1'.version
        /\ s3'[c].pc = "handler" /\ s3'[c].answer = "none"
    BY <1>1, <1>3, <1>10, <1>12
  <2>2. /\ s2'[s3'[c].request.command].author = c
        /\ s2'[s3'[c].request.command].status = "executing"
    BY <1>5, <1>13
  <2> QED
    BY <2>1, <2>2 DEF CallTellsTruth
<1>15. "none" \notin Ingress!Denials /\ "executing" \notin Ingress!TerminalStatuses
  BY DEF Ingress!Denials, Ingress!TerminalStatuses
<1> QED
  BY <1>1, <1>4, <1>5, <1>6, <1>7, <1>9, <1>10, <1>11, <1>14, <1>15, IngressRecordChanges

\* The handler ends its command, with a result or as failed, and its call is answered.
LEMMA IngressEnds ==
  ASSUME IngressInv, NEW c \in Actors, NEW status \in Ingress!TerminalStatuses,
         NEW snapshot \in BOOLEAN, NEW answer \in Ingress!Answers,
         s3[c].pc = "handler", Ingress!End(c, status, snapshot), Ingress!Answer(c, answer),
         UNCHANGED s1, snapshot <=> status # "failed",
         \/ answer = "500"
         \/ answer = "200 new" /\ status # "failed"
         \/ answer = "503" /\ status = "failed"
  PROVE  IngressInv'
<1>2. CallTellsTruth(c)
  BY DEF IngressInv
<1>3. s3[c].request \in Requests /\ s3[c].answer = "none" /\ s3[c].since <= s1.version
  BY <1>2 DEF CallTellsTruth
<1>4. PICK id \in Ingress!Commands : id = s3[c].request.command
  BY <1>3, RequestHasCommand
<1>5. s2[id].author = c /\ s2[id].status = "executing"
  BY <1>2, <1>4 DEF CallTellsTruth
<1>6. s2[id].request = s3[c].request /\ s2[id].owner = s3[c].owner
  BY <1>4, <1>5 DEF IngressInv, RecordHasCall
<1>7. PICK k : k = [s2[id] EXCEPT !.status = status, !.snapshot = snapshot]
  OBVIOUS
<1>8. s2[id] \in IngressRecords
  BY IngressTypesOf
<1>9. k \in IngressRecords
  BY <1>7, <1>8 DEF IngressRecords
<1>10. /\ k.status = status /\ k.snapshot = snapshot /\ k.author = c
       /\ k.request = s3[c].request /\ k.owner = s3[c].owner
  BY <1>5, <1>6, <1>7, <1>8 DEF IngressRecords
<1>11. s2' = [s2 EXCEPT ![id] = k]
  BY <1>4, <1>7, <1>8, IngressTypesOf DEF Ingress!End, IngressRecords
<1>12. PICK a : a = [s3[c] EXCEPT !.pc = "answered"]
  OBVIOUS
<1>13. a \in IngressCalls
  BY <1>12, IngressTypesOf, IngressFields
<1>14. PICK r : r = [a EXCEPT !.answer = answer]
  OBVIOUS
<1>15. r \in IngressCalls
  BY <1>13, <1>14, IngressFields
<1>16. /\ r.pc = "answered" /\ r.answer = answer /\ r.request = s3[c].request
       /\ r.owner = s3[c].owner /\ r.since = s3[c].since
  BY <1>12, <1>13, <1>14, IngressTypesOf DEF IngressCalls
<1>17. s3' = [s3 EXCEPT ![c] = r]
  BY <1>12, <1>14, IngressTypesOf DEF Ingress!Answer, IngressCalls
<1>18. s3'[c] = r /\ s2'[id] = k
  BY <1>11, <1>17, IngressTypesOf
<1>19. s2'[s3'[c].request.command] = k
  BY <1>4, <1>16, <1>18
<1>20. CallTellsTruth(c)'
  <2>1. answer \in {"500", "200 new", "503"}
    OBVIOUS
  <2>2. answer = "200 new" => k.status \in Ingress!TerminalStatuses /\ k.snapshot
    BY <1>10
  <2>3. answer = "503" => k.status = "failed" /\ ~k.snapshot
    BY <1>10
  <2> QED
    BY <1>3, <1>10, <1>16, <1>18, <1>19, <2>1, <2>2, <2>3 DEF CallTellsTruth
<1>21. answer \notin Ingress!Denials
  BY DEF Ingress!Denials
<1>22. k.status \in Ingress!TerminalStatuses => (k.snapshot <=> k.status # "failed")
  BY <1>10
<1> QED
  BY <1>4, <1>5, <1>9, <1>10, <1>11, <1>15, <1>16, <1>17, <1>20, <1>21, <1>22,
     IngressRecordChanges

LEMMA IngressStep == ASSUME IngressInv, Ingress!Next PROVE IngressInv'
<1>1. ASSUME NEW c \in Actors, Ingress!Arrive(c) PROVE IngressInv'
  BY <1>1, IngressArrives
<1>2. ASSUME NEW c \in Actors, Ingress!FindTenant(c) PROVE IngressInv'
  <2>1. s3[c].pc = "tenant" /\ UNCHANGED <<s1, s2>>
    BY <1>2 DEF Ingress!FindTenant
  <2>2. CASE s1.tenant = "own"
    <3>1. Ingress!Goto(c, "permission")
      BY <1>2, <2>2 DEF Ingress!FindTenant
    <3> QED
      BY <2>1, <2>2, <3>1, IngressGoes
  <2>3. CASE s1.tenant # "own"
    <3>1. Ingress!Answer(c, "404") /\ "404" \in Ingress!Answers
      BY <1>2, <2>3 DEF Ingress!FindTenant, Ingress!Answers
    <3> QED
      BY <2>1, <3>1, IngressAnswers
  <2> QED
    BY <2>2, <2>3
<1>3. ASSUME NEW c \in Actors, Ingress!CanOperate(c) PROVE IngressInv'
  <2>1. s3[c].pc = "permission" /\ UNCHANGED <<s1, s2>>
    BY <1>3 DEF Ingress!CanOperate
  <2>2. CASE Ingress!Permitted(s3[c].request.actor)
    <3>1. Ingress!Goto(c, "entry") /\ s3[c].request.actor \in s1.permitted
      BY <1>3, <2>2 DEF Ingress!CanOperate, Ingress!Permitted
    <3>2. s3[c].since = s1.version => s1.tenant = "own"
      BY <2>1 DEF IngressInv, CallTellsTruth
    <3> QED
      BY <2>1, <3>1, <3>2, IngressGoes
  <2>3. CASE ~Ingress!Permitted(s3[c].request.actor)
    <3>1. Ingress!Answer(c, "403") /\ "403" \in Ingress!Answers
      BY <1>3, <2>3 DEF Ingress!CanOperate, Ingress!Answers
    <3> QED
      BY <2>1, <3>1, IngressAnswers
  <2> QED
    BY <2>2, <2>3
<1>4. ASSUME NEW c \in Actors, Ingress!Unsupported(c) PROVE IngressInv'
  <2>1. /\ s3[c].pc = "entry" /\ UNCHANGED <<s1, s2>> /\ Ingress!Answer(c, "400 unsupported")
        /\ "400 unsupported" \in Ingress!Answers
    BY <1>4 DEF Ingress!Unsupported, Ingress!Answers
  <2> QED
    BY <2>1, IngressAnswers
<1>5. ASSUME NEW c \in Actors, Ingress!ClaimNew(c) PROVE IngressInv'
  BY <1>5, IngressClaims
<1>6. ASSUME NEW c \in Actors, Ingress!ClaimConflict(c) PROVE IngressInv'
  <2>1. /\ s3[c].pc = "entry" /\ UNCHANGED <<s1, s2>> /\ Ingress!Answer(c, "409")
        /\ "409" \in Ingress!Answers
    BY <1>6 DEF Ingress!ClaimConflict, Ingress!Supported, Ingress!Answers
  <2> QED
    BY <2>1, IngressAnswers
<1>7. ASSUME NEW c \in Actors, Ingress!ClaimAgain(c) PROVE IngressInv'
  <2>1. /\ s3[c].pc = "entry" /\ UNCHANGED <<s1, s2>>
        /\ s2[s3[c].request.command].status # "absent"
        /\ s2[s3[c].request.command].request = s3[c].request
        /\ s2[s3[c].request.command].owner = s3[c].owner
    BY <1>7 DEF Ingress!ClaimAgain, Ingress!Supported, Ingress!Free, Ingress!SameRequest,
                Ingress!SameOwner
  <2>2. s3[c].request \in Requests
    BY <2>1 DEF IngressInv, CallTellsTruth
  <2>3. PICK id \in Ingress!Commands : id = s3[c].request.command
    BY <2>2, RequestHasCommand
  <2>4. s2[id].author # c
    BY <2>1, <2>3 DEF IngressInv, RecordHasCall
  <2>5. s2[id].status \in Ingress!TerminalStatuses => (s2[id].snapshot <=> s2[id].status # "failed")
    BY DEF IngressInv, RecordHasCall
  <2>6. CASE s2[id].status = "executing" /\ Ingress!Answer(c, "202")
    <3>1. "202" \in Ingress!Answers
      BY DEF Ingress!Answers
    <3> QED
      BY <2>1, <2>3, <2>4, <2>6, <3>1, IngressAnswers
  <2>7. CASE Ingress!Answer(c, "500")
    <3>1. "500" \in Ingress!Answers
      BY DEF Ingress!Answers
    <3> QED
      BY <2>1, <2>7, <3>1, IngressAnswers
  <2>8. CASE /\ s2[id].status \in Ingress!TerminalStatuses
             /\ Ingress!Answer(c, IF s2[id].snapshot THEN "200 replay" ELSE "503")
    <3>1. {"200 replay", "503"} \subseteq Ingress!Answers
      BY DEF Ingress!Answers
    <3>2. CASE s2[id].snapshot
      <4>1. Ingress!Answer(c, "200 replay")
        BY <2>8, <3>2
      <4> QED
        BY <2>1, <2>3, <2>8, <3>1, <3>2, <4>1, IngressAnswers
    <3>3. CASE ~s2[id].snapshot
      <4>1. Ingress!Answer(c, "503") /\ s2[id].status = "failed"
        BY <2>5, <2>8, <3>3
      <4> QED
        BY <2>1, <2>3, <3>1, <3>3, <4>1, IngressAnswers
    <3> QED
      BY <3>2, <3>3
  <2> QED
    BY <1>7, <2>3, <2>6, <2>7, <2>8 DEF Ingress!ClaimAgain
<1>8. ASSUME NEW c \in Actors, Ingress!HandlerEnds(c) PROVE IngressInv'
  <2>1. s3[c].pc = "handler" /\ UNCHANGED s1
    BY <1>8 DEF Ingress!HandlerEnds
  <2>2. PICK status \in {"succeeded", "rejected"} : Ingress!End(c, status, TRUE)
    BY <1>8 DEF Ingress!HandlerEnds
  <2>3. PICK answer \in {"200 new", "500"} : Ingress!Answer(c, answer)
    BY <1>8 DEF Ingress!HandlerEnds
  <2>4. /\ status \in Ingress!TerminalStatuses /\ status # "failed"
        /\ answer \in Ingress!Answers /\ TRUE \in BOOLEAN
    BY DEF Ingress!TerminalStatuses, Ingress!Answers
  <2> QED
    BY <2>1, <2>2, <2>3, <2>4, IngressEnds
<1>9. ASSUME NEW c \in Actors, Ingress!LegacyFails(c) PROVE IngressInv'
  <2>1. /\ s3[c].pc = "handler" /\ UNCHANGED s1
        /\ Ingress!End(c, "failed", FALSE) /\ Ingress!Answer(c, "503")
    BY <1>9 DEF Ingress!LegacyFails
  <2>2. "failed" \in Ingress!TerminalStatuses /\ "503" \in Ingress!Answers /\ FALSE \in BOOLEAN
    BY DEF Ingress!TerminalStatuses, Ingress!Answers
  <2> QED
    BY <2>1, <2>2, IngressEnds
<1>10. ASSUME NEW c \in Actors, Ingress!HandlerThrows(c) PROVE IngressInv'
  <2>1. /\ s3[c].pc = "handler" /\ UNCHANGED <<s1, s2>>
        /\ Ingress!Answer(c, "500") \/ Ingress!Answer(c, "409")
        /\ {"500", "409"} \subseteq Ingress!Answers
    BY <1>10 DEF Ingress!HandlerThrows, Ingress!Answers
  <2>2. CASE Ingress!Answer(c, "500")
    BY <2>1, <2>2, IngressAnswers
  <2>3. CASE Ingress!Answer(c, "409")
    BY <2>1, <2>3, IngressAnswers
  <2> QED
    BY <2>1, <2>2, <2>3
<1>11. ASSUME NEW c \in Actors, Ingress!Crash(c) PROVE IngressInv'
  <2>1. /\ s3[c].pc \notin {"idle", "answered", "dead"} /\ UNCHANGED <<s1, s2>>
        /\ Ingress!Goto(c, "dead")
    BY <1>11 DEF Ingress!Crash
  <2> QED
    BY <2>1, IngressGoes
<1>12. CASE Ingress!ChangeAuthority
  <2>1. PICK tenant \in Ingress!Tenants, permitted \in SUBSET Ingress!Principals :
          s1' = [tenant |-> tenant, permitted |-> permitted, version |-> s1.version + 1]
    BY <1>12 DEF Ingress!ChangeAuthority
  <2>2. UNCHANGED <<s2, s3>> /\ s1.version < MaxChanges
    BY <1>12 DEF Ingress!ChangeAuthority
  <2>3. s1.version \in 0..MaxChanges
    BY DEF IngressInv, IngressTypes, Authorities
  <2>4. s1.version + 1 \in 0..MaxChanges
    BY <2>2, <2>3, Bounds
  <2>5. IngressTypes'
    BY <2>1, <2>2, <2>4 DEF IngressInv, IngressTypes, Authorities
  <2>6. ASSUME NEW id \in Ingress!Commands PROVE RecordHasCall(id)'
    BY <2>2 DEF IngressInv, RecordHasCall
  <2>7. ASSUME NEW c \in Actors PROVE CallTellsTruth(c)'
    <3>1. CallTellsTruth(c) /\ s1'.version = s1.version + 1
      BY <2>1 DEF IngressInv
    <3>2. s3[c].since \in Nat /\ s1.version \in Nat /\ s3[c].since <= s1.version
      BY <3>1, IngressTypesOf DEF CallTellsTruth
    <3>3. s3[c].since <= s1'.version /\ s3[c].since # s1'.version
      BY <3>1, <3>2
    <3> QED
      BY <2>2, <3>1, <3>3 DEF CallTellsTruth
  <2> QED
    BY <2>5, <2>6, <2>7 DEF IngressInv
<1> QED
  BY <1>1, <1>2, <1>3, <1>4, <1>5, <1>6, <1>7, <1>8, <1>9, <1>10, <1>11, <1>12
     DEF Ingress!Next, Ingress!Step

\* Every reachable state of the ingress satisfies its invariant.
LEMMA IngressAlways == Spec => [](part = "ingress" => IngressInv)
<1>1. Init => (part = "ingress" => IngressInv)
  BY IngressInit DEF Init
<1>2. (part = "ingress" => IngressInv) /\ [Next]_vars => (part = "ingress" => IngressInv)'
  <2> SUFFICES ASSUME part = "ingress" => IngressInv, [Next]_vars, part' = "ingress"
               PROVE  IngressInv'
    OBVIOUS
  <2>1. CASE Next
    <3>1. part = "ingress" /\ Ingress!Next
      BY <2>1 DEF Next
    <3> QED
      BY <3>1, IngressStep
  <2>2. CASE UNCHANGED vars
    BY <2>2 DEF vars, IngressInv, IngressTypes, RecordHasCall, CallTellsTruth
  <2> QED
    BY <2>1, <2>2
<1> QED
  BY <1>1, <1>2, PTL DEF Spec

\* The invariant of the ingress says that its answers are true.
LEMMA IngressHolds == ASSUME IngressInv PROVE Ingress!TypeOK /\ Ingress!AnswersAreTrue
<1>1. Ingress!TypeOK
  BY DEF IngressInv, IngressTypes, IngressRecords, IngressCalls, Authorities, Ingress!TypeOK
<1>2. ASSUME NEW c \in Actors, s3[c].pc # "idle"
      PROVE  LET record == s2[s3[c].request.command]
             IN /\ s3[c].answer \in {"200 new", "200 replay"} =>
                     /\ record.status \in Ingress!TerminalStatuses /\ record.snapshot
                     /\ Ingress!SameRequest(record, c) /\ Ingress!SameOwner(record, c)
                /\ s3[c].answer = "200 new" => record.author = c
                /\ s3[c].answer = "202" => /\ record.author \notin {c, Ingress!Nobody}
                                           /\ Ingress!SameRequest(record, c)
                /\ s3[c].answer = "503" => record.status = "failed" /\ ~record.snapshot
                /\ s3[c].answer \in Ingress!Denials =>
                     \A id \in Ingress!Commands : s2[id].author # c
                /\ s3[c].pc = "handler" => record.author = c /\ record.status = "executing"
  <2>1. CallTellsTruth(c)
    BY DEF IngressInv
  <2>2. PICK id \in Ingress!Commands : id = s3[c].request.command
    BY <1>2, <2>1, RequestHasCommand DEF CallTellsTruth
  <2>3. s3[c].answer = "202" => s2[id].author \in Actors
    BY <2>1, <2>2 DEF IngressInv, RecordHasCall, CallTellsTruth
  <2>4. s3[c].answer = "202" => s2[id].author \notin {c, Ingress!Nobody}
    BY <2>1, <2>2, <2>3, PartsAssumption DEF CallTellsTruth, Ingress!Nobody
  <2>5. ASSUME s3[c].answer \in Ingress!Denials, NEW i \in Ingress!Commands
        PROVE  s2[i].author # c
    <3>1. RecordHasCall(i)
      BY DEF IngressInv
    <3>2. c # Ingress!Nobody
      BY PartsAssumption DEF Ingress!Nobody
    <3> QED
      BY <2>5, <3>1, <3>2 DEF RecordHasCall
  <2> QED
    BY <2>1, <2>2, <2>4, <2>5 DEF CallTellsTruth, Ingress!SameRequest, Ingress!SameOwner
<1> QED
  BY <1>1, <1>2 DEF Ingress!AnswersAreTrue

\* A call whose authority has not changed since it arrived claims with that authority.
LEMMA IngressStarts == ASSUME IngressInv PROVE Ingress!StartsWithAuthority
BY DEF IngressInv, CallTellsTruth, Ingress!StartsWithAuthority

\* The answers of the ingress are true of the record they are about, whatever calls race,
\* repeat or die and whenever the authority changes; a command starts only for an actor its
\* run's tenant and permissions have let pass; and the executor runs no command twice.
THEOREM AnswersTrue == Spec => AnswersAreTrue
<1>1. Spec => [](part = "ingress" => Ingress!TypeOK /\ Ingress!AnswersAreTrue)
  <2>1. (part = "ingress" => IngressInv) =>
          (part = "ingress" => Ingress!TypeOK /\ Ingress!AnswersAreTrue)
    BY IngressHolds
  <2> QED
    BY <2>1, IngressAlways, PTL
<1>2. Spec => [][part = "ingress" => Ingress!StartsWithAuthority]_vars
  <2>1. (part = "ingress" => IngressInv) /\ [Next]_vars =>
          [part = "ingress" => Ingress!StartsWithAuthority]_vars
    BY IngressStarts
  <2> QED
    BY <2>1, IngressAlways, PTL DEF Spec
<1>3. Spec => [](part = "executor" => Executor!TypeOK /\ Executor!HandledOnce)
  <2>1. (part = "executor" => ExecInv) =>
          (part = "executor" => Executor!TypeOK /\ Executor!HandledOnce)
    BY ExecHolds
  <2> QED
    BY <2>1, ExecAlways, PTL
<1> QED
  BY <1>1, <1>2, <1>3, PTL DEF AnswersAreTrue

-----------------------------------------------------------------------------
(* The reviews: s1 is provider, s2 registry, s3 effect, s4 seen, s5 clock. *)

Providers == [gives : Behaviours, drifted : BOOLEAN]
Probes == [trusted : BOOLEAN, revision : 0..MaxRevision, at : 0..MaxTime,
           passed : BOOLEAN, observed : SUBSET Gates!Guarantees]
Registries == [verified : BOOLEAN, declares : Declarations, revision : 1..MaxRevision,
               probe : Probes, incident : BOOLEAN]
Effects == [status : {"pending", "unknown", "confirmed"}, epoch : 0..MaxEpoch,
            underway : SUBSET (1..MaxEpoch), applied : 0..MaxEpoch, excused : BOOLEAN]
Sights == [kind : {"unknown", "applied", "negative", "final_negative"},
           epoch : 0..MaxEpoch, revision : 0..MaxRevision, at : 0..MaxTime, sure : BOOLEAN]

GatesTypes ==
  /\ s1 \in Providers /\ s2 \in Registries /\ s3 \in Effects /\ s4 \in Sights
  /\ s5 \in 1..MaxTime

\* A probe that counts has observed what the provider gives, unless that has changed.
ProbeIsTrue ==
  ~s1.drifted /\ s2.probe.trusted /\ s2.probe.passed => s2.probe.observed = s1.gives

\* No claim, no request and no answer before the first dispatch; every request on the way
\* or applied is one of a claim.
RequestsAreClaimed ==
  /\ s3.underway \subseteq 1..s3.epoch
  /\ s3.applied + Cardinality(s3.underway) <= s3.epoch
  /\ s3.status = "pending" => s3.epoch = 0 /\ s4.kind = "unknown"

\* Without an excuse the provider is as it was probed at the first dispatch, one request at
\* most is on the way, none once the effect has happened, and an authoritative answer is
\* still what it was.
Unexcused ==
  /\ s3.status # "pending" => ~s1.drifted
  /\ s3.underway \subseteq {s3.epoch}
  /\ s3.applied = 0 \/ (s3.applied = 1 /\ s3.underway = {})
  /\ s4.kind = "applied" /\ {"final", "receipt"} \subseteq s1.gives => s3.applied = 1
  /\ s4.kind = "final_negative" /\ {"final", "noLate"} \subseteq s1.gives =>
       s3.applied = 0 /\ s3.underway = {}
  /\ s3.status = "confirmed" => s3.applied = 1

GatesInv == GatesTypes /\ ProbeIsTrue /\ RequestsAreClaimed /\ (~s3.excused => Unexcused)

LEMMA GatesBounds ==
  /\ 0 \in 0..MaxRevision /\ 0 \in 0..MaxEpoch /\ 0 \in 0..MaxTime
  /\ 1 \in 1..MaxRevision /\ 1 \in 1..MaxEpoch /\ 1 \in 1..MaxTime
  /\ 0..MaxEpoch \subseteq Nat /\ 1..MaxTime \subseteq 0..MaxTime
  /\ 1..MaxRevision \subseteq 0..MaxRevision /\ 0..MaxTime \subseteq Nat
BY PartsAssumption

LEMMA GatesInit == ASSUME Gates!Init PROVE GatesInv
<1>1. s1 \in Providers /\ s1.drifted
  BY DEF Gates!Init, Providers
<1>2. PICK p : p = Gates!NoProbe
  OBVIOUS
<1>3. p \in Probes /\ ~p.trusted
  BY <1>2, GatesBounds DEF Gates!NoProbe, Probes
<1>4. s2 \in [verified : BOOLEAN, declares : Declarations, revision : {1},
              probe : {p}, incident : {FALSE}]
  BY <1>2 DEF Gates!Init
<1>5. s2 \in Registries
  BY <1>3, <1>4, GatesBounds DEF Registries
<1>6. s3 = [status |-> "pending", epoch |-> 0, underway |-> {}, applied |-> 0, excused |-> FALSE]
  BY DEF Gates!Init
<1>7. s3 \in Effects
  BY <1>6, GatesBounds DEF Effects
<1>8. s4 \in Sights /\ s4.kind = "unknown"
  BY GatesBounds DEF Gates!Init, Gates!Unseen, Sights
<1>9. s5 \in 1..MaxTime
  BY GatesBounds DEF Gates!Init
<1>10. Cardinality({}) = 0
  BY FS_EmptySet
<1>11. RequestsAreClaimed
  BY <1>6, <1>8, <1>10 DEF RequestsAreClaimed
<1>12. Unexcused
  BY <1>6, <1>8 DEF Unexcused
<1> QED
  BY <1>1, <1>5, <1>7, <1>8, <1>9, <1>11, <1>12 DEF GatesInv, GatesTypes, ProbeIsTrue

\* What a conforming operation rests on: the provider gives what its profile declares.
LEMMA ConformsIsGiven ==
  ASSUME GatesInv, NEW operation, NEW status, Gates!Conforms(operation, status), ~s1.drifted
  PROVE  /\ Gates!Needs[operation] \subseteq s2.declares
         /\ s2.declares \intersect {"fencing", "final", "receipt", "noLate"} \subseteq s1.gives
         /\ status = Gates!PhaseExpected(operation)
<1>1. /\ s2.probe.trusted /\ s2.probe.passed
      /\ Gates!Needs[operation] \subseteq s2.declares
      /\ s2.declares \intersect {"fencing", "final", "receipt", "noLate"} \subseteq s2.probe.observed
      /\ status = Gates!PhaseExpected(operation)
  BY DEF Gates!Conforms, Gates!Candidate, Gates!Audited, Gates!Observed
<1>2. s2.probe.observed = s1.gives
  BY <1>1 DEF GatesInv, ProbeIsTrue
<1> QED
  BY <1>1, <1>2

\* The requests on the way are finitely many.
LEMMA RequestsAreFinite ==
  ASSUME GatesInv
  PROVE  /\ s3.underway \subseteq 1..s3.epoch /\ IsFiniteSet(1..s3.epoch)
         /\ IsFiniteSet(s3.underway) /\ Cardinality(s3.underway) \in Nat
<1>1. s3.epoch \in Nat
  BY GatesBounds DEF GatesInv, GatesTypes, Effects
<1>2. PICK n \in Nat : n = s3.epoch
  BY <1>1
<1>3. n \in Int /\ 1 \in Int
  OBVIOUS
<1>4. IsFiniteSet(1..n)
  BY <1>3, FS_Interval
<1>5. s3.underway \subseteq 1..n
  BY <1>2 DEF GatesInv, RequestsAreClaimed
<1>6. IsFiniteSet(s3.underway)
  BY <1>4, <1>5, FS_Subset
<1> QED
  BY <1>2, <1>4, <1>5, <1>6, FS_CardinalityType

\* A claim and its request.
LEMMA GatesSends ==
  ASSUME GatesInv, Gates!Send, UNCHANGED <<s1, s2, s5>>, s3.epoch < MaxEpoch,
         s4' \in Sights, s4'.kind = "unknown",
         ~s3.excused /\ ~s1.drifted => s3.applied = 0 /\ s3.underway = {}
  PROVE  GatesInv'
<1>1. s3 \in Effects /\ s3.epoch \in Nat /\ s3.applied \in Nat
  BY GatesBounds DEF GatesInv, GatesTypes, Effects
<1>2. PICK n \in 1..MaxEpoch : n = s3.epoch + 1
  BY <1>1, PartsAssumption
<1>3. /\ s3'.status = "unknown" /\ s3'.epoch = n /\ s3'.underway = s3.underway \union {n}
      /\ s3'.applied = s3.applied /\ s3'.excused = (s3.excused \/ s1.drifted \/ (s3.epoch > 0 /\ ~s4.sure))
  BY <1>1, <1>2 DEF Gates!Send, Effects
<1>4. n \in 0..MaxEpoch
  BY <1>2, GatesBounds, PartsAssumption
<1>5. (s3.excused \/ s1.drifted \/ (s3.epoch > 0 /\ ~s4.sure)) \in BOOLEAN
  OBVIOUS
<1>6. s3' \in Effects
  BY <1>1, <1>2, <1>4, <1>5 DEF Gates!Send, Effects
<1>7. RequestsAreClaimed'
  <2>1. s3.underway \subseteq 1..s3.epoch /\ IsFiniteSet(1..s3.epoch)
    BY RequestsAreFinite
  <2>2. IsFiniteSet(s3.underway) /\ n \notin s3.underway
    BY <1>1, <1>2, <2>1, FS_Subset
  <2>3. Cardinality(s3'.underway) = Cardinality(s3.underway) + 1 /\ Cardinality(s3.underway) \in Nat
    <3>1. Cardinality(s3.underway \union {n}) = Cardinality(s3.underway) + 1
      BY <2>2, FS_AddElement
    <3> QED
      BY <1>3, <3>1, RequestsAreFinite
  <2>4. s3.applied + Cardinality(s3.underway) <= s3.epoch
    BY DEF GatesInv, RequestsAreClaimed
  <2>5. s3'.applied + Cardinality(s3'.underway) <= s3'.epoch
    BY <1>1, <1>2, <1>3, <2>3, <2>4
  <2>6. s3'.underway \subseteq 1..s3'.epoch
    BY <1>1, <1>2, <1>3, <2>1
  <2> QED
    BY <1>3, <2>5, <2>6 DEF RequestsAreClaimed
<1>8. ASSUME ~s3'.excused PROVE Unexcused'
  <2>1. ~s3.excused /\ ~s1.drifted
    BY <1>3, <1>8, Zenon
  <2>2. s3'.applied = 0 /\ s3'.underway = {s3'.epoch}
    BY <1>3, <2>1
  <2> QED
    BY <1>3, <2>1, <2>2 DEF Unexcused
<1> QED
  BY <1>6, <1>7, <1>8 DEF GatesInv, GatesTypes, ProbeIsTrue

LEMMA GatesStep == ASSUME GatesInv, Gates!Next PROVE GatesInv'
<1>0. /\ s1 \in Providers /\ s2 \in Registries /\ s3 \in Effects /\ s4 \in Sights
      /\ s5 \in 1..MaxTime /\ s3.epoch \in Nat /\ s3.applied \in Nat
  BY GatesBounds DEF GatesInv, GatesTypes, Effects
<1>1. CASE Gates!Dispatch
  <2>1. UNCHANGED <<s1, s2, s4, s5>> /\ Gates!Send /\ s3.status = "pending"
    BY <1>1 DEF Gates!Dispatch, Gates!Conforms, Gates!Candidate, Gates!PhaseExpected
  <2>2. s3.epoch = 0 /\ s4.kind = "unknown" /\ s3.underway \subseteq 1..s3.epoch
        /\ s3.applied + Cardinality(s3.underway) <= s3.epoch
    BY <2>1 DEF GatesInv, RequestsAreClaimed
  <2>3. s3.underway = {}
    BY <2>2
  <2>4. Cardinality(s3.underway) = 0
    BY <2>3, FS_EmptySet
  <2>5. s3.applied = 0 /\ s3.epoch < MaxEpoch
    BY <1>0, <2>2, <2>4, PartsAssumption
  <2> QED
    BY <1>0, <2>1, <2>2, <2>3, <2>5, GatesSends
<1>2. CASE Gates!FreshClaim
  <2>1. /\ UNCHANGED <<s1, s2, s5>> /\ Gates!Send /\ s3.epoch < MaxEpoch
        /\ s4' = Gates!Unseen
        /\ Gates!Conforms("fresh_claim_after_final_negative", s3.status)
        /\ \E epoch \in Gates!Fences :
             Gates!Plan(epoch, s4) = "verified_not_applied_requires_fresh_authorized_claim"
    BY <1>2 DEF Gates!FreshClaim
  <2>2. s4' \in Sights /\ s4'.kind = "unknown"
    BY <2>1, GatesBounds DEF Gates!Unseen, Sights
  <2>3. s4.kind = "final_negative"
    BY <2>1 DEF Gates!Plan
  <2>4. ASSUME ~s3.excused, ~s1.drifted PROVE s3.applied = 0 /\ s3.underway = {}
    <3>1. /\ Gates!Needs["fresh_claim_after_final_negative"] \subseteq s2.declares
          /\ s2.declares \intersect {"fencing", "final", "receipt", "noLate"} \subseteq s1.gives
      BY <2>1, <2>4, ConformsIsGiven
    <3>2. {"final", "noLate"} \subseteq s2.declares
      BY <3>1 DEF Gates!Needs
    <3>3. {"final", "noLate"} \subseteq s1.gives
      BY <3>1, <3>2
    <3> QED
      BY <2>3, <2>4, <3>3 DEF GatesInv, Unexcused
  <2> QED
    BY <2>1, <2>2, <2>4, GatesSends
<1>3. CASE Gates!PersistReceipt
  <2>1. /\ UNCHANGED <<s1, s2, s4, s5>>
        /\ s3' = [s3 EXCEPT !.status = "confirmed",
                            !.excused = s3.excused \/ s1.drifted \/ ~s4.sure]
        /\ Gates!Conforms("reconcile_unknown_applied", "unknown")
        /\ \E epoch \in Gates!Fences : /\ Gates!Bound(epoch)
             /\ Gates!Plan(epoch, s4) = "verified_applied_requires_receipt_persistence"
    BY <1>0, <1>3 DEF Gates!PersistReceipt, Gates!ReceiptAccepted, Effects
  <2>2. s4.kind = "applied" /\ s3.status = "unknown"
    BY <2>1 DEF Gates!Plan, Gates!Bound
  <2>3. (s3.excused \/ s1.drifted \/ ~s4.sure) \in BOOLEAN
    OBVIOUS
  <2>4. /\ s3' \in Effects /\ s3'.status = "confirmed" /\ s3'.epoch = s3.epoch
        /\ s3'.underway = s3.underway /\ s3'.applied = s3.applied
        /\ s3'.excused = (s3.excused \/ s1.drifted \/ ~s4.sure)
    BY <1>0, <2>1, <2>3 DEF Effects
  <2>5. ASSUME ~s3'.excused PROVE Unexcused'
    <3>1. ~s3.excused /\ ~s1.drifted
      BY <2>4, <2>5, Zenon
    <3>2. /\ Gates!Needs["reconcile_unknown_applied"] \subseteq s2.declares
          /\ s2.declares \intersect {"fencing", "final", "receipt", "noLate"} \subseteq s1.gives
      BY <2>1, <3>1, ConformsIsGiven
    <3>3. {"final", "receipt"} \subseteq s2.declares
      BY <3>2 DEF Gates!Needs
    <3>4. {"final", "receipt"} \subseteq s1.gives
      BY <3>2, <3>3
    <3>5. Unexcused /\ s3.applied = 1
      BY <2>2, <3>1, <3>4 DEF GatesInv, Unexcused
    <3> QED
      BY <2>1, <2>2, <2>4, <3>1, <3>5 DEF Unexcused
  <2>6. RequestsAreClaimed'
    BY <2>1, <2>4 DEF GatesInv, RequestsAreClaimed
  <2> QED
    BY <2>1, <2>4, <2>5, <2>6 DEF GatesInv, GatesTypes, ProbeIsTrue
<1>4. ASSUME NEW epoch \in s3.underway, Gates!Apply(epoch) PROVE GatesInv'
  <2>1. UNCHANGED <<s1, s2, s4, s5>>
    BY <1>4 DEF Gates!Apply
  <2>2. PICK applied : applied = IF (Gates!Deduplicates /\ s3.applied > 0)
                                   \/ ("fencing" \in s1.gives /\ epoch # s3.epoch)
                                 THEN s3.applied ELSE s3.applied + 1
    OBVIOUS
  <2>3. applied \in Nat /\ s3.applied <= applied /\ applied <= s3.applied + 1
    BY <1>0, <2>2
  <2>4. PICK rest : rest = s3.underway \ {epoch}
    OBVIOUS
  <2>5. s3' = [s3 EXCEPT !.underway = rest, !.applied = applied]
    BY <1>0, <1>4, <2>2, <2>4 DEF Gates!Apply, Effects
  <2>6. /\ s3'.underway = rest /\ s3'.applied = applied /\ s3'.status = s3.status
        /\ s3'.epoch = s3.epoch /\ s3'.excused = s3.excused
    BY <1>0, <2>5 DEF Effects
  <2>7. s3.underway \subseteq 1..s3.epoch /\ IsFiniteSet(1..s3.epoch)
    BY RequestsAreFinite
  <2>8. IsFiniteSet(s3.underway)
    BY <2>7, FS_Subset
  <2>9. Cardinality(rest) = Cardinality(s3.underway) - 1 /\ Cardinality(s3.underway) \in Nat
        /\ Cardinality(rest) \in Nat
    <3>1. IsFiniteSet(rest) /\ Cardinality(rest) = Cardinality(s3.underway) - 1
      BY <2>4, <2>8, FS_RemoveElement
    <3> QED
      BY <2>8, <3>1, FS_CardinalityType
  <2>10. applied + Cardinality(rest) <= s3.epoch
    <3>1. s3.applied + Cardinality(s3.underway) <= s3.epoch
      BY DEF GatesInv, RequestsAreClaimed
    <3> QED
      BY <1>0, <2>3, <2>9, <3>1
  <2>11. applied \in 0..MaxEpoch
    <3>1. s3.epoch \in 0..MaxEpoch
      BY <1>0 DEF Effects
    <3> QED
      BY <2>3, <2>9, <2>10, <3>1, PartsAssumption
  <2>12. s3' \in Effects
    BY <1>0, <2>4, <2>5, <2>11 DEF Effects
  <2>13. RequestsAreClaimed'
    BY <2>1, <2>4, <2>6, <2>7, <2>10 DEF GatesInv, RequestsAreClaimed
  <2>14. ASSUME ~s3'.excused PROVE Unexcused'
    <3>1. Unexcused
      BY <2>6, <2>14 DEF GatesInv
    <3>2. s3.applied = 0 /\ rest = {}
      BY <2>4, <3>1 DEF Unexcused
    <3>3. applied \in {0, 1}
      BY <2>3, <3>2
    <3>4. s4.kind = "applied" => ~({"final", "receipt"} \subseteq s1.gives)
      BY <3>1, <3>2 DEF Unexcused
    <3>5. s4.kind = "final_negative" => ~({"final", "noLate"} \subseteq s1.gives)
      BY <3>1 DEF Unexcused
    <3>6. s3.status # "confirmed" /\ (s3.status # "pending" => ~s1.drifted)
      BY <3>1, <3>2 DEF Unexcused
    <3> QED
      BY <2>1, <2>6, <3>2, <3>3, <3>4, <3>5, <3>6 DEF Unexcused
  <2> QED
    BY <2>1, <2>12, <2>13, <2>14 DEF GatesInv, GatesTypes, ProbeIsTrue
<1>5. CASE Gates!Query
  <2>1. UNCHANGED <<s1, s2, s5>> /\ s3.status = "unknown"
    BY <1>5 DEF Gates!Query
  <2>2. PICK kind \in Gates!Answers \union {"unknown"} :
          /\ s4' = [kind |-> kind, epoch |-> s3.epoch, revision |-> s2.revision,
                    at |-> s5, sure |-> ~s1.drifted]
          /\ s3' = IF kind = "final_negative" /\ "noLate" \in s1.gives
                   THEN [s3 EXCEPT !.underway = {}] ELSE s3
    BY <1>5 DEF Gates!Query
  <2>3. kind \in {"unknown", "applied", "negative", "final_negative"}
    BY DEF Gates!Answers
  <2>4. /\ s3.epoch \in 0..MaxEpoch /\ s2.revision \in 0..MaxRevision /\ s5 \in 0..MaxTime
        /\ (~s1.drifted) \in BOOLEAN
    BY <1>0, GatesBounds DEF Effects, Registries
  <2>5. s4' \in Sights /\ s4'.kind = kind
    BY <2>2, <2>3, <2>4 DEF Sights
  <2>6. /\ s3' \in Effects /\ s3'.status = s3.status /\ s3'.epoch = s3.epoch
        /\ s3'.applied = s3.applied /\ s3'.excused = s3.excused
        /\ s3'.underway \subseteq s3.underway
        /\ kind = "final_negative" /\ "noLate" \in s1.gives => s3'.underway = {}
    <3>1. CASE kind = "final_negative" /\ "noLate" \in s1.gives
      <4>1. s3' = [s3 EXCEPT !.underway = {}]
        BY <2>2, <3>1
      <4> QED
        BY <1>0, <4>1 DEF Effects
    <3>2. CASE ~(kind = "final_negative" /\ "noLate" \in s1.gives)
      <4>1. s3' = s3
        BY <2>2, <3>2
      <4> QED
        BY <1>0, <3>2, <4>1
    <3> QED
      BY <3>1, <3>2
  <2>7. RequestsAreClaimed'
    <3>1. s3.underway \subseteq 1..s3.epoch /\ IsFiniteSet(1..s3.epoch)
          /\ s3.applied + Cardinality(s3.underway) <= s3.epoch
      BY RequestsAreFinite DEF GatesInv, RequestsAreClaimed
    <3>2. IsFiniteSet(s3.underway)
      BY <3>1, FS_Subset
    <3>3. IsFiniteSet(s3'.underway) /\ Cardinality(s3'.underway) <= Cardinality(s3.underway)
      BY <2>6, <3>2, FS_Subset
    <3>4. Cardinality(s3.underway) \in Nat /\ Cardinality(s3'.underway) \in Nat
      BY <3>2, <3>3, FS_CardinalityType
    <3>5. s3'.applied + Cardinality(s3'.underway) <= s3'.epoch
      BY <1>0, <2>6, <3>1, <3>3, <3>4
    <3> QED
      BY <2>1, <2>6, <3>1, <3>5 DEF RequestsAreClaimed
  <2>8. ASSUME ~s3'.excused PROVE Unexcused'
    <3>1. Unexcused
      BY <2>6, <2>8 DEF GatesInv
    <3>2. kind = "applied" /\ {"final", "receipt"} \subseteq s1.gives => s3.applied > 0
      BY DEF Gates!Answers
    <3>3. kind = "applied" /\ {"final", "receipt"} \subseteq s1.gives => s3.applied = 1
      BY <3>1, <3>2 DEF Unexcused
    <3>4. kind = "final_negative" /\ {"final", "noLate"} \subseteq s1.gives =>
            s3.applied = 0 /\ s3'.underway = {}
      BY <2>6 DEF Gates!Answers
    <3>5. /\ s3'.status # "pending" => ~s1'.drifted
          /\ s3'.underway \subseteq {s3'.epoch}
          /\ s3'.applied = 0 \/ (s3'.applied = 1 /\ s3'.underway = {})
          /\ s3'.status = "confirmed" => s3'.applied = 1
      BY <2>1, <2>6, <3>1 DEF Unexcused
    <3> QED
      BY <2>1, <2>5, <2>6, <3>3, <3>4, <3>5 DEF Unexcused
  <2> QED
    BY <2>1, <2>5, <2>6, <2>7, <2>8 DEF GatesInv, GatesTypes, ProbeIsTrue
<1>6. CASE Gates!Drift
  <2>1. UNCHANGED <<s2, s4, s5>>
    BY <1>6 DEF Gates!Drift
  <2>2. PICK gives \in Behaviours : s1' = [gives |-> gives, drifted |-> TRUE]
    BY <1>6 DEF Gates!Drift
  <2>3. s3' = [s3 EXCEPT !.excused = s3.excused \/ s3.status # "pending"]
    BY <1>0, <1>6 DEF Gates!Drift, Effects
  <2>4. (s3.excused \/ s3.status # "pending") \in BOOLEAN
    OBVIOUS
  <2>5. /\ s3' \in Effects /\ s3'.status = s3.status /\ s3'.epoch = s3.epoch
        /\ s3'.underway = s3.underway /\ s3'.applied = s3.applied
        /\ s3'.excused = (s3.excused \/ s3.status # "pending")
    BY <1>0, <2>3, <2>4 DEF Effects
  <2>6. s1' \in Providers /\ s1'.drifted
    BY <2>2 DEF Providers
  <2>7. RequestsAreClaimed'
    BY <2>1, <2>5 DEF GatesInv, RequestsAreClaimed
  <2>8. ASSUME ~s3'.excused PROVE Unexcused'
    <3>1. ~s3.excused /\ s3.status = "pending"
      BY <2>5, <2>8, Zenon
    <3>2. Unexcused /\ s4.kind = "unknown"
      BY <3>1 DEF GatesInv, RequestsAreClaimed
    <3> QED
      BY <2>1, <2>5, <3>1, <3>2 DEF Unexcused
  <2> QED
    BY <2>1, <2>5, <2>6, <2>7, <2>8 DEF GatesInv, GatesTypes, ProbeIsTrue
<1>7. CASE Gates!Probe
  <2>1. UNCHANGED <<s3, s4, s5>>
    BY <1>7 DEF Gates!Probe
  <2>2. RequestsAreClaimed'
    BY <2>1 DEF GatesInv, RequestsAreClaimed
  <2>3. CASE /\ s2' = [s2 EXCEPT !.probe =
                  [trusted |-> TRUE, passed |-> TRUE, observed |-> s1.gives,
                   revision |-> s2.revision, at |-> s5]]
             /\ s1' = [s1 EXCEPT !.drifted = FALSE]
    <3>1. PICK p : p = [trusted |-> TRUE, passed |-> TRUE, observed |-> s1.gives,
                        revision |-> s2.revision, at |-> s5]
      OBVIOUS
    <3>2. s1.gives \in SUBSET Gates!Guarantees /\ s2.revision \in 0..MaxRevision /\ s5 \in 0..MaxTime
      BY <1>0, GatesBounds, GuaranteesAssumption DEF Providers, Registries
    <3>3. p \in Probes /\ p.observed = s1.gives
      BY <3>1, <3>2 DEF Probes
    <3>4. s2' \in Registries /\ s2'.probe = p
      BY <1>0, <2>3, <3>1, <3>3 DEF Registries
    <3>5. s1' \in Providers /\ s1'.gives = s1.gives /\ ~s1'.drifted
      BY <1>0, <2>3 DEF Providers
    <3>6. ~s3'.excused => Unexcused'
      BY <2>1, <3>5 DEF GatesInv, Unexcused
    <3> QED
      BY <1>0, <2>1, <2>2, <3>3, <3>4, <3>5, <3>6 DEF GatesInv, GatesTypes, ProbeIsTrue
  <2>4. CASE /\ \E trusted, passed \in BOOLEAN :
                  /\ ~trusted \/ ~passed
                  /\ s2' = [s2 EXCEPT !.probe =
                       [Gates!NoProbe EXCEPT !.trusted = trusted, !.passed = passed]]
             /\ UNCHANGED s1
    <3>1. PICK trusted \in BOOLEAN, passed \in BOOLEAN :
            /\ ~trusted \/ ~passed
            /\ s2' = [s2 EXCEPT !.probe =
                 [Gates!NoProbe EXCEPT !.trusted = trusted, !.passed = passed]]
      BY <2>4
    <3>2. PICK p : p = [Gates!NoProbe EXCEPT !.trusted = trusted, !.passed = passed]
      OBVIOUS
    <3>3. p \in Probes /\ p.trusted = trusted /\ p.passed = passed
      BY <3>2, GatesBounds DEF Probes, Gates!NoProbe
    <3>4. s2' \in Registries /\ s2'.probe = p
      BY <1>0, <3>1, <3>2, <3>3 DEF Registries
    <3>5. ~(p.trusted /\ p.passed)
      BY <3>1, <3>3, Zenon
    <3>6. ~s3'.excused => Unexcused'
      BY <2>1, <2>4 DEF GatesInv, Unexcused
    <3> QED
      BY <1>0, <2>1, <2>2, <2>4, <3>4, <3>5, <3>6 DEF GatesInv, GatesTypes, ProbeIsTrue
  <2> QED
    BY <1>7, <2>3, <2>4 DEF Gates!Probe
<1>8. CASE Gates!Publish
  <2>1. UNCHANGED <<s1, s3, s4, s5>> /\ s2.revision < MaxRevision
    BY <1>8 DEF Gates!Publish
  <2>2. PICK declares \in Declarations :
          s2' = [s2 EXCEPT !.declares = declares, !.revision = @ + 1]
    BY <1>8 DEF Gates!Publish
  <2>3. s2.revision + 1 \in 1..MaxRevision
    BY <1>0, <2>1, PartsAssumption DEF Registries
  <2>4. s2' \in Registries /\ s2'.probe = s2.probe
    BY <1>0, <2>2, <2>3 DEF Registries
  <2>5. RequestsAreClaimed' /\ (~s3'.excused => Unexcused')
    BY <2>1 DEF GatesInv, RequestsAreClaimed, Unexcused
  <2> QED
    BY <2>1, <2>4, <2>5 DEF GatesInv, GatesTypes, ProbeIsTrue
<1>9. CASE Gates!Incident
  <2>1. UNCHANGED <<s1, s3, s4, s5>> /\ s2' = [s2 EXCEPT !.incident = ~@]
    BY <1>9 DEF Gates!Incident
  <2>2. s2' \in Registries /\ s2'.probe = s2.probe
    BY <1>0, <2>1 DEF Registries
  <2>3. RequestsAreClaimed' /\ (~s3'.excused => Unexcused')
    BY <2>1 DEF GatesInv, RequestsAreClaimed, Unexcused
  <2> QED
    BY <2>1, <2>2, <2>3 DEF GatesInv, GatesTypes, ProbeIsTrue
<1>10. CASE Gates!Tick
  <2>1. UNCHANGED <<s1, s2, s3, s4>> /\ s5 < MaxTime /\ s5' = s5 + 1
    BY <1>10 DEF Gates!Tick
  <2>2. s5' \in 1..MaxTime
    BY <1>0, <2>1, PartsAssumption
  <2>3. RequestsAreClaimed' /\ (~s3'.excused => Unexcused') /\ ProbeIsTrue'
    BY <2>1 DEF GatesInv, RequestsAreClaimed, Unexcused, ProbeIsTrue
  <2> QED
    BY <2>1, <2>2, <2>3 DEF GatesInv, GatesTypes
<1> QED
  BY <1>1, <1>2, <1>3, <1>4, <1>5, <1>6, <1>7, <1>8, <1>9, <1>10 DEF Gates!Next

\* Every reachable state of the reviews satisfies their invariant.
LEMMA GatesAlways == Spec => [](part = "gates" => GatesInv)
<1>1. Init => (part = "gates" => GatesInv)
  BY GatesInit DEF Init
<1>2. (part = "gates" => GatesInv) /\ [Next]_vars => (part = "gates" => GatesInv)'
  <2> SUFFICES ASSUME part = "gates" => GatesInv, [Next]_vars, part' = "gates"
               PROVE  GatesInv'
    OBVIOUS
  <2>1. CASE Next
    <3>1. part = "gates" /\ Gates!Next
      BY <2>1 DEF Next
    <3> QED
      BY <3>1, GatesStep
  <2>2. CASE UNCHANGED vars
    BY <2>2 DEF vars, GatesInv, GatesTypes, ProbeIsTrue, RequestsAreClaimed, Unexcused
  <2> QED
    BY <2>1, <2>2
<1> QED
  BY <1>1, <1>2, PTL DEF Spec

\* A caller that follows the provider reviews neither applies an effect twice nor confirms
\* one that did not happen, whatever profiles are published and whatever the status query
\* answers, unless the provider has changed since it was last probed.
THEOREM ReviewsAlwaysProtect == Spec => []ReviewsProtect
<1>1. (part = "gates" => GatesInv) => ReviewsProtect
  <2> SUFFICES ASSUME GatesInv PROVE Gates!TypeOK /\ Gates!ReviewsProtect
    BY DEF ReviewsProtect
  <2>1. Gates!TypeOK
    BY DEF GatesInv, GatesTypes, Gates!TypeOK, Providers, Registries, Probes, Effects, Sights
  <2>2. Gates!ReviewsProtect
    BY DEF GatesInv, Unexcused, Gates!ReviewsProtect
  <2> QED
    BY <2>1, <2>2
<1> QED
  BY <1>1, GatesAlways, PTL

-----------------------------------------------------------------------------
(* The file store: s1 is file, s2 tmp, s3 chain, s4 call, s5 snapshot,     *)
(* s6 loaded.                                                              *)

InTurn == {"load", "save", "write", "truncated", "written"}
Saving == {"save", "write", "truncated", "written"}
Writing == {"write", "truncated", "written"}

\* The chain has each call under way once, and the one that writes is its head.
ChainHolds ==
  /\ \A i, j \in 1..Len(s3) : s3[i] = s3[j] => i = j
  /\ \A c \in Actors : s4[c] \in InTurn <=> \E i \in 1..Len(s3) : s3[i] = c
  /\ \A c \in Actors : s4[c] \in Writing => s3 # << >> /\ s3[1] = c

\* What a call that writes will publish: the file it has read but for the entry of its run,
\* which is still the one its caller has loaded.
Written(c) ==
  [s1.checkpoints EXCEPT ![s6[c].run] = [version |-> s6[c].version + 1, author |-> c]]

WritesWhatItRead ==
  \A c \in Actors :
    /\ s4[c] \in Saving => s6[c].version < MaxVersion
    /\ s4[c] \in Writing => /\ s5[c] = Written(c)
                            /\ s1.checkpoints[s6[c].run].version = s6[c].version
    /\ s4[c] = "written" => s2 = [whole |-> TRUE, checkpoints |-> s5[c]]

FilesInv == Files!TypeOK /\ s1.whole /\ ChainHolds /\ WritesWhatItRead

\* The types, expanded.
LEMMA FilesTypes ==
  ASSUME Files!TypeOK
  PROVE  /\ s1 \in Files!Files /\ s2 \in Files!Files /\ s3 \in Seq(Actors)
         /\ s4 \in [Actors -> Files!Phases]
         /\ s5 \in [Actors -> [Things -> Files!Entries]]
         /\ s6 \in [Actors -> [run : Things, version : 0..MaxVersion]]
         /\ s1.checkpoints \in [Things -> Files!Entries]
BY DEF Files!TypeOK, Files!Files

LEMMA EmptyEntries == Files!Empty \in [Things -> Files!Entries]
BY Bounds, SomeActor DEF Files!Empty, Files!Entries

\* What RemoveFirst makes of a chain that has its head once: the rest of it.
LEMMA HeadLeaves ==
  ASSUME NEW s \in Seq(Actors), s # << >>,
         \A i, j \in 1..Len(s) : s[i] = s[j] => i = j
  PROVE  /\ Files!RemoveFirst(s, s[1]) \in Seq(Actors)
         /\ Len(Files!RemoveFirst(s, s[1])) = Len(s) - 1
         /\ \A k \in 1..(Len(s) - 1) : Files!RemoveFirst(s, s[1])[k] = s[k + 1]
<1>1. PICK n \in Nat \ {0} : n = Len(s)
  BY EmptySeq
<1>2. PICK I : I = {i \in 1..Len(s) : s[i] = s[1]}
  OBVIOUS
<1>3. I = {1}
  BY <1>1, <1>2
<1>4. Files!Min(I) = 1
  BY <1>3 DEF Files!Min
<1>5. Files!SelectInSeq(s, LAMBDA v : v = s[1]) = 1
  BY <1>2, <1>3, <1>4 DEF Files!SelectInSeq
<1>6. Files!RemoveFirst(s, s[1]) = Files!RemoveAt(s, 1)
  BY <1>1, <1>5 DEF Files!RemoveFirst
<1>7. Files!RemoveAt(s, 1) = SubSeq(s, 1, 0) \o SubSeq(s, 2, n)
  BY <1>1 DEF Files!RemoveAt
<1>8. PICK a : a = SubSeq(s, 1, 0)
  OBVIOUS
<1>9. PICK b : b = SubSeq(s, 2, n)
  OBVIOUS
<1>10. \A k \in 1..n : s[k] \in Actors
  BY <1>1, ElementOfSeq
<1>11. a \in Seq(Actors) /\ Len(a) = 0
  BY <1>1, <1>8, <1>10, SubSeqProperties
<1>12. b \in Seq(Actors) /\ Len(b) = n - 1 /\ \A k \in 1..(n - 1) : b[k] = s[k + 1]
  BY <1>1, <1>9, <1>10, SubSeqProperties
<1>13. a \o b = b
  BY <1>11, <1>12, EmptySeq, ConcatEmptySeq
<1> QED
  BY <1>1, <1>6, <1>7, <1>8, <1>9, <1>12, <1>13

\* A call enters the chain.
LEMMA EnterKeeps ==
  ASSUME FilesInv, NEW c \in Actors, NEW phase \in {"load", "save"}, s4[c] = "idle",
         Files!Enter(c, phase), UNCHANGED <<s1, s2, s5, s6>>,
         phase = "save" => s6[c].version < MaxVersion
  PROVE  FilesInv'
<1>1. /\ s3 \in Seq(Actors) /\ s4 \in [Actors -> Files!Phases]
      /\ s4' = [s4 EXCEPT ![c] = phase] /\ s3' = Append(s3, c)
  BY FilesTypes DEF FilesInv, Files!Enter
<1>2. PICK n \in Nat : n = Len(s3)
  BY <1>1, LenProperties
<1>3. /\ s3' \in Seq(Actors) /\ Len(s3') = n + 1 /\ s3' # << >>
      /\ s3'[n + 1] = c /\ \A i \in 1..n : s3'[i] = s3[i]
  BY <1>1, <1>2, AppendProperties
<1>4. s4'[c] = phase /\ \A x \in Actors \ {c} : s4'[x] = s4[x]
  BY <1>1
<1>5. s4' \in [Actors -> Files!Phases]
  BY <1>1 DEF Files!Phases
<1>6. ~\E i \in 1..n : s3[i] = c
  BY <1>2 DEF FilesInv, ChainHolds, InTurn
<1>7. \A i, j \in 1..(n + 1) : s3'[i] = s3'[j] => i = j
  BY <1>2, <1>3, <1>6 DEF FilesInv, ChainHolds
<1>8. ASSUME NEW x \in Actors PROVE s4'[x] \in InTurn <=> \E i \in 1..(n + 1) : s3'[i] = x
  <2>1. CASE x = c
    <3>1. s3'[n + 1] = x /\ n + 1 \in 1..(n + 1)
      BY <1>3, <2>1
    <3> QED
      BY <1>4, <2>1, <3>1 DEF InTurn
  <2>2. CASE x # c
    <3>1. s4[x] \in InTurn <=> \E i \in 1..n : s3[i] = x
      BY <1>2 DEF FilesInv, ChainHolds
    <3>2. (\E i \in 1..n : s3[i] = x) <=> \E i \in 1..(n + 1) : s3'[i] = x
      BY <1>3, <2>2
    <3> QED
      BY <1>4, <2>2, <3>1, <3>2
  <2> QED
    BY <2>1, <2>2
<1>9. ASSUME NEW x \in Actors, s4'[x] \in Writing PROVE s3' # << >> /\ s3'[1] = x
  <2>1. x # c /\ s4[x] \in Writing
    BY <1>4, <1>9 DEF Writing
  <2>2. s3 # << >> /\ s3[1] = x
    BY <2>1 DEF FilesInv, ChainHolds
  <2>3. n # 0
    BY <1>1, <1>2, <2>2, EmptySeq
  <2> QED
    BY <1>3, <2>2, <2>3
<1>10. ChainHolds'
  BY <1>3, <1>7, <1>8, <1>9 DEF ChainHolds
<1>11. ASSUME NEW x \in Actors
       PROVE  /\ s4'[x] \in Saving => s6'[x].version < MaxVersion
              /\ s4'[x] \in Writing => /\ s5'[x] = Written(x)'
                                       /\ s1'.checkpoints[s6'[x].run].version = s6'[x].version
              /\ s4'[x] = "written" => s2' = [whole |-> TRUE, checkpoints |-> s5'[x]]
  BY <1>4 DEF FilesInv, WritesWhatItRead, Written, Saving, Writing
<1>12. Files!TypeOK'
  BY <1>3, <1>5 DEF FilesInv, Files!TypeOK
<1> QED
  BY <1>10, <1>11, <1>12 DEF FilesInv, WritesWhatItRead

\* The head of the chain leaves it, and nobody writes.
LEMMA LeaveKeeps ==
  ASSUME FilesInv, NEW c \in Actors, NEW phase \in {"idle", "saved", "conflict"},
         s4[c] \in InTurn, s3 # << >>, s3[1] = c, Files!Leave(c, phase)
  PROVE  /\ ChainHolds' /\ s3' \in Seq(Actors) /\ s4' \in [Actors -> Files!Phases]
         /\ s4'[c] = phase /\ \A x \in Actors \ {c} : s4'[x] = s4[x]
         /\ \A x \in Actors : s4'[x] \notin Writing
<1>1. /\ s3 \in Seq(Actors) /\ s4 \in [Actors -> Files!Phases]
      /\ s4' = [s4 EXCEPT ![c] = phase] /\ s3' = Files!RemoveFirst(s3, c)
  BY FilesTypes DEF FilesInv, Files!Leave
<1>2. PICK n \in Nat \ {0} : n = Len(s3)
  BY <1>1, EmptySeq
<1>3. \A i, j \in 1..n : s3[i] = s3[j] => i = j
  BY <1>2 DEF FilesInv, ChainHolds
<1>4. s3' \in Seq(Actors) /\ Len(s3') = n - 1 /\ \A k \in 1..(n - 1) : s3'[k] = s3[k + 1]
  BY <1>1, <1>2, <1>3, HeadLeaves
<1>5. s4'[c] = phase /\ \A x \in Actors \ {c} : s4'[x] = s4[x]
  BY <1>1
<1>6. s4' \in [Actors -> Files!Phases]
  BY <1>1 DEF Files!Phases
<1>7. \A i, j \in 1..(n - 1) : s3'[i] = s3'[j] => i = j
  BY <1>2, <1>3, <1>4
<1>8. ASSUME NEW x \in Actors PROVE s4'[x] \in InTurn <=> \E i \in 1..(n - 1) : s3'[i] = x
  <2>1. CASE x = c
    <3>1. s4'[x] \notin InTurn
      BY <1>5, <2>1 DEF InTurn
    <3>2. ASSUME NEW i \in 1..(n - 1) PROVE s3'[i] # c
      <4>1. s3'[i] = s3[i + 1] /\ i + 1 \in 1..n /\ 1 \in 1..n /\ i + 1 # 1
        BY <1>4
      <4> QED
        BY <1>3, <4>1
    <3> QED
      BY <2>1, <3>1, <3>2
  <2>2. CASE x # c
    <3>1. s4[x] \in InTurn <=> \E i \in 1..n : s3[i] = x
      BY <1>2 DEF FilesInv, ChainHolds
    <3>2. ASSUME NEW i \in 1..n, s3[i] = x PROVE \E k \in 1..(n - 1) : s3'[k] = x
      <4>1. i # 1
        BY <2>2, <3>2
      <4>2. i - 1 \in 1..(n - 1) /\ (i - 1) + 1 = i
        BY <4>1
      <4> QED
        BY <1>4, <3>2, <4>2
    <3>3. ASSUME NEW k \in 1..(n - 1), s3'[k] = x PROVE \E i \in 1..n : s3[i] = x
      <4>1. k + 1 \in 1..n /\ s3[k + 1] = x
        BY <1>4, <3>3
      <4> QED
        BY <4>1
    <3> QED
      BY <1>5, <2>2, <3>1, <3>2, <3>3
  <2> QED
    BY <2>1, <2>2
<1>9. ASSUME NEW x \in Actors PROVE s4'[x] \notin Writing
  <2>1. CASE x = c
    BY <1>5, <2>1 DEF Writing
  <2>2. CASE x # c
    <3>1. s4[x] \notin Writing
      BY <2>2 DEF FilesInv, ChainHolds
    <3> QED
      BY <1>5, <2>2, <3>1
  <2> QED
    BY <2>1, <2>2
<1>10. ChainHolds'
  BY <1>4, <1>7, <1>8, <1>9 DEF ChainHolds
<1> QED
  BY <1>4, <1>5, <1>6, <1>9, <1>10

\* The invariant after the head of the chain has left it.
LEMMA LeftInv ==
  ASSUME FilesInv, NEW c \in Actors, ChainHolds',
         s3' \in Seq(Actors), s4' \in [Actors -> Files!Phases], s4'[c] \notin InTurn,
         \A x \in Actors \ {c} : s4'[x] = s4[x] /\ s6'[x] = s6[x],
         \A x \in Actors : s4'[x] \notin Writing,
         s1' \in Files!Files, s1'.whole, s2' \in Files!Files,
         s5' \in [Actors -> [Things -> Files!Entries]],
         s6' \in [Actors -> [run : Things, version : 0..MaxVersion]]
  PROVE  FilesInv'
<1>1. \A x \in Actors : s4'[x] \in Saving => s6'[x].version < MaxVersion
  BY DEF FilesInv, WritesWhatItRead, Saving, InTurn
<1>2. "written" \in Writing
  BY DEF Writing
<1> QED
  BY <1>1, <1>2 DEF FilesInv, WritesWhatItRead, Files!TypeOK

LEMMA FilesInit == ASSUME Files!Init PROVE FilesInv
<1>1. /\ s1 = [whole |-> TRUE, checkpoints |-> Files!Empty]
      /\ s2 = [whole |-> FALSE, checkpoints |-> Files!Empty]
      /\ s3 = << >> /\ s4 = [c \in Actors |-> "idle"]
      /\ s5 = [c \in Actors |-> Files!Empty]
      /\ s6 = [c \in Actors |-> [run |-> CHOOSE r \in Things : TRUE, version |-> 0]]
  BY DEF Files!Init
<1>2. s1 \in Files!Files /\ s2 \in Files!Files /\ s1.whole
  BY <1>1, EmptyEntries DEF Files!Files
<1>3. s6 \in [Actors -> [run : Things, version : 0..MaxVersion]]
  BY <1>1, SomeThing, Bounds
<1>4. s4 \in [Actors -> Files!Phases] /\ s5 \in [Actors -> [Things -> Files!Entries]]
  BY <1>1, EmptyEntries DEF Files!Phases
<1>5. s3 \in Seq(Actors) /\ Len(s3) = 0
  BY <1>1, EmptySeq
<1>6. \A c \in Actors : s4[c] \notin InTurn /\ s4[c] \notin Writing /\ s4[c] \notin Saving
  BY <1>1 DEF InTurn, Writing, Saving
<1>7. ChainHolds
  BY <1>5, <1>6 DEF ChainHolds
<1>8. WritesWhatItRead
  BY <1>1, <1>6 DEF WritesWhatItRead
<1> QED
  BY <1>2, <1>3, <1>4, <1>5, <1>7, <1>8 DEF FilesInv, Files!TypeOK

\* A call at the head goes on to write, or from one step of writing to the next.
LEMMA WriterGoes ==
  ASSUME FilesInv, NEW c \in Actors, NEW phase \in Writing, s3 # << >>, s3[1] = c,
         s4[c] \in Saving, s4' = [s4 EXCEPT ![c] = phase], UNCHANGED <<s1, s3, s6>>,
         s2' \in Files!Files, s5' \in [Actors -> [Things -> Files!Entries]],
         s5'[c] = Written(c),
         s1.checkpoints[s6[c].run].version = s6[c].version,
         phase = "written" => s2' = [whole |-> TRUE, checkpoints |-> s5'[c]]
  PROVE  FilesInv'
<1>1. s4 \in [Actors -> Files!Phases]
  BY FilesTypes DEF FilesInv
<1>2. s4'[c] = phase /\ \A x \in Actors \ {c} : s4'[x] = s4[x]
  BY <1>1
<1>3. s4' \in [Actors -> Files!Phases]
  BY <1>1 DEF Files!Phases, Writing
<1>4. \A x \in Actors \ {c} : s4[x] \notin Writing
  BY DEF FilesInv, ChainHolds
<1>5. ChainHolds'
  <2>1. \A i, j \in 1..Len(s3) : s3[i] = s3[j] => i = j
    BY DEF FilesInv, ChainHolds
  <2>2. \A x \in Actors : s4[x] \in InTurn <=> \E i \in 1..Len(s3) : s3[i] = x
    BY DEF FilesInv, ChainHolds
  <2>3. s4[c] \in InTurn /\ phase \in InTurn
    BY DEF InTurn, Writing, Saving
  <2>4. \A x \in Actors : s4'[x] \in InTurn <=> s4[x] \in InTurn
    BY <1>2, <2>3
  <2>5. \A x \in Actors : s4'[x] \in Writing => s3 # << >> /\ s3[1] = x
    BY <1>2, <1>4
  <2> QED
    BY <2>1, <2>2, <2>4, <2>5 DEF ChainHolds
<1>6. ASSUME NEW x \in Actors
      PROVE  /\ s4'[x] \in Saving => s6'[x].version < MaxVersion
             /\ s4'[x] \in Writing => /\ s5'[x] = Written(x)'
                                      /\ s1'.checkpoints[s6'[x].run].version = s6'[x].version
             /\ s4'[x] = "written" => s2' = [whole |-> TRUE, checkpoints |-> s5'[x]]
  <2>1. s4[x] \in Saving => s6[x].version < MaxVersion
    BY DEF FilesInv, WritesWhatItRead
  <2>2. CASE x = c
    <3>1. Written(x)' = Written(x)
      BY DEF Written
    <3> QED
      BY <1>2, <2>1, <2>2, <3>1
  <2>3. CASE x # c
    <3>1. s4'[x] \notin Writing /\ s4'[x] = s4[x] /\ s4'[x] # "written"
      BY <1>2, <1>4, <2>3 DEF Writing
    <3> QED
      BY <2>1, <3>1
  <2> QED
    BY <2>2, <2>3
<1>7. Files!TypeOK'
  BY <1>3 DEF FilesInv, Files!TypeOK
<1> QED
  BY <1>5, <1>6, <1>7 DEF FilesInv, WritesWhatItRead

LEMMA WrittenType ==
  ASSUME FilesInv, NEW c \in Actors, s6[c].version < MaxVersion
  PROVE  Written(c) \in [Things -> Files!Entries]
<1>1. s6[c].run \in Things /\ s6[c].version \in 0..MaxVersion
  BY FilesTypes DEF FilesInv
<1>2. s6[c].version + 1 \in 0..MaxVersion
  BY <1>1, Bounds
<1>3. [version |-> s6[c].version + 1, author |-> c] \in Files!Entries
  BY <1>2 DEF Files!Entries
<1> QED
  BY <1>1, <1>3, FilesTypes DEF FilesInv, Written

LEMMA FilesStep == ASSUME FilesInv, Files!Next PROVE FilesInv'
<1>0. /\ s1 \in Files!Files /\ s2 \in Files!Files /\ s3 \in Seq(Actors)
      /\ s4 \in [Actors -> Files!Phases]
      /\ s5 \in [Actors -> [Things -> Files!Entries]]
      /\ s6 \in [Actors -> [run : Things, version : 0..MaxVersion]]
      /\ s1.checkpoints \in [Things -> Files!Entries] /\ s1.whole
  BY FilesTypes DEF FilesInv
<1>1. ASSUME NEW c \in Actors, s4[c] \in InTurn, Files!HoldsLock(c) PROVE s3 # << >> /\ s3[1] = c
  BY <1>0, <1>1 DEF Files!HoldsLock
<1>2. ASSUME NEW c \in Actors, Files!BeginLoad(c) PROVE FilesInv'
  <2>1. s4[c] = "idle" /\ Files!Enter(c, "load") /\ UNCHANGED <<s1, s2, s5, s6>>
    BY <1>2 DEF Files!BeginLoad
  <2> QED
    BY <2>1, EnterKeeps
<1>3. ASSUME NEW c \in Actors, Files!BeginSave(c) PROVE FilesInv'
  <2>1. /\ s4[c] = "idle" /\ Files!Enter(c, "save") /\ UNCHANGED <<s1, s2, s5, s6>>
        /\ s6[c].version < MaxVersion
    BY <1>3 DEF Files!BeginSave
  <2> QED
    BY <2>1, EnterKeeps
<1>4. ASSUME NEW c \in Actors, Files!Load(c) PROVE FilesInv'
  <2>1. /\ s4[c] = "load" /\ Files!HoldsLock(c) /\ Files!Leave(c, "idle")
        /\ UNCHANGED <<s1, s2, s5>>
    BY <1>4 DEF Files!Load
  <2>2. PICK r \in Things : s6' = [s6 EXCEPT ![c] = [run |-> r, version |-> s1.checkpoints[r].version]]
    BY <1>4 DEF Files!Load
  <2>3. s4[c] \in InTurn /\ "idle" \notin InTurn
    BY <2>1 DEF InTurn
  <2>4. s3 # << >> /\ s3[1] = c
    BY <1>1, <2>1, <2>3
  <2>5. s1.checkpoints[r].version \in 0..MaxVersion
    BY <1>0 DEF Files!Entries
  <2>6. /\ s6' \in [Actors -> [run : Things, version : 0..MaxVersion]]
        /\ \A x \in Actors \ {c} : s6'[x] = s6[x]
    BY <1>0, <2>2, <2>5
  <2> QED
    BY <1>0, <2>1, <2>3, <2>4, <2>6, LeaveKeeps, LeftInv
<1>5. ASSUME NEW c \in Actors, Files!Compare(c) PROVE FilesInv'
  <2>1. s4[c] = "save" /\ Files!HoldsLock(c) /\ UNCHANGED <<s1, s2, s6>>
    BY <1>5 DEF Files!Compare
  <2>2. s4[c] \in InTurn /\ "conflict" \notin InTurn /\ s4[c] \in Saving /\ "write" \in Writing
    BY <2>1 DEF InTurn, Saving, Writing
  <2>3. s3 # << >> /\ s3[1] = c
    BY <1>1, <2>1, <2>2
  <2>4. CASE Files!Leave(c, "conflict") /\ UNCHANGED s5
    BY <1>0, <2>1, <2>2, <2>3, <2>4, LeaveKeeps, LeftInv
  <2>5. CASE /\ Files!Matches(c) /\ s4' = [s4 EXCEPT ![c] = "write"] /\ UNCHANGED s3
             /\ s5' = [s5 EXCEPT ![c] = Written(c)]
    <3>1. s6[c].version < MaxVersion
      BY <2>2 DEF FilesInv, WritesWhatItRead
    <3>2. Written(c) \in [Things -> Files!Entries]
      BY <3>1, WrittenType
    <3>3. s5' \in [Actors -> [Things -> Files!Entries]] /\ s5'[c] = Written(c)
      BY <1>0, <2>5, <3>2
    <3>4. s1.checkpoints[s6[c].run].version = s6[c].version
      BY <2>5 DEF Files!Matches
    <3> QED
      BY <1>0, <2>1, <2>2, <2>3, <2>5, <3>3, <3>4, WriterGoes
  <2> QED
    BY <1>5, <2>4, <2>5 DEF Files!Compare, Written
<1>6. ASSUME NEW c \in Actors, s4[c] \in Writing
      PROVE  /\ s3 # << >> /\ s3[1] = c /\ s4[c] \in InTurn /\ s4[c] \in Saving
             /\ s6[c].version < MaxVersion /\ s5[c] = Written(c)
             /\ s1.checkpoints[s6[c].run].version = s6[c].version
  <2>1. s4[c] \in InTurn /\ s4[c] \in Saving
    BY <1>6 DEF InTurn, Saving, Writing
  <2> QED
    BY <1>6, <2>1 DEF FilesInv, ChainHolds, WritesWhatItRead
<1>7. ASSUME NEW c \in Actors, Files!Truncate(c) PROVE FilesInv'
  <2>1. /\ s4[c] = "write" /\ s2' = [whole |-> FALSE, checkpoints |-> Files!Empty]
        /\ s4' = [s4 EXCEPT ![c] = "truncated"] /\ UNCHANGED <<s1, s3, s5, s6>>
    BY <1>7 DEF Files!Truncate
  <2>2. s4[c] \in Writing /\ "truncated" \in Writing
    BY <2>1 DEF Writing
  <2>3. s2' \in Files!Files
    BY <2>1, EmptyEntries DEF Files!Files
  <2> QED
    BY <1>0, <1>6, <2>1, <2>2, <2>3, WriterGoes
<1>8. ASSUME NEW c \in Actors, Files!Fill(c) PROVE FilesInv'
  <2>1. /\ s4[c] = "truncated" /\ s2' = [whole |-> TRUE, checkpoints |-> s5[c]]
        /\ s4' = [s4 EXCEPT ![c] = "written"] /\ UNCHANGED <<s1, s3, s5, s6>>
    BY <1>8 DEF Files!Fill
  <2>2. s4[c] \in Writing /\ "written" \in Writing
    BY <2>1 DEF Writing
  <2>3. s2' \in Files!Files
    BY <1>0, <2>1 DEF Files!Files
  <2> QED
    BY <1>0, <1>6, <2>1, <2>2, <2>3, WriterGoes
<1>9. ASSUME NEW c \in Actors, Files!DiskFails(c) PROVE FilesInv'
  <2>1. /\ s4[c] \in Writing /\ Files!Leave(c, "idle") /\ UNCHANGED <<s1, s2, s6>>
        /\ s5' = [s5 EXCEPT ![c] = Files!Empty]
    BY <1>9 DEF Files!DiskFails, Writing
  <2>2. "idle" \notin InTurn
    BY DEF InTurn
  <2>3. s5' \in [Actors -> [Things -> Files!Entries]]
    BY <1>0, <2>1, EmptyEntries
  <2>10. s3 # << >> /\ s3[1] = c /\ s4[c] \in InTurn
    BY <1>6, <2>1
  <2>11. /\ ChainHolds' /\ s3' \in Seq(Actors) /\ s4' \in [Actors -> Files!Phases]
         /\ s4'[c] = "idle" /\ \A x \in Actors \ {c} : s4'[x] = s4[x]
         /\ \A x \in Actors : s4'[x] \notin Writing
    BY <2>1, <2>10, LeaveKeeps
  <2> QED
    BY <1>0, <2>1, <2>2, <2>3, <2>11, LeftInv
<1>10. ASSUME NEW c \in Actors, Files!Rename(c) PROVE FilesInv'
  <2>1. /\ s4[c] = "written" /\ Files!Leave(c, "saved") /\ UNCHANGED s6
        /\ s5' = [s5 EXCEPT ![c] = Files!Empty] /\ s1' = s2
        /\ s2' = [whole |-> FALSE, checkpoints |-> Files!Empty]
    BY <1>10 DEF Files!Rename
  <2>2. "saved" \notin InTurn /\ s4[c] \in Writing
    BY <2>1 DEF InTurn, Writing
  <2>3. s5' \in [Actors -> [Things -> Files!Entries]] /\ s2' \in Files!Files
    BY <1>0, <2>1, EmptyEntries DEF Files!Files
  <2>4. s2 = [whole |-> TRUE, checkpoints |-> s5[c]]
    BY <2>1 DEF FilesInv, WritesWhatItRead
  <2>5. s1' \in Files!Files /\ s1'.whole
    BY <1>0, <2>1, <2>4
  <2>10. s3 # << >> /\ s3[1] = c /\ s4[c] \in InTurn
    BY <1>6, <2>1, <2>2
  <2>11. /\ ChainHolds' /\ s3' \in Seq(Actors) /\ s4' \in [Actors -> Files!Phases]
         /\ s4'[c] = "saved" /\ \A x \in Actors \ {c} : s4'[x] = s4[x]
         /\ \A x \in Actors : s4'[x] \notin Writing
    BY <2>1, <2>10, LeaveKeeps
  <2> QED
    BY <1>0, <2>1, <2>2, <2>3, <2>5, <2>11, LeftInv
<1>11. ASSUME NEW c \in Actors, Files!TakeAnswer(c) PROVE FilesInv'
  <2>1. /\ s4[c] \in {"saved", "conflict"} /\ s4' = [s4 EXCEPT ![c] = "idle"]
        /\ UNCHANGED <<s1, s2, s3, s5, s6>>
    BY <1>11 DEF Files!TakeAnswer
  <2>2. s4'[c] = "idle" /\ \A x \in Actors \ {c} : s4'[x] = s4[x]
    BY <1>0, <2>1
  <2>3. s4' \in [Actors -> Files!Phases]
    BY <1>0, <2>1 DEF Files!Phases
  <2>4. \A x \in Actors : /\ s4'[x] \in InTurn <=> s4[x] \in InTurn
                          /\ s4'[x] \in Saving <=> s4[x] \in Saving
                          /\ s4'[x] \in Writing <=> s4[x] \in Writing
                          /\ s4'[x] = "written" <=> s4[x] = "written"
    BY <2>1, <2>2 DEF InTurn, Saving, Writing
  <2>5. ChainHolds'
    BY <2>1, <2>4 DEF FilesInv, ChainHolds
  <2>6. WritesWhatItRead'
    BY <2>1, <2>4 DEF FilesInv, WritesWhatItRead, Written
  <2> QED
    BY <2>1, <2>3, <2>5, <2>6 DEF FilesInv, Files!TypeOK
<1>12. CASE Files!Restart
  <2>1. /\ s3' = << >> /\ s4' = [c \in Actors |-> "idle"]
        /\ s5' = [c \in Actors |-> Files!Empty]
        /\ s6' = [c \in Actors |-> [s6[c] EXCEPT !.version = 0]] /\ UNCHANGED <<s1, s2>>
    BY <1>12 DEF Files!Restart
  <2>2. ASSUME NEW c \in Actors
        PROVE  [s6[c] EXCEPT !.version = 0] \in [run : Things, version : 0..MaxVersion]
    <3>1. s6[c] \in [run : Things, version : 0..MaxVersion] /\ 0 \in 0..MaxVersion
      BY <1>0, Bounds
    <3> QED
      BY <3>1
  <2>3. s6' \in [Actors -> [run : Things, version : 0..MaxVersion]]
    BY <2>1, <2>2
  <2>4. s4' \in [Actors -> Files!Phases] /\ s5' \in [Actors -> [Things -> Files!Entries]]
    BY <2>1, EmptyEntries DEF Files!Phases
  <2>5. s3' \in Seq(Actors) /\ Len(s3') = 0
    BY <2>1, EmptySeq
  <2>6. \A c \in Actors : s4'[c] \notin InTurn /\ s4'[c] \notin Writing /\ s4'[c] \notin Saving
                          /\ s4'[c] # "written"
    BY <2>1 DEF InTurn, Writing, Saving
  <2>7. ChainHolds'
    BY <2>5, <2>6 DEF ChainHolds
  <2>8. WritesWhatItRead'
    BY <2>6 DEF WritesWhatItRead
  <2> QED
    BY <1>0, <2>1, <2>3, <2>4, <2>5, <2>7, <2>8 DEF FilesInv, Files!TypeOK
<1> QED
  BY <1>2, <1>3, <1>4, <1>5, <1>7, <1>8, <1>9, <1>10, <1>11, <1>12 DEF Files!Next, Files!Step

\* Every reachable state of the file store satisfies its invariant.
LEMMA FilesAlways == Spec => [](part = "files" => FilesInv)
<1>1. Init => (part = "files" => FilesInv)
  BY FilesInit DEF Init
<1>2. (part = "files" => FilesInv) /\ [Next]_vars => (part = "files" => FilesInv)'
  <2> SUFFICES ASSUME part = "files" => FilesInv, [Next]_vars, part' = "files"
               PROVE  FilesInv'
    OBVIOUS
  <2>1. CASE Next
    <3>1. part = "files" /\ Files!Next
      BY <2>1 DEF Next
    <3> QED
      BY <3>1, FilesStep
  <2>2. CASE UNCHANGED vars
    BY <2>2 DEF vars, FilesInv, Files!TypeOK, ChainHolds, WritesWhatItRead, Written
  <2> QED
    BY <2>1, <2>2
<1> QED
  BY <1>1, <1>2, PTL DEF Spec

-----------------------------------------------------------------------------
(* Both stores implement VersionedStore.                                   *)

\* What the variables of VersionedStore stand for.
StoreStored == CASE part = "files" -> Files!Stored
                 [] part = "table" -> s1
                 [] OTHER -> Files!Empty
StoreLoaded == CASE part = "files" -> s6
                 [] part = "table" -> s3
                 [] OTHER -> [c \in Actors |-> [run |-> CHOOSE r \in Things : TRUE, version |-> 0]]
StoreAnswer == CASE part = "files" -> Files!Answer
                 [] part = "table" -> Table!Answer
                 [] OTHER -> [c \in Actors |-> "none"]

LEMMA StoreOfFiles ==
  /\ part = "files" =>
       StoreStored = Files!Stored /\ StoreLoaded = s6 /\ StoreAnswer = Files!Answer
  /\ part' = "files" =>
       StoreStored' = Files!Stored' /\ StoreLoaded' = s6' /\ StoreAnswer' = Files!Answer'
BY DEF StoreStored, StoreLoaded, StoreAnswer

LEMMA StoreOfTable ==
  /\ part = "table" => StoreStored = s1 /\ StoreLoaded = s3 /\ StoreAnswer = Table!Answer
  /\ part' = "table" => StoreStored' = s1' /\ StoreLoaded' = s3' /\ StoreAnswer' = Table!Answer'
BY DEF StoreStored, StoreLoaded, StoreAnswer

LEMMA StoreOfOthers ==
  /\ part \notin {"files", "table"} =>
       /\ StoreStored = Files!Empty
       /\ StoreLoaded = [c \in Actors |-> [run |-> CHOOSE r \in Things : TRUE, version |-> 0]]
       /\ StoreAnswer = [c \in Actors |-> "none"]
  /\ part' \notin {"files", "table"} =>
       /\ StoreStored' = Files!Empty
       /\ StoreLoaded' = [c \in Actors |-> [run |-> CHOOSE r \in Things : TRUE, version |-> 0]]
       /\ StoreAnswer' = [c \in Actors |-> "none"]
BY DEF StoreStored, StoreLoaded, StoreAnswer, Files!Empty

\* The steps of VersionedStore in these words.
LEMMA StoreLoads ==
  ASSUME NEW c \in Actors, NEW r \in Things, StoreAnswer[c] = "none",
         StoreLoaded' = [StoreLoaded EXCEPT ![c] = [run |-> r, version |-> StoreStored[r].version]],
         StoreStored' = StoreStored, StoreAnswer' = StoreAnswer
  PROVE  Store!Next
<1>1. Store!Load(c, r)
  BY DEF Store!Load, StoreStored, StoreLoaded, StoreAnswer
<1> QED
  BY <1>1 DEF Store!Next

LEMMA StoreSaves ==
  ASSUME NEW c \in Actors, StoreAnswer[c] = "none",
         StoreStored[StoreLoaded[c].run].version = StoreLoaded[c].version,
         StoreStored' = [StoreStored EXCEPT ![StoreLoaded[c].run] = [version |-> @.version + 1, author |-> c]],
         StoreAnswer' = [StoreAnswer EXCEPT ![c] = "saved"], StoreLoaded' = StoreLoaded
  PROVE  Store!Next
<1>1. Store!Save(c)
  BY DEF Store!Save, StoreStored, StoreLoaded, StoreAnswer
<1> QED
  BY <1>1 DEF Store!Next

LEMMA StoreRefuses ==
  ASSUME NEW c \in Actors, StoreAnswer[c] = "none",
         StoreStored[StoreLoaded[c].run].version # StoreLoaded[c].version,
         StoreAnswer' = [StoreAnswer EXCEPT ![c] = "conflict"],
         StoreStored' = StoreStored, StoreLoaded' = StoreLoaded
  PROVE  Store!Next
<1>1. Store!Save(c)
  BY DEF Store!Save, StoreStored, StoreLoaded, StoreAnswer
<1> QED
  BY <1>1 DEF Store!Next

LEMMA StoreTakes ==
  ASSUME NEW c \in Actors, StoreAnswer' = [StoreAnswer EXCEPT ![c] = "none"],
         StoreStored' = StoreStored, StoreLoaded' = StoreLoaded
  PROVE  Store!Next
<1>1. Store!Take(c)
  BY DEF Store!Take, StoreStored, StoreLoaded, StoreAnswer
<1> QED
  BY <1>1 DEF Store!Next

LEMMA StoreLoses ==
  ASSUME NEW dead \in SUBSET Actors,
         StoreAnswer' = [c \in Actors |-> IF c \in dead THEN "none" ELSE StoreAnswer[c]],
         StoreLoaded' = [c \in Actors |-> IF c \in dead THEN [StoreLoaded[c] EXCEPT !.version = 0]
                                          ELSE StoreLoaded[c]],
         StoreStored' = StoreStored
  PROVE  Store!Next
<1>1. Store!Die(dead)
  BY DEF Store!Die, StoreStored, StoreLoaded, StoreAnswer
<1> QED
  BY <1>1 DEF Store!Next

LEMMA StoreRests ==
  ASSUME StoreStored' = StoreStored, StoreLoaded' = StoreLoaded, StoreAnswer' = StoreAnswer
  PROVE  UNCHANGED Store!vars
BY DEF Store!vars, StoreStored, StoreLoaded, StoreAnswer

\* The store starts empty, with every caller at version 0 of one run.
LEMMA StoreStarts == ASSUME Init PROVE Store!Init
<1>1. StoreStored = [r \in Things |-> [version |-> 0, author |-> CHOOSE c \in Actors : TRUE]]
  <2>1. CASE part = "files" /\ Files!Init
    BY <2>1, StoreOfFiles DEF Files!Init, Files!Stored, Files!Empty
  <2>2. CASE part = "table" /\ Table!Init
    BY <2>2, StoreOfTable DEF Table!Init, Table!Empty
  <2>3. CASE part \notin {"files", "table"}
    BY <2>3, StoreOfOthers DEF Files!Empty
  <2> QED
    BY <2>1, <2>2, <2>3 DEF Init
<1>2. StoreLoaded = [c \in Actors |-> [run |-> CHOOSE r \in Things : TRUE, version |-> 0]]
  <2>1. CASE part = "files" /\ Files!Init
    BY <2>1, StoreOfFiles DEF Files!Init
  <2>2. CASE part = "table" /\ Table!Init
    BY <2>2, StoreOfTable DEF Table!Init
  <2>3. CASE part \notin {"files", "table"}
    BY <2>3, StoreOfOthers
  <2> QED
    BY <2>1, <2>2, <2>3 DEF Init
<1>3. StoreAnswer = [c \in Actors |-> "none"]
  <2>1. CASE part = "files" /\ Files!Init
    BY <2>1, StoreOfFiles DEF Files!Init, Files!Answer
  <2>2. CASE part = "table" /\ Table!Init
    BY <2>2, StoreOfTable DEF Table!Init, Table!Answer
  <2>3. CASE part \notin {"files", "table"}
    BY <2>3, StoreOfOthers
  <2> QED
    BY <2>1, <2>2, <2>3 DEF Init
<1> QED
  BY <1>1, <1>2, <1>3, SomeActor, SomeThing DEF Store!Init, StoreStored, StoreLoaded, StoreAnswer

\* A step of the file store is one of the versioned store, or none: the rename is the save.
LEMMA FilesRefine ==
  ASSUME FilesInv, part = "files", part' = "files", Files!Next
  PROVE  [Store!Next]_Store!vars
<1>0. /\ s1 \in Files!Files /\ s4 \in [Actors -> Files!Phases] /\ s1.whole
      /\ s6 \in [Actors -> [run : Things, version : 0..MaxVersion]]
      /\ s1.checkpoints \in [Things -> Files!Entries]
  BY FilesTypes DEF FilesInv
<1>1. /\ StoreStored = s1.checkpoints /\ StoreLoaded = s6
      /\ StoreAnswer = [c \in Actors |-> IF s4[c] \in {"saved", "conflict"} THEN s4[c] ELSE "none"]
  BY <1>0, StoreOfFiles DEF Files!Stored, Files!Answer
<1>2. s1'.whole
  BY FilesStep DEF FilesInv
<1>3. /\ StoreStored' = s1'.checkpoints /\ StoreLoaded' = s6'
      /\ StoreAnswer' = [c \in Actors |-> IF s4'[c] \in {"saved", "conflict"} THEN s4'[c] ELSE "none"]
  BY <1>2, StoreOfFiles DEF Files!Stored, Files!Answer
<1>4. ASSUME NEW c \in Actors, NEW phase, s4' = [s4 EXCEPT ![c] = phase],
             s4[c] \notin {"saved", "conflict"}, phase \notin {"saved", "conflict"}
      PROVE  StoreAnswer' = StoreAnswer
  BY <1>0, <1>1, <1>3, <1>4
<1>5. ASSUME NEW c \in Actors, NEW phase \in {"saved", "conflict"}, s4' = [s4 EXCEPT ![c] = phase]
      PROVE  StoreAnswer' = [StoreAnswer EXCEPT ![c] = phase]
  BY <1>0, <1>1, <1>3, <1>5
<1>6. ASSUME NEW c \in Actors,
             Files!BeginLoad(c) \/ Files!BeginSave(c) \/ Files!Truncate(c) \/ Files!Fill(c)
               \/ Files!DiskFails(c)
      PROVE  UNCHANGED Store!vars
  <2>1. UNCHANGED <<s1, s6>>
    BY <1>6 DEF Files!BeginLoad, Files!BeginSave, Files!Truncate, Files!Fill, Files!DiskFails
  <2>2. /\ s4[c] \notin {"saved", "conflict"}
        /\ \E phase \in {"load", "save", "truncated", "written", "idle"} :
             s4' = [s4 EXCEPT ![c] = phase]
    BY <1>6 DEF Files!BeginLoad, Files!BeginSave, Files!Truncate, Files!Fill, Files!DiskFails,
                Files!Enter, Files!Leave
  <2>3. StoreAnswer' = StoreAnswer
    BY <1>4, <2>2
  <2> QED
    BY <1>1, <1>3, <2>1, <2>3, StoreRests
<1>7. ASSUME NEW c \in Actors, Files!Load(c) PROVE Store!Next
  <2>1. PICK r \in Things : s6' = [s6 EXCEPT ![c] = [run |-> r, version |-> s1.checkpoints[r].version]]
    BY <1>7 DEF Files!Load
  <2>2. s4[c] = "load" /\ s4' = [s4 EXCEPT ![c] = "idle"] /\ s1' = s1
    BY <1>7 DEF Files!Load, Files!Leave
  <2>3. StoreAnswer' = StoreAnswer /\ StoreAnswer[c] = "none"
    BY <1>1, <1>4, <2>2
  <2> QED
    BY <1>1, <1>3, <2>1, <2>2, <2>3, StoreLoads
<1>8. ASSUME NEW c \in Actors, Files!Compare(c) PROVE [Store!Next]_Store!vars
  <2>1. s4[c] = "save" /\ UNCHANGED <<s1, s6>>
    BY <1>8 DEF Files!Compare
  <2>2. CASE ~Files!Matches(c) /\ Files!Leave(c, "conflict")
    <3>1. s4' = [s4 EXCEPT ![c] = "conflict"] /\ s1.checkpoints[s6[c].run].version # s6[c].version
      BY <2>2 DEF Files!Leave, Files!Matches
    <3>2. StoreAnswer' = [StoreAnswer EXCEPT ![c] = "conflict"] /\ StoreAnswer[c] = "none"
      BY <1>1, <1>5, <2>1, <3>1
    <3>3. Store!Next
      BY <1>1, <1>3, <2>1, <3>1, <3>2, StoreRefuses
    <3> QED
      BY <3>3
  <2>3. CASE s4' = [s4 EXCEPT ![c] = "write"]
    <3>1. StoreAnswer' = StoreAnswer
      BY <1>4, <2>1, <2>3
    <3>2. UNCHANGED Store!vars
      BY <1>1, <1>3, <2>1, <3>1, StoreRests
    <3> QED
      BY <3>2
  <2> QED
    BY <1>8, <2>2, <2>3 DEF Files!Compare
<1>9. ASSUME NEW c \in Actors, Files!Rename(c) PROVE Store!Next
  <2>1. s4[c] = "written" /\ s4' = [s4 EXCEPT ![c] = "saved"] /\ s1' = s2 /\ s6' = s6
    BY <1>9 DEF Files!Rename, Files!Leave
  <2>2. s4[c] \in Writing
    BY <2>1 DEF Writing
  <2>3. /\ s2 = [whole |-> TRUE, checkpoints |-> s5[c]] /\ s5[c] = Written(c)
        /\ s1.checkpoints[s6[c].run].version = s6[c].version
    BY <2>1, <2>2 DEF FilesInv, WritesWhatItRead
  <2>4. s1'.checkpoints = Written(c)
    BY <2>1, <2>3
  <2>5. s1'.checkpoints =
          [s1.checkpoints EXCEPT ![s6[c].run] = [version |-> @.version + 1, author |-> c]]
    BY <1>0, <2>3, <2>4 DEF Written
  <2>6. StoreAnswer' = [StoreAnswer EXCEPT ![c] = "saved"] /\ StoreAnswer[c] = "none"
    BY <1>1, <1>5, <2>1
  <2> QED
    BY <1>1, <1>3, <2>1, <2>3, <2>5, <2>6, StoreSaves
<1>10. ASSUME NEW c \in Actors, Files!TakeAnswer(c) PROVE Store!Next
  <2>1. s4' = [s4 EXCEPT ![c] = "idle"] /\ UNCHANGED <<s1, s6>>
    BY <1>10 DEF Files!TakeAnswer
  <2>2. StoreAnswer' = [StoreAnswer EXCEPT ![c] = "none"]
    BY <1>0, <1>1, <1>3, <2>1
  <2> QED
    BY <1>1, <1>3, <2>1, <2>2, StoreTakes
<1>11. CASE Files!Restart
  <2>1. /\ s4' = [c \in Actors |-> "idle"] /\ s1' = s1
        /\ s6' = [c \in Actors |-> [s6[c] EXCEPT !.version = 0]]
    BY <1>11 DEF Files!Restart
  <2>2. StoreAnswer' = [c \in Actors |-> IF c \in Actors THEN "none" ELSE StoreAnswer[c]]
    BY <1>3, <2>1
  <2>3. StoreLoaded' = [c \in Actors |-> IF c \in Actors THEN [StoreLoaded[c] EXCEPT !.version = 0]
                                         ELSE StoreLoaded[c]]
    BY <1>1, <1>3, <2>1
  <2>4. Store!Next
    BY <1>1, <1>3, <2>1, <2>2, <2>3, StoreLoses
  <2> QED
    BY <2>4
<1> QED
  BY <1>6, <1>7, <1>8, <1>9, <1>10, <1>11 DEF Files!Next, Files!Step

\* So is one of the table: the statement is the save, and a refusal is told later.
LEMMA TableRefines ==
  ASSUME TableInv, part = "table", part' = "table", Table!Next
  PROVE  [Store!Next]_Store!vars
<1>0. /\ s1 \in [Things -> [version : 0..MaxVersion, author : Actors]]
      /\ s2 \in [Actors -> {"idle", "refused", "saved", "conflict"}]
      /\ s3 \in [Actors -> [run : Things, version : 0..MaxVersion]]
  BY DEF TableInv, Table!TypeOK
<1>1. /\ StoreStored = s1 /\ StoreLoaded = s3
      /\ StoreAnswer = [c \in Actors |-> IF s2[c] \in {"saved", "conflict"} THEN s2[c] ELSE "none"]
      /\ StoreStored' = s1' /\ StoreLoaded' = s3'
      /\ StoreAnswer' = [c \in Actors |-> IF s2'[c] \in {"saved", "conflict"} THEN s2'[c] ELSE "none"]
  BY StoreOfTable DEF Table!Answer
<1>2. ASSUME NEW c \in Actors, NEW phase \in {"saved", "conflict"}, s2' = [s2 EXCEPT ![c] = phase]
      PROVE  StoreAnswer' = [StoreAnswer EXCEPT ![c] = phase]
  BY <1>0, <1>1, <1>2
<1>3. ASSUME NEW c \in Actors, Table!Load(c) PROVE Store!Next
  <2>1. PICK r \in Things : s3' = [s3 EXCEPT ![c] = [run |-> r, version |-> s1[r].version]]
    BY <1>3 DEF Table!Load
  <2>2. s2[c] = "idle" /\ s2' = s2 /\ s1' = s1
    BY <1>3 DEF Table!Load
  <2>3. StoreAnswer' = StoreAnswer /\ StoreAnswer[c] = "none"
    BY <1>1, <2>2
  <2> QED
    BY <1>1, <2>1, <2>2, <2>3, StoreLoads
<1>4. ASSUME NEW c \in Actors, Table!Save(c) PROVE [Store!Next]_Store!vars
  <2>1. s2[c] = "idle" /\ s3' = s3
    BY <1>4 DEF Table!Save
  <2>2. CASE /\ Table!RowMatches(c) /\ s2' = [s2 EXCEPT ![c] = "saved"]
             /\ s1' = [s1 EXCEPT ![s3[c].run] = [version |-> s3[c].version + 1, author |-> c]]
    <3>1. s1[s3[c].run].version = s3[c].version
      BY <2>2 DEF Table!RowMatches
    <3>2. s1' = [s1 EXCEPT ![s3[c].run] = [version |-> @.version + 1, author |-> c]]
      BY <1>0, <2>2, <3>1
    <3>3. StoreAnswer' = [StoreAnswer EXCEPT ![c] = "saved"] /\ StoreAnswer[c] = "none"
      BY <1>1, <1>2, <2>1, <2>2
    <3>4. Store!Next
      BY <1>1, <2>1, <3>1, <3>2, <3>3, StoreSaves
    <3> QED
      BY <3>4
  <2>3. CASE s2' = [s2 EXCEPT ![c] = "refused"] /\ s1' = s1
    <3>1. StoreAnswer' = StoreAnswer
      BY <1>0, <1>1, <2>1, <2>3
    <3>2. UNCHANGED Store!vars
      BY <1>1, <2>1, <2>3, <3>1, StoreRests
    <3> QED
      BY <3>2
  <2> QED
    BY <1>4, <2>2, <2>3 DEF Table!Save
<1>5. ASSUME NEW c \in Actors, Table!LoadLatest(c) PROVE Store!Next
  <2>1. s2[c] = "refused" /\ s2' = [s2 EXCEPT ![c] = "conflict"] /\ UNCHANGED <<s1, s3>>
    BY <1>5 DEF Table!LoadLatest
  <2>2. s1[s3[c].run].version # s3[c].version
    <3>1. s3[c].version < s1[s3[c].run].version
      BY <2>1 DEF TableInv
    <3>2. s3[c].version \in Nat
      <4>1. s3[c].version \in 0..MaxVersion
        BY <1>0
      <4> QED
        BY <4>1, Bounds
    <3> QED
      BY <3>1, <3>2
  <2>3. StoreAnswer' = [StoreAnswer EXCEPT ![c] = "conflict"] /\ StoreAnswer[c] = "none"
    BY <1>1, <1>2, <2>1
  <2> QED
    BY <1>1, <2>1, <2>2, <2>3, StoreRefuses
<1>6. ASSUME NEW c \in Actors, Table!TakeAnswer(c) PROVE Store!Next
  <2>1. s2' = [s2 EXCEPT ![c] = "idle"] /\ UNCHANGED <<s1, s3>>
    BY <1>6 DEF Table!TakeAnswer
  <2>2. StoreAnswer' = [StoreAnswer EXCEPT ![c] = "none"]
    BY <1>0, <1>1, <2>1
  <2> QED
    BY <1>1, <2>1, <2>2, StoreTakes
<1>7. ASSUME NEW c \in Actors, Table!Die(c) PROVE Store!Next
  <2>1. s2' = [s2 EXCEPT ![c] = "idle"] /\ s1' = s1 /\ s3' = [s3 EXCEPT ![c].version = 0]
    BY <1>7 DEF Table!Die
  <2>2. StoreAnswer' = [x \in Actors |-> IF x \in {c} THEN "none" ELSE StoreAnswer[x]]
    BY <1>0, <1>1, <2>1
  <2>3. StoreLoaded' = [x \in Actors |-> IF x \in {c} THEN [StoreLoaded[x] EXCEPT !.version = 0]
                                         ELSE StoreLoaded[x]]
    BY <1>0, <1>1, <2>1
  <2> QED
    BY <1>1, <2>1, <2>2, <2>3, StoreLoses
<1> QED
  BY <1>3, <1>4, <1>5, <1>6, <1>7 DEF Table!Next, Table!Step

\* A checkpoint store is one atomic compare-and-swap on the version of its run, although the
\* file store rewrites the checkpoints of all runs in four steps that a full disk or a crash
\* may end, and although the table tells a refusal after the statement that found it.
THEOREM StoresAreVersioned == Spec => StoreSpec
<1>1. Init => Store!Init
  BY StoreStarts
<1>2. /\ part = "files" => FilesInv
      /\ part = "table" => TableInv
      /\ [Next]_vars
      => [Store!Next]_Store!vars
  <2> SUFFICES ASSUME part = "files" => FilesInv, part = "table" => TableInv, [Next]_vars
               PROVE  [Store!Next]_Store!vars
    OBVIOUS
  <2>1. CASE UNCHANGED vars
    <3>1. StoreStored' = StoreStored /\ StoreLoaded' = StoreLoaded /\ StoreAnswer' = StoreAnswer
      BY <2>1 DEF vars, StoreStored, StoreLoaded, StoreAnswer, Files!Stored, Files!Empty,
                  Files!Answer, Table!Answer
    <3>2. UNCHANGED Store!vars
      BY <3>1, StoreRests
    <3> QED
      BY <3>2
  <2>2. CASE part = "files" /\ Files!Next /\ part' = part
    BY <2>2, FilesRefine
  <2>3. CASE part = "table" /\ Table!Next /\ part' = part
    BY <2>3, TableRefines
  <2>4. CASE part \notin {"files", "table"} /\ part' = part
    <3>1. StoreStored' = StoreStored /\ StoreLoaded' = StoreLoaded /\ StoreAnswer' = StoreAnswer
      BY <2>4, StoreOfOthers
    <3>2. UNCHANGED Store!vars
      BY <3>1, StoreRests
    <3> QED
      BY <3>2
  <2> QED
    BY <2>1, <2>2, <2>3, <2>4 DEF Next
<1>3. Spec => Store!Spec
  BY <1>1, <1>2, FilesAlways, TableAlways, PTL DEF Spec, Store!Spec
<1>4. (part = "files" => FilesInv) => (part = "files" => Files!TypeOK)
  BY DEF FilesInv
<1>5. (part = "table" => TableInv) => (part = "table" => Table!TypeOK)
  BY DEF TableInv
<1> QED
  BY <1>3, <1>4, <1>5, FilesAlways, TableAlways, PTL DEF StoreSpec

-----------------------------------------------------------------------------
(* The legacy outbox: s1 is record, s2 pass, s3 called, s4 received,       *)
(* s5 overlapped.                                                          *)

Handling == {"attempt", "publish", "confirm", "mark"}
Passes == [pc : {"idle", "next"} \union Handling, todo : SUBSET Outbox!Copies,
           item : Outbox!Copies]

\* The calls of the publisher that an attempt was counted for: made, or about to be.
Publishers(e) == {d \in Actors : s2[d].pc = "publish" /\ s2[d].item.event = e}
CallsOf(e) == s3[e] + Cardinality(Publishers(e))

\* The pass has the event in hand.
Holds(d, e) ==
  \/ \E x \in s2[d].todo : x.event = e
  \/ s2[d].pc \in Handling /\ s2[d].item.event = e

Settling(d, e) == s2[d].pc \in {"confirm", "mark"} /\ s2[d].item.event = e

OutboxTypes ==
  /\ s1 \in [Things -> Outbox!Records] /\ s2 \in [Actors -> Passes]
  /\ s3 \in [Things -> 0..MaxAttempts] /\ s4 \subseteq Things /\ s5 \subseteq Things

\* What a record says, and what a copy of one says, however old it is.
RecordIsTrue(e) ==
  /\ s1[e].status = "absent" => s1[e] = Outbox!NoRecord
  /\ s1[e].attempts <= CallsOf(e)
  /\ s1[e].status = "dispatched" => e \in s4

CopyIsTrue(x) ==
  /\ x.copy.status # "absent" /\ s1[x.event].status # "absent"
  /\ x.copy.attempts <= CallsOf(x.event)
  /\ x.copy.status = "dispatched" => x.event \in s4

PassIsTrue(d) ==
  /\ \A x \in s2[d].todo : CopyIsTrue(x)
  /\ s2[d].pc \in Handling => CopyIsTrue(s2[d].item)
  /\ s2[d].pc \in {"confirm", "mark"} => s2[d].item.event \in s4

\* An event that two passes never had in hand at once: the copy that is being worked on is
\* the record, which counts every call.
AloneIsExact(e) ==
  e \notin s5 =>
    /\ \A c, d \in Actors : Holds(c, e) /\ Holds(d, e) => c = d
    /\ s1[e].attempts = CallsOf(e)
    /\ e \in s4 => s1[e].status = "dispatched" \/ \E d \in Actors : Settling(d, e)
    /\ \A d \in Actors : s2[d].pc \in Handling /\ s2[d].item.event = e => s2[d].item.copy = s1[e]

OutboxInv ==
  /\ OutboxTypes
  /\ \A e \in Things : RecordIsTrue(e) /\ AloneIsExact(e)
  /\ \A d \in Actors : PassIsTrue(d)

LEMMA PublishersFinite ==
  ASSUME OutboxTypes, NEW e \in Things
  PROVE  /\ IsFiniteSet(Publishers(e)) /\ Cardinality(Publishers(e)) \in Nat
         /\ s3[e] \in Nat /\ CallsOf(e) \in Nat
<1>1. Publishers(e) \subseteq Actors /\ IsFiniteSet(Actors)
  BY PartsAssumption DEF Publishers
<1>2. IsFiniteSet(Publishers(e))
  BY <1>1, FS_Subset
<1>3. Cardinality(Publishers(e)) \in Nat
  BY <1>2, FS_CardinalityType
<1>4. s3[e] \in 0..MaxAttempts
  BY DEF OutboxTypes
<1>5. s3[e] \in Nat
  BY <1>4, Bounds
<1> QED
  BY <1>2, <1>3, <1>5 DEF CallsOf

\* No pass comes to the publisher or leaves it.
LEMMA CallsStay ==
  ASSUME OutboxTypes, NEW d \in Actors, NEW p, s2' = [s2 EXCEPT ![d] = p], s3' = s3,
         s2[d].pc # "publish", p.pc # "publish", NEW e \in Things
  PROVE  CallsOf(e)' = CallsOf(e)
<1>1. s2'[d] = p /\ \A c \in Actors \ {d} : s2'[c] = s2[c]
  BY DEF OutboxTypes
<1>2. Publishers(e)' = Publishers(e)
  BY <1>1 DEF Publishers
<1> QED
  BY <1>2 DEF CallsOf

\* A pass has counted an attempt and comes to the publisher.
LEMMA CallsGrow ==
  ASSUME OutboxTypes, NEW d \in Actors, NEW p, s2' = [s2 EXCEPT ![d] = p], s3' = s3,
         s2[d].pc # "publish", p.pc = "publish", NEW e \in Things
  PROVE  CallsOf(e)' = IF p.item.event = e THEN CallsOf(e) + 1 ELSE CallsOf(e)
<1>1. s2'[d] = p /\ \A c \in Actors \ {d} : s2'[c] = s2[c]
  BY DEF OutboxTypes
<1>2. CASE p.item.event # e
  <2>1. Publishers(e)' = Publishers(e)
    BY <1>1, <1>2 DEF Publishers
  <2> QED
    BY <1>2, <2>1 DEF CallsOf
<1>3. CASE p.item.event = e
  <2>1. Publishers(e)' = Publishers(e) \union {d} /\ d \notin Publishers(e)
    BY <1>1, <1>3 DEF Publishers
  <2>2. IsFiniteSet(Publishers(e))
    BY PublishersFinite
  <2>3. Cardinality(Publishers(e) \union {d}) = Cardinality(Publishers(e)) + 1
    BY <2>1, <2>2, FS_AddElement
  <2>4. Cardinality(Publishers(e)') = Cardinality(Publishers(e)) + 1
    BY <2>1, <2>3
  <2> QED
    BY <1>3, <2>4, PublishersFinite DEF CallsOf
<1> QED
  BY <1>2, <1>3

\* The publisher is called: what was about to be made is made.
LEMMA CallsAreMade ==
  ASSUME OutboxTypes, NEW d \in Actors, NEW p, s2' = [s2 EXCEPT ![d] = p],
         NEW f \in Things, f = s2[d].item.event, s3' = [s3 EXCEPT ![f] = s3[f] + 1],
         s2[d].pc = "publish", p.pc # "publish", NEW e \in Things
  PROVE  CallsOf(e)' = CallsOf(e)
<1>1. s2'[d] = p /\ \A c \in Actors \ {d} : s2'[c] = s2[c]
  BY DEF OutboxTypes
<1>2. CASE e # f
  <2>1. Publishers(e)' = Publishers(e)
    BY <1>1, <1>2 DEF Publishers
  <2>2. s3'[e] = s3[e]
    BY <1>2 DEF OutboxTypes
  <2> QED
    BY <2>1, <2>2 DEF CallsOf
<1>3. CASE e = f
  <2>1. Publishers(e)' = Publishers(e) \ {d} /\ d \in Publishers(e)
    BY <1>1, <1>3 DEF Publishers
  <2>2. IsFiniteSet(Publishers(e))
    BY PublishersFinite
  <2>3. Cardinality(Publishers(e) \ {d}) = Cardinality(Publishers(e)) - 1
    BY <2>1, <2>2, FS_RemoveElement
  <2>4. Cardinality(Publishers(e)') = Cardinality(Publishers(e)) - 1
    BY <2>1, <2>3
  <2>5. s3'[e] = s3[e] + 1
    BY <1>3 DEF OutboxTypes
  <2> QED
    BY <2>4, <2>5, PublishersFinite DEF CallsOf
<1> QED
  BY <1>2, <1>3

\* The fields of a pass, one at a time.
LEMMA PassFields ==
  ASSUME NEW p \in Passes
  PROVE  /\ \A pc \in {"idle", "next"} \union Handling : [p EXCEPT !.pc = pc] \in Passes
         /\ \A t \in SUBSET Outbox!Copies : [p EXCEPT !.todo = t] \in Passes
         /\ \A x \in Outbox!Copies : [p EXCEPT !.item = x] \in Passes
<1>1. ASSUME NEW pc \in {"idle", "next"} \union Handling PROVE [p EXCEPT !.pc = pc] \in Passes
  BY DEF Passes
<1>2. ASSUME NEW t \in SUBSET Outbox!Copies PROVE [p EXCEPT !.todo = t] \in Passes
  BY DEF Passes
<1>3. ASSUME NEW x \in Outbox!Copies PROVE [p EXCEPT !.item = x] \in Passes
  BY DEF Passes
<1> QED
  BY <1>1, <1>2, <1>3

LEMMA NoCopyType ==
  /\ Outbox!NoRecord \in Outbox!Records /\ Outbox!NoCopy \in Outbox!Copies
  /\ Outbox!Resting \in Passes /\ Outbox!Resting.todo = {} /\ Outbox!Resting.pc = "idle"
<1>1. Outbox!NoRecord \in Outbox!Records
  BY DEF Outbox!NoRecord, Outbox!Records
<1>2. Outbox!NoCopy \in Outbox!Copies
  BY <1>1, SomeThing DEF Outbox!NoCopy, Outbox!Copies
<1> QED
  BY <1>1, <1>2 DEF Outbox!Resting, Passes

\* What the pass of d is after one of its records is done with.
LEMMA RestIsPass ==
  ASSUME OutboxTypes, NEW d \in Actors, NEW p, p = Outbox!Rest(d)
  PROVE  p \in Passes /\ p.todo = s2[d].todo /\ p.pc \notin Handling
<1>1. s2[d] \in Passes
  BY DEF OutboxTypes
<1>2. CASE s2[d].todo = {}
  BY <1>2, NoCopyType DEF Outbox!Rest, Handling
<1>3. CASE s2[d].todo # {}
  <2>1. p = [s2[d] EXCEPT !.pc = "next", !.item = Outbox!NoCopy]
    BY <1>3 DEF Outbox!Rest
  <2> QED
    BY <1>1, <2>1, NoCopyType DEF Passes, Handling
<1> QED
  BY <1>2, <1>3

\* A copy stays true while calls and confirmations only grow.
LEMMA CopyStaysTrue ==
  ASSUME OutboxTypes, OutboxTypes', NEW x \in Outbox!Copies, CopyIsTrue(x), s4 \subseteq s4',
         s1[x.event].status # "absent" => s1'[x.event].status # "absent",
         CallsOf(x.event) <= CallsOf(x.event)', CallsOf(x.event)' \in Nat
  PROVE  CopyIsTrue(x)'
<1>1. x.event \in Things /\ x.copy.attempts \in Nat
  BY DEF Outbox!Copies, Outbox!Records
<1>2. CallsOf(x.event) \in Nat
  BY <1>1, PublishersFinite
<1>3. x.copy.attempts <= CallsOf(x.event)'
  BY <1>1, <1>2 DEF CopyIsTrue
<1> QED
  BY <1>3 DEF CopyIsTrue

\* A pass goes on without writing a record: it works on less than it had in hand, and on a
\* copy that is true.
LEMMA OutboxMoves ==
  ASSUME OutboxInv, NEW d \in Actors, NEW p \in Passes, s2' = [s2 EXCEPT ![d] = p],
         UNCHANGED <<s1, s5>>, s3' \in [Things -> 0..MaxAttempts],
         s4' \subseteq Things, s4 \subseteq s4',
         \A e \in Things : CallsOf(e)' = CallsOf(e),
         p.todo \subseteq s2[d].todo,
         p.pc \in Handling =>
           /\ Holds(d, p.item.event) /\ CopyIsTrue(p.item)
           /\ p.item.event \notin s5 => p.item.copy = s1[p.item.event],
         p.pc \in {"confirm", "mark"} => p.item.event \in s4',
         \A e \in s4' : e \notin s5 =>
           \/ e \in s4 /\ ~Settling(d, e)
           \/ s1[e].status = "dispatched"
           \/ p.pc \in {"confirm", "mark"} /\ p.item.event = e
  PROVE  OutboxInv'
<1>0. OutboxTypes
  BY DEF OutboxInv
<1>1. s2'[d] = p /\ \A c \in Actors \ {d} : s2'[c] = s2[c]
  BY <1>0 DEF OutboxTypes
<1>2. OutboxTypes'
  BY <1>0 DEF OutboxTypes
<1>3. \A e \in Things : CallsOf(e) \in Nat
  BY <1>0, PublishersFinite
<1>4. ASSUME NEW x \in Outbox!Copies, CopyIsTrue(x) PROVE CopyIsTrue(x)'
  <2>1. x.event \in Things
    BY DEF Outbox!Copies
  <2>2. CallsOf(x.event)' = CallsOf(x.event) /\ CallsOf(x.event) \in Nat
    BY <1>3, <2>1
  <2>3. CallsOf(x.event) <= CallsOf(x.event)' /\ CallsOf(x.event)' \in Nat
    BY <2>2
  <2> QED
    BY <1>0, <1>2, <1>4, <2>3, CopyStaysTrue
<1>5. ASSUME NEW c \in Actors PROVE PassIsTrue(c)'
  <2>1. s2[c] \in Passes /\ PassIsTrue(c)
    BY <1>0 DEF OutboxInv, OutboxTypes
  <2>2. \A x \in s2[c].todo : x \in Outbox!Copies /\ CopyIsTrue(x)
    BY <2>1 DEF PassIsTrue, Passes
  <2>3. \A x \in s2[c].todo : CopyIsTrue(x)'
    BY <1>4, <2>2
  <2>4. CASE c = d
    <3>1. \A x \in s2'[c].todo : CopyIsTrue(x)'
      BY <1>1, <2>3, <2>4
    <3>2. p.pc \in Handling => CopyIsTrue(p.item)'
      BY <1>4 DEF Passes
    <3>3. s2'[c].pc \in Handling => CopyIsTrue(s2[c].item)'
      BY <1>1, <2>4, <3>2 DEF CopyIsTrue
    <3> QED
      BY <1>1, <2>4, <3>1, <3>3 DEF PassIsTrue
  <2>5. CASE c # d
    <3>1. s2'[c] = s2[c]
      BY <1>1, <2>5
    <3>2. PICK y : y = s2[c].item
      OBVIOUS
    <3>3. s2[c].pc \in Handling => CopyIsTrue(y)'
      BY <1>4, <2>1, <3>2 DEF PassIsTrue, Passes
    <3>4. s2'[c].item = y
      BY <3>1, <3>2
    <3>5. s2'[c].pc \in Handling => CopyIsTrue(s2[c].item)'
      BY <3>1, <3>3, <3>4 DEF CopyIsTrue
    <3>6. s2'[c].pc \in {"confirm", "mark"} => s2'[c].item.event \in s4'
      BY <2>1, <3>1 DEF PassIsTrue
    <3> QED
      BY <2>3, <3>1, <3>5, <3>6 DEF PassIsTrue
  <2> QED
    BY <2>4, <2>5
<1>6. ASSUME NEW e \in Things PROVE RecordIsTrue(e)'
  <2>1. RecordIsTrue(e) /\ CallsOf(e)' = CallsOf(e)
    BY DEF OutboxInv
  <2> QED
    BY <2>1 DEF RecordIsTrue
<1>7. ASSUME NEW e \in Things PROVE AloneIsExact(e)'
  <2>1. AloneIsExact(e) /\ CallsOf(e)' = CallsOf(e)
    BY DEF OutboxInv
  <2>2. ASSUME NEW c \in Actors, Holds(c, e)' PROVE Holds(c, e)
    BY <1>1, <2>2 DEF Holds
  <2>3. ASSUME e \notin s5, NEW b \in Actors, NEW c \in Actors, Holds(b, e)', Holds(c, e)'
        PROVE  b = c
    BY <2>1, <2>2, <2>3 DEF AloneIsExact
  <2>4. ASSUME e \notin s5, e \in s4' PROVE s1[e].status = "dispatched" \/ \E c \in Actors : Settling(c, e)'
    <3>1. CASE p.pc \in {"confirm", "mark"} /\ p.item.event = e
      <4>1. Settling(d, e)'
        BY <1>1, <3>1 DEF Settling
      <4> QED
        BY <4>1
    <3>2. CASE e \in s4 /\ ~Settling(d, e) /\ s1[e].status # "dispatched"
      <4>1. PICK c \in Actors : Settling(c, e)
        BY <2>1, <2>4, <3>2 DEF AloneIsExact
      <4>2. s2'[c] = s2[c]
        BY <1>1, <3>2, <4>1
      <4>3. Settling(c, e)'
        BY <4>1, <4>2 DEF Settling
      <4> QED
        BY <4>3
    <3> QED
      BY <2>4, <3>1, <3>2
  <2>5. ASSUME e \notin s5, NEW c \in Actors, s2'[c].pc \in Handling, s2'[c].item.event = e
        PROVE  s2'[c].item.copy = s1[e]
    BY <1>1, <2>1, <2>5 DEF AloneIsExact
  <2> QED
    BY <2>1, <2>3, <2>4, <2>5 DEF AloneIsExact
<1> QED
  BY <1>2, <1>5, <1>6, <1>7 DEF OutboxInv

\* A pass writes the successor of the copy it has in hand, and goes on.
LEMMA OutboxWrites ==
  ASSUME OutboxInv, NEW d \in Actors, NEW p \in Passes, s2' = [s2 EXCEPT ![d] = p],
         NEW e \in Things, NEW k \in Outbox!Records, s1' = [s1 EXCEPT ![e] = k],
         UNCHANGED <<s3, s4, s5>>, s2[d].pc \in {"attempt", "mark"}, s2[d].item.event = e,
         k.status # "absent", k.status = "dispatched" => e \in s4,
         k.attempts <= CallsOf(e)', CallsOf(e) <= CallsOf(e)', CallsOf(e)' \in Nat,
         \A f \in Things \ {e} : CallsOf(f)' = CallsOf(f),
         p.todo \subseteq s2[d].todo,
         p.pc \in Handling => p.pc = "publish" /\ p.item.event = e /\ p.item.copy = k,
         e \notin s5 => /\ k.attempts = CallsOf(e)'
                        /\ \/ k.status = "dispatched"
                           \/ s2[d].pc = "attempt" /\ k.status = s1[e].status
  PROVE  OutboxInv'
<1>0. OutboxTypes
  BY DEF OutboxInv
<1>1. s2'[d] = p /\ \A c \in Actors \ {d} : s2'[c] = s2[c]
  BY <1>0 DEF OutboxTypes
<1>2. s1'[e] = k /\ \A f \in Things \ {e} : s1'[f] = s1[f]
  BY <1>0 DEF OutboxTypes
<1>3. OutboxTypes'
  BY <1>0 DEF OutboxTypes
<1>4. \A f \in Things : CallsOf(f) \in Nat
  BY <1>0, PublishersFinite
<1>5. ASSUME NEW x \in Outbox!Copies, CopyIsTrue(x) PROVE CopyIsTrue(x)'
  <2>1. x.event \in Things
    BY DEF Outbox!Copies
  <2>2. CallsOf(x.event) <= CallsOf(x.event)' /\ CallsOf(x.event)' \in Nat
    <3>1. CASE x.event = e
      BY <3>1
    <3>2. CASE x.event # e
      <4>1. CallsOf(x.event)' = CallsOf(x.event) /\ CallsOf(x.event) \in Nat
        BY <1>4, <2>1, <3>2
      <4> QED
        BY <4>1
    <3> QED
      BY <3>1, <3>2
  <2>3. s1[x.event].status # "absent" => s1'[x.event].status # "absent"
    BY <1>2, <2>1
  <2> QED
    BY <1>0, <1>3, <1>5, <2>2, <2>3, CopyStaysTrue
<1>6. CopyIsTrue([event |-> e, copy |-> k])'
  BY <1>2 DEF CopyIsTrue
<1>7. ASSUME NEW c \in Actors PROVE PassIsTrue(c)'
  <2>1. s2[c] \in Passes /\ PassIsTrue(c)
    BY <1>0 DEF OutboxInv, OutboxTypes
  <2>2. \A x \in s2[c].todo : x \in Outbox!Copies /\ CopyIsTrue(x)
    BY <2>1 DEF PassIsTrue, Passes
  <2>3. \A x \in s2[c].todo : CopyIsTrue(x)'
    BY <1>5, <2>2
  <2>4. CASE c = d
    <3>1. \A x \in s2'[c].todo : CopyIsTrue(x)'
      BY <1>1, <2>3, <2>4
    <3>2. s2'[c].pc \in Handling => s2'[c].item.event = e /\ s2'[c].item.copy = k
      BY <1>1, <2>4
    <3>3. s2'[c].pc \in Handling => CopyIsTrue(s2[c].item)'
      BY <1>2, <3>2 DEF CopyIsTrue
    <3>4. s2'[c].pc \notin {"confirm", "mark"}
      BY <1>1, <2>4 DEF Handling
    <3> QED
      BY <3>1, <3>3, <3>4 DEF PassIsTrue
  <2>5. CASE c # d
    <3>1. s2'[c] = s2[c]
      BY <1>1, <2>5
    <3>2. PICK y : y = s2[c].item
      OBVIOUS
    <3>3. s2[c].pc \in Handling => CopyIsTrue(y)'
      BY <1>5, <2>1, <3>2 DEF PassIsTrue, Passes
    <3>4. s2'[c].item = y
      BY <3>1, <3>2
    <3>5. s2'[c].pc \in Handling => CopyIsTrue(s2[c].item)'
      BY <3>1, <3>3, <3>4 DEF CopyIsTrue
    <3>6. s2'[c].pc \in {"confirm", "mark"} => s2'[c].item.event \in s4'
      BY <2>1, <3>1 DEF PassIsTrue
    <3> QED
      BY <2>3, <3>1, <3>5, <3>6 DEF PassIsTrue
  <2> QED
    BY <2>4, <2>5
<1>8. ASSUME NEW f \in Things PROVE RecordIsTrue(f)'
  <2>1. CASE f = e
    BY <1>2, <2>1 DEF RecordIsTrue
  <2>2. CASE f # e
    <3>1. RecordIsTrue(f) /\ CallsOf(f)' = CallsOf(f) /\ s1'[f] = s1[f]
      BY <1>2, <2>2 DEF OutboxInv
    <3> QED
      BY <3>1 DEF RecordIsTrue
  <2> QED
    BY <2>1, <2>2
<1>9. Holds(d, e)
  BY DEF Holds, Handling
<1>10. ASSUME NEW f \in Things PROVE AloneIsExact(f)'
  <2>1. AloneIsExact(f)
    BY DEF OutboxInv
  <2>2. ASSUME NEW c \in Actors, Holds(c, f)' PROVE Holds(c, f)
    <3>1. CASE c = d
      <4>1. CASE \E x \in p.todo : x.event = f
        BY <3>1, <4>1 DEF Holds
      <4>2. CASE p.pc \in Handling /\ p.item.event = f
        BY <1>9, <3>1, <4>2
      <4> QED
        BY <1>1, <2>2, <3>1, <4>1, <4>2 DEF Holds
    <3>2. CASE c # d
      BY <1>1, <2>2, <3>2 DEF Holds
    <3> QED
      BY <3>1, <3>2
  <2>3. ASSUME f \notin s5, NEW b \in Actors, NEW c \in Actors, Holds(b, f)', Holds(c, f)'
        PROVE  b = c
    BY <2>1, <2>2, <2>3 DEF AloneIsExact
  <2>4. f \notin s5 => s1'[f].attempts = CallsOf(f)'
    BY <1>2, <2>1 DEF AloneIsExact
  <2>5. ASSUME f \notin s5, f \in s4, s1[f].status # "dispatched", ~Settling(d, f)
        PROVE  \E c \in Actors : Settling(c, f)'
    <3>1. PICK c \in Actors : Settling(c, f)
      BY <2>1, <2>5 DEF AloneIsExact
    <3>2. s2'[c] = s2[c]
      BY <1>1, <2>5, <3>1
    <3>3. Settling(c, f)'
      BY <3>1, <3>2 DEF Settling
    <3> QED
      BY <3>3
  <2>6. ASSUME f \notin s5, f \in s4
        PROVE  s1'[f].status = "dispatched" \/ \E c \in Actors : Settling(c, f)'
    <3>1. CASE f = e
      <4>1. k.status = "dispatched" \/ (s2[d].pc = "attempt" /\ k.status = s1[e].status)
        BY <2>6, <3>1
      <4>2. s2[d].pc = "attempt" => ~Settling(d, f)
        BY DEF Settling
      <4> QED
        BY <1>2, <2>5, <2>6, <3>1, <4>1, <4>2
    <3>2. CASE f # e
      <4>1. ~Settling(d, f) /\ s1'[f] = s1[f]
        BY <1>2, <3>2 DEF Settling
      <4> QED
        BY <2>5, <2>6, <4>1
    <3> QED
      BY <3>1, <3>2
  <2>7. ASSUME f \notin s5, NEW c \in Actors, s2'[c].pc \in Handling, s2'[c].item.event = f
        PROVE  s2'[c].item.copy = s1'[f]
    <3>1. CASE c = d
      BY <1>1, <1>2, <2>7, <3>1
    <3>2. CASE c # d
      <4>1. s2[c].pc \in Handling /\ s2[c].item.event = f /\ s2'[c] = s2[c]
        BY <1>1, <2>7, <3>2
      <4>2. Holds(c, f)
        BY <4>1 DEF Holds
      <4>3. f # e
        BY <1>9, <2>1, <2>7, <3>2, <4>2 DEF AloneIsExact
      <4> QED
        BY <1>2, <2>1, <2>7, <4>1, <4>3 DEF AloneIsExact
    <3> QED
      BY <3>1, <3>2
  <2> QED
    BY <2>3, <2>4, <2>6, <2>7 DEF AloneIsExact
<1> QED
  BY <1>3, <1>7, <1>8, <1>10 DEF OutboxInv

\* The outbox before its first step, and after its process has died.
LEMMA OutboxInit == ASSUME Outbox!Init PROVE OutboxInv
<1>1. /\ s1 = [e \in Things |-> Outbox!NoRecord] /\ s2 = [d \in Actors |-> Outbox!Resting]
      /\ s3 = [e \in Things |-> 0] /\ s4 = {} /\ s5 = {}
  BY DEF Outbox!Init
<1>2. OutboxTypes
  BY <1>1, NoCopyType, Bounds DEF OutboxTypes
<1>3. \A d \in Actors : s2[d].pc = "idle" /\ s2[d].todo = {}
  BY <1>1, NoCopyType
<1>4. ASSUME NEW e \in Things PROVE CallsOf(e) = 0
  <2>1. Publishers(e) = {}
    BY <1>3 DEF Publishers
  <2>2. Cardinality(Publishers(e)) = 0
    BY <2>1, FS_EmptySet
  <2> QED
    BY <1>1, <2>2 DEF CallsOf
<1>5. ASSUME NEW e \in Things PROVE RecordIsTrue(e) /\ AloneIsExact(e)
  <2>1. s1[e] = Outbox!NoRecord /\ s1[e].attempts = 0 /\ s1[e].status = "absent"
    BY <1>1 DEF Outbox!NoRecord
  <2>2. \A d \in Actors : ~Holds(d, e) /\ s2[d].pc \notin Handling
    BY <1>3 DEF Holds, Handling
  <2>3. RecordIsTrue(e)
    BY <1>4, <2>1 DEF RecordIsTrue
  <2>4. AloneIsExact(e)
    BY <1>1, <1>4, <2>1, <2>2 DEF AloneIsExact
  <2> QED
    BY <2>3, <2>4
<1>6. \A d \in Actors : PassIsTrue(d)
  BY <1>3 DEF PassIsTrue, Handling
<1> QED
  BY <1>2, <1>5, <1>6 DEF OutboxInv

LEMMA OutboxRestart == ASSUME Outbox!Restart PROVE OutboxInv'
<1>1. /\ s1' = [e \in Things |-> Outbox!NoRecord] /\ s2' = [d \in Actors |-> Outbox!Resting]
      /\ s3' = [e \in Things |-> 0] /\ s4' = {} /\ s5' = {}
  BY DEF Outbox!Restart
<1>2. OutboxTypes'
  BY <1>1, NoCopyType, Bounds DEF OutboxTypes
<1>3. \A d \in Actors : s2'[d].pc = "idle" /\ s2'[d].todo = {}
  BY <1>1, NoCopyType
<1>4. ASSUME NEW e \in Things PROVE CallsOf(e)' = 0
  <2>1. Publishers(e)' = {}
    BY <1>3 DEF Publishers
  <2>2. Cardinality({}) = 0
    BY FS_EmptySet
  <2>3. Cardinality(Publishers(e)') = 0
    BY <2>1, <2>2
  <2> QED
    BY <1>1, <2>3 DEF CallsOf
<1>5. ASSUME NEW e \in Things PROVE RecordIsTrue(e)' /\ AloneIsExact(e)'
  <2>1. s1'[e] = Outbox!NoRecord /\ s1'[e].attempts = 0 /\ s1'[e].status = "absent"
    BY <1>1 DEF Outbox!NoRecord
  <2>2. \A d \in Actors : ~Holds(d, e)' /\ s2'[d].pc \notin Handling
    BY <1>3 DEF Holds, Handling
  <2>3. RecordIsTrue(e)'
    BY <1>4, <2>1 DEF RecordIsTrue
  <2>4. AloneIsExact(e)'
    BY <1>1, <1>4, <2>1, <2>2 DEF AloneIsExact
  <2> QED
    BY <2>3, <2>4
<1>6. \A d \in Actors : PassIsTrue(d)'
  BY <1>3 DEF PassIsTrue, Handling
<1> QED
  BY <1>2, <1>5, <1>6 DEF OutboxInv

\* Nobody has a record in hand that was never enqueued.
LEMMA AbsentIsFree ==
  ASSUME OutboxInv, NEW d \in Actors, NEW e \in Things, Holds(d, e)
  PROVE  s1[e].status # "absent"
BY DEF OutboxInv, PassIsTrue, CopyIsTrue, Holds

LEMMA OutboxEnqueues ==
  ASSUME OutboxInv, NEW e \in Things, Outbox!Enqueue(e)
  PROVE  OutboxInv'
<1>0. OutboxTypes
  BY DEF OutboxInv
<1>1. PICK k : k = [status |-> "pending", attempts |-> 0, version |-> 1]
  OBVIOUS
<1>2. k \in Outbox!Records /\ k.status = "pending" /\ k.attempts = 0
  BY <1>1 DEF Outbox!Records
<1>3. s1[e].status = "absent" /\ s1' = [s1 EXCEPT ![e] = k] /\ UNCHANGED <<s2, s3, s4, s5>>
  BY <1>1 DEF Outbox!Enqueue
<1>4. s1'[e] = k /\ \A f \in Things \ {e} : s1'[f] = s1[f]
  BY <1>0, <1>3 DEF OutboxTypes
<1>5. OutboxTypes'
  BY <1>0, <1>2, <1>3 DEF OutboxTypes
<1>6. ASSUME NEW f \in Things PROVE CallsOf(f)' = CallsOf(f) /\ CallsOf(f) \in Nat
  BY <1>0, <1>3, PublishersFinite DEF CallsOf, Publishers
<1>7. \A d \in Actors : ~Holds(d, e)
  BY <1>3, AbsentIsFree
<1>8. s1[e].attempts = 0
  BY <1>3 DEF OutboxInv, RecordIsTrue, Outbox!NoRecord
<1>9. ASSUME NEW d \in Actors PROVE PassIsTrue(d)'
  <2>1. s2[d] \in Passes /\ PassIsTrue(d)
    BY <1>0 DEF OutboxInv, OutboxTypes
  <2>2. ASSUME NEW x \in Outbox!Copies, CopyIsTrue(x) PROVE CopyIsTrue(x)'
    <3>1. x.event \in Things
      BY DEF Outbox!Copies
    <3>2. CallsOf(x.event) <= CallsOf(x.event)' /\ CallsOf(x.event)' \in Nat
      BY <1>6, <3>1
    <3>3. s1[x.event].status # "absent" => s1'[x.event].status # "absent"
      BY <1>2, <1>4, <3>1
    <3> QED
      BY <1>0, <1>3, <1>5, <2>2, <3>2, <3>3, CopyStaysTrue
  <2>3. \A x \in s2[d].todo : x \in Outbox!Copies /\ CopyIsTrue(x)'
    BY <2>1, <2>2 DEF PassIsTrue, Passes
  <2>4. PICK y : y = s2[d].item
    OBVIOUS
  <2>5. s2[d].pc \in Handling => CopyIsTrue(y)'
    BY <2>1, <2>2, <2>4 DEF PassIsTrue, Passes
  <2>6. s2'[d].item = y /\ s2'[d] = s2[d]
    BY <1>3, <2>4
  <2>7. s2'[d].pc \in Handling => CopyIsTrue(s2[d].item)'
    BY <2>5, <2>6 DEF CopyIsTrue
  <2>8. s2'[d].pc \in {"confirm", "mark"} => s2'[d].item.event \in s4'
    BY <1>3, <2>1 DEF PassIsTrue
  <2> QED
    BY <2>3, <2>6, <2>7, <2>8 DEF PassIsTrue
<1>10. ASSUME NEW f \in Things PROVE RecordIsTrue(f)'
  <2>1. RecordIsTrue(f) /\ CallsOf(f)' = CallsOf(f) /\ CallsOf(f) \in Nat
    BY <1>6 DEF OutboxInv
  <2>2. CASE f = e
    BY <1>2, <1>4, <2>1, <2>2 DEF RecordIsTrue
  <2>3. CASE f # e
    BY <1>3, <1>4, <2>1, <2>3 DEF RecordIsTrue
  <2> QED
    BY <2>2, <2>3
<1>11. ASSUME NEW f \in Things PROVE AloneIsExact(f)'
  <2>1. AloneIsExact(f) /\ CallsOf(f)' = CallsOf(f)
    BY <1>6 DEF OutboxInv
  <2>2. \A d \in Actors : (Holds(d, f)' <=> Holds(d, f)) /\ (Settling(d, f)' <=> Settling(d, f))
    BY <1>3 DEF Holds, Settling
  <2>3. CASE f = e
    <3>1. e \notin s5 => CallsOf(e) = 0
      BY <1>8, <2>1, <2>3 DEF AloneIsExact
    <3>2. \A d \in Actors : s2[d].pc \in Handling => s2[d].item.event # e
      BY <1>7 DEF Holds
    <3>3. \A d \in Actors : ~Settling(d, e)
      BY <3>2 DEF Settling, Handling
    <3>4. e \notin s5 => e \notin s4
      BY <1>3, <2>1, <2>3, <3>3 DEF AloneIsExact
    <3> QED
      BY <1>2, <1>3, <1>4, <1>7, <2>1, <2>2, <2>3, <3>1, <3>2, <3>4 DEF AloneIsExact
  <2>4. CASE f # e
    <3>1. s1'[f] = s1[f]
      BY <1>4, <2>4
    <3> QED
      BY <1>3, <2>1, <2>2, <3>1 DEF AloneIsExact
  <2> QED
    BY <2>3, <2>4
<1> QED
  BY <1>5, <1>9, <1>10, <1>11 DEF OutboxInv

\* What a pass has in hand, in the words of the dispatcher.
LEMMA InHandHolds ==
  ASSUME OutboxTypes, NEW d \in Actors, NEW e \in Things
  PROVE  e \in Outbox!InHand(d) <=> Holds(d, e)
<1>1. s2[d] \in Passes
  BY DEF OutboxTypes
<1>2. s2[d].pc \in {"idle", "next"} <=> s2[d].pc \notin Handling
  BY <1>1 DEF Passes, Handling
<1>3. CASE s2[d].pc \in Handling
  <2>1. Outbox!InHand(d) = {x.event : x \in s2[d].todo} \union {s2[d].item.event}
    BY <1>2, <1>3 DEF Outbox!InHand
  <2> QED
    BY <1>3, <2>1 DEF Holds
<1>4. CASE s2[d].pc \notin Handling
  <2>1. Outbox!InHand(d) = {x.event : x \in s2[d].todo} \union {}
    BY <1>2, <1>4 DEF Outbox!InHand
  <2> QED
    BY <1>4, <2>1 DEF Holds
<1> QED
  BY <1>3, <1>4

\* A pass lists what is pending; whatever another one has in hand is overlapped from now on.
LEMMA OutboxLists ==
  ASSUME OutboxInv, NEW d \in Actors, Outbox!List(d)
  PROVE  OutboxInv'
<1>0. OutboxTypes
  BY DEF OutboxInv
<1>1. s2[d].pc = "idle" /\ UNCHANGED <<s1, s3, s4>>
  BY DEF Outbox!List
<1>2. PICK pending : pending = {e \in Things : s1[e].status = "pending"}
  OBVIOUS
<1>3. PICK todo : todo = {[event |-> e, copy |-> s1[e]] : e \in pending}
  OBVIOUS
<1>4. PICK p : p = [pc |-> "next", item |-> Outbox!NoCopy, todo |-> todo]
  OBVIOUS
<1>5. s2' = [s2 EXCEPT ![d] = p]
  BY <1>2, <1>3, <1>4 DEF Outbox!List, Outbox!Pending
<1>6. s5' = s5 \union {e \in pending : \E other \in Actors \ {d} : e \in Outbox!InHand(other)}
  BY <1>2 DEF Outbox!List, Outbox!Pending
<1>7. todo \subseteq Outbox!Copies
  BY <1>0, <1>2, <1>3 DEF OutboxTypes, Outbox!Copies
<1>8. p \in Passes /\ p.pc = "next" /\ p.todo = todo
  BY <1>4, <1>7, NoCopyType DEF Passes
<1>9. s2'[d] = p /\ \A c \in Actors \ {d} : s2'[c] = s2[c]
  BY <1>0, <1>5 DEF OutboxTypes
<1>10. s5 \subseteq s5' /\ s5' \subseteq Things
  BY <1>0, <1>2, <1>6 DEF OutboxTypes
<1>11. OutboxTypes'
  BY <1>0, <1>1, <1>5, <1>8, <1>10 DEF OutboxTypes
<1>12. ASSUME NEW e \in Things PROVE CallsOf(e)' = CallsOf(e) /\ CallsOf(e) \in Nat
  BY <1>0, <1>1, <1>5, <1>8, CallsStay, PublishersFinite
<1>13. \A x \in todo : CopyIsTrue(x)
  <2>1. ASSUME NEW e \in pending PROVE CopyIsTrue([event |-> e, copy |-> s1[e]])
    <3>1. e \in Things /\ s1[e].status = "pending"
      BY <1>2
    <3>2. s1[e].attempts <= CallsOf(e)
      BY <3>1 DEF OutboxInv, RecordIsTrue
    <3> QED
      BY <3>1, <3>2 DEF CopyIsTrue
  <2> QED
    BY <1>3, <2>1
<1>14. ASSUME NEW c \in Actors PROVE PassIsTrue(c)'
  <2>1. s2[c] \in Passes /\ PassIsTrue(c)
    BY <1>0 DEF OutboxInv, OutboxTypes
  <2>2. ASSUME NEW x \in Outbox!Copies, CopyIsTrue(x) PROVE CopyIsTrue(x)'
    <3>1. x.event \in Things
      BY DEF Outbox!Copies
    <3>2. CallsOf(x.event)' = CallsOf(x.event)
      BY <1>12, <3>1
    <3> QED
      BY <1>1, <2>2, <3>2 DEF CopyIsTrue
  <2>3. CASE c = d
    <3>1. \A x \in todo : CopyIsTrue(x)'
      BY <1>7, <1>13, <2>2
    <3> QED
      BY <1>8, <1>9, <2>3, <3>1 DEF PassIsTrue, Handling
  <2>4. CASE c # d
    <3>1. \A x \in s2[c].todo : CopyIsTrue(x)'
      BY <2>1, <2>2 DEF PassIsTrue, Passes
    <3>2. PICK y : y = s2[c].item
      OBVIOUS
    <3>3. s2[c].pc \in Handling => CopyIsTrue(y)'
      BY <2>1, <2>2, <3>2 DEF PassIsTrue, Passes
    <3>4. s2'[c] = s2[c] /\ s2'[c].item = y
      BY <1>9, <2>4, <3>2
    <3>5. s2'[c].pc \in Handling => CopyIsTrue(s2[c].item)'
      BY <3>3, <3>4 DEF CopyIsTrue
    <3>6. s2'[c].pc \in {"confirm", "mark"} => s2'[c].item.event \in s4'
      BY <1>1, <2>1, <3>4 DEF PassIsTrue
    <3> QED
      BY <3>1, <3>4, <3>5, <3>6 DEF PassIsTrue
  <2> QED
    BY <2>3, <2>4
<1>15. ASSUME NEW e \in Things PROVE RecordIsTrue(e)'
  <2>1. RecordIsTrue(e) /\ CallsOf(e)' = CallsOf(e)
    BY <1>12 DEF OutboxInv
  <2> QED
    BY <1>1, <2>1 DEF RecordIsTrue
<1>16. ASSUME NEW e \in Things PROVE AloneIsExact(e)'
  <2>0. AloneIsExact(e) /\ CallsOf(e)' = CallsOf(e)
    BY <1>12 DEF OutboxInv
  <2>1. SUFFICES ASSUME e \notin s5' PROVE AloneIsExact(e)'
    BY DEF AloneIsExact
  <2>2. e \notin s5
    BY <1>10, <2>1
  <2>3. \A c \in Actors \ {d} : Holds(c, e)' <=> Holds(c, e)
    BY <1>9 DEF Holds
  <2>4. ASSUME Holds(d, e)', NEW c \in Actors \ {d} PROVE ~Holds(c, e)
    <3>1. e \in pending
      BY <1>3, <1>8, <1>9, <2>4 DEF Holds, Handling
    <3>2. e \notin Outbox!InHand(c)
      BY <1>6, <2>1, <3>1
    <3> QED
      BY <1>0, <3>2, InHandHolds
  <2>5. ASSUME NEW b \in Actors, NEW c \in Actors, Holds(b, e)', Holds(c, e)' PROVE b = c
    <3>1. CASE b = d \/ c = d
      BY <2>3, <2>4, <2>5, <3>1
    <3>2. CASE b # d /\ c # d
      <4>1. Holds(b, e) /\ Holds(c, e)
        BY <2>3, <2>5, <3>2
      <4> QED
        BY <2>0, <2>2, <4>1 DEF AloneIsExact
    <3> QED
      BY <3>1, <3>2
  <2>6. ASSUME e \in s4' PROVE s1'[e].status = "dispatched" \/ \E c \in Actors : Settling(c, e)'
    <3>1. CASE s1[e].status = "dispatched"
      BY <1>1, <3>1
    <3>2. CASE s1[e].status # "dispatched"
      <4>1. PICK c \in Actors : Settling(c, e)
        BY <1>1, <2>0, <2>2, <2>6, <3>2 DEF AloneIsExact
      <4>2. c # d
        BY <1>1, <4>1 DEF Settling
      <4>3. Settling(c, e)'
        BY <1>9, <4>1, <4>2 DEF Settling
      <4> QED
        BY <4>3
    <3> QED
      BY <3>1, <3>2
  <2>7. ASSUME NEW c \in Actors, s2'[c].pc \in Handling, s2'[c].item.event = e
        PROVE  s2'[c].item.copy = s1'[e]
    <3>1. c # d
      BY <1>8, <1>9, <2>7 DEF Handling
    <3> QED
      BY <1>1, <1>9, <2>0, <2>2, <2>7, <3>1 DEF AloneIsExact
  <2> QED
    BY <1>1, <2>0, <2>2, <2>5, <2>6, <2>7 DEF AloneIsExact
<1> QED
  BY <1>11, <1>14, <1>15, <1>16 DEF OutboxInv

\* A copy that is taken again is the record, and true.
LEMMA CurrentIsTrue ==
  ASSUME OutboxInv, NEW x \in Outbox!Copies, NEW y, y = Outbox!Current(x),
         y.copy # Outbox!NoRecord
  PROVE  /\ y \in Outbox!Copies /\ y.event = x.event /\ y.copy = s1[x.event]
         /\ s1[x.event].status # "absent" => CopyIsTrue(y)
<1>1. x.event \in Things
  BY DEF Outbox!Copies
<1>2. y.event = x.event /\ y.copy = s1[x.event]
  BY DEF Outbox!Current
<1>3. y \in Outbox!Copies
  BY <1>1, <1>2 DEF Outbox!Current, Outbox!Copies, OutboxInv, OutboxTypes
<1>4. RecordIsTrue(x.event)
  BY <1>1 DEF OutboxInv
<1>5. s1[x.event].status # "absent" => CopyIsTrue(y)
  BY <1>2, <1>4 DEF RecordIsTrue, CopyIsTrue
<1> QED
  BY <1>2, <1>3, <1>5

LEMMA OutboxTakes ==
  ASSUME OutboxInv, NEW d \in Actors, Outbox!TakeNext(d)
  PROVE  OutboxInv'
<1>0. OutboxTypes
  BY DEF OutboxInv
<1>1. s2[d].pc = "next" /\ UNCHANGED <<s1, s3, s4, s5>> /\ s2[d] \in Passes /\ PassIsTrue(d)
  BY <1>0 DEF Outbox!TakeNext, OutboxInv, OutboxTypes
<1>2. PICK x \in s2[d].todo :
        s2' = [s2 EXCEPT ![d] =
          IF Outbox!Current(x).copy # Outbox!NoRecord
          THEN [[s2[d] EXCEPT !.todo = @ \ {x}] EXCEPT !.pc = "attempt", !.item = Outbox!Current(x)]
          ELSE IF [s2[d] EXCEPT !.todo = @ \ {x}].todo = {} THEN Outbox!Resting
          ELSE [s2[d] EXCEPT !.todo = @ \ {x}]]
  BY DEF Outbox!TakeNext
<1>3. x \in Outbox!Copies /\ CopyIsTrue(x) /\ x.event \in Things
  BY <1>1 DEF PassIsTrue, Passes, Outbox!Copies
<1>4. PICK todo : todo = s2[d].todo \ {x}
  OBVIOUS
<1>5. PICK left : left = [s2[d] EXCEPT !.todo = todo]
  OBVIOUS
<1>6. todo \subseteq Outbox!Copies /\ todo \subseteq s2[d].todo
  BY <1>1, <1>4 DEF Passes
<1>7. left \in Passes /\ left.todo = todo /\ left.pc = "next"
  BY <1>1, <1>5, <1>6 DEF Passes
<1>8. left = [s2[d] EXCEPT !.todo = @ \ {x}]
  BY <1>1, <1>4, <1>5 DEF Passes
<1>9. PICK y : y = Outbox!Current(x)
  OBVIOUS
<1>10. s2' = [s2 EXCEPT ![d] = IF y.copy # Outbox!NoRecord
                               THEN [left EXCEPT !.pc = "attempt", !.item = y]
                               ELSE IF left.todo = {} THEN Outbox!Resting ELSE left]
  BY <1>2, <1>8, <1>9
<1>11. s3' \in [Things -> 0..MaxAttempts] /\ s4' \subseteq Things
  BY <1>0, <1>1 DEF OutboxTypes
<1>12. ASSUME NEW e \in s4' PROVE e \in s4 /\ ~Settling(d, e)
  BY <1>1, <1>12 DEF Settling
<1>13. CASE y.copy # Outbox!NoRecord
  <2>1. /\ y \in Outbox!Copies /\ y.event = x.event /\ y.copy = s1[x.event] /\ CopyIsTrue(y)
    BY <1>3, <1>9, <1>13, CurrentIsTrue DEF CopyIsTrue
  <2>2. PICK p : p = [left EXCEPT !.pc = "attempt", !.item = y]
    OBVIOUS
  <2>3. p \in Passes /\ p.pc = "attempt" /\ p.todo = todo /\ p.item = y
    BY <1>7, <2>1, <2>2 DEF Passes, Handling
  <2>4. s2' = [s2 EXCEPT ![d] = p]
    BY <1>10, <1>13, <2>2
  <2>5. \A e \in Things : CallsOf(e)' = CallsOf(e)
    BY <1>0, <1>1, <2>3, <2>4, CallsStay
  <2>6. Holds(d, p.item.event)
    BY <2>1, <2>3 DEF Holds
  <2> QED
    BY <1>1, <1>6, <1>11, <1>12, <2>1, <2>3, <2>4, <2>5, <2>6, OutboxMoves
<1>14. CASE y.copy = Outbox!NoRecord
  <2>1. PICK p : p = IF left.todo = {} THEN Outbox!Resting ELSE left
    OBVIOUS
  <2>2. p \in Passes /\ p.pc \in {"idle", "next"} /\ p.todo \subseteq s2[d].todo
    BY <1>6, <1>7, <2>1, NoCopyType
  <2>3. s2' = [s2 EXCEPT ![d] = p]
    BY <1>10, <1>14, <2>1
  <2>4. p.pc \notin Handling /\ p.pc # "publish" /\ p.pc \notin {"confirm", "mark"}
    BY <2>2 DEF Handling
  <2>5. \A e \in Things : CallsOf(e)' = CallsOf(e)
    BY <1>0, <1>1, <2>3, <2>4, CallsStay
  <2> QED
    BY <1>1, <1>11, <1>12, <2>2, <2>3, <2>4, <2>5, OutboxMoves
<1> QED
  BY <1>13, <1>14

LEMMA OutboxAttempts ==
  ASSUME OutboxInv, NEW d \in Actors, Outbox!MarkAttempt(d)
  PROVE  OutboxInv'
<1>0. OutboxTypes
  BY DEF OutboxInv
<1>1. s2[d].pc = "attempt" /\ UNCHANGED <<s3, s4, s5>> /\ s2[d] \in Passes /\ PassIsTrue(d)
  BY <1>0 DEF Outbox!MarkAttempt, OutboxInv, OutboxTypes
<1>2. PICK item \in Outbox!Copies : item = s2[d].item
  BY <1>1 DEF Passes
<1>3. PICK e \in Things : e = item.event
  BY DEF Outbox!Copies
<1>4. PICK k : k = Outbox!Successor(item.copy, item.copy.status, item.copy.attempts + 1)
  OBVIOUS
<1>5. /\ item.copy \in Outbox!Records /\ item.copy.attempts \in Nat /\ item.copy.version \in Nat
      /\ item.copy.status \in {"absent", "pending", "dispatched"}
  BY DEF Outbox!Copies, Outbox!Records
<1>6. k = [status |-> item.copy.status, attempts |-> item.copy.attempts + 1,
           version |-> item.copy.version + 1]
  BY <1>4 DEF Outbox!Successor
<1>7. /\ k \in Outbox!Records /\ k.status = item.copy.status
      /\ k.attempts = item.copy.attempts + 1
  BY <1>5, <1>6 DEF Outbox!Records
<1>8. PICK next : next = [item EXCEPT !.copy = k]
  OBVIOUS
<1>9. next \in Outbox!Copies /\ next.event = e /\ next.copy = k
  BY <1>3, <1>7, <1>8 DEF Outbox!Copies
<1>10. PICK q : q = [s2[d] EXCEPT !.pc = "publish"]
  OBVIOUS
<1>11. q \in Passes
  BY <1>1, <1>10, PassFields DEF Handling
<1>12. PICK p : p = [q EXCEPT !.item = next]
  OBVIOUS
<1>13. p \in Passes
  BY <1>9, <1>11, <1>12, PassFields
<1>14. p.pc = "publish" /\ p.item = next /\ p.todo = s2[d].todo
  BY <1>1, <1>10, <1>11, <1>12 DEF Passes
<1>15. s1' = [s1 EXCEPT ![e] = k]
  BY <1>2, <1>3, <1>4 DEF Outbox!MarkAttempt
<1>16. s2' = [s2 EXCEPT ![d].pc = "publish", ![d].item = next]
  BY <1>2, <1>4, <1>8 DEF Outbox!MarkAttempt, Outbox!Goto
<1>17. s2' = [s2 EXCEPT ![d] = p]
  BY <1>0, <1>1, <1>10, <1>12, <1>16 DEF OutboxTypes, Passes
<1>18. s2[d].pc \in Handling
  BY <1>1 DEF Handling
<1>19. CopyIsTrue(item)
  BY <1>1, <1>2, <1>18 DEF PassIsTrue
<1>20. ASSUME NEW f \in Things PROVE CallsOf(f)' = IF e = f THEN CallsOf(f) + 1 ELSE CallsOf(f)
  BY <1>0, <1>1, <1>9, <1>14, <1>17, CallsGrow
<1>21. CallsOf(e) \in Nat
  BY <1>0, PublishersFinite
<1>22. item.copy.attempts <= CallsOf(e)
  BY <1>3, <1>19 DEF CopyIsTrue
<1>23. /\ CallsOf(e)' = CallsOf(e) + 1 /\ CallsOf(e)' \in Nat /\ CallsOf(e) <= CallsOf(e)'
       /\ k.attempts <= CallsOf(e)'
  BY <1>5, <1>7, <1>20, <1>21, <1>22
<1>24. \A f \in Things \ {e} : CallsOf(f)' = CallsOf(f)
  BY <1>20
<1>25. e \notin s5 => k.attempts = CallsOf(e)' /\ k.status = s1[e].status
  <2>1. e \notin s5 => item.copy = s1[e] /\ s1[e].attempts = CallsOf(e)
    BY <1>2, <1>3, <1>18 DEF OutboxInv, AloneIsExact
  <2> QED
    BY <1>7, <1>23, <2>1
<1>26. k.status # "absent" /\ (k.status = "dispatched" => e \in s4)
  BY <1>3, <1>7, <1>19 DEF CopyIsTrue
<1>27. s2[d].item.event = e /\ p.item.event = e /\ p.item.copy = k
  BY <1>2, <1>3, <1>9, <1>14
<1> QED
  BY <1>1, <1>7, <1>13, <1>14, <1>15, <1>17, <1>23, <1>24, <1>25, <1>26, <1>27, OutboxWrites

LEMMA OutboxPublishes ==
  ASSUME OutboxInv, NEW d \in Actors, NEW confirmed \in BOOLEAN, Outbox!Publish(d, confirmed)
  PROVE  OutboxInv'
<1>0. OutboxTypes
  BY DEF OutboxInv
<1>1. s2[d].pc = "publish" /\ UNCHANGED <<s1, s5>> /\ s2[d] \in Passes /\ PassIsTrue(d)
  BY <1>0 DEF Outbox!Publish, OutboxInv, OutboxTypes
<1>2. PICK item \in Outbox!Copies : item = s2[d].item
  BY <1>1 DEF Passes
<1>3. PICK e \in Things : e = item.event
  BY DEF Outbox!Copies
<1>4. s3[e] < MaxAttempts /\ s3' = [s3 EXCEPT ![e] = s3[e] + 1]
  BY <1>0, <1>2, <1>3 DEF Outbox!Publish, OutboxTypes
<1>5. s3' \in [Things -> 0..MaxAttempts]
  <2>1. s3[e] \in 0..MaxAttempts
    BY <1>0 DEF OutboxTypes
  <2>2. s3[e] + 1 \in 0..MaxAttempts
    BY <1>4, <2>1, Bounds
  <2> QED
    BY <1>0, <1>4, <2>2 DEF OutboxTypes
<1>6. s2[d].pc \in Handling
  BY <1>1 DEF Handling
<1>7. CopyIsTrue(item) /\ Holds(d, e) /\ (e \notin s5 => item.copy = s1[e])
  BY <1>1, <1>2, <1>3, <1>6 DEF PassIsTrue, Holds, OutboxInv, AloneIsExact
<1>8. \A f \in Things : ~Settling(d, f)
  BY <1>1 DEF Settling
<1>9. CASE confirmed
  <2>1. s4' = s4 \union {e} /\ s2' = [s2 EXCEPT ![d].pc = "confirm", ![d].item = s2[d].item]
    BY <1>2, <1>3, <1>9 DEF Outbox!Publish, Outbox!Goto
  <2>2. PICK p : p = [s2[d] EXCEPT !.pc = "confirm"]
    OBVIOUS
  <2>3. p \in Passes
    BY <1>1, <2>2, PassFields DEF Handling
  <2>4. p.pc = "confirm" /\ p.item = item /\ p.todo = s2[d].todo
    BY <1>1, <1>2, <2>2 DEF Passes
  <2>5. s2' = [s2 EXCEPT ![d] = p]
    BY <1>0, <1>1, <2>1, <2>2 DEF OutboxTypes, Passes
  <2>6. ASSUME NEW f \in Things PROVE CallsOf(f)' = CallsOf(f)
    BY <1>0, <1>1, <1>2, <1>3, <1>4, <2>4, <2>5, CallsAreMade
  <2>7. s4' \subseteq Things /\ s4 \subseteq s4' /\ e \in s4'
    BY <1>0, <2>1 DEF OutboxTypes
  <2>8. p.item.event = e /\ p.item.copy = item.copy
    BY <1>3, <2>4
  <2>9. ASSUME NEW f \in s4' PROVE (f \in s4 /\ ~Settling(d, f)) \/ p.item.event = f
    BY <1>0, <1>8, <2>1, <2>8 DEF OutboxTypes
  <2> QED
    BY <1>1, <1>5, <1>7, <2>3, <2>4, <2>5, <2>6, <2>7, <2>8, <2>9, OutboxMoves
<1>10. CASE ~confirmed
  <2>1. s4' = s4
    BY <1>10 DEF Outbox!Publish
  <2>2. PICK p : p = Outbox!Rest(d)
    OBVIOUS
  <2>3. s2' = [s2 EXCEPT ![d] = p]
    BY <1>10, <2>2 DEF Outbox!Publish
  <2>4. p \in Passes /\ p.todo = s2[d].todo /\ p.pc \notin Handling
    BY <1>0, <2>2, RestIsPass
  <2>5. p.pc # "publish" /\ p.pc \notin {"confirm", "mark"}
    BY <2>4 DEF Handling
  <2>6. ASSUME NEW f \in Things PROVE CallsOf(f)' = CallsOf(f)
    BY <1>0, <1>1, <1>2, <1>3, <1>4, <2>3, <2>5, CallsAreMade
  <2>7. s4' \subseteq Things /\ \A f \in s4' : f \in s4 /\ ~Settling(d, f)
    BY <1>0, <1>8, <2>1 DEF OutboxTypes
  <2> QED
    BY <1>1, <1>5, <2>1, <2>3, <2>4, <2>5, <2>6, <2>7, OutboxMoves
<1> QED
  BY <1>9, <1>10

LEMMA OutboxConfirms ==
  ASSUME OutboxInv, NEW d \in Actors, Outbox!Confirm(d)
  PROVE  OutboxInv'
<1>0. OutboxTypes
  BY DEF OutboxInv
<1>1. s2[d].pc = "confirm" /\ UNCHANGED <<s1, s3, s4, s5>> /\ s2[d] \in Passes /\ PassIsTrue(d)
  BY <1>0 DEF Outbox!Confirm, OutboxInv, OutboxTypes
<1>2. PICK item \in Outbox!Copies : item = s2[d].item
  BY <1>1 DEF Passes
<1>3. PICK e \in Things : e = item.event
  BY DEF Outbox!Copies
<1>4. s2[d].pc \in Handling
  BY <1>1 DEF Handling
<1>5. CopyIsTrue(item) /\ Holds(d, e) /\ (e \notin s5 => item.copy = s1[e]) /\ e \in s4
  BY <1>1, <1>2, <1>3, <1>4 DEF PassIsTrue, Holds, OutboxInv, AloneIsExact
<1>6. s3' \in [Things -> 0..MaxAttempts] /\ s4' \subseteq Things
  BY <1>0, <1>1 DEF OutboxTypes
<1>7. \A f \in Things : f # e => ~Settling(d, f)
  BY <1>2, <1>3 DEF Settling
<1>8. PICK y : y = Outbox!Current(item)
  OBVIOUS
<1>9. CASE y.copy # Outbox!NoRecord
  <2>1. y \in Outbox!Copies /\ y.event = e /\ y.copy = s1[e] /\ CopyIsTrue(y)
    BY <1>3, <1>5, <1>8, <1>9, CurrentIsTrue DEF CopyIsTrue
  <2>2. s2' = [s2 EXCEPT ![d].pc = "mark", ![d].item = y]
    BY <1>2, <1>8, <1>9 DEF Outbox!Confirm, Outbox!Goto
  <2>3. PICK q : q = [s2[d] EXCEPT !.pc = "mark"]
    OBVIOUS
  <2>4. q \in Passes
    BY <1>1, <2>3, PassFields DEF Handling
  <2>5. PICK p : p = [q EXCEPT !.item = y]
    OBVIOUS
  <2>6. p \in Passes
    BY <2>1, <2>4, <2>5, PassFields
  <2>7. p.pc = "mark" /\ p.item = y /\ p.todo = s2[d].todo
    BY <1>1, <2>3, <2>4, <2>5 DEF Passes
  <2>8. s2' = [s2 EXCEPT ![d] = p]
    BY <1>0, <1>1, <2>2, <2>3, <2>5 DEF OutboxTypes, Passes
  <2>9. \A f \in Things : CallsOf(f)' = CallsOf(f)
    BY <1>0, <1>1, <2>7, <2>8, CallsStay
  <2>10. p.item.event = e /\ p.item.copy = s1[e]
    BY <2>1, <2>7
  <2>11. \A f \in s4' : (f \in s4 /\ ~Settling(d, f)) \/ p.item.event = f
    BY <1>1, <1>6, <1>7, <2>10
  <2> QED
    BY <1>1, <1>5, <1>6, <2>1, <2>6, <2>7, <2>8, <2>9, <2>10, <2>11, OutboxMoves
<1>10. CASE y.copy = Outbox!NoRecord
  <2>1. e \in s5
    <3>1. SUFFICES ASSUME e \notin s5 PROVE FALSE
      OBVIOUS
    <3>2. item.copy = s1[e]
      BY <1>5, <3>1
    <3>3. y.copy = s1[e]
      BY <1>3, <1>8, <3>2 DEF Outbox!Current
    <3>4. s1[e].status # "absent"
      BY <1>3, <1>5 DEF CopyIsTrue
    <3> QED
      BY <1>10, <3>3, <3>4 DEF Outbox!NoRecord
  <2>2. PICK p : p = Outbox!Rest(d)
    OBVIOUS
  <2>3. s2' = [s2 EXCEPT ![d] = p]
    BY <1>2, <1>8, <1>10, <2>2 DEF Outbox!Confirm
  <2>4. p \in Passes /\ p.todo = s2[d].todo /\ p.pc \notin Handling
    BY <1>0, <2>2, RestIsPass
  <2>5. p.pc # "publish" /\ p.pc \notin {"confirm", "mark"}
    BY <2>4 DEF Handling
  <2>6. \A f \in Things : CallsOf(f)' = CallsOf(f)
    BY <1>0, <1>1, <2>3, <2>5, CallsStay
  <2>7. \A f \in s4' : f \notin s5 => f \in s4 /\ ~Settling(d, f)
    BY <1>1, <1>6, <1>7, <2>1
  <2> QED
    BY <1>1, <1>6, <2>3, <2>4, <2>5, <2>6, <2>7, OutboxMoves
<1> QED
  BY <1>9, <1>10

LEMMA OutboxDispatched ==
  ASSUME OutboxInv, NEW d \in Actors, Outbox!MarkDispatched(d)
  PROVE  OutboxInv'
<1>0. OutboxTypes
  BY DEF OutboxInv
<1>1. s2[d].pc = "mark" /\ UNCHANGED <<s3, s4, s5>> /\ s2[d] \in Passes /\ PassIsTrue(d)
  BY <1>0 DEF Outbox!MarkDispatched, OutboxInv, OutboxTypes
<1>2. PICK item \in Outbox!Copies : item = s2[d].item
  BY <1>1 DEF Passes
<1>3. PICK e \in Things : e = item.event
  BY DEF Outbox!Copies
<1>4. PICK k : k = Outbox!Successor(item.copy, "dispatched", item.copy.attempts)
  OBVIOUS
<1>5. item.copy.attempts \in Nat /\ item.copy.version \in Nat
  BY DEF Outbox!Copies, Outbox!Records
<1>6. k = [status |-> "dispatched", attempts |-> item.copy.attempts,
           version |-> item.copy.version + 1]
  BY <1>4 DEF Outbox!Successor
<1>7. k \in Outbox!Records /\ k.status = "dispatched" /\ k.attempts = item.copy.attempts
  BY <1>5, <1>6 DEF Outbox!Records
<1>8. s1' = [s1 EXCEPT ![e] = k]
  BY <1>2, <1>3, <1>4 DEF Outbox!MarkDispatched
<1>9. PICK p : p = Outbox!Rest(d)
  OBVIOUS
<1>10. s2' = [s2 EXCEPT ![d] = p]
  BY <1>9 DEF Outbox!MarkDispatched
<1>11. p \in Passes /\ p.todo = s2[d].todo /\ p.pc \notin Handling
  BY <1>0, <1>9, RestIsPass
<1>12. p.pc # "publish"
  BY <1>11 DEF Handling
<1>13. \A f \in Things : CallsOf(f)' = CallsOf(f) /\ CallsOf(f) \in Nat
  BY <1>0, <1>1, <1>10, <1>12, CallsStay, PublishersFinite
<1>14. s2[d].pc \in Handling
  BY <1>1 DEF Handling
<1>15. CopyIsTrue(item) /\ e \in s4 /\ s2[d].item.event = e
  BY <1>1, <1>2, <1>3, <1>14 DEF PassIsTrue
<1>16. k.attempts <= CallsOf(e)' /\ CallsOf(e) <= CallsOf(e)' /\ CallsOf(e)' \in Nat
  BY <1>3, <1>7, <1>13, <1>15 DEF CopyIsTrue
<1>17. e \notin s5 => k.attempts = CallsOf(e)'
  <2>1. e \notin s5 => item.copy = s1[e] /\ s1[e].attempts = CallsOf(e)
    BY <1>2, <1>3, <1>14 DEF OutboxInv, AloneIsExact
  <2> QED
    BY <1>7, <1>13, <2>1
<1> QED
  BY <1>1, <1>7, <1>8, <1>10, <1>11, <1>13, <1>15, <1>16, <1>17, OutboxWrites

LEMMA OutboxStep == ASSUME OutboxInv, Outbox!Next PROVE OutboxInv'
<1>1. TRUE \in BOOLEAN /\ FALSE \in BOOLEAN
  OBVIOUS
<1>2. ASSUME NEW d \in Actors, Outbox!Step(d) PROVE OutboxInv'
  BY <1>1, <1>2, OutboxLists, OutboxTakes, OutboxAttempts, OutboxPublishes, OutboxConfirms,
     OutboxDispatched DEF Outbox!Step
<1> QED
  BY <1>2, OutboxEnqueues, OutboxRestart DEF Outbox!Next

\* Every reachable state of the legacy outbox satisfies its invariant.
\* A step that changes none of the five variables leaves the outbox as it is.
LEMMA OutboxStays ==
  ASSUME OutboxInv, UNCHANGED <<s1, s2, s3, s4, s5>>
  PROVE  OutboxInv'
<1>1. OutboxTypes'
  BY DEF OutboxInv, OutboxTypes
<1>2. ASSUME NEW e \in Things PROVE Publishers(e)' = Publishers(e)
  BY DEF Publishers
<1>3. ASSUME NEW e \in Things PROVE CallsOf(e)' = CallsOf(e)
  BY <1>2 DEF CallsOf
<1>4. ASSUME NEW e \in Things PROVE RecordIsTrue(e)'
  BY <1>3 DEF OutboxInv, RecordIsTrue
<1>5. ASSUME NEW e \in Things PROVE AloneIsExact(e)'
  <2>1. \A d \in Actors : Holds(d, e)' = Holds(d, e) /\ Settling(d, e)' = Settling(d, e)
    BY DEF Holds, Settling
  <2>2. AloneIsExact(e)
    BY DEF OutboxInv
  <2> QED
    BY <1>3, <2>1, <2>2 DEF AloneIsExact
<1>6. ASSUME NEW x \in Outbox!Copies, CopyIsTrue(x) PROVE CopyIsTrue(x)'
  <2>1. CallsOf(x.event)' = CallsOf(x.event)
    BY <1>3 DEF Outbox!Copies
  <2> QED
    BY <1>6, <2>1 DEF CopyIsTrue
<1>7. ASSUME NEW d \in Actors PROVE PassIsTrue(d)'
  <2>1. s2[d] \in Passes /\ PassIsTrue(d)
    BY DEF OutboxInv, OutboxTypes
  <2>2. \A x \in s2[d].todo : CopyIsTrue(x)'
    BY <1>6, <2>1 DEF PassIsTrue, Passes
  <2>3. PICK y : y = s2[d].item
    OBVIOUS
  <2>4. s2[d].pc \in Handling => CopyIsTrue(y)'
    BY <1>6, <2>1, <2>3 DEF PassIsTrue, Passes
  <2>5. s2'[d] = s2[d]
    OBVIOUS
  <2>6. s2'[d].pc \in Handling => CopyIsTrue(s2[d].item)'
    BY <2>3, <2>4, <2>5 DEF CopyIsTrue
  <2> QED
    BY <2>1, <2>2, <2>5, <2>6 DEF PassIsTrue
<1> QED
  BY <1>1, <1>4, <1>5, <1>7 DEF OutboxInv

LEMMA OutboxAlways == Spec => [](part = "outbox" => OutboxInv)
<1>1. Init => (part = "outbox" => OutboxInv)
  BY OutboxInit DEF Init
<1>2. (part = "outbox" => OutboxInv) /\ [Next]_vars => (part = "outbox" => OutboxInv)'
  <2> SUFFICES ASSUME part = "outbox" => OutboxInv, [Next]_vars, part' = "outbox"
               PROVE  OutboxInv'
    OBVIOUS
  <2>1. CASE Next
    <3>1. part = "outbox" /\ Outbox!Next
      BY <2>1 DEF Next
    <3> QED
      BY <3>1, OutboxStep
  <2>2. CASE UNCHANGED vars
    BY <2>2, OutboxStays DEF vars
  <2> QED
    BY <2>1, <2>2
<1> QED
  BY <1>1, <1>2, PTL DEF Spec

LEMMA OutboxCardinality == ASSUME NEW S PROVE Outbox!Cardinality(S) = Cardinality(S)
BY DEF Cardinality, Outbox!Cardinality

\* The invariant of the outbox says what DeliveryIsAccounted says of it.
LEMMA OutboxHolds ==
  ASSUME OutboxInv
  PROVE  Outbox!TypeOK /\ Outbox!DispatchedWasReceived /\ Outbox!CountedWithoutOverlap
<1>1. Outbox!TypeOK
  BY DEF OutboxInv, OutboxTypes, Passes, Handling, Outbox!TypeOK
<1>2. ASSUME NEW e \in Things
      PROVE  s3[e] + Outbox!Cardinality(Outbox!Publishing(e)) = CallsOf(e)
  BY OutboxCardinality DEF CallsOf, Publishers, Outbox!Publishing
<1>3. Outbox!DispatchedWasReceived
  BY <1>2 DEF OutboxInv, RecordIsTrue, Outbox!DispatchedWasReceived
<1>4. Outbox!CountedWithoutOverlap
  BY <1>2 DEF OutboxInv, AloneIsExact, Settling, Outbox!CountedWithoutOverlap
<1> QED
  BY <1>1, <1>3, <1>4

\* Whatever passes overlap and lose each other's updates, the legacy dispatcher marks nothing
\* dispatched that was not received and counts no attempt that was not made, and counts every
\* one without overlap; and after the cutover no gateway operation takes place beside it and
\* no write goes back an epoch.
THEOREM DeliveryAccounted == Spec => DeliveryIsAccounted
<1>1. Spec => [](part = "outbox" =>
                   Outbox!TypeOK /\ Outbox!DispatchedWasReceived /\ Outbox!CountedWithoutOverlap)
  <2>1. (part = "outbox" => OutboxInv) =>
          (part = "outbox" =>
             Outbox!TypeOK /\ Outbox!DispatchedWasReceived /\ Outbox!CountedWithoutOverlap)
    BY OutboxHolds
  <2> QED
    BY <2>1, OutboxAlways, PTL
<1>2. Spec => [](part = "cutover" => Cutover!TypeOK /\ Cutover!NoMixedWriters)
  <2>1. (part = "cutover" => CutoverInv) =>
          (part = "cutover" => Cutover!TypeOK /\ Cutover!NoMixedWriters)
    BY DEF CutoverInv, CutoverTypes, CutoverWorkers, Cutover!TypeOK
  <2> QED
    BY <2>1, CutoverAlways, PTL
<1>3. Spec => [][part = "cutover" => Cutover!EpochsGrow]_vars
  <2>1. (part = "cutover" => CutoverInv) /\ [Next]_vars =>
          [part = "cutover" => Cutover!EpochsGrow]_vars
    BY EpochsOnlyGrow DEF Next
  <2> QED
    BY <2>1, CutoverAlways, PTL DEF Spec
<1> QED
  BY <1>1, <1>2, <1>3, PTL DEF DeliveryIsAccounted

-----------------------------------------------------------------------------
(* The recovery attempts: s1 is committer, s2 store, s3 attempt,           *)
(* s4 metrics, s5 suspendedRun, s6 decided, s7 crossed.                    *)

Attempting == [pc : {"new", "load", "prepare", "context", "commit", "report", "returned", "thrown"},
               checkpoint : Nat, control : Nat, decision : Recovery!Decisions,
               conflicts : 0..MaxConflicts + 1]
RunStores == [checkpoint : Nat, control : Nat, succeeded : SUBSET Actors, outbox : SUBSET Actors]
Counters == [attempts : Nat, completed : Nat, suspended : Nat, conflicts : Nat]
Finals == [by : Actors \union {"nobody"}, decision : Recovery!Decisions]

RecoveryTypes ==
  /\ s1 \in {"checkpoint_store", "sqlite"} /\ s2 \in RunStores
  /\ s3 \in [Actors -> Attempting] /\ s4 \in Counters
  /\ s5 \in Actors \union {"nobody"}
  /\ s6 \in Finals /\ s7 \in BOOLEAN

Begun == {a \in Actors : s3[a].pc # "new"}
Through == {a \in Actors : s3[a].pc \in {"report", "returned"}}

\* An attempt commits once: beside other writers, the versions grow with those that are through.
VersionsAreCounted ==
  /\ s2.checkpoint >= 1
  /\ s2.checkpoint <= MaxVersion + Cardinality(Through)
  /\ s2.control <= MaxVersion + Cardinality(Through)

AttemptIsTrue(a) ==
  /\ s3[a].pc \in {"context", "commit", "report", "returned"} => s3[a].decision # "none"
  /\ s3[a].pc # "thrown" => s3[a].conflicts <= MaxConflicts

CountersAgree ==
  /\ s4.attempts = Cardinality(Begun)
  /\ s4.suspended = Cardinality(Recovery!Ended({"suspended"}))
  /\ s4.completed = Cardinality(Recovery!Ended({"completed", "advanced"}))

SuccessIsWhole ==
  /\ s2.succeeded = s2.outbox
  /\ s2.succeeded \subseteq Through

RecoveryInv ==
  /\ RecoveryTypes /\ VersionsAreCounted /\ CountersAgree /\ SuccessIsWhole
  /\ \A a \in Actors : AttemptIsTrue(a)

LEMMA FiniteAttempts ==
  /\ \A S \in SUBSET Actors : IsFiniteSet(S) /\ Cardinality(S) \in Nat /\ Cardinality(S) <= Cardinality(Actors)
  /\ \A S \in SUBSET Actors, a \in Actors :
       a \notin S => Cardinality(S \union {a}) = Cardinality(S) + 1
<1>1. IsFiniteSet(Actors)
  BY PartsAssumption
<1>2. ASSUME NEW S \in SUBSET Actors
      PROVE  IsFiniteSet(S) /\ Cardinality(S) \in Nat /\ Cardinality(S) <= Cardinality(Actors)
  BY <1>1, FS_Subset, FS_CardinalityType
<1>3. ASSUME NEW S \in SUBSET Actors, NEW a \in Actors, a \notin S
      PROVE  Cardinality(S \union {a}) = Cardinality(S) + 1
  BY <1>2, <1>3, FS_AddElement
<1> QED
  BY <1>2, <1>3

LEMMA RecoveryCardinality == ASSUME NEW S PROVE Recovery!Cardinality(S) = Cardinality(S)
BY DEF Cardinality, Recovery!Cardinality

\* An attempt goes on, is through, or gives up; it does not return yet.
LEMMA AttemptMoves ==
  ASSUME RecoveryInv, NEW a \in Actors, NEW p \in Attempting, s3' = [s3 EXCEPT ![a] = p],
         s3[a].pc \notin {"report", "returned"}, p.pc \notin {"new", "returned"},
         p.pc \in {"context", "commit", "report"} => p.decision # "none",
         p.pc # "thrown" => p.conflicts <= MaxConflicts,
         s6' \in Finals, s7' \in BOOLEAN, UNCHANGED <<s1, s5>>,
         s4' \in Counters, s4'.suspended = s4.suspended, s4'.completed = s4.completed,
         s4'.attempts = IF s3[a].pc = "new" THEN s4.attempts + 1 ELSE s4.attempts,
         NEW n \in {0, 1}, n = 1 => p.pc = "report",
         s2' \in RunStores, s2'.succeeded = s2'.outbox,
         s2'.succeeded \in {s2.succeeded} \union {s2.succeeded \union {b} : b \in {a} \cap Through'},
         s2'.checkpoint = s2.checkpoint + n, s2'.control \in {s2.control, s2.control + n}
  PROVE  RecoveryInv'
<1>0. RecoveryTypes /\ s3[a] \in Attempting
  BY DEF RecoveryInv, RecoveryTypes
<1>1. s3'[a] = p /\ \A b \in Actors \ {a} : s3'[b] = s3[b]
  BY <1>0 DEF RecoveryTypes
<1>2. RecoveryTypes'
  BY <1>0 DEF RecoveryTypes
<1>3. ASSUME NEW D PROVE Recovery!Ended(D)' = Recovery!Ended(D)
  BY <1>1 DEF Recovery!Ended
<1>4. s4'.attempts = Cardinality(Begun)'
  <2>1. s4.attempts = Cardinality(Begun) /\ Begun \in SUBSET Actors
    BY DEF RecoveryInv, CountersAgree, Begun
  <2>2. CASE s3[a].pc = "new"
    <3>1. Begun' = Begun \union {a} /\ a \notin Begun
      BY <1>1, <2>2 DEF Begun
    <3>2. Cardinality(Begun') = Cardinality(Begun) + 1
      BY <2>1, <3>1, FiniteAttempts
    <3> QED
      BY <2>1, <2>2, <3>2
  <2>3. CASE s3[a].pc # "new"
    <3>1. Begun' = Begun
      BY <1>1, <2>3 DEF Begun
    <3> QED
      BY <2>1, <2>3, <3>1
  <2> QED
    BY <2>2, <2>3
<1>5. CountersAgree'
  BY <1>3, <1>4 DEF CountersAgree, RecoveryInv
<1>6. Through \in SUBSET Actors /\ a \notin Through /\ Through \subseteq Through'
  BY <1>1 DEF Through
<1>7. Cardinality(Through) \in Nat /\ Cardinality(Through') \in Nat
      /\ Cardinality(Through) + n <= Cardinality(Through')
  <2>1. CASE p.pc = "report"
    <3>1. Through' = Through \union {a}
      BY <1>1, <2>1 DEF Through
    <3>2. Cardinality(Through') = Cardinality(Through) + 1
      BY <1>6, <3>1, FiniteAttempts
    <3>3. Cardinality(Through) \in Nat
      BY <1>6, FiniteAttempts
    <3> QED
      BY <3>2, <3>3
  <2>2. CASE p.pc # "report"
    <3>1. Through' = Through
      BY <1>1, <2>2 DEF Through
    <3>2. Cardinality(Through) \in Nat /\ n = 0
      BY <1>6, <2>2, FiniteAttempts
    <3> QED
      BY <3>1, <3>2
  <2> QED
    BY <2>1, <2>2
<1>8. VersionsAreCounted'
  <2>1. s2.checkpoint \in Nat /\ s2.control \in Nat /\ MaxVersion \in Nat
    BY <1>0, Bounds DEF RecoveryTypes, RunStores
  <2>2. s2.checkpoint >= 1 /\ s2.checkpoint <= MaxVersion + Cardinality(Through)
        /\ s2.control <= MaxVersion + Cardinality(Through)
    BY DEF RecoveryInv, VersionsAreCounted
  <2> QED
    BY <1>7, <2>1, <2>2 DEF VersionsAreCounted
<1>9. SuccessIsWhole'
  <2>1. s2.succeeded \subseteq Through
    BY DEF RecoveryInv, SuccessIsWhole
  <2>2. s2'.succeeded \subseteq Through'
    BY <1>6, <2>1
  <2> QED
    BY <2>2 DEF SuccessIsWhole
<1>10. ASSUME NEW b \in Actors PROVE AttemptIsTrue(b)'
  BY <1>1 DEF RecoveryInv, AttemptIsTrue
<1> QED
  BY <1>2, <1>5, <1>8, <1>9, <1>10 DEF RecoveryInv

LEMMA AttemptFields ==
  ASSUME NEW p \in Attempting
  PROVE  /\ \A pc \in {"load", "prepare", "context", "commit", "report", "returned", "thrown"} :
              [p EXCEPT !.pc = pc] \in Attempting
         /\ \A v \in Nat : [p EXCEPT !.checkpoint = v] \in Attempting
         /\ \A v \in Nat : [p EXCEPT !.control = v] \in Attempting
         /\ \A d \in Recovery!Decisions : [p EXCEPT !.decision = d] \in Attempting
<1>1. ASSUME NEW pc \in {"load", "prepare", "context", "commit", "report", "returned", "thrown"}
      PROVE  [p EXCEPT !.pc = pc] \in Attempting
  BY DEF Attempting
<1>2. ASSUME NEW v \in Nat PROVE [p EXCEPT !.checkpoint = v] \in Attempting
  BY DEF Attempting
<1>3. ASSUME NEW v \in Nat PROVE [p EXCEPT !.control = v] \in Attempting
  BY DEF Attempting
<1>4. ASSUME NEW d \in Recovery!Decisions PROVE [p EXCEPT !.decision = d] \in Attempting
  BY DEF Attempting
<1> QED
  BY <1>1, <1>2, <1>3, <1>4

LEMMA RecoveryInit == Recovery!Init => RecoveryInv
<1> SUFFICES ASSUME Recovery!Init PROVE RecoveryInv
  OBVIOUS
<1>1. s3 \in [Actors -> Attempting]
  <2>1. [pc |-> "new", checkpoint |-> 0, control |-> 0, decision |-> "none", conflicts |-> 0]
          \in Attempting
    BY Bounds DEF Attempting, Recovery!Decisions
  <2> QED
    BY <2>1 DEF Recovery!Init
<1>2. RecoveryTypes
  BY <1>1 DEF Recovery!Init, RecoveryTypes, RunStores, Counters, Finals, Recovery!Decisions,
              Recovery!Nobody
<1>3. \A a \in Actors : s3[a].pc = "new" /\ s3[a].conflicts = 0
  BY DEF Recovery!Init
<1>4. Begun = {} /\ Through = {} /\ \A D : Recovery!Ended(D) = {}
  BY <1>3 DEF Begun, Through, Recovery!Ended
<1>5. Cardinality({}) = 0
  BY FS_EmptySet
<1>6. VersionsAreCounted
  BY <1>4, <1>5, Bounds DEF VersionsAreCounted, Recovery!Init
<1>7. CountersAgree
  BY <1>4, <1>5 DEF CountersAgree, Recovery!Init
<1>8. SuccessIsWhole
  BY DEF SuccessIsWhole, Recovery!Init
<1>9. \A a \in Actors : AttemptIsTrue(a)
  BY <1>3, Bounds DEF AttemptIsTrue
<1> QED
  BY <1>2, <1>6, <1>7, <1>8, <1>9 DEF RecoveryInv

\* Every step of an attempt but its commit and its return: the store stays as it is.
LEMMA AttemptWaits ==
  ASSUME RecoveryInv, NEW a \in Actors, NEW p \in Attempting, s3' = [s3 EXCEPT ![a] = p],
         s3[a].pc \notin {"report", "returned"}, p.pc \notin {"new", "returned"},
         p.pc \in {"context", "commit", "report"} => p.decision # "none",
         p.pc # "thrown" => p.conflicts <= MaxConflicts,
         s6' \in Finals, s7' \in BOOLEAN, UNCHANGED <<s1, s2, s5>>,
         s4' \in Counters, s4'.suspended = s4.suspended, s4'.completed = s4.completed,
         s4'.attempts = IF s3[a].pc = "new" THEN s4.attempts + 1 ELSE s4.attempts
  PROVE  RecoveryInv'
<1>1. s2' \in RunStores /\ s2'.succeeded = s2'.outbox /\ s2'.succeeded = s2.succeeded
  BY DEF RecoveryInv, RecoveryTypes, SuccessIsWhole
<1>2. s2.checkpoint \in Nat /\ s2.control \in Nat
  BY DEF RecoveryInv, RecoveryTypes, RunStores
<1>3. s2'.checkpoint = s2.checkpoint + 0 /\ s2'.control \in {s2.control, s2.control + 0}
  BY <1>2
<1>4. s2'.succeeded \in {s2.succeeded} \union {s2.succeeded \union {b} : b \in {a} \cap Through'}
  BY <1>1
<1>5. PICK n \in {0, 1} : n = 0
  OBVIOUS
<1>6. s2'.checkpoint = s2.checkpoint + n /\ s2'.control \in {s2.control, s2.control + n}
  BY <1>3, <1>5
<1>7. n # 1
  BY <1>5
<1> QED
  BY <1>1, <1>4, <1>6, <1>7, AttemptMoves

\* One counter goes up.
LEMMA CountsOne ==
  ASSUME s4 \in Counters, NEW f \in {"attempts", "completed", "suspended", "conflicts"},
         Recovery!Count(f)
  PROVE  /\ s4' \in Counters
         /\ s4'.attempts = IF f = "attempts" THEN s4.attempts + 1 ELSE s4.attempts
         /\ s4'.completed = IF f = "completed" THEN s4.completed + 1 ELSE s4.completed
         /\ s4'.suspended = IF f = "suspended" THEN s4.suspended + 1 ELSE s4.suspended
         /\ s4'.conflicts = IF f = "conflicts" THEN s4.conflicts + 1 ELSE s4.conflicts
<1>1. s4' = [s4 EXCEPT ![f] = s4[f] + 1]
  BY DEF Recovery!Count
<1> QED
  BY <1>1 DEF Counters

LEMMA RecoveryStarts ==
  ASSUME RecoveryInv, NEW a \in Actors, Recovery!Start(a) PROVE RecoveryInv'
<1>1. s3[a] \in Attempting /\ s3[a].pc = "new" /\ AttemptIsTrue(a) /\ UNCHANGED <<s1, s2, s5, s6, s7>>
  BY DEF Recovery!Start, RecoveryInv, RecoveryTypes
<1>2. PICK p : p = [s3[a] EXCEPT !.pc = "load"]
  OBVIOUS
<1>3. p \in Attempting /\ p.pc = "load" /\ p.conflicts = s3[a].conflicts
  BY <1>1, <1>2 DEF Attempting
<1>4. s3' = [s3 EXCEPT ![a] = p]
  BY <1>1, <1>2 DEF Recovery!Start, Recovery!Goto, RecoveryInv, RecoveryTypes
<1>5. s4 \in Counters /\ Recovery!Count("attempts")
  BY DEF Recovery!Start, RecoveryInv, RecoveryTypes
<1>6. /\ s4' \in Counters /\ s4'.attempts = s4.attempts + 1
      /\ s4'.completed = s4.completed /\ s4'.suspended = s4.suspended
  BY <1>5, CountsOne
<1>7. s6' \in Finals /\ s7' \in BOOLEAN
  BY <1>1 DEF RecoveryInv, RecoveryTypes
<1>8. p.conflicts <= MaxConflicts
  BY <1>1, <1>3 DEF AttemptIsTrue
<1> QED
  BY <1>1, <1>3, <1>4, <1>6, <1>7, <1>8, AttemptWaits

LEMMA RecoveryLoads ==
  ASSUME RecoveryInv, NEW a \in Actors, Recovery!Load(a) PROVE RecoveryInv'
<1>1. /\ s3[a] \in Attempting /\ s3[a].pc = "load" /\ AttemptIsTrue(a)
      /\ UNCHANGED <<s1, s2, s4, s5, s6, s7>> /\ s4 \in Counters /\ s6 \in Finals /\ s7 \in BOOLEAN
  BY DEF Recovery!Load, RecoveryInv, RecoveryTypes
<1>2. s2.checkpoint \in Nat
  BY DEF RecoveryInv, RecoveryTypes, RunStores
<1>3. PICK p : p = [s3[a] EXCEPT !.pc = "prepare", !.checkpoint = s2.checkpoint]
  OBVIOUS
<1>4. p \in Attempting /\ p.pc = "prepare" /\ p.conflicts = s3[a].conflicts
  BY <1>1, <1>2, <1>3 DEF Attempting
<1>5. s3' = [s3 EXCEPT ![a] = p]
  BY <1>1, <1>3 DEF Recovery!Load, RecoveryInv, RecoveryTypes
<1>6. p.conflicts <= MaxConflicts
  BY <1>1, <1>4 DEF AttemptIsTrue
<1> QED
  BY <1>1, <1>4, <1>5, <1>6, AttemptWaits

\* An attempt gives up.
LEMMA RecoveryThrows ==
  ASSUME RecoveryInv, NEW a \in Actors, s3[a].pc \notin {"new", "report", "returned"},
         Recovery!Goto(a, "thrown"), UNCHANGED <<s1, s2, s4, s5, s6, s7>>
  PROVE  RecoveryInv'
<1>1. s3[a] \in Attempting /\ s4 \in Counters /\ s6 \in Finals /\ s7 \in BOOLEAN
  BY DEF RecoveryInv, RecoveryTypes
<1>2. PICK p : p = [s3[a] EXCEPT !.pc = "thrown"]
  OBVIOUS
<1>3. p \in Attempting /\ p.pc = "thrown"
  BY <1>1, <1>2 DEF Attempting
<1>4. s3' = [s3 EXCEPT ![a] = p]
  BY <1>1, <1>2 DEF Recovery!Goto, RecoveryInv, RecoveryTypes
<1> QED
  BY <1>1, <1>3, <1>4, AttemptWaits

LEMMA RecoveryPrepares ==
  ASSUME RecoveryInv, NEW a \in Actors, Recovery!Prepare(a) PROVE RecoveryInv'
<1>1. /\ s3[a] \in Attempting /\ s3[a].pc = "prepare" /\ AttemptIsTrue(a)
      /\ UNCHANGED <<s1, s2, s4, s5>> /\ s4 \in Counters /\ s6 \in Finals /\ s7 \in BOOLEAN
  BY DEF Recovery!Prepare, RecoveryInv, RecoveryTypes
<1>2. CASE Recovery!Goto(a, "thrown") /\ UNCHANGED <<s6, s7>>
  BY <1>1, <1>2, RecoveryThrows
<1>3. ASSUME NEW d \in {"completed", "advanced", "suspended"}, NEW pc \in {"report", "context"},
             s3' = [s3 EXCEPT ![a].pc = pc, ![a].decision = d], s6' \in Finals, s7' \in BOOLEAN
      PROVE  RecoveryInv'
  <2>1. PICK p : p = [s3[a] EXCEPT !.pc = pc, !.decision = d]
    OBVIOUS
  <2>2. /\ p \in Attempting /\ p.pc = pc /\ p.conflicts = s3[a].conflicts
        /\ p.decision = d
    BY <1>1, <2>1 DEF Attempting, Recovery!Decisions
  <2>3. s3' = [s3 EXCEPT ![a] = p]
    BY <1>1, <1>3, <2>1 DEF RecoveryInv, RecoveryTypes
  <2>4. p.conflicts <= MaxConflicts /\ p.decision # "none" /\ p.pc \notin {"new", "returned", "thrown"}
    BY <1>1, <2>2 DEF AttemptIsTrue
  <2> QED
    BY <1>1, <1>3, <2>2, <2>3, <2>4, AttemptWaits
<1>4. ASSUME NEW d \in {"completed", "advanced", "suspended"}, Recovery!Decides(a, d),
             s3' = [s3 EXCEPT ![a].pc = "report", ![a].decision = d]
      PROVE  RecoveryInv'
  <2>1. s6' \in Finals
    BY <1>4 DEF Recovery!Decides, Finals, Recovery!Decisions
  <2>2. s7' \in BOOLEAN
    BY <1>4 DEF Recovery!Decides
  <2> QED
    BY <1>3, <1>4, <2>1, <2>2
<1>5. ASSUME NEW d \in {"advanced", "suspended"}, UNCHANGED <<s6, s7>>,
             s3' = [s3 EXCEPT ![a].pc = "context", ![a].decision = d]
      PROVE  RecoveryInv'
  BY <1>1, <1>3, <1>5
<1> QED
  BY <1>2, <1>4, <1>5 DEF Recovery!Prepare

LEMMA RecoveryBuildsContext ==
  ASSUME RecoveryInv, NEW a \in Actors, Recovery!BuildContext(a) PROVE RecoveryInv'
<1>1. /\ s3[a] \in Attempting /\ s3[a].pc = "context" /\ AttemptIsTrue(a)
      /\ UNCHANGED <<s1, s2, s4, s5, s6, s7>> /\ s4 \in Counters /\ s6 \in Finals /\ s7 \in BOOLEAN
  BY DEF Recovery!BuildContext, RecoveryInv, RecoveryTypes
<1>2. s2.control \in Nat
  BY DEF RecoveryInv, RecoveryTypes, RunStores
<1>3. PICK p : p = [s3[a] EXCEPT !.pc = "commit", !.control = s2.control]
  OBVIOUS
<1>4. /\ p \in Attempting /\ p.pc = "commit" /\ p.conflicts = s3[a].conflicts
      /\ p.decision = s3[a].decision
  BY <1>1, <1>2, <1>3 DEF Attempting
<1>5. s3' = [s3 EXCEPT ![a] = p]
  BY <1>1, <1>3 DEF Recovery!BuildContext, RecoveryInv, RecoveryTypes
<1>6. p.conflicts <= MaxConflicts /\ p.decision # "none"
  BY <1>1, <1>4 DEF AttemptIsTrue
<1> QED
  BY <1>1, <1>4, <1>5, <1>6, AttemptWaits

LEMMA RecoveryConflicts ==
  ASSUME RecoveryInv, NEW a \in Actors, Recovery!Conflict(a) PROVE RecoveryInv'
<1>1. /\ s3[a] \in Attempting /\ s3[a].pc = "commit" /\ AttemptIsTrue(a)
      /\ UNCHANGED <<s1, s2, s5, s6, s7>> /\ s4 \in Counters /\ s6 \in Finals /\ s7 \in BOOLEAN
      /\ Recovery!Count("conflicts")
  BY DEF Recovery!Conflict, RecoveryInv, RecoveryTypes
<1>2. PICK n : n = s3[a].conflicts + 1
  OBVIOUS
<1>3. n \in 0..MaxConflicts + 1 /\ n \in Nat
  <2>1. s3[a].conflicts \in 0..MaxConflicts + 1 /\ s3[a].conflicts <= MaxConflicts
    BY <1>1 DEF Attempting, AttemptIsTrue
  <2> QED
    BY <1>2, <2>1, Bounds
<1>4. PICK p : p = [s3[a] EXCEPT !.conflicts = n, !.decision = "none", !.checkpoint = 0,
                      !.control = 0, !.pc = IF n > MaxConflicts THEN "thrown" ELSE "load"]
  OBVIOUS
<1>5. p \in Attempting /\ p.pc = (IF n > MaxConflicts THEN "thrown" ELSE "load") /\ p.conflicts = n
  BY <1>1, <1>3, <1>4 DEF Attempting, Recovery!Decisions
<1>6. s3' = [s3 EXCEPT ![a] = p]
  BY <1>1, <1>2, <1>4 DEF Recovery!Conflict, RecoveryInv, RecoveryTypes
<1>7. p.pc # "thrown" => p.conflicts <= MaxConflicts
  BY <1>3, <1>5, Bounds
<1>8. /\ s4' \in Counters /\ s4'.attempts = s4.attempts
      /\ s4'.completed = s4.completed /\ s4'.suspended = s4.suspended
  BY <1>1, CountsOne
<1>9. p.pc \in {"thrown", "load"}
  BY <1>5
<1> QED
  BY <1>1, <1>5, <1>6, <1>7, <1>8, <1>9, AttemptWaits

LEMMA RecoveryCommits ==
  ASSUME RecoveryInv, NEW a \in Actors, Recovery!Commit(a) PROVE RecoveryInv'
<1>1. /\ s3[a] \in Attempting /\ s3[a].pc = "commit" /\ AttemptIsTrue(a) /\ Recovery!Current(a)
      /\ UNCHANGED <<s1, s4, s5>> /\ s4 \in Counters /\ Recovery!Decides(a, s3[a].decision)
      /\ s2 \in RunStores /\ s2' = Recovery!Committed(a) /\ s1 \in {"checkpoint_store", "sqlite"}
  BY DEF Recovery!Commit, RecoveryInv, RecoveryTypes
<1>10. s6' \in Finals /\ s7' \in BOOLEAN
  BY <1>1 DEF Recovery!Decides, Finals, Attempting
<1>2. PICK p : p = [s3[a] EXCEPT !.pc = "report"]
  OBVIOUS
<1>3. /\ p \in Attempting /\ p.pc = "report" /\ p.conflicts = s3[a].conflicts
      /\ p.decision = s3[a].decision
  BY <1>1, <1>2 DEF Attempting
<1>4. s3' = [s3 EXCEPT ![a] = p]
  BY <1>1, <1>2 DEF Recovery!Commit, Recovery!Goto, RecoveryInv, RecoveryTypes
<1>5. p.conflicts <= MaxConflicts /\ p.decision # "none"
  BY <1>1, <1>3 DEF AttemptIsTrue
<1>6. s2.succeeded = s2.outbox
  BY DEF RecoveryInv, SuccessIsWhole
<1>7. a \in Through'
  BY <1>3, <1>4 DEF Through, RecoveryInv, RecoveryTypes
<1>8. CASE s1 = "checkpoint_store"
  <2>1. s2' = [s2 EXCEPT !.checkpoint = s2.checkpoint + 1]
    BY <1>1, <1>8 DEF Recovery!Committed
  <2>2. /\ s2' \in RunStores /\ s2'.succeeded = s2.succeeded /\ s2'.outbox = s2.outbox
        /\ s2'.checkpoint = s2.checkpoint + 1 /\ s2'.control = s2.control
    BY <1>1, <2>1 DEF RunStores
  <2> QED
    BY <1>1, <1>3, <1>4, <1>5, <1>6, <1>10, <2>2, AttemptMoves
<1>9. CASE s1 = "sqlite"
  <2>1. s2.checkpoint = s3[a].checkpoint /\ s2.control = s3[a].control
    BY <1>1, <1>9 DEF Recovery!Current
  <2>2. s2' = [checkpoint |-> s2.checkpoint + 1, control |-> s2.control + 1,
               succeeded |-> s2.succeeded \union {a}, outbox |-> s2.outbox \union {a}]
    BY <1>1, <1>9, <2>1 DEF Recovery!Committed
  <2>3. s2' \in RunStores
    BY <1>1, <2>2 DEF RunStores
  <2>4. /\ s2'.succeeded = s2.succeeded \union {a} /\ s2'.outbox = s2.outbox \union {a}
        /\ s2'.checkpoint = s2.checkpoint + 1 /\ s2'.control = s2.control + 1
    BY <2>2
  <2>5. s2'.succeeded = s2'.outbox
    BY <1>6, <2>4
  <2>6. s2'.succeeded \in {s2.succeeded} \union {s2.succeeded \union {b} : b \in {a} \cap Through'}
    BY <1>7, <2>4
  <2> QED
    BY <1>1, <1>3, <1>4, <1>5, <1>10, <2>3, <2>4, <2>5, <2>6, AttemptMoves
<1> QED
  BY <1>1, <1>8, <1>9

\* Who has returned, once a has with decision d.
LEMMA EndedGrows ==
  ASSUME RecoveryInv, NEW a \in Actors, NEW p \in Attempting, s3' = [s3 EXCEPT ![a] = p],
         s3[a].pc = "report", p.pc = "returned", p.decision = s3[a].decision, NEW D
  PROVE  Cardinality(Recovery!Ended(D)') = IF s3[a].decision \in D
                                           THEN Cardinality(Recovery!Ended(D)) + 1
                                           ELSE Cardinality(Recovery!Ended(D))
<1>1. s3'[a] = p /\ \A b \in Actors \ {a} : s3'[b] = s3[b]
  BY DEF RecoveryInv, RecoveryTypes
<1>2. Recovery!Ended(D) \in SUBSET Actors /\ a \notin Recovery!Ended(D)
  BY DEF Recovery!Ended
<1>3. CASE s3[a].decision \in D
  <2>1. Recovery!Ended(D)' = Recovery!Ended(D) \union {a}
    BY <1>1, <1>3 DEF Recovery!Ended
  <2> QED
    BY <1>2, <1>3, <2>1, FiniteAttempts
<1>4. CASE s3[a].decision \notin D
  <2>1. Recovery!Ended(D)' = Recovery!Ended(D)
    BY <1>1, <1>4 DEF Recovery!Ended
  <2> QED
    BY <1>4, <2>1
<1> QED
  BY <1>3, <1>4

LEMMA RecoveryReports ==
  ASSUME RecoveryInv, NEW a \in Actors, Recovery!Report(a) PROVE RecoveryInv'
<1>0. RecoveryTypes
  BY DEF RecoveryInv
<1>1. PICK d : d = s3[a].decision
  OBVIOUS
<1>2. /\ s3[a] \in Attempting /\ s3[a].pc = "report" /\ AttemptIsTrue(a)
      /\ UNCHANGED <<s1, s2, s6, s7>> /\ s4 \in Counters
      /\ s5' = (IF d = "suspended" THEN a ELSE "nobody")
      /\ Recovery!Count(IF d = "suspended" THEN "suspended" ELSE "completed")
  BY <1>0, <1>1 DEF Recovery!Report, Recovery!Listed, Recovery!Nobody, RecoveryInv, RecoveryTypes
<1>3. PICK p : p = [s3[a] EXCEPT !.pc = "returned"]
  OBVIOUS
<1>4. /\ p \in Attempting /\ p.pc = "returned" /\ p.conflicts = s3[a].conflicts /\ p.decision = d
  BY <1>1, <1>2, <1>3 DEF Attempting
<1>5. s3' = [s3 EXCEPT ![a] = p]
  BY <1>0, <1>2, <1>3 DEF Recovery!Report, Recovery!Goto, RecoveryTypes
<1>6. s3'[a] = p /\ \A b \in Actors \ {a} : s3'[b] = s3[b]
  BY <1>0, <1>5 DEF RecoveryTypes
<1>7. d \in {"completed", "advanced", "suspended"}
  BY <1>1, <1>2 DEF AttemptIsTrue, Attempting, Recovery!Decisions
<1>8. /\ s4' \in Counters /\ s4'.attempts = s4.attempts
      /\ s4'.completed = IF d = "suspended" THEN s4.completed ELSE s4.completed + 1
      /\ s4'.suspended = IF d = "suspended" THEN s4.suspended + 1 ELSE s4.suspended
  <2>1. CASE d = "suspended"
    <3>1. Recovery!Count("suspended")
      BY <1>2, <2>1
    <3> QED
      BY <1>2, <2>1, <3>1, CountsOne
  <2>2. CASE d # "suspended"
    <3>1. Recovery!Count("completed")
      BY <1>2, <2>2
    <3> QED
      BY <1>2, <2>2, <3>1, CountsOne
  <2> QED
    BY <2>1, <2>2
<1>9. RecoveryTypes'
  <2>1. s3' \in [Actors -> Attempting]
    BY <1>0, <1>4, <1>5 DEF RecoveryTypes
  <2>2. s6' \in Finals /\ s5' \in Actors \union {"nobody"}
    BY <1>0, <1>2 DEF RecoveryTypes
  <2> QED
    BY <1>0, <1>2, <1>8, <2>1, <2>2 DEF RecoveryTypes
<1>10. Begun' = Begun /\ Through' = Through
  BY <1>2, <1>4, <1>6 DEF Begun, Through
<1>11. VersionsAreCounted' /\ SuccessIsWhole'
  BY <1>2, <1>10 DEF RecoveryInv, VersionsAreCounted, SuccessIsWhole
<1>12. CountersAgree'
  <2>1. CountersAgree
    BY DEF RecoveryInv
  <2>2. s4'.attempts = Cardinality(Begun)'
    BY <1>8, <1>10, <2>1 DEF CountersAgree
  <2>3. s4'.suspended = Cardinality(Recovery!Ended({"suspended"})')
    BY <1>1, <1>2, <1>4, <1>5, <1>8, <2>1, EndedGrows DEF CountersAgree
  <2>4. s4'.completed = Cardinality(Recovery!Ended({"completed", "advanced"})')
    BY <1>1, <1>2, <1>4, <1>5, <1>7, <1>8, <2>1, EndedGrows DEF CountersAgree
  <2> QED
    BY <2>2, <2>3, <2>4 DEF CountersAgree
<1>14. ASSUME NEW b \in Actors PROVE AttemptIsTrue(b)'
  <2>1. AttemptIsTrue(b)
    BY DEF RecoveryInv
  <2> QED
    BY <1>1, <1>2, <1>4, <1>6, <1>7, <2>1 DEF AttemptIsTrue
<1> QED
  BY <1>9, <1>11, <1>12, <1>14 DEF RecoveryInv

LEMMA RecoveryOtherWriter ==
  ASSUME RecoveryInv, Recovery!OtherWriter PROVE RecoveryInv'
<1>1. UNCHANGED <<s1, s3, s4, s5, s6, s7>> /\ s2 \in RunStores
  BY DEF Recovery!OtherWriter, RecoveryInv, RecoveryTypes
<1>2. Begun' = Begun /\ Through' = Through /\ \A D : Recovery!Ended(D)' = Recovery!Ended(D)
  BY <1>1 DEF Begun, Through, Recovery!Ended
<1>3. Cardinality(Through) \in Nat /\ MaxVersion \in Nat
  <2>1. Through \in SUBSET Actors
    BY DEF Through
  <2> QED
    BY <2>1, FiniteAttempts, Bounds
<1>4. s2.checkpoint \in Nat /\ s2.control \in Nat /\ VersionsAreCounted
  BY <1>1 DEF RunStores, RecoveryInv
<1>5. /\ s2' \in RunStores /\ s2'.succeeded = s2.succeeded /\ s2'.outbox = s2.outbox
      /\ \/ s2.checkpoint < MaxVersion /\ s2'.checkpoint = s2.checkpoint + 1 /\ s2'.control = s2.control
         \/ s2.control < MaxVersion /\ s2'.control = s2.control + 1 /\ s2'.checkpoint = s2.checkpoint
  <2>1. CASE s2.checkpoint < MaxVersion /\ s2' = [s2 EXCEPT !.checkpoint = s2.checkpoint + 1]
    BY <1>1, <2>1 DEF RunStores
  <2>2. CASE s2.control < MaxVersion /\ s2' = [s2 EXCEPT !.control = s2.control + 1]
    BY <1>1, <2>2 DEF RunStores
  <2> QED
    BY <2>1, <2>2 DEF Recovery!OtherWriter
<1>6. VersionsAreCounted'
  <2>1. /\ s2'.checkpoint >= 1 /\ s2'.checkpoint <= MaxVersion + Cardinality(Through)
        /\ s2'.control <= MaxVersion + Cardinality(Through)
    BY <1>3, <1>4, <1>5 DEF VersionsAreCounted
  <2> QED
    BY <1>2, <2>1 DEF VersionsAreCounted
<1>7. CountersAgree' /\ SuccessIsWhole'
  BY <1>1, <1>2, <1>5 DEF RecoveryInv, CountersAgree, SuccessIsWhole
<1>8. RecoveryTypes'
  BY <1>1, <1>5 DEF RecoveryInv, RecoveryTypes
<1>9. ASSUME NEW a \in Actors PROVE AttemptIsTrue(a)'
  BY <1>1 DEF RecoveryInv, AttemptIsTrue
<1> QED
  BY <1>6, <1>7, <1>8, <1>9 DEF RecoveryInv

LEMMA RecoveryStep == ASSUME RecoveryInv, Recovery!Next PROVE RecoveryInv'
<1>1. ASSUME NEW a \in Actors, Recovery!Step(a) PROVE RecoveryInv'
  <2>1. CASE Recovery!ContextRefused(a)
    BY <2>1, RecoveryThrows DEF Recovery!ContextRefused
  <2>2. CASE Recovery!TransactionConflict(a)
    BY <2>2, RecoveryThrows DEF Recovery!TransactionConflict
  <2> QED
    BY <1>1, <2>1, <2>2, RecoveryStarts, RecoveryLoads, RecoveryPrepares, RecoveryBuildsContext,
       RecoveryCommits, RecoveryConflicts, RecoveryReports DEF Recovery!Step
<1> QED
  BY <1>1, RecoveryOtherWriter DEF Recovery!Next

\* A stuttering step changes nothing the invariant speaks of.
LEMMA RecoveryStays ==
  ASSUME RecoveryInv, UNCHANGED <<s1, s2, s3, s4, s5, s6, s7>> PROVE RecoveryInv'
<1>1. Begun' = Begun /\ Through' = Through /\ \A D : Recovery!Ended(D)' = Recovery!Ended(D)
  BY DEF Begun, Through, Recovery!Ended
<1>2. CountersAgree' /\ VersionsAreCounted' /\ SuccessIsWhole'
  BY <1>1 DEF RecoveryInv, CountersAgree, VersionsAreCounted, SuccessIsWhole
<1>3. RecoveryTypes' /\ \A a \in Actors : AttemptIsTrue(a)'
  BY DEF RecoveryInv, RecoveryTypes, AttemptIsTrue
<1> QED
  BY <1>2, <1>3 DEF RecoveryInv

\* What the steps of an attempt come to, for the store, the registry and the conflicts: it
\* goes on, it loses a compare-and-swap, it decides, or it reports.
Untouched(a) == s3' \in [Actors -> Attempting] /\ \A b \in Actors \ {a} : s3'[b] = s3[b]

SameConflicts(a) == s3'[a].conflicts = s3[a].conflicts /\ s4'.conflicts = s4.conflicts

GoesOn(a) ==
  /\ s3[a].pc \notin {"report", "returned"} /\ s3'[a].pc \notin {"report", "returned"}
  /\ SameConflicts(a) /\ UNCHANGED <<s1, s2, s5, s6, s7>>

Loses(a) ==
  /\ s3[a].pc = "commit" /\ s3'[a].pc \notin {"report", "returned"}
  /\ s3'[a].conflicts = s3[a].conflicts + 1 /\ s4'.conflicts = s4.conflicts + 1
  /\ UNCHANGED <<s1, s2, s5, s6, s7>>

SameVersions(a) == s3'[a].checkpoint = s3[a].checkpoint /\ s3'[a].control = s3[a].control

Settles(a) ==
  /\ s3[a].pc \in {"prepare", "commit"} /\ s3'[a].pc = "report"
  /\ SameConflicts(a) /\ SameVersions(a) /\ UNCHANGED <<s1, s5>>
  /\ Recovery!Decides(a, s3'[a].decision)
  /\ IF s3[a].pc = "commit" THEN Recovery!Current(a) /\ s2' = Recovery!Committed(a) ELSE s2' = s2

Reports(a) ==
  /\ s3[a].pc = "report" /\ s3'[a].pc = "returned"
  /\ SameConflicts(a) /\ SameVersions(a) /\ UNCHANGED <<s1, s2, s6, s7>>
  /\ s5' = IF s3[a].decision = "suspended" THEN a ELSE "nobody"

LEMMA AttemptGoesOn ==
  ASSUME RecoveryInv, NEW a \in Actors, Recovery!Step(a)
  PROVE  Untouched(a) /\ (GoesOn(a) \/ Loses(a) \/ Settles(a) \/ Reports(a))
<1>1. RecoveryInv'
  <2>1. CASE Recovery!ContextRefused(a)
    BY <2>1, RecoveryThrows DEF Recovery!ContextRefused
  <2>2. CASE Recovery!TransactionConflict(a)
    BY <2>2, RecoveryThrows DEF Recovery!TransactionConflict
  <2> QED
    BY <2>1, <2>2, RecoveryStarts, RecoveryLoads, RecoveryPrepares, RecoveryBuildsContext,
       RecoveryCommits, RecoveryConflicts, RecoveryReports DEF Recovery!Step
<1>2. s3 \in [Actors -> Attempting] /\ s3' \in [Actors -> Attempting] /\ s4 \in Counters
  BY <1>1 DEF RecoveryInv, RecoveryTypes
<1>3. s3[a] \in Attempting
  BY <1>2
<1>4. Untouched(a)
  <2>1. \E p : s3' = [s3 EXCEPT ![a] = p]
    BY DEF Recovery!Step, Recovery!Start, Recovery!Load, Recovery!Prepare, Recovery!BuildContext,
           Recovery!ContextRefused, Recovery!Commit, Recovery!Conflict,
           Recovery!TransactionConflict, Recovery!Report, Recovery!Goto
  <2> QED
    BY <1>2, <2>1 DEF Untouched
<1>5. CASE Recovery!Start(a)
  <2>1. Recovery!Count("attempts")
    BY <1>5 DEF Recovery!Start
  <2>2. s4'.conflicts = s4.conflicts
    BY <1>2, <2>1, CountsOne
  <2>3. s3'[a] = [s3[a] EXCEPT !.pc = "load"]
    BY <1>2, <1>5 DEF Recovery!Start, Recovery!Goto
  <2>4. s3'[a].pc = "load" /\ s3'[a].conflicts = s3[a].conflicts
    BY <1>3, <2>3 DEF Attempting
  <2> QED
    BY <1>4, <1>5, <2>2, <2>4 DEF Recovery!Start, GoesOn, SameConflicts
<1>6. CASE Recovery!Load(a)
  <2>1. s3'[a] = [s3[a] EXCEPT !.pc = "prepare", !.checkpoint = s2.checkpoint]
    BY <1>2, <1>6 DEF Recovery!Load
  <2>2. s3'[a].pc = "prepare" /\ s3'[a].conflicts = s3[a].conflicts
    BY <1>3, <2>1 DEF Attempting
  <2> QED
    BY <1>4, <1>6, <2>2 DEF Recovery!Load, GoesOn, SameConflicts
<1>7. CASE Recovery!BuildContext(a)
  <2>1. s3'[a] = [s3[a] EXCEPT !.pc = "commit", !.control = s2.control]
    BY <1>2, <1>7 DEF Recovery!BuildContext
  <2>2. s3'[a].pc = "commit" /\ s3'[a].conflicts = s3[a].conflicts
    BY <1>3, <2>1 DEF Attempting
  <2> QED
    BY <1>4, <1>7, <2>2 DEF Recovery!BuildContext, GoesOn, SameConflicts
<1>8. ASSUME s3[a].pc \in {"prepare", "context", "commit"}, Recovery!Goto(a, "thrown"),
             UNCHANGED <<s1, s2, s4, s5, s6, s7>>
      PROVE  GoesOn(a)
  <2>1. s3'[a] = [s3[a] EXCEPT !.pc = "thrown"]
    BY <1>2, <1>8 DEF Recovery!Goto
  <2>2. s3'[a].pc = "thrown" /\ s3'[a].conflicts = s3[a].conflicts
    BY <1>3, <2>1 DEF Attempting
  <2> QED
    BY <1>8, <2>2 DEF GoesOn, SameConflicts
<1>9. CASE Recovery!ContextRefused(a)
  BY <1>4, <1>8, <1>9 DEF Recovery!ContextRefused
<1>10. CASE Recovery!TransactionConflict(a)
  BY <1>4, <1>8, <1>10 DEF Recovery!TransactionConflict
<1>11. CASE Recovery!Prepare(a)
  <2>1. s3[a].pc = "prepare" /\ UNCHANGED <<s1, s2, s4, s5>>
    BY <1>11 DEF Recovery!Prepare
  <2>2. CASE Recovery!Goto(a, "thrown") /\ UNCHANGED <<s6, s7>>
    BY <1>4, <1>8, <2>1, <2>2
  <2>3. ASSUME NEW d, s3' = [s3 EXCEPT ![a].pc = "context", ![a].decision = d], UNCHANGED <<s6, s7>>
        PROVE  GoesOn(a)
    <3>1. s3'[a] = [s3[a] EXCEPT !.pc = "context", !.decision = d]
      BY <1>2, <2>3
    <3>2. s3'[a].pc = "context" /\ s3'[a].conflicts = s3[a].conflicts
      BY <1>3, <3>1 DEF Attempting
    <3> QED
      BY <2>1, <2>3, <3>2 DEF GoesOn, SameConflicts
  <2>4. ASSUME NEW d, s3' = [s3 EXCEPT ![a].pc = "report", ![a].decision = d], Recovery!Decides(a, d)
        PROVE  Settles(a)
    <3>1. s3'[a] = [s3[a] EXCEPT !.pc = "report", !.decision = d]
      BY <1>2, <2>4
    <3>2. /\ s3'[a].pc = "report" /\ s3'[a].conflicts = s3[a].conflicts /\ s3'[a].decision = d
          /\ s3'[a].checkpoint = s3[a].checkpoint /\ s3'[a].control = s3[a].control
      BY <1>3, <3>1 DEF Attempting
    <3> QED
      BY <2>1, <2>4, <3>2 DEF Settles, SameConflicts, SameVersions
  <2> QED
    BY <1>4, <1>11, <2>2, <2>3, <2>4 DEF Recovery!Prepare
<1>12. CASE Recovery!Commit(a)
  <2>1. s3'[a] = [s3[a] EXCEPT !.pc = "report"]
    BY <1>2, <1>12 DEF Recovery!Commit, Recovery!Goto
  <2>2. /\ s3'[a].pc = "report" /\ s3'[a].conflicts = s3[a].conflicts
        /\ s3'[a].decision = s3[a].decision
        /\ s3'[a].checkpoint = s3[a].checkpoint /\ s3'[a].control = s3[a].control
    BY <1>3, <2>1 DEF Attempting
  <2> QED
    BY <1>4, <1>12, <2>2 DEF Recovery!Commit, Settles, SameConflicts, SameVersions
<1>13. CASE Recovery!Conflict(a)
  <2>1. Recovery!Count("conflicts")
    BY <1>13 DEF Recovery!Conflict
  <2>2. s4'.conflicts = s4.conflicts + 1
    BY <1>2, <2>1, CountsOne
  <2>3. PICK pc \in {"thrown", "load"} :
          s3'[a] = [s3[a] EXCEPT !.conflicts = s3[a].conflicts + 1, !.decision = "none",
                                 !.checkpoint = 0, !.control = 0, !.pc = pc]
    BY <1>2, <1>13 DEF Recovery!Conflict
  <2>4. s3'[a].pc = pc /\ s3'[a].conflicts = s3[a].conflicts + 1
    BY <1>3, <2>3 DEF Attempting
  <2> QED
    BY <1>4, <1>13, <2>2, <2>4 DEF Recovery!Conflict, Loses
<1>14. CASE Recovery!Report(a)
  <2>1. s3'[a] = [s3[a] EXCEPT !.pc = "returned"]
    BY <1>2, <1>14 DEF Recovery!Report, Recovery!Goto
  <2>2. /\ s3'[a].pc = "returned" /\ s3'[a].conflicts = s3[a].conflicts
        /\ s3'[a].checkpoint = s3[a].checkpoint /\ s3'[a].control = s3[a].control
    BY <1>3, <2>1 DEF Attempting
  <2>3. s4'.conflicts = s4.conflicts
    <3>1. CASE s3[a].decision = "suspended"
      <4>1. Recovery!Count("suspended")
        BY <1>14, <3>1 DEF Recovery!Report
      <4> QED
        BY <1>2, <4>1, CountsOne
    <3>2. CASE s3[a].decision # "suspended"
      <4>1. Recovery!Count("completed")
        BY <1>14, <3>2 DEF Recovery!Report
      <4> QED
        BY <1>2, <4>1, CountsOne
    <3> QED
      BY <3>1, <3>2
  <2> QED
    BY <1>4, <1>14, <2>2, <2>3
       DEF Recovery!Report, Recovery!Listed, Recovery!Nobody, Reports, SameConflicts, SameVersions
<1> QED
  BY <1>5, <1>6, <1>7, <1>9, <1>10, <1>11, <1>12, <1>13, <1>14 DEF Recovery!Step

\* Until reports cross, one attempt at most has decided and not reported, and it was the last
\* to decide; when there is none the registry shows the last decision.
RegistryAgrees ==
  ~s7 =>
    /\ Recovery!Unreported = {} => s5 = IF s6.decision = "suspended" THEN s6.by ELSE "nobody"
    /\ \A a \in Recovery!Unreported :
         Recovery!Unreported = {a} /\ s6 = [by |-> a, decision |-> s3[a].decision]

LEMMA RegistryStep ==
  ASSUME RecoveryTypes, RegistryAgrees, NEW a \in Actors, Untouched(a),
         GoesOn(a) \/ Loses(a) \/ Settles(a) \/ Reports(a)
  PROVE  RegistryAgrees'
<1>1. \A b \in Actors \ {a} : s3'[b] = s3[b]
  BY DEF Untouched
<1>2. CASE GoesOn(a) \/ Loses(a)
  <2>1. s3[a].pc # "report" /\ s3'[a].pc # "report" /\ UNCHANGED <<s5, s6, s7>>
    BY <1>2 DEF GoesOn, Loses
  <2>2. Recovery!Unreported' = Recovery!Unreported /\ a \notin Recovery!Unreported
    BY <1>1, <2>1 DEF Recovery!Unreported
  <2>3. \A b \in Recovery!Unreported : s3'[b] = s3[b]
    BY <1>1, <2>2 DEF Recovery!Unreported
  <2> QED
    BY <2>1, <2>2, <2>3 DEF RegistryAgrees
<1>3. CASE Settles(a)
  <2>1. /\ s3[a].pc # "report" /\ s3'[a].pc = "report"
        /\ s6' = [by |-> a, decision |-> s3'[a].decision]
        /\ s7' = (s7 \/ Recovery!Unreported # {})
    BY <1>3 DEF Settles, Recovery!Decides
  <2>2. Recovery!Unreported' = Recovery!Unreported \union {a}
    BY <1>1, <2>1 DEF Recovery!Unreported
  <2>3. ~s7' => Recovery!Unreported' = {a}
    BY <2>1, <2>2
  <2> QED
    BY <2>1, <2>3 DEF RegistryAgrees
<1>4. CASE Reports(a)
  <2>1. /\ s3[a].pc = "report" /\ s3'[a].pc = "returned" /\ UNCHANGED <<s6, s7>>
        /\ s5' = IF s3[a].decision = "suspended" THEN a ELSE "nobody"
    BY <1>4 DEF Reports
  <2>2. Recovery!Unreported' = Recovery!Unreported \ {a} /\ a \in Recovery!Unreported
    BY <1>1, <2>1 DEF Recovery!Unreported
  <2>3. ~s7 => Recovery!Unreported' = {} /\ s6.by = a /\ s6.decision = s3[a].decision
    BY <2>2 DEF RegistryAgrees
  <2> QED
    BY <2>1, <2>3 DEF RegistryAgrees
<1> QED
  BY <1>2, <1>3, <1>4

\* Every conflict an attempt has met was counted once.
ConflictsCounted == s4.conflicts = Cardinality(Recovery!Conflicts)

LEMMA FiniteConflicts == IsFiniteSet(Recovery!Conflicts)
<1>1. IsFiniteSet(Actors) /\ IsFiniteSet(1..MaxConflicts + 1)
  BY PartsAssumption, Bounds, FS_Interval
<1>2. IsFiniteSet(Actors \X (1..MaxConflicts + 1))
  BY <1>1, FS_Product
<1> QED
  BY <1>2, FS_Subset DEF Recovery!Conflicts

LEMMA ConflictsStep ==
  ASSUME RecoveryInv, ConflictsCounted, NEW a \in Actors, Untouched(a),
         GoesOn(a) \/ Loses(a) \/ Settles(a) \/ Reports(a)
  PROVE  ConflictsCounted'
<1>1. \A b \in Actors \ {a} : s3'[b] = s3[b]
  BY DEF Untouched
<1>2. CASE SameConflicts(a)
  <2>1. \A b \in Actors : s3'[b].conflicts = s3[b].conflicts
    BY <1>1, <1>2 DEF SameConflicts
  <2>2. Recovery!Conflicts' = Recovery!Conflicts
    BY <2>1 DEF Recovery!Conflicts
  <2> QED
    BY <1>2, <2>2 DEF ConflictsCounted, SameConflicts
<1>3. CASE Loses(a)
  <2>1. PICK n : n = s3[a].conflicts
    OBVIOUS
  <2>2. s3'[a].conflicts = n + 1 /\ s4'.conflicts = s4.conflicts + 1 /\ s3[a].pc = "commit"
    BY <1>3, <2>1 DEF Loses
  <2>3. n \in 0..MaxConflicts + 1
    BY <2>1 DEF RecoveryInv, RecoveryTypes, Attempting
  <2>4. n <= MaxConflicts
    BY <2>1, <2>2 DEF RecoveryInv, AttemptIsTrue
  <2>5. n \in Nat /\ n + 1 \in 1..MaxConflicts + 1
    BY <2>3, <2>4, Bounds
  <2>6. ASSUME NEW b \in Actors, NEW k \in 1..MaxConflicts + 1
        PROVE  k <= s3'[b].conflicts <=> (k <= s3[b].conflicts \/ (b = a /\ k = n + 1))
    <3>1. CASE b = a
      BY <2>1, <2>2, <2>5, <3>1, Bounds
    <3>2. CASE b # a
      BY <1>1, <3>2
    <3> QED
      BY <3>1, <3>2
  <2>7. Recovery!Conflicts' = Recovery!Conflicts \union {<<a, n + 1>>}
    <3>1. ASSUME NEW c PROVE c \in Recovery!Conflicts' <=> c \in Recovery!Conflicts \union {<<a, n + 1>>}
      <4>1. CASE c \in Actors \X (1..MaxConflicts + 1)
        <5>1. PICK b \in Actors, k \in 1..MaxConflicts + 1 : c = <<b, k>>
          BY <4>1
        <5>2. c[1] = b /\ c[2] = k
          BY <5>1
        <5>3. c \in Recovery!Conflicts' <=> k <= s3'[b].conflicts
          BY <4>1, <5>2 DEF Recovery!Conflicts
        <5>4. c \in Recovery!Conflicts <=> k <= s3[b].conflicts
          BY <4>1, <5>2 DEF Recovery!Conflicts
        <5>5. c = <<a, n + 1>> <=> b = a /\ k = n + 1
          BY <5>1
        <5> QED
          BY <2>6, <5>3, <5>4, <5>5
      <4>2. CASE c \notin Actors \X (1..MaxConflicts + 1)
        <5>1. <<a, n + 1>> \in Actors \X (1..MaxConflicts + 1)
          BY <2>5
        <5>2. c \notin Recovery!Conflicts' /\ c \notin Recovery!Conflicts /\ c # <<a, n + 1>>
          BY <4>2, <5>1 DEF Recovery!Conflicts
        <5> QED
          BY <5>2
      <4> QED
        BY <4>1, <4>2
    <3> QED
      BY <3>1
  <2>8. <<a, n + 1>> \notin Recovery!Conflicts
    <3>1. ~(n + 1 <= n)
      BY <2>5
    <3> QED
      BY <2>1, <3>1 DEF Recovery!Conflicts
  <2>9. Cardinality(Recovery!Conflicts') = Cardinality(Recovery!Conflicts) + 1
    BY <2>7, <2>8, FiniteConflicts, FS_AddElement
  <2> QED
    BY <2>2, <2>9 DEF ConflictsCounted
<1> QED
  BY <1>2, <1>3 DEF GoesOn, Settles, Reports

\* An attempt that succeeded had read versions that are past, and no other one has read its.
VersionsArePast ==
  \A a \in s2.succeeded : s3[a].checkpoint < s2.checkpoint /\ s3[a].control < s2.control

ReadOnce ==
  \A a, b \in s2.succeeded : a # b =>
    s3[a].checkpoint # s3[b].checkpoint /\ s3[a].control # s3[b].control

\* Nothing but its commit makes an attempt succeed, and its versions stay.
LEMMA VersionsStay ==
  ASSUME RecoveryInv, VersionsArePast, ReadOnce, s2' \in RunStores, s2'.succeeded = s2.succeeded,
         s2'.checkpoint \in {s2.checkpoint, s2.checkpoint + 1},
         s2'.control \in {s2.control, s2.control + 1},
         \A b \in s2.succeeded :
           s3'[b].checkpoint = s3[b].checkpoint /\ s3'[b].control = s3[b].control
  PROVE  VersionsArePast' /\ ReadOnce'
<1>1. s2.checkpoint \in Nat /\ s2.control \in Nat /\ s2.succeeded \subseteq Actors
  BY DEF RecoveryInv, RecoveryTypes, RunStores
<1>2. \A b \in s2.succeeded : s3[b].checkpoint \in Nat /\ s3[b].control \in Nat
  BY <1>1 DEF RecoveryInv, RecoveryTypes, Attempting
<1>3. VersionsArePast'
  BY <1>1, <1>2 DEF VersionsArePast
<1>4. ReadOnce'
  BY DEF ReadOnce
<1> QED
  BY <1>3, <1>4

LEMMA VersionsStep ==
  ASSUME RecoveryInv, VersionsArePast, ReadOnce, NEW a \in Actors, Untouched(a),
         GoesOn(a) \/ Loses(a) \/ Settles(a) \/ Reports(a)
  PROVE  VersionsArePast' /\ ReadOnce'
<1>1. /\ s2 \in RunStores /\ s2.checkpoint \in Nat /\ s2.control \in Nat
      /\ s2.succeeded \subseteq Through /\ s2.succeeded \subseteq Actors
      /\ s2.outbox \subseteq Actors
  BY DEF RecoveryInv, RecoveryTypes, SuccessIsWhole, RunStores
<1>2. \A b \in Actors \ {a} : s3'[b] = s3[b]
  BY DEF Untouched
<1>3. ASSUME SameVersions(a) \/ a \notin s2.succeeded
      PROVE  \A b \in s2.succeeded :
               s3'[b].checkpoint = s3[b].checkpoint /\ s3'[b].control = s3[b].control
  BY <1>1, <1>2, <1>3 DEF SameVersions
<1>4. CASE GoesOn(a) \/ Loses(a)
  <2>1. s3[a].pc \notin {"report", "returned"} /\ s2' = s2
    BY <1>4 DEF GoesOn, Loses
  <2>2. a \notin s2.succeeded
    BY <1>1, <2>1 DEF Through
  <2> QED
    BY <1>1, <1>3, <2>1, <2>2, VersionsStay
<1>5. CASE Reports(a)
  <2>1. SameVersions(a) /\ s2' = s2
    BY <1>5 DEF Reports
  <2> QED
    BY <1>1, <1>3, <2>1, VersionsStay
<1>6. CASE Settles(a) /\ s3[a].pc # "commit"
  <2>1. SameVersions(a) /\ s2' = s2
    BY <1>6 DEF Settles
  <2> QED
    BY <1>1, <1>3, <2>1, VersionsStay
<1>7. CASE Settles(a) /\ s3[a].pc = "commit" /\ s1 = "checkpoint_store"
  <2>1. SameVersions(a) /\ s2' = [s2 EXCEPT !.checkpoint = s2.checkpoint + 1]
    BY <1>7 DEF Settles, Recovery!Committed
  <2>2. /\ s2' \in RunStores /\ s2'.succeeded = s2.succeeded
        /\ s2'.checkpoint = s2.checkpoint + 1 /\ s2'.control = s2.control
    BY <1>1, <2>1 DEF RunStores
  <2> QED
    BY <1>3, <2>1, <2>2, VersionsStay
<1>8. CASE Settles(a) /\ s3[a].pc = "commit" /\ s1 = "sqlite"
  <2>1. /\ SameVersions(a) /\ s3[a].checkpoint = s2.checkpoint /\ s3[a].control = s2.control
        /\ s2' = [checkpoint |-> s2.checkpoint + 1, control |-> s3[a].control + 1,
                  succeeded |-> s2.succeeded \union {a}, outbox |-> s2.outbox \union {a}]
    BY <1>8 DEF Settles, Recovery!Committed, Recovery!Current
  <2>2. /\ s2'.succeeded = s2.succeeded \union {a} /\ s2'.checkpoint = s2.checkpoint + 1
        /\ s2'.control = s2.control + 1
    BY <2>1
  <2>3. a \notin s2.succeeded
    BY <1>1, <1>8 DEF Through
  <2>4. s3'[a].checkpoint = s2.checkpoint /\ s3'[a].control = s2.control
    BY <2>1 DEF SameVersions
  <2>5. ASSUME NEW b \in s2.succeeded
        PROVE  /\ s3'[b] = s3[b] /\ s3[b].checkpoint \in Nat /\ s3[b].control \in Nat
               /\ s3[b].checkpoint < s2.checkpoint /\ s3[b].control < s2.control
    <3>1. s3'[b] = s3[b] /\ s3[b] \in Attempting
      BY <1>1, <1>2, <2>3 DEF RecoveryInv, RecoveryTypes
    <3> QED
      BY <3>1 DEF VersionsArePast, Attempting
  <2>6. ASSUME NEW b \in s2'.succeeded
        PROVE  s3'[b].checkpoint < s2'.checkpoint /\ s3'[b].control < s2'.control
    <3>1. CASE b = a
      BY <1>1, <2>2, <2>4, <3>1
    <3>2. CASE b \in s2.succeeded
      BY <1>1, <2>2, <2>5, <3>2
    <3> QED
      BY <2>2, <3>1, <3>2
  <2>7. ASSUME NEW b \in s2.succeeded
        PROVE  s3'[b].checkpoint # s3'[a].checkpoint /\ s3'[b].control # s3'[a].control
    BY <1>1, <2>4, <2>5
  <2>8. ASSUME NEW b \in s2.succeeded, NEW c \in s2.succeeded, b # c
        PROVE  s3'[b].checkpoint # s3'[c].checkpoint /\ s3'[b].control # s3'[c].control
    BY <2>5, <2>8 DEF ReadOnce
  <2> QED
    BY <2>2, <2>6, <2>7, <2>8 DEF VersionsArePast, ReadOnce
<1> QED
  BY <1>4, <1>5, <1>6, <1>7, <1>8 DEF RecoveryInv, RecoveryTypes

\* The invariant of the attempts with what it implies for a reader of the registry, of the
\* conflict counter and of the store.
AttemptsInv ==
  RecoveryInv /\ RegistryAgrees /\ ConflictsCounted /\ VersionsArePast /\ ReadOnce

LEMMA AttemptsInit == Recovery!Init => AttemptsInv
<1> SUFFICES ASSUME Recovery!Init PROVE AttemptsInv
  OBVIOUS
<1>1. RegistryAgrees
  <2>1. Recovery!Unreported = {}
    BY DEF Recovery!Init, Recovery!Unreported
  <2>2. s5 = "nobody" /\ s6.decision = "none"
    BY DEF Recovery!Init, Recovery!Nobody
  <2> QED
    BY <2>1, <2>2 DEF RegistryAgrees
<1>2. ConflictsCounted
  <2>1. s4.conflicts = 0 /\ \A a \in Actors : s3[a].conflicts = 0
    BY DEF Recovery!Init
  <2>2. \A c \in Actors \X (1..MaxConflicts + 1) : ~(c[2] <= s3[c[1]].conflicts)
    <3>1. ASSUME NEW c \in Actors \X (1..MaxConflicts + 1) PROVE ~(c[2] <= s3[c[1]].conflicts)
      <4>1. c[1] \in Actors /\ c[2] \in 1..MaxConflicts + 1
        OBVIOUS
      <4>2. s3[c[1]].conflicts = 0
        BY <2>1, <4>1
      <4>3. ~(c[2] <= 0)
        BY <4>1, Bounds
      <4> QED
        BY <4>2, <4>3
    <3> QED
      BY <3>1
  <2>3. Recovery!Conflicts = {}
    BY <2>2 DEF Recovery!Conflicts
  <2> QED
    BY <2>1, <2>3, FS_EmptySet DEF ConflictsCounted
<1>3. VersionsArePast /\ ReadOnce
  BY DEF Recovery!Init, VersionsArePast, ReadOnce
<1> QED
  BY <1>1, <1>2, <1>3, RecoveryInit DEF AttemptsInv

\* A writer that is no attempt leaves the attempts, the registry and the counters alone.
LEMMA OthersWrite ==
  ASSUME AttemptsInv, UNCHANGED <<s3, s4, s5, s6, s7>>,
         s2' = s2 \/ Recovery!OtherWriter
  PROVE  RegistryAgrees' /\ ConflictsCounted' /\ VersionsArePast' /\ ReadOnce'
<1>1. Recovery!Unreported' = Recovery!Unreported /\ Recovery!Conflicts' = Recovery!Conflicts
  BY DEF Recovery!Unreported, Recovery!Conflicts
<1>2. RegistryAgrees' /\ ConflictsCounted'
  BY <1>1 DEF AttemptsInv, RegistryAgrees, ConflictsCounted
<1>3. s2 \in RunStores /\ s2.checkpoint \in Nat /\ s2.control \in Nat
  BY DEF AttemptsInv, RecoveryInv, RecoveryTypes, RunStores
<1>4. /\ s2' \in RunStores /\ s2'.succeeded = s2.succeeded
      /\ s2'.checkpoint \in {s2.checkpoint, s2.checkpoint + 1}
      /\ s2'.control \in {s2.control, s2.control + 1}
  <2>1. CASE s2' = s2
    BY <1>3, <2>1
  <2>2. CASE s2' = [s2 EXCEPT !.checkpoint = s2.checkpoint + 1]
    BY <1>3, <2>2 DEF RunStores
  <2>3. CASE s2' = [s2 EXCEPT !.control = s2.control + 1]
    BY <1>3, <2>3 DEF RunStores
  <2> QED
    BY <2>1, <2>2, <2>3 DEF Recovery!OtherWriter
<1> QED
  BY <1>2, <1>4, VersionsStay DEF AttemptsInv

LEMMA AttemptsStep == ASSUME AttemptsInv, Recovery!Next PROVE AttemptsInv'
<1>1. ASSUME NEW a \in Actors, Recovery!Step(a)
      PROVE  RegistryAgrees' /\ ConflictsCounted' /\ VersionsArePast' /\ ReadOnce'
  <2>1. Untouched(a) /\ (GoesOn(a) \/ Loses(a) \/ Settles(a) \/ Reports(a))
    BY <1>1, AttemptGoesOn DEF AttemptsInv
  <2>2. RegistryAgrees'
    BY <2>1, RegistryStep DEF AttemptsInv, RecoveryInv
  <2>3. ConflictsCounted'
    BY <2>1, ConflictsStep DEF AttemptsInv
  <2>4. VersionsArePast' /\ ReadOnce'
    BY <2>1, VersionsStep DEF AttemptsInv
  <2> QED
    BY <2>2, <2>3, <2>4
<1>2. CASE Recovery!OtherWriter
  <2>1. UNCHANGED <<s3, s4, s5, s6, s7>>
    BY <1>2 DEF Recovery!OtherWriter
  <2> QED
    BY <1>2, <2>1, OthersWrite, RecoveryStep DEF AttemptsInv
<1> QED
  BY <1>1, <1>2, RecoveryStep DEF AttemptsInv, Recovery!Next

LEMMA AttemptsStay ==
  ASSUME AttemptsInv, UNCHANGED <<s1, s2, s3, s4, s5, s6, s7>> PROVE AttemptsInv'
BY OthersWrite, RecoveryStays DEF AttemptsInv

\* Every reachable state of the recovery attempts satisfies their invariant.
LEMMA AttemptsAlways == Spec => [](part = "recovery" => AttemptsInv)
<1>1. Init => (part = "recovery" => AttemptsInv)
  BY AttemptsInit DEF Init
<1>2. (part = "recovery" => AttemptsInv) /\ [Next]_vars => (part = "recovery" => AttemptsInv)'
  <2> SUFFICES ASSUME part = "recovery" => AttemptsInv, [Next]_vars, part' = "recovery"
               PROVE  AttemptsInv'
    OBVIOUS
  <2>1. CASE Next
    <3>1. part = "recovery" /\ Recovery!Next
      BY <2>1 DEF Next
    <3> QED
      BY <3>1, AttemptsStep
  <2>2. CASE UNCHANGED vars
    BY <2>2, AttemptsStay DEF vars
  <2> QED
    BY <2>1, <2>2
<1> QED
  BY <1>1, <1>2, PTL DEF Spec

\* The invariant of the attempts says what RecoveryIsTold says of their states.
LEMMA AttemptsHold ==
  ASSUME AttemptsInv
  PROVE  Recovery!TypeOK /\ Recovery!OperatorSeesTruth /\ Recovery!OneSuccessPerVersion
<1>1. RecoveryTypes /\ VersionsAreCounted /\ CountersAgree /\ SuccessIsWhole
  BY DEF AttemptsInv, RecoveryInv
<1>2. Through \in SUBSET Actors
  BY DEF Through
<1>3. Cardinality(Through) \in Nat /\ Cardinality(Through) <= Cardinality(Actors)
      /\ Cardinality(Actors) \in Nat
  BY <1>2, FiniteAttempts
<1>4. s2.checkpoint \in 1..MaxVersion + Cardinality(Actors)
      /\ s2.control \in 0..MaxVersion + Cardinality(Actors)
  <2>1. s2.checkpoint \in Nat /\ s2.control \in Nat /\ MaxVersion \in Nat
    BY <1>1, Bounds DEF RecoveryTypes, RunStores
  <2> QED
    BY <1>1, <1>3, <2>1 DEF VersionsAreCounted
<1>5. Recovery!Cardinality(Actors) = Cardinality(Actors)
  BY RecoveryCardinality
<1>6. s2 \in [checkpoint : 1..MaxVersion + Recovery!Cardinality(Actors),
              control : 0..MaxVersion + Recovery!Cardinality(Actors),
              succeeded : SUBSET Actors, outbox : SUBSET Actors]
  BY <1>1, <1>4, <1>5 DEF RecoveryTypes, RunStores
<1>7. Recovery!TypeOK
  BY <1>1, <1>6 DEF RecoveryTypes, Finals, Attempting, Counters, Recovery!TypeOK, Recovery!Nobody
<1>8. Recovery!OperatorSeesTruth
  <2>1. /\ s4.attempts = Recovery!Cardinality({a \in Actors : s3[a].pc # "new"})
        /\ s4.suspended = Recovery!Cardinality(Recovery!Ended({"suspended"}))
        /\ s4.completed = Recovery!Cardinality(Recovery!Ended({"completed", "advanced"}))
    BY <1>1, RecoveryCardinality DEF CountersAgree, Begun
  <2>2. s4.conflicts = Recovery!Cardinality(Recovery!Conflicts)
    BY RecoveryCardinality DEF AttemptsInv, ConflictsCounted
  <2>3. ~s7 /\ Recovery!Unreported = {} => s5 = IF s6.decision = "suspended" THEN s6.by ELSE "nobody"
    BY DEF AttemptsInv, RegistryAgrees
  <2> QED
    BY <2>1, <2>2, <2>3 DEF Recovery!OperatorSeesTruth, Recovery!Nobody
<1>9. Recovery!OneSuccessPerVersion
  BY <1>1 DEF AttemptsInv, ReadOnce, SuccessIsWhole, Recovery!OneSuccessPerVersion
<1> QED
  BY <1>7, <1>8, <1>9

\* A step of the attempts commits whole, over the versions its attempt had read.
LEMMA CommitsAreWhole ==
  ASSUME RecoveryInv, Recovery!Next PROVE Recovery!WholeCommit
<1>1. s2 \in RunStores /\ s2.checkpoint \in Nat /\ s2.control \in Nat
  BY DEF RecoveryInv, RecoveryTypes, RunStores
<1>2. ASSUME NEW a \in Actors, Recovery!Step(a) PROVE Recovery!WholeCommit
  <2>1. Untouched(a) /\ (GoesOn(a) \/ Loses(a) \/ Settles(a) \/ Reports(a))
    BY <1>2, AttemptGoesOn
  <2>2. \A b \in Actors : Recovery!Commits(b) => b = a
    BY <2>1 DEF Untouched, Recovery!Commits
  <2>3. CASE s2' = s2 /\ ~Recovery!Commits(a)
    BY <1>1, <2>2, <2>3 DEF Recovery!WholeCommit
  <2>4. CASE Settles(a) /\ s3[a].pc = "commit"
    <3>1. Recovery!Current(a) /\ s2' = Recovery!Committed(a) /\ Recovery!Commits(a)
      BY <2>4 DEF Settles, Recovery!Commits
    <3>2. s3[a].checkpoint = s2.checkpoint
      BY <3>1 DEF Recovery!Current
    <3>3. CASE s1 = "checkpoint_store"
      <4>1. s2' = [s2 EXCEPT !.checkpoint = s2.checkpoint + 1]
        BY <3>1, <3>3 DEF Recovery!Committed
      <4>2. /\ s2'.succeeded = s2.succeeded
            /\ s2'.checkpoint = s2.checkpoint + 1 /\ s2'.control = s2.control
        BY <1>1, <4>1 DEF RunStores
      <4> QED
        BY <1>1, <2>2, <3>2, <3>3, <4>2 DEF Recovery!WholeCommit
    <3>4. CASE s1 = "sqlite"
      <4>1. s3[a].control = s2.control
        BY <3>1, <3>4 DEF Recovery!Current
      <4>2. s2' = [checkpoint |-> s2.checkpoint + 1, control |-> s3[a].control + 1,
                   succeeded |-> s2.succeeded \union {a}, outbox |-> s2.outbox \union {a}]
        BY <3>1, <3>4 DEF Recovery!Committed
      <4>3. /\ s2'.succeeded = s2.succeeded \union {a}
            /\ s2'.checkpoint = s2.checkpoint + 1 /\ s2'.control = s2.control + 1
        BY <4>1, <4>2
      <4> QED
        BY <1>1, <2>2, <3>1, <3>2, <3>4, <4>1, <4>3 DEF Recovery!WholeCommit
    <3> QED
      BY <3>3, <3>4 DEF RecoveryInv, RecoveryTypes
  <2>5. CASE ~(Settles(a) /\ s3[a].pc = "commit")
    <3>1. s2' = s2 /\ ~Recovery!Commits(a)
      BY <2>1, <2>5 DEF GoesOn, Loses, Settles, Reports, Recovery!Commits
    <3> QED
      BY <2>3, <3>1
  <2> QED
    BY <2>4, <2>5
<1>3. CASE Recovery!OtherWriter
  <2>1. \A a \in Actors : ~Recovery!Commits(a)
    BY <1>3 DEF Recovery!OtherWriter, Recovery!Commits
  <2>2. CASE s2' = [s2 EXCEPT !.checkpoint = s2.checkpoint + 1]
    BY <1>1, <2>1, <2>2 DEF RunStores, Recovery!WholeCommit
  <2>3. CASE s2' = [s2 EXCEPT !.control = s2.control + 1]
    BY <1>1, <2>1, <2>3 DEF RunStores, Recovery!WholeCommit
  <2> QED
    BY <1>3, <2>2, <2>3 DEF Recovery!OtherWriter
<1> QED
  BY <1>2, <1>3 DEF Recovery!Next

\* The metrics, conflicts included, agree with what the attempts have done; the registry of
\* suspended runs shows the last decision once it is reported, unless an attempt decided
\* between another's decision and its report; a conflict of the SQL store names a later version
\* than was expected; an attempt commits over the checkpoint it has read, in SQLite over the
\* control it has read too, and no two succeed on one version of either.
THEOREM RecoveriesAreTold == Spec => RecoveryIsTold
<1>1. Spec => [](part = "recovery" =>
         Recovery!TypeOK /\ Recovery!OperatorSeesTruth /\ Recovery!OneSuccessPerVersion)
  <2>1. (part = "recovery" => AttemptsInv) =>
          (part = "recovery" =>
             Recovery!TypeOK /\ Recovery!OperatorSeesTruth /\ Recovery!OneSuccessPerVersion)
    BY AttemptsHold
  <2> QED
    BY <2>1, AttemptsAlways, PTL
<1>2. Spec => [](part = "table" => Table!ConflictTellsWhy)
  <2>1. (part = "table" => TableInv) => (part = "table" => Table!ConflictTellsWhy)
    BY DEF TableInv
  <2> QED
    BY <2>1, TableAlways, PTL
<1>3. Spec => [][part = "recovery" => Recovery!WholeCommit]_vars
  <2>1. (part = "recovery" => AttemptsInv) /\ [Next]_vars =>
          [part = "recovery" => Recovery!WholeCommit]_vars
    BY CommitsAreWhole DEF Next, AttemptsInv
  <2> QED
    BY <2>1, AttemptsAlways, PTL DEF Spec
<1> QED
  BY <1>1, <1>2, <1>3, PTL DEF RecoveryIsTold
=============================================================================
