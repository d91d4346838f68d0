------------------------ MODULE DurableJournalProofs ------------------------
(***************************************************************************)
(* Proofs about what DurableExecution promises: the stored checkpoint      *)
(* refines the atomic journal of RunJournal, a record of an executed call  *)
(* is true, and, where recovery waits for live workers, the journal is the *)
(* lock of its run: one open call, no hidden effect, no second effect of a *)
(* call that must not be retried.                                          *)
(***************************************************************************)
EXTENDS DurableExecutionProofs

(***************************************************************************)
(* The inductive invariant.  An open record is one whose outcome recovery  *)
(* cannot know.                                                            *)
(***************************************************************************)
Open == {"started", "unknown"}

\* A call has one record.
Unique(execs) ==
  \A i, j \in DOMAIN execs : execs[i].call = execs[j].call => i = j

\* An open record is the last recoverable one, and stands at a tool boundary.
Shape(k) ==
  /\ Unique(k.execs)
  /\ \A i \in DOMAIN k.execs : k.execs[i].outcome \in Open =>
       /\ k.boundary \in {"ready_for_tool", "reconciling_tool"}
       /\ \A j \in Recoverable(k.execs) : j <= i

\* What a worker knows of the checkpoint it holds and of the outcome it is about to store.
IntentHeld(w) ==
  /\ ex[w].pc = "intent" => MayRun(ex[w].k, ex[w].call)
  /\ InFlight(w) => /\ ex[w].k.boundary = "ready_for_tool"
                    /\ OutcomeOf(ex[w].k.execs, ex[w].call) = "started"
  /\ ex[w].pc = "audit" => effects[ex[w].call] > 0
  /\ ex[w].pc = "outcome" =>
       /\ ex[w].outcome \in {"executed", "never_executed", "cancelled_before_execution"}
       /\ ex[w].outcome = "executed" => effects[ex[w].call] > 0
  /\ ex[w].pc \in {"audit_failed", "catch"} =>
       /\ ex[w].outcome \in {"failed", "unknown"}
       /\ ex[w].outcome = "unknown" => SideEffect[ex[w].call] = "external_side_effect"
  /\ \A c \in cache[w] : effects[c] > 0

\* What a recoverer knows of the record it resolves.
PlanHeld(r) ==
  rc[r].pc \in {"reconcile", "commit"} =>
    LET rec == RecoveryRecord(rc[r].k)
    IN /\ rc[r].k.boundary # "completed"
       /\ rc[r].pc = "reconcile" \/ rc[r].answer # "none" =>
            PlanRecovery(rec.call, rec.outcome) = "reconcile"
       /\ rc[r].pc = "commit" /\ rc[r].answer = "executed" => effects[rec.call] > 0

JInv ==
  /\ IInv
  /\ Shape(stored)
  /\ \A w \in Executors : IntentHeld(w)
  /\ \A r \in Recoverers : PlanHeld(r)
  /\ ExecutedIsReal

(***************************************************************************)
(* Where recovery waits for live workers, a worker past its intent holds   *)
(* the stored checkpoint, and no recovery that could still commit runs     *)
(* beside it.                                                              *)
(***************************************************************************)
Locked ==
  /\ \A w \in Executors : InFlight(w) => ex[w].k = stored
  /\ \A v, w \in Executors : InFlight(v) /\ InFlight(w) => v = w
  /\ \A r \in Recoverers :
       rc[r].pc \in {"reconcile", "commit"} /\ rc[r].k = stored =>
         \A w \in Executors : ~InFlight(w)

\* A record that claims a call did not run, or is about to, is true.
ClaimsHeld ==
  /\ \A w \in Executors :
       /\ ex[w].call \notin RetrySafe
       /\ \/ ex[w].pc = "secure"
          \/ ex[w].pc = "outcome" /\ ex[w].outcome # "executed"
       => effects[ex[w].call] = 0
  /\ \A r \in Recoverers :
       rc[r].pc = "commit" /\ rc[r].answer = "never_executed" /\ rc[r].k = stored =>
         effects[RecoveryRecord(rc[r].k).call] = 0

LInv == JInv /\ Locked /\ NoHiddenEffect /\ ClaimsHeld /\ AtMostOneEffect

-----------------------------------------------------------------------------
(***************************************************************************)
(* The pure functions: what one write does to a journal.                   *)
(***************************************************************************)

\* The record recovery works on stands at the last recoverable position.
LEMMA RecoveryRecordAt ==
  ASSUME NEW k \in Checkpoints, HasRecoveryRecord(k)
  PROVE  \E i \in Recoverable(k.execs) :
           /\ \A j \in Recoverable(k.execs) : j <= i
           /\ RecoveryRecord(k) = k.execs[i]
<1> DEFINE S == Recoverable(k.execs)
<1>1. k.execs \in Seq(Records)
  BY DEF Checkpoints
<1>2. S \in SUBSET (1 .. Len(k.execs)) /\ S # {} /\ Len(k.execs) \in Nat
  BY <1>1 DEF Recoverable, HasRecoveryRecord
<1>3. \E i \in S : \A j \in S : j <= i
  BY <1>2, LastPosition
<1> DEFINE m == CHOOSE i \in S : \A j \in S : j <= i
<1>4. m \in S /\ \A j \in S : j <= m
  BY <1>3
<1>5. RecoveryRecord(k) = k.execs[m]
  BY DEF RecoveryRecord
<1> HIDE DEF m
<1> QED
  BY <1>4, <1>5

\* In a journal with one record per call, a call's outcome is that of its record.
LEMMA OutcomeAt ==
  ASSUME NEW e, Unique(e), NEW i \in DOMAIN e
  PROVE  OutcomeOf(e, e[i].call) = e[i].outcome /\ e[i].call \in Recorded(e)
<1>1. e[i].call \in Recorded(e)
  BY DEF Recorded
<1> DEFINE m == CHOOSE j \in DOMAIN e : e[j].call = e[i].call
<1>2. m \in DOMAIN e /\ e[m].call = e[i].call
  OBVIOUS
<1>3. OutcomeOf(e, e[i].call) = e[m].outcome
  BY <1>1 DEF OutcomeOf
<1> HIDE DEF m
<1>4. m = i
  BY <1>2 DEF Unique
<1> QED
  BY <1>1, <1>3, <1>4

\* A recorded call has a position.
LEMMA PositionOf ==
  ASSUME NEW e, NEW c \in Recorded(e)
  PROVE  \E i \in DOMAIN e : e[i].call = c
BY DEF Recorded

\* Upsert keeps one record per call, enters its outcome and leaves the others.
LEMMA UpsertEffect ==
  ASSUME NEW e \in Seq(Records), Unique(e), NEW c \in Calls, NEW o \in Outcomes
  PROVE  /\ Unique(Upsert(e, c, o))
         /\ Recorded(Upsert(e, c, o)) = Recorded(e) \union {c}
         /\ OutcomeOf(Upsert(e, c, o), c) = o
         /\ \A d : d # c => OutcomeOf(Upsert(e, c, o), d) = OutcomeOf(e, d)
<1>1. PICK r : r = [call |-> c, outcome |-> o]
  OBVIOUS
<1>2. r.call = c /\ r.outcome = o /\ r \in Records
  BY <1>1 DEF Records
<1>3. PICK f : f = Upsert(e, c, o)
  OBVIOUS
<1>4. /\ DOMAIN e \subseteq DOMAIN f
      /\ \A i \in DOMAIN e : f[i] = IF e[i].call = c THEN r ELSE e[i]
      /\ \A i \in DOMAIN f \ DOMAIN e : f[i] = r /\ c \notin Recorded(e)
      /\ \A i, j \in DOMAIN f \ DOMAIN e : i = j
      /\ \E i \in DOMAIN f : f[i] = r
  <2>1. CASE c \in Recorded(e)
    <3>1. f = [i \in DOMAIN e |-> IF e[i].call = c THEN r ELSE e[i]]
      BY <1>1, <1>3, <2>1 DEF Upsert
    <3>2. \E i \in DOMAIN e : e[i].call = c
      BY <2>1, PositionOf
    <3> QED
      BY <3>1, <3>2
  <2>2. CASE c \notin Recorded(e)
    <3>1. f = Append(e, r)
      BY <1>1, <1>3, <2>2 DEF Upsert
    <3>2. /\ Len(e) \in Nat /\ DOMAIN e = 1 .. Len(e) /\ DOMAIN f = 1 .. Len(e) + 1
          /\ \A i \in DOMAIN e : f[i] = e[i]
          /\ f[Len(e) + 1] = r
      BY <1>2, <3>1
    <3>3. \A i \in DOMAIN e : e[i].call # c
      BY <2>2 DEF Recorded
    <3> QED
      BY <2>2, <3>2, <3>3
  <2> QED
    BY <2>1, <2>2
<1>5. \A i \in DOMAIN f : f[i].call # c => i \in DOMAIN e /\ f[i] = e[i]
  BY <1>2, <1>4
<1>6. \A i \in DOMAIN f : f[i].call = c => f[i] = r /\ (i \in DOMAIN e => e[i].call = c)
  BY <1>2, <1>4
<1>7. \A i \in DOMAIN e : e[i].call # c => i \in DOMAIN f /\ f[i] = e[i]
  BY <1>2, <1>4
<1>8. Unique(f)
  <2> SUFFICES ASSUME NEW i \in DOMAIN f, NEW j \in DOMAIN f, f[i].call = f[j].call
               PROVE  i = j
    BY DEF Unique
  <2>1. CASE f[i].call # c
    BY <1>5, <2>1 DEF Unique
  <2>2. CASE f[i].call = c
    <3>1. CASE i \in DOMAIN e /\ j \in DOMAIN e
      BY <1>6, <2>2, <3>1 DEF Unique
    <3>2. CASE i \notin DOMAIN e /\ j \notin DOMAIN e
      BY <1>4, <3>2
    <3>3. CASE \E a \in {i, j}, b \in {i, j} : a \in DOMAIN e /\ b \notin DOMAIN e
      <4>1. PICK a \in {i, j} : a \in DOMAIN e
        BY <3>3
      <4>2. e[a].call = c
        BY <1>6, <2>2, <4>1
      <4>3. c \notin Recorded(e)
        BY <1>4, <3>3
      <4> QED
        BY <4>1, <4>2, <4>3 DEF Recorded
    <3> QED
      BY <3>1, <3>2, <3>3
  <2> QED
    BY <2>1, <2>2
<1>9. Recorded(f) = Recorded(e) \union {c}
  <2>1. ASSUME NEW d \in Recorded(f) PROVE d \in Recorded(e) \union {c}
    BY <1>5, <2>1 DEF Recorded
  <2>2. ASSUME NEW d \in Recorded(e) PROVE d \in Recorded(f)
    <3>1. PICK i \in DOMAIN e : e[i].call = d
      BY <2>2, PositionOf
    <3>2. i \in DOMAIN f /\ f[i].call = d
      BY <1>2, <1>4, <3>1
    <3> QED
      BY <3>2 DEF Recorded
  <2>3. c \in Recorded(f)
    BY <1>2, <1>4 DEF Recorded
  <2> QED
    BY <2>1, <2>2, <2>3
<1>10. OutcomeOf(f, c) = o
  <2>1. PICK i \in DOMAIN f : f[i] = r
    BY <1>4
  <2> QED
    BY <1>2, <1>8, <2>1, OutcomeAt
<1>11. ASSUME NEW d, d # c PROVE OutcomeOf(f, d) = OutcomeOf(e, d)
  <2>1. CASE d \in Recorded(e)
    <3>1. PICK i \in DOMAIN e : e[i].call = d
      BY <2>1, PositionOf
    <3>2. i \in DOMAIN f /\ f[i] = e[i]
      BY <1>7, <1>11, <3>1
    <3>3. OutcomeOf(e, d) = e[i].outcome
      BY <3>1, OutcomeAt
    <3>4. OutcomeOf(f, d) = f[i].outcome
      BY <1>8, <3>1, <3>2, OutcomeAt
    <3> QED
      BY <3>2, <3>3, <3>4
  <2>2. CASE d \notin Recorded(e)
    BY <1>9, <1>11, <2>2 DEF OutcomeOf
  <2> QED
    BY <2>1, <2>2
<1> QED
  BY <1>3, <1>8, <1>9, <1>10, <1>11

\* An open record is the recovery record of its journal.
LEMMA OpenIsRecoveryRecord ==
  ASSUME NEW k \in Checkpoints, Shape(k), NEW c, OutcomeOf(k.execs, c) \in Open
  PROVE  /\ HasRecoveryRecord(k)
         /\ RecoveryRecord(k).call = c
         /\ RecoveryRecord(k).outcome = OutcomeOf(k.execs, c)
<1>1. c \in Recorded(k.execs)
  BY DEF OutcomeOf, Open
<1>2. PICK i \in DOMAIN k.execs : k.execs[i].call = c
  BY <1>1, PositionOf
<1>3. k.execs[i].outcome \in Open /\ k.execs[i].outcome = OutcomeOf(k.execs, c)
  BY <1>2, OutcomeAt DEF Shape
<1>4. i \in Recoverable(k.execs) /\ HasRecoveryRecord(k)
  BY <1>3 DEF Recoverable, HasRecoveryRecord, Open
<1>5. PICK j \in Recoverable(k.execs) :
        /\ \A h \in Recoverable(k.execs) : h <= j
        /\ RecoveryRecord(k) = k.execs[j]
  BY <1>4, RecoveryRecordAt
<1>6. i \in Nat /\ j \in Nat /\ j \in DOMAIN k.execs
  <2>1. DOMAIN k.execs \subseteq Nat
    BY DEF Checkpoints
  <2> QED
    BY <2>1 DEF Recoverable
<1>7. j <= i /\ i <= j
  BY <1>2, <1>3, <1>4, <1>5 DEF Shape
<1> QED
  BY <1>2, <1>3, <1>4, <1>5, <1>6, <1>7

\* The recovery record tells the outcome of its call.
LEMMA RecoveryOutcome ==
  ASSUME NEW k \in Checkpoints, Shape(k), HasRecoveryRecord(k)
  PROVE  /\ RecoveryRecord(k) \in Records
         /\ RecoveryRecord(k).call \in Recorded(k.execs)
         /\ OutcomeOf(k.execs, RecoveryRecord(k).call) = RecoveryRecord(k).outcome
         /\ RecoveryRecord(k).outcome # "cancelled_before_execution"
<1>1. PICK i \in Recoverable(k.execs) : RecoveryRecord(k) = k.execs[i]
  BY RecoveryRecordAt
<1>2. i \in DOMAIN k.execs /\ k.execs[i].outcome # "cancelled_before_execution"
  BY DEF Recoverable
<1> QED
  BY <1>1, <1>2, OutcomeAt, RecoveryRecordType DEF Shape

\* A call whose outcome is open, or that recovery works on, may be rewritten.
LEMMA RewriteKeepsShape ==
  ASSUME NEW k \in Checkpoints, Shape(k), HasRecoveryRecord(k),
         NEW b \in Boundaries, NEW o \in Outcomes,
         o \in Open => b \in {"ready_for_tool", "reconciling_tool"}
  PROVE  Shape(WithRecord(k, b, RecoveryRecord(k).call, o))
<1>1. PICK p \in Recoverable(k.execs) :
        /\ \A j \in Recoverable(k.execs) : j <= p
        /\ RecoveryRecord(k) = k.execs[p]
  BY RecoveryRecordAt
<1>2. PICK e : e = k.execs
  OBVIOUS
<1>3. PICK c : c = e[p].call
  OBVIOUS
<1>4. e \in Seq(Records) /\ DOMAIN e \subseteq Nat /\ p \in DOMAIN e /\ c \in Calls
  <2>1. e \in Seq(Records)
    BY <1>2 DEF Checkpoints
  <2>2. DOMAIN e = 1 .. Len(e) /\ Len(e) \in Nat
    BY <2>1
  <2>3. p \in DOMAIN e
    BY <1>2 DEF Recoverable
  <2>4. e[p] \in Records
    BY <2>1, <2>2, <2>3
  <2> QED
    BY <1>3, <2>1, <2>2, <2>3, <2>4 DEF Records
<1>5. PICK f : f = Upsert(e, c, o)
  OBVIOUS
<1>6. /\ DOMAIN f = DOMAIN e
      /\ f[p].outcome = o
      /\ \A i \in DOMAIN f : i # p => f[i] = e[i]
  <2>1. c \in Recorded(e)
    BY <1>3, <1>4 DEF Recorded
  <2>2. f = [i \in DOMAIN e |-> IF e[i].call = c THEN [call |-> c, outcome |-> o] ELSE e[i]]
    BY <1>5, <2>1 DEF Upsert
  <2>3. \A i \in DOMAIN e : e[i].call = c => i = p
    BY <1>2, <1>3, <1>4 DEF Shape, Unique
  <2> QED
    BY <1>3, <1>4, <2>2, <2>3
<1>7. PICK n : n = WithRecord(k, b, RecoveryRecord(k).call, o)
  OBVIOUS
<1>8. n.execs = f /\ n.boundary = b
  BY <1>1, <1>2, <1>3, <1>5, <1>7 DEF WithRecord, Checkpoints
<1>9. Unique(f)
  BY <1>2, <1>4, <1>5, UpsertEffect DEF Shape
<1>10. ASSUME NEW i \in DOMAIN f, f[i].outcome \in Open
       PROVE  /\ b \in {"ready_for_tool", "reconciling_tool"}
              /\ \A j \in Recoverable(f) : j <= i
  <2>1. i = p
    <3>1. SUFFICES ASSUME i # p PROVE FALSE
      OBVIOUS
    <3>2. e[i].outcome \in Open
      BY <1>6, <1>10, <3>1
    <3>3. i \in Recoverable(e) /\ p <= i
      BY <1>1, <1>2, <1>6, <3>2 DEF Shape, Recoverable, Open
    <3>4. i <= p
      BY <1>1, <1>2, <3>3
    <3> QED
      BY <1>4, <1>6, <3>1, <3>3, <3>4
  <2>2. o \in Open
    BY <1>6, <1>10, <2>1
  <2>3. ASSUME NEW j \in Recoverable(f) PROVE j <= i
    <3>1. j \in DOMAIN e /\ (j = p \/ j \in Recoverable(e))
      BY <1>6 DEF Recoverable
    <3> QED
      BY <1>1, <1>2, <1>4, <2>1, <3>1
  <2> QED
    BY <2>2, <2>3
<1> QED
  BY <1>7, <1>8, <1>9, <1>10 DEF Shape

\* The driver asks for a call only when no record is open, and the call itself
\* is new or known not to have run.
LEMMA MayRunClosed ==
  ASSUME NEW k \in Checkpoints, Shape(k), NEW c \in Calls, MayRun(k, c)
  PROVE  /\ \A i \in DOMAIN k.execs : k.execs[i].outcome \notin Open
         /\ OutcomeOf(k.execs, c) \in {"absent", "never_executed"}
         /\ OutcomeOf(k.execs, c) = "absent" <=> c \notin Recorded(k.execs)
         /\ k.boundary \notin {"reconciling_tool", "completed"}
<1>1. CASE k.boundary \in {"ready_for_llm", "ready_for_next_step"} /\ c \notin Recorded(k.execs)
  BY <1>1 DEF Shape, OutcomeOf
<1>2. CASE /\ k.boundary \in {"ready_for_tool", "waiting_approval"}
           /\ HasRecoveryRecord(k)
           /\ RecoveryRecord(k) = [call |-> c, outcome |-> "never_executed"]
  <2>1. PICK r : r = RecoveryRecord(k)
    OBVIOUS
  <2>2. r.call = c /\ r.outcome = "never_executed"
    BY <1>2, <2>1
  <2>3. c \in Recorded(k.execs) /\ OutcomeOf(k.execs, c) = "never_executed"
    BY <1>2, <2>1, <2>2, RecoveryOutcome
  <2>4. ASSUME NEW i \in DOMAIN k.execs, k.execs[i].outcome \in Open PROVE FALSE
    <3>1. OutcomeOf(k.execs, k.execs[i].call) \in Open
      BY <2>4, OutcomeAt DEF Shape
    <3>2. r.outcome \in Open
      BY <2>1, <3>1, OpenIsRecoveryRecord
    <3> QED
      BY <2>2, <3>2 DEF Open
  <2> QED
    BY <1>2, <2>3, <2>4
<1> QED
  BY <1>1, <1>2 DEF MayRun

\* Entering an intent opens the one record of the journal.
LEMMA IntentKeepsShape ==
  ASSUME NEW k \in Checkpoints, Shape(k), NEW c \in Calls, MayRun(k, c)
  PROVE  Shape(WithRecord(k, "ready_for_tool", c, "started"))
<1>1. "ready_for_tool" \in Boundaries /\ "started" \in Outcomes
  BY DEF Boundaries, Outcomes
<1>2. CASE c \notin Recorded(k.execs)
  <2>1. PICK e : e = k.execs
    OBVIOUS
  <2>2. PICK r : r = [call |-> c, outcome |-> "started"]
    OBVIOUS
  <2>3. e \in Seq(Records) /\ r \in Records
    BY <1>1, <2>1, <2>2 DEF Checkpoints, Records
  <2>4. PICK f : f = Append(e, r)
    OBVIOUS
  <2>5. /\ Len(e) \in Nat /\ DOMAIN e = 1 .. Len(e) /\ DOMAIN f = 1 .. Len(e) + 1
        /\ \A i \in DOMAIN e : f[i] = e[i]
    BY <2>3, <2>4
  <2>6. PICK n : n = WithRecord(k, "ready_for_tool", c, "started")
    OBVIOUS
  <2>7. f = Upsert(e, c, "started")
    BY <1>2, <2>1, <2>2, <2>4 DEF Upsert
  <2>8. n.execs = f /\ n.boundary = "ready_for_tool"
    BY <2>1, <2>6, <2>7 DEF WithRecord, Checkpoints
  <2>9. Unique(f)
    BY <1>1, <2>1, <2>3, <2>7, UpsertEffect DEF Shape
  <2>10. \A i \in DOMAIN e : e[i].outcome \notin Open
    BY <2>1, MayRunClosed
  <2>11. \A i \in DOMAIN f : f[i].outcome \in Open => i = Len(e) + 1
    BY <2>5, <2>10
  <2>12. \A j \in Recoverable(f) : j <= Len(e) + 1
    BY <2>5 DEF Recoverable
  <2> QED
    BY <2>6, <2>8, <2>9, <2>11, <2>12 DEF Shape
<1>3. CASE c \in Recorded(k.execs)
  <2>1. /\ HasRecoveryRecord(k)
        /\ RecoveryRecord(k) = [call |-> c, outcome |-> "never_executed"]
    BY <1>3 DEF MayRun
  <2>2. PICK r : r = RecoveryRecord(k)
    OBVIOUS
  <2>3. r.call = c
    BY <2>1, <2>2
  <2> QED
    BY <1>1, <2>1, <2>2, <2>3, RewriteKeepsShape
<1> QED
  BY <1>2, <1>3

-----------------------------------------------------------------------------
(***************************************************************************)
(* What a step may do to the stored checkpoint.                            *)
(***************************************************************************)
EntersIntent(c) ==
  /\ MayRun(stored, c)
  /\ stored' = Saved(WithRecord(stored, "ready_for_tool", c, "started"))

EntersOutcome(c, o) ==
  /\ stored.boundary = "ready_for_tool"
  /\ OutcomeOf(stored.execs, c) = "started"
  /\ o # "started"
  /\ o = "unknown" => SideEffect[c] = "external_side_effect"
  /\ o = "executed" => effects[c] > 0
  /\ stored' = Saved(WithRecord(stored, BoundaryOf(o), c, o))

EntersResolution(a) ==
  /\ stored.boundary # "completed"
  /\ HasRecoveryRecord(stored)
  /\ LET rec == RecoveryRecord(stored)
     IN /\ a # "none" => PlanRecovery(rec.call, rec.outcome) = "reconcile"
        /\ a = "executed" => effects[rec.call] > 0
  /\ stored' = Saved(Resolved(stored, a))

StoreStep ==
  \/ UNCHANGED stored
  \/ \E c \in Calls : EntersIntent(c)
  \/ \E c \in Calls, o \in Outcomes : EntersOutcome(c, o)
  \/ \E a \in Answers \union {"none"} : EntersResolution(a)
  \/ CompleteRun

\* The operators of the abstract journal are those of Checkpoint.
LEMMA JournalOps ==
  /\ \A e, c : Journal!OutcomeOf(e, c) = OutcomeOf(e, c)
  /\ \A k, b, c, o : Journal!WithRecord(k, b, c, o) = WithRecord(k, b, c, o)
  /\ \A k : Journal!HasRecoveryRecord(k) <=> HasRecoveryRecord(k)
  /\ \A k : Journal!RecoveryRecord(k) = RecoveryRecord(k)
<1>1. \A e, c : Journal!OutcomeOf(e, c) = OutcomeOf(e, c)
  BY DEF Journal!OutcomeOf, OutcomeOf, Journal!Recorded, Recorded
<1>2. \A k, b, c, o : Journal!WithRecord(k, b, c, o) = WithRecord(k, b, c, o)
  BY DEF Journal!WithRecord, WithRecord, Journal!Upsert, Upsert, Journal!Recorded, Recorded
<1>3. \A k : Journal!HasRecoveryRecord(k) <=> HasRecoveryRecord(k)
  BY DEF Journal!HasRecoveryRecord, HasRecoveryRecord, Journal!Recoverable, Recoverable
<1>4. \A k : Journal!RecoveryRecord(k) = RecoveryRecord(k)
  BY DEF Journal!RecoveryRecord, RecoveryRecord, Journal!Recoverable, Recoverable
<1> QED
  BY <1>1, <1>2, <1>3, <1>4

\* A save of the stored checkpoint with one record is a write of the journal.
LEMMA SaveIsWrite ==
  ASSUME stored \in Checkpoints, NEW b \in Boundaries, NEW c \in Calls, NEW o \in Outcomes,
         stored' = Saved(WithRecord(stored, b, c, o))
  PROVE  Journal!Write(b, c, o)
<1>1. PICK n : n = WithRecord(stored, b, c, o)
  OBVIOUS
<1>2. n.version = stored.version
  BY <1>1, WithRecordType
<1> QED
  BY <1>1, <1>2, JournalOps DEF Journal!Write, Saved

\* save() leaves the journal's records and boundary alone.
LEMMA SavedFields ==
  ASSUME NEW k \in Checkpoints
  PROVE  Saved(k).boundary = k.boundary /\ Saved(k).execs = k.execs
BY DEF Saved, Checkpoints

LEMMA SavedShape ==
  ASSUME NEW k \in Checkpoints, Shape(k)
  PROVE  Shape(Saved(k))
BY SavedFields DEF Shape

\* What applyResolution may decide.
LEMMA ResolutionCases ==
  ASSUME NEW c \in Calls, NEW o \in Outcomes, o # "cancelled_before_execution",
         NEW a \in Answers \union {"none"},
         a # "none" => PlanRecovery(c, o) = "reconcile",
         NEW s, s = Resolution(c, o, a)
  PROVE  \/ /\ s.outcome = "executed" /\ s.boundary = "ready_for_next_step"
            /\ o = "executed" \/ (a = "executed" /\ o \in Open /\ c \in CanReconcile)
         \/ /\ s.outcome = "never_executed" /\ s.boundary = "ready_for_tool"
            /\ \/ a = "never_executed" /\ o \in Open /\ c \in CanReconcile
               \/ o \in {"never_executed", "failed"} /\ c \in RetrySafe
               \/ o \in Open /\ SideEffect[c] = "none" /\ c \in RetrySafe
         \/ /\ s.boundary = "reconciling_tool" /\ o # "executed"
            /\ s.outcome = o \/ (s.outcome = "unknown" /\ o \in Open)
<1>1. PICK plan : plan = PlanRecovery(c, o)
  OBVIOUS
<1>2. /\ plan = "skip" <=> o = "executed"
      /\ plan = "reconcile" => o \in Open /\ c \in CanReconcile
      /\ plan = "retry" => \/ o \in {"never_executed", "failed"} /\ c \in RetrySafe
                           \/ o \in Open /\ SideEffect[c] = "none" /\ c \in RetrySafe
  BY <1>1 DEF PlanRecovery, Outcomes, Open
<1>3. s = CASE a = "executed" \/ plan = "skip" ->
                 [status |-> "advanced", boundary |-> "ready_for_next_step",
                  outcome |-> "executed"]
            [] a = "never_executed" \/ plan = "retry" ->
                 [status |-> "retry_required", boundary |-> "ready_for_tool",
                  outcome |-> "never_executed"]
            [] OTHER ->
                 [status |-> "suspended", boundary |-> "reconciling_tool",
                  outcome |-> IF a = "unknown" THEN "unknown" ELSE o]
  BY <1>1 DEF Resolution
<1>4. CASE a = "executed" \/ plan = "skip"
  BY <1>1, <1>2, <1>3, <1>4
<1>5. CASE ~(a = "executed" \/ plan = "skip") /\ (a = "never_executed" \/ plan = "retry")
  BY <1>1, <1>2, <1>3, <1>5
<1>6. CASE ~(a = "executed" \/ plan = "skip") /\ ~(a = "never_executed" \/ plan = "retry")
  BY <1>1, <1>2, <1>3, <1>6
<1> QED
  BY <1>4, <1>5, <1>6

\* Whatever a step stores has the shape, and the abstract journal could have
\* written it in one step.
LEMMA StoreStepIsJournalStep ==
  ASSUME stored \in Checkpoints, Shape(stored), StoreStep
  PROVE  Shape(stored') /\ [Journal!Next]_stored
<1>0. /\ "ready_for_tool" \in Boundaries /\ "waiting_approval" \in Boundaries
      /\ "reconciling_tool" \in Boundaries /\ "ready_for_next_step" \in Boundaries
      /\ "started" \in Outcomes /\ \A o : BoundaryOf(o) \in Boundaries
  BY DEF Boundaries, Outcomes, BoundaryOf
<1>1. ASSUME NEW c \in Calls, EntersIntent(c)
      PROVE  Shape(stored') /\ Journal!Next
  <2>1. PICK n : n = WithRecord(stored, "ready_for_tool", c, "started")
    OBVIOUS
  <2>2. n \in Checkpoints /\ Shape(n)
    BY <1>0, <1>1, <2>1, WithRecordType, IntentKeepsShape DEF EntersIntent
  <2>3. Shape(stored')
    BY <1>1, <2>1, <2>2, SavedShape DEF EntersIntent
  <2>4. /\ stored.boundary \notin {"reconciling_tool", "completed"}
        /\ OutcomeOf(stored.execs, c) \notin {"started", "unknown", "executed"}
    BY <1>1, MayRunClosed DEF EntersIntent
  <2>5. Journal!Write("ready_for_tool", c, "started")
    BY <1>0, <1>1, SaveIsWrite DEF EntersIntent
  <2>6. Journal!Intend(c)
    BY <2>4, <2>5, JournalOps DEF Journal!Intend
  <2> QED
    BY <2>3, <2>6 DEF Journal!Next
<1>2. ASSUME NEW c \in Calls, NEW o \in Outcomes, EntersOutcome(c, o)
      PROVE  Shape(stored') /\ Journal!Next
  <2>1. PICK n : n = WithRecord(stored, BoundaryOf(o), c, o)
    OBVIOUS
  <2>2. OutcomeOf(stored.execs, c) \in Open
    BY <1>2 DEF EntersOutcome, Open
  <2>3. HasRecoveryRecord(stored) /\ RecoveryRecord(stored).call = c
    BY <2>2, OpenIsRecoveryRecord
  <2>4. o \in Open => BoundaryOf(o) \in {"ready_for_tool", "reconciling_tool"}
    BY <1>2 DEF Open, BoundaryOf, EntersOutcome
  <2>5. n \in Checkpoints /\ Shape(n)
    BY <1>0, <2>1, <2>3, <2>4, WithRecordType, RewriteKeepsShape
  <2>6. Shape(stored')
    BY <1>2, <2>1, <2>5, SavedShape DEF EntersOutcome
  <2>7. Journal!Write(BoundaryOf(o), c, o)
    BY <1>0, <1>2, SaveIsWrite DEF EntersOutcome
  <2>8. \/ o \in {"executed", "cancelled_before_execution", "failed"}
           /\ BoundaryOf(o) = "ready_for_next_step"
        \/ o = "never_executed" /\ BoundaryOf(o) = "waiting_approval"
        \/ o = "unknown" /\ BoundaryOf(o) = "reconciling_tool"
    BY <1>2 DEF BoundaryOf, Outcomes, EntersOutcome
  <2>9. Journal!Settle(c)
    BY <1>2, <2>7, <2>8, JournalOps DEF Journal!Settle, EntersOutcome
  <2> QED
    BY <2>6, <2>9 DEF Journal!Next
<1>3. ASSUME NEW a \in Answers \union {"none"}, EntersResolution(a)
      PROVE  Shape(stored') /\ Journal!Next
  <2>1. PICK r : r = RecoveryRecord(stored)
    OBVIOUS
  <2>2. PICK s : s = Resolution(r.call, r.outcome, a)
    OBVIOUS
  <2>3. r.call \in Calls /\ r.outcome \in Outcomes /\ r.outcome # "cancelled_before_execution"
    BY <1>3, <2>1, RecoveryOutcome DEF EntersResolution, Records
  <2>4. \/ /\ s.outcome = "executed" /\ s.boundary = "ready_for_next_step"
           /\ r.outcome = "executed" \/ (r.outcome \in Open /\ r.call \in CanReconcile)
        \/ /\ s.outcome = "never_executed" /\ s.boundary = "ready_for_tool"
           /\ \/ r.outcome \in Open /\ r.call \in CanReconcile
              \/ r.outcome \in {"never_executed", "failed"} /\ r.call \in RetrySafe
              \/ r.outcome \in Open /\ SideEffect[r.call] = "none"
        \/ /\ s.boundary = "reconciling_tool" /\ r.outcome # "executed"
           /\ s.outcome = r.outcome \/ (s.outcome = "unknown" /\ r.outcome \in Open)
    BY <1>3, <2>1, <2>2, <2>3, ResolutionCases DEF EntersResolution
  <2>5. /\ s.boundary \in Boundaries /\ s.outcome \in Outcomes
        /\ s.outcome \in Open => s.boundary \in {"ready_for_tool", "reconciling_tool"}
    BY <1>0, <2>3, <2>4 DEF Outcomes, Open
  <2>6. stored' = Saved(WithRecord(stored, s.boundary, r.call, s.outcome))
    BY <1>3, <2>1, <2>2 DEF EntersResolution, Resolved
  <2>7. Shape(WithRecord(stored, s.boundary, r.call, s.outcome))
    BY <1>3, <2>1, <2>5, RewriteKeepsShape DEF EntersResolution
  <2>8. Shape(stored')
    BY <2>3, <2>5, <2>6, <2>7, WithRecordType, SavedShape
  <2>9. Journal!Write(s.boundary, r.call, s.outcome)
    BY <2>3, <2>5, <2>6, SaveIsWrite
  <2>10. Journal!Recover(r.call)
    <3>1. /\ stored.boundary # "completed"
          /\ Journal!HasRecoveryRecord(stored) /\ Journal!RecoveryRecord(stored) = r
      BY <1>3, <2>1, JournalOps DEF EntersResolution
    <3> QED
      BY <2>4, <2>9, <3>1 DEF Journal!Recover, Open
  <2> QED
    BY <2>3, <2>8, <2>10 DEF Journal!Next
<1>4. CASE CompleteRun
  <2>1. stored.boundary = "ready_for_next_step"
        /\ stored' = Saved([stored EXCEPT !.boundary = "completed"])
    BY <1>4 DEF CompleteRun
  <2>2. PICK n : n = [stored EXCEPT !.boundary = "completed"]
    OBVIOUS
  <2>3. n \in Checkpoints /\ n.execs = stored.execs
    BY <2>2 DEF Checkpoints, Boundaries
  <2>4. Shape(n)
    BY <2>1, <2>3 DEF Shape
  <2>5. Shape(stored')
    BY <2>1, <2>2, <2>3, <2>4, SavedShape
  <2>6. Journal!Complete
    BY <2>1 DEF Journal!Complete, Saved, Checkpoints
  <2> QED
    BY <2>5, <2>6 DEF Journal!Next
<1>5. CASE UNCHANGED stored
  BY <1>5
<1> QED
  BY <1>1, <1>2, <1>3, <1>4, <1>5 DEF StoreStep

-----------------------------------------------------------------------------
(***************************************************************************)
(* JInv is inductive.                                                      *)
(***************************************************************************)

\* Effects are never undone.
Grows ==
  /\ effects' \in [Calls -> Nat]
  /\ \A c \in Calls : effects'[c] >= effects[c]

\* A save of one record sets the outcome of its call and no other.
LEMMA OutcomeAfter ==
  ASSUME NEW k \in Checkpoints, Unique(k.execs),
         NEW b \in Boundaries, NEW c \in Calls, NEW o \in Outcomes,
         NEW n, n = Saved(WithRecord(k, b, c, o))
  PROVE  /\ OutcomeOf(n.execs, c) = o
         /\ \A d : d # c => OutcomeOf(n.execs, d) = OutcomeOf(k.execs, d)
         /\ Recorded(n.execs) = Recorded(k.execs) \union {c}
<1>1. WithRecord(k, b, c, o) \in Checkpoints
  BY WithRecordType
<1>2. n.execs = Upsert(k.execs, c, o)
  BY <1>1, SavedFields DEF WithRecord, Checkpoints
<1>3. k.execs \in Seq(Records)
  BY DEF Checkpoints
<1> QED
  BY <1>2, <1>3, UpsertEffect

LEMMA ExecutedStaysReal ==
  ASSUME TypeOK, Shape(stored), ExecutedIsReal, StoreStep, Grows
  PROVE  ExecutedIsReal'
<1>0. /\ stored \in Checkpoints
      /\ \A c \in Calls : effects[c] \in Nat
      /\ \A c \in Calls : effects'[c] \in Nat /\ effects'[c] >= effects[c]
      /\ \A o : BoundaryOf(o) \in Boundaries
      /\ Unique(stored.execs)
  BY DEF TypeOK, Grows, BoundaryOf, Boundaries, Shape
<1>1. SUFFICES ASSUME NEW d \in Calls, OutcomeOf(stored'.execs, d) = "executed"
               PROVE  OutcomeOf(stored.execs, d) = "executed" \/ effects[d] > 0
  BY <1>0 DEF ExecutedIsReal, TypeOK
<1>2. ASSUME NEW c \in Calls, EntersIntent(c)
      PROVE  OutcomeOf(stored.execs, d) = "executed"
  <2>1. "ready_for_tool" \in Boundaries /\ "started" \in Outcomes
    BY DEF Boundaries, Outcomes
  <2>2. stored' = Saved(WithRecord(stored, "ready_for_tool", c, "started"))
    BY <1>2 DEF EntersIntent
  <2> QED
    BY <1>0, <1>1, <2>1, <2>2, OutcomeAfter
<1>3. ASSUME NEW c \in Calls, NEW o \in Outcomes, EntersOutcome(c, o)
      PROVE  OutcomeOf(stored.execs, d) = "executed" \/ effects[d] > 0
  <2>1. /\ stored' = Saved(WithRecord(stored, BoundaryOf(o), c, o))
        /\ o = "executed" => effects[c] > 0
    BY <1>3 DEF EntersOutcome
  <2> QED
    BY <1>0, <1>1, <2>1, OutcomeAfter
<1>4. ASSUME NEW a \in Answers \union {"none"}, EntersResolution(a)
      PROVE  OutcomeOf(stored.execs, d) = "executed" \/ effects[d] > 0
  <2>1. PICK r : r = RecoveryRecord(stored)
    OBVIOUS
  <2>2. PICK s : s = Resolution(r.call, r.outcome, a)
    OBVIOUS
  <2>3. /\ r.call \in Calls /\ r.outcome \in Outcomes /\ r.outcome # "cancelled_before_execution"
        /\ OutcomeOf(stored.execs, r.call) = r.outcome
        /\ a # "none" => PlanRecovery(r.call, r.outcome) = "reconcile"
        /\ a = "executed" => effects[r.call] > 0
    BY <1>0, <1>4, <2>1, RecoveryOutcome DEF EntersResolution, Records
  <2>4. /\ s.boundary \in Boundaries /\ s.outcome \in Outcomes
        /\ s.outcome = "executed" => r.outcome = "executed" \/ a = "executed"
    BY <2>2, <2>3, ResolutionCases DEF Outcomes, Boundaries, Open
  <2>5. stored' = Saved(WithRecord(stored, s.boundary, r.call, s.outcome))
    BY <1>4, <2>1, <2>2 DEF EntersResolution, Resolved
  <2>6. PICK c \in Calls, b \in Boundaries, o \in Outcomes :
          c = r.call /\ b = s.boundary /\ o = s.outcome
    BY <2>3, <2>4
  <2>7. stored' = Saved(WithRecord(stored, b, c, o))
    BY <2>5, <2>6
  <2>8. /\ OutcomeOf(stored'.execs, c) = o
        /\ d # c => OutcomeOf(stored'.execs, d) = OutcomeOf(stored.execs, d)
    BY <1>0, <2>7, OutcomeAfter
  <2> QED
    BY <1>1, <2>3, <2>4, <2>6, <2>8
<1>5. CASE CompleteRun
  <2>1. [stored EXCEPT !.boundary = "completed"] \in Checkpoints
    BY <1>0 DEF Checkpoints, Boundaries
  <2>2. stored'.execs = stored.execs
    BY <1>0, <1>5, <2>1, SavedFields DEF CompleteRun, Checkpoints
  <2> QED
    BY <1>1, <2>2
<1>6. CASE UNCHANGED stored
  BY <1>1, <1>6
<1> QED
  BY <1>2, <1>3, <1>4, <1>5, <1>6 DEF StoreStep

\* A worker or recoverer that does not move keeps what it knows.
LEMMA IntentKept ==
  ASSUME TypeOK, Grows, NEW w \in Executors, IntentHeld(w),
         ex'[w] = ex[w], cache'[w] = cache[w]
  PROVE  IntentHeld(w)'
<1>1. /\ \A c \in Calls : effects[c] \in Nat
      /\ \A c \in Calls : effects'[c] \in Nat /\ effects'[c] >= effects[c]
      /\ ex[w].call \in Calls /\ cache[w] \subseteq Calls
  BY DEF TypeOK, Grows, ExecutorStates
<1> QED
  BY <1>1 DEF IntentHeld, InFlight

LEMMA PlanKept ==
  ASSUME IInv, Grows, NEW r \in Recoverers, PlanHeld(r), rc'[r] = rc[r]
  PROVE  PlanHeld(r)'
<1>1. SUFFICES ASSUME rc[r].pc \in {"reconcile", "commit"} PROVE PlanHeld(r)'
  BY DEF PlanHeld
<1>2. rc[r].k \in Checkpoints /\ HasRecoveryRecord(rc[r].k)
  BY <1>1 DEF IInv, TypeOK, HasWork, RecovererStates
<1>3. PICK rec : rec = RecoveryRecord(rc[r].k)
  OBVIOUS
<1>4. rec.call \in Calls
  BY <1>2, <1>3, RecoveryRecordType DEF Records
<1>5. /\ effects[rec.call] \in Nat /\ effects'[rec.call] \in Nat
      /\ effects'[rec.call] >= effects[rec.call]
  BY <1>4 DEF IInv, TypeOK, Grows
<1>6. effects[rec.call] > 0 => effects'[rec.call] > 0
  BY <1>5
<1> QED
  BY <1>3, <1>6 DEF PlanHeld

\* What a step of one worker must be shown to do.
WorkerStep(w) ==
  /\ \A v \in Executors \ {w} : ex'[v] = ex[v] /\ cache'[v] = cache[v]
  /\ IntentHeld(w)'
  /\ UNCHANGED rc
  /\ Grows
  /\ StoreStep

LEMMA ContinueHeld ==
  ASSUME JInv, NEW w \in Executors, InFlight(w),
         NEW pc \in {"audit", "audit_failed", "outcome", "catch"}, NEW o \in Outcomes,
         Continue(w, pc, o), UNCHANGED <<stored, rc>>, Grows,
         \A v \in Executors \ {w} : cache'[v] = cache[v],
         \A c \in cache'[w] : c \in Calls /\ effects'[c] > 0,
         pc = "audit" => effects'[ex[w].call] > 0,
         pc = "outcome" => /\ o \in {"executed", "never_executed", "cancelled_before_execution"}
                           /\ o = "executed" => effects'[ex[w].call] > 0,
         pc \in {"audit_failed", "catch"} =>
           /\ o \in {"failed", "unknown"}
           /\ o = "unknown" => SideEffect[ex[w].call] = "external_side_effect"
  PROVE  WorkerStep(w)
<1>1. /\ ex \in [Executors -> ExecutorStates] /\ ex[w] \in ExecutorStates
  BY DEF JInv, IInv, TypeOK
<1>2. /\ \A v \in Executors \ {w} : ex'[v] = ex[v]
      /\ ex'[w].pc = pc /\ ex'[w].outcome = o
      /\ ex'[w].k = ex[w].k /\ ex'[w].call = ex[w].call
  BY <1>1 DEF Continue, ExecutorStates
<1>3. ex[w].k.boundary = "ready_for_tool" /\ OutcomeOf(ex[w].k.execs, ex[w].call) = "started"
  BY DEF JInv, IntentHeld
<1>4. IntentHeld(w)'
  BY <1>2, <1>3 DEF IntentHeld, InFlight
<1> QED
  BY <1>2, <1>4 DEF WorkerStep, StoreStep

LEMMA ReturnHeld ==
  ASSUME JInv, NEW w \in Executors, ex' = [ex EXCEPT ![w] = IdleExecutor],
         \A v \in Executors \ {w} : cache'[v] = cache[v],
         cache'[w] \subseteq cache[w],
         UNCHANGED <<rc, effects>>, StoreStep
  PROVE  WorkerStep(w)
<1>1. /\ ex \in [Executors -> ExecutorStates]
      /\ effects \in [Calls -> Nat]
      /\ \A c \in cache[w] : effects[c] > 0
  BY DEF JInv, IInv, TypeOK, IntentHeld
<1>2. /\ \A v \in Executors \ {w} : ex'[v] = ex[v]
      /\ ex'[w].pc = "idle"
  BY <1>1 DEF IdleExecutor
<1>3. IntentHeld(w)'
  BY <1>1, <1>2 DEF IntentHeld, InFlight
<1>4. Grows
  BY <1>1 DEF Grows
<1> QED
  BY <1>2, <1>3, <1>4 DEF WorkerStep

LEMMA FailureOutcomeHeld ==
  \A c, kind : /\ FailureOutcome(c, kind) \in {"failed", "unknown"}
               /\ FailureOutcome(c, kind) = "unknown" => SideEffect[c] = "external_side_effect"
BY DEF FailureOutcome

\* The steps of a worker that write nothing.
LEMMA LocalStepHeld ==
  ASSUME JInv, NEW w \in Executors,
         Refuse(w) \/ ThrowEarly(w) \/ ReturnCached(w) \/ HandlerReturns(w)
         \/ HandlerThrows(w) \/ Audit(w) \/ AuditFailed(w)
  PROVE  WorkerStep(w)
<1>0. /\ ex[w].call \in Calls /\ ex[w].outcome \in Outcomes
      /\ effects \in [Calls -> Nat] /\ cache \in [Executors -> SUBSET Calls]
      /\ cache[w] \subseteq Calls
      /\ \A c \in cache[w] : c \in Calls /\ effects[c] > 0
      /\ "executed" \in Outcomes /\ "failed" \in Outcomes /\ "unknown" \in Outcomes
      /\ "never_executed" \in Outcomes /\ "cancelled_before_execution" \in Outcomes
  BY DEF JInv, IInv, TypeOK, ExecutorStates, IntentHeld, Outcomes
<1>1. effects' = effects => Grows
  BY <1>0 DEF Grows
<1>2. CASE Refuse(w)
  <2>1. PICK o \in {"cancelled_before_execution", "never_executed"} : Continue(w, "outcome", o)
    BY <1>2 DEF Refuse
  <2>2. InFlight(w) /\ UNCHANGED <<stored, cache, rc, effects>>
    BY <1>2 DEF Refuse, InFlight
  <2> QED
    BY <1>0, <1>1, <2>1, <2>2, ContinueHeld
<1>3. CASE ThrowEarly(w)
  <2>1. PICK o \in Outcomes : /\ Continue(w, "catch", o) /\ o \in {"failed", "unknown"}
                              /\ o = "unknown" => SideEffect[ex[w].call] = "external_side_effect"
    BY <1>0, <1>3, FailureOutcomeHeld DEF ThrowEarly
  <2>2. InFlight(w) /\ UNCHANGED <<stored, cache, rc, effects>>
    BY <1>3 DEF ThrowEarly, InFlight
  <2> QED
    BY <1>0, <1>1, <2>1, <2>2, ContinueHeld
<1>4. CASE ReturnCached(w)
  <2>1. Continue(w, "outcome", "executed") /\ effects[ex[w].call] > 0
    BY <1>0, <1>4 DEF ReturnCached
  <2>2. InFlight(w) /\ UNCHANGED <<stored, cache, rc, effects>>
    BY <1>4 DEF ReturnCached, InFlight
  <2> QED
    BY <1>0, <1>1, <2>1, <2>2, ContinueHeld
<1>5. CASE HandlerReturns(w)
  <2>1. /\ InFlight(w) /\ UNCHANGED <<stored, rc>> /\ Continue(w, "audit", "executed")
        /\ effects' = [effects EXCEPT ![ex[w].call] = @ + 1]
        /\ cache' = [cache EXCEPT ![w] = @ \union {ex[w].call}]
    BY <1>5 DEF HandlerReturns, InFlight
  <2>2. Grows /\ effects'[ex[w].call] > 0
    BY <1>0, <2>1 DEF Grows
  <2>3. /\ \A v \in Executors \ {w} : cache'[v] = cache[v]
        /\ cache'[w] = cache[w] \union {ex[w].call}
    BY <1>0, <2>1
  <2>4. \A c \in cache'[w] : c \in Calls /\ effects'[c] > 0
    BY <1>0, <2>2, <2>3 DEF Grows
  <2> QED
    BY <1>0, <2>1, <2>2, <2>3, <2>4, ContinueHeld
<1>6. CASE HandlerThrows(w)
  <2>1. PICK o \in Outcomes : /\ Continue(w, "audit_failed", o) /\ o \in {"failed", "unknown"}
                              /\ o = "unknown" => SideEffect[ex[w].call] = "external_side_effect"
    BY <1>0, <1>6, FailureOutcomeHeld DEF HandlerThrows
  <2>2. InFlight(w) /\ UNCHANGED <<stored, cache, rc>>
    BY <1>6 DEF HandlerThrows, InFlight
  <2>3. Grows
    BY <1>0, <1>6 DEF HandlerThrows, Grows
  <2>4. \A c \in cache'[w] : c \in Calls /\ effects'[c] > 0
    BY <1>0, <2>2, <2>3 DEF Grows
  <2> QED
    BY <1>0, <2>1, <2>2, <2>3, <2>4, ContinueHeld
<1>7. CASE Audit(w)
  <2>1. InFlight(w) /\ UNCHANGED <<stored, cache, rc, effects>> /\ effects[ex[w].call] > 0
    BY <1>7 DEF Audit, InFlight, JInv, IntentHeld
  <2>2. CASE Continue(w, "outcome", "executed")
    BY <1>0, <1>1, <2>1, <2>2, ContinueHeld
  <2>3. CASE \E kind \in ErrorKinds :
               Continue(w, "audit_failed", FailureOutcome(ex[w].call, kind))
    <3>1. PICK o \in Outcomes : /\ Continue(w, "audit_failed", o) /\ o \in {"failed", "unknown"}
                                /\ o = "unknown" => SideEffect[ex[w].call] = "external_side_effect"
      BY <1>0, <2>3, FailureOutcomeHeld
    <3> QED
      BY <1>0, <1>1, <2>1, <3>1, ContinueHeld
  <2> QED
    BY <1>7, <2>2, <2>3 DEF Audit
<1>8. CASE AuditFailed(w)
  <2>1. InFlight(w) /\ UNCHANGED <<stored, cache, rc, effects>>
    BY <1>8 DEF AuditFailed, InFlight
  <2>2. /\ ex[w].outcome \in {"failed", "unknown"}
        /\ ex[w].outcome = "unknown" => SideEffect[ex[w].call] = "external_side_effect"
    BY <1>8 DEF AuditFailed, JInv, IntentHeld
  <2>3. PICK o \in Outcomes : /\ Continue(w, "catch", o) /\ o \in {"failed", "unknown"}
                              /\ o = "unknown" => SideEffect[ex[w].call] = "external_side_effect"
    BY <1>0, <1>8, <2>2, FailureOutcomeHeld DEF AuditFailed
  <2> QED
    BY <1>0, <1>1, <2>1, <2>3, ContinueHeld
<1> QED
  BY <1>2, <1>3, <1>4, <1>5, <1>6, <1>7, <1>8

\* A worker whose save of the outcome succeeds settles its own intent.
LEMMA StoreOutcomeSettles ==
  ASSUME JInv, NEW w \in Executors, ex[w].pc \in {"outcome", "catch"},
         CanSave(ex[w].k.version), StoreOutcome(w)
  PROVE  StoreStep
<1>1. ex[w].k = stored /\ ex[w].call \in Calls /\ ex[w].outcome \in Outcomes
  BY DEF JInv, IInv, TypeOK, FreshSnapshot, ExecutorStates
<1>2. InFlight(w)
  BY DEF InFlight
<1>3. EntersOutcome(ex[w].call, ex[w].outcome)
  BY <1>1, <1>2 DEF EntersOutcome, JInv, IntentHeld, StoreOutcome
<1> QED
  BY <1>1, <1>3 DEF StoreStep

LEMMA SaveStepHeld ==
  ASSUME JInv, NEW w \in Executors, SaveIntent(w) \/ SaveOutcome(w) \/ SaveFailure(w)
  PROVE  WorkerStep(w)
<1>0. /\ ex \in [Executors -> ExecutorStates] /\ ex[w] \in ExecutorStates
      /\ ex[w].call \in Calls /\ ex[w].outcome \in Outcomes /\ ex[w].k \in Checkpoints
      /\ effects \in [Calls -> Nat] /\ stored \in Checkpoints
      /\ cache[w] \subseteq Calls /\ \A c \in cache[w] : effects[c] > 0
      /\ "failed" \in Outcomes
  BY DEF JInv, IInv, TypeOK, ExecutorStates, IntentHeld, Outcomes
<1>1. effects' = effects => Grows
  BY <1>0 DEF Grows
<1>2. CASE SaveIntent(w)
  <2>1. PICK next : next = Saved(WithRecord(ex[w].k, "ready_for_tool", ex[w].call, "started"))
    OBVIOUS
  <2>2. CASE CanSave(ex[w].k.version)
    <3>1. /\ stored' = next
          /\ ex' = [ex EXCEPT ![w] = [ex[w] EXCEPT !.pc = "secure", !.k = next]]
          /\ UNCHANGED <<cache, rc, effects>>
      BY <1>2, <2>1, <2>2 DEF SaveIntent
    <3>2. ex[w].k = stored /\ MayRun(stored, ex[w].call)
      BY <1>2, <2>2 DEF SaveIntent, JInv, IInv, FreshSnapshot, IntentHeld
    <3>3. StoreStep
      BY <1>0, <2>1, <3>1, <3>2 DEF StoreStep, EntersIntent
    <3>4. "ready_for_tool" \in Boundaries /\ "started" \in Outcomes
      BY DEF Boundaries, Outcomes
    <3>5. PICK n : n = WithRecord(ex[w].k, "ready_for_tool", ex[w].call, "started")
      OBVIOUS
    <3>6. n \in Checkpoints /\ n.boundary = "ready_for_tool"
      BY <1>0, <3>4, <3>5, WithRecordType DEF WithRecord, Checkpoints
    <3>7. next.boundary = "ready_for_tool"
      BY <2>1, <3>5, <3>6, SavedFields
    <3>8. OutcomeOf(next.execs, ex[w].call) = "started"
      BY <1>0, <2>1, <3>2, <3>4, OutcomeAfter DEF JInv, Shape
    <3>9. /\ \A v \in Executors \ {w} : ex'[v] = ex[v]
          /\ ex'[w].pc = "secure" /\ ex'[w].k = next /\ ex'[w].call = ex[w].call
      BY <1>0, <3>1 DEF ExecutorStates
    <3>10. IntentHeld(w)'
      BY <1>0, <3>1, <3>7, <3>8, <3>9 DEF IntentHeld, InFlight
    <3> QED
      BY <1>1, <3>1, <3>3, <3>9, <3>10 DEF WorkerStep
  <2>3. CASE ~CanSave(ex[w].k.version)
    <3>1. ex' = [ex EXCEPT ![w] = IdleExecutor] /\ UNCHANGED <<stored, cache, rc, effects>>
      BY <1>2, <2>3 DEF SaveIntent
    <3> QED
      BY <3>1, ReturnHeld DEF StoreStep
  <2> QED
    BY <2>2, <2>3
<1>3. CASE SaveOutcome(w)
  <2>0. InFlight(w) /\ UNCHANGED <<cache, rc, effects>>
    BY <1>3 DEF SaveOutcome, InFlight
  <2>1. CASE /\ CanSave(ex[w].k.version) /\ StoreOutcome(w)
             /\ ex' = [ex EXCEPT ![w] = IdleExecutor]
    <3>1. StoreStep
      BY <1>3, <2>1, StoreOutcomeSettles DEF SaveOutcome
    <3> QED
      BY <2>0, <2>1, <3>1, ReturnHeld
  <2>2. CASE ~(/\ CanSave(ex[w].k.version) /\ StoreOutcome(w)
               /\ ex' = [ex EXCEPT ![w] = IdleExecutor])
    <3>1. UNCHANGED stored
      BY <1>3, <2>2 DEF SaveOutcome
    <3>2. PICK o \in Outcomes : /\ Continue(w, "catch", o) /\ o \in {"failed", "unknown"}
                                /\ o = "unknown" => SideEffect[ex[w].call] = "external_side_effect"
      BY <1>0, <1>3, <2>2, FailureOutcomeHeld, FailureOutcomeType DEF SaveOutcome
    <3> QED
      BY <1>0, <1>1, <2>0, <3>1, <3>2, ContinueHeld
  <2> QED
    BY <2>1, <2>2
<1>4. CASE SaveFailure(w)
  <2>1. StoreStep
    BY <1>4, StoreOutcomeSettles DEF SaveFailure, StoreStep
  <2> QED
    BY <1>4, <2>1, ReturnHeld DEF SaveFailure
<1> QED
  BY <1>2, <1>3, <1>4

LEMMA BeginOrCrashHeld ==
  ASSUME JInv, NEW w \in Executors, Crash(w) \/ \E c \in Calls : Begin(w, c)
  PROVE  WorkerStep(w)
<1>0. /\ ex \in [Executors -> ExecutorStates] /\ ex[w] \in ExecutorStates
      /\ cache \in [Executors -> SUBSET Calls]
      /\ effects \in [Calls -> Nat] /\ \A c \in cache[w] : effects[c] > 0
  BY DEF JInv, IInv, TypeOK, IntentHeld
<1>1. CASE Crash(w)
  <2>1. /\ cache'[w] = {} /\ \A v \in Executors \ {w} : cache'[v] = cache[v]
    BY <1>0, <1>1 DEF Crash
  <2> QED
    BY <1>1, <2>1, ReturnHeld DEF Crash, StoreStep
<1>2. ASSUME NEW c \in Calls, Begin(w, c) PROVE WorkerStep(w)
  <2>1. /\ \A v \in Executors \ {w} : ex'[v] = ex[v]
        /\ ex'[w].pc = "intent" /\ ex'[w].k = stored /\ ex'[w].call = c
        /\ MayRun(stored, c) /\ UNCHANGED <<stored, cache, rc, effects>>
    BY <1>0, <1>2 DEF Begin, ExecutorStates
  <2>2. IntentHeld(w)'
    BY <1>0, <2>1 DEF IntentHeld, InFlight, MayRun
  <2>3. Grows
    BY <1>0, <2>1 DEF Grows
  <2> QED
    BY <2>1, <2>2, <2>3 DEF WorkerStep, StoreStep
<1> QED
  BY <1>1, <1>2

\* What a step of one recoverer must be shown to do.
RecoveryStep(r) ==
  /\ \A q \in Recoverers \ {r} : rc'[q] = rc[q]
  /\ PlanHeld(r)'
  /\ UNCHANGED <<ex, cache, effects>>
  /\ StoreStep

LEMMA RecovererDone ==
  ASSUME JInv, NEW r \in Recoverers, NEW e \in RecovererStates, e.pc \in {"idle", "load"},
         rc' = [rc EXCEPT ![r] = e], UNCHANGED <<ex, cache, effects>>, StoreStep
  PROVE  RecoveryStep(r)
<1>1. rc \in [Recoverers -> RecovererStates]
  BY DEF JInv, IInv, TypeOK
<1>2. rc'[r].pc \notin {"reconcile", "commit"} /\ \A q \in Recoverers \ {r} : rc'[q] = rc[q]
  BY <1>1
<1> QED
  BY <1>2 DEF RecoveryStep, PlanHeld

LEMMA RecovererStepHeld ==
  ASSUME JInv, NEW r \in Recoverers,
         RecovererStep(r) \/ StartRecovery(r) \/ CrashRecoverer(r)
  PROVE  RecoveryStep(r)
<1>0. /\ rc \in [Recoverers -> RecovererStates] /\ rc[r] \in RecovererStates
      /\ stored \in Checkpoints /\ rc[r].k \in Checkpoints
      /\ rc[r].answer \in Answers \union {"none"}
      /\ IdleRecoverer.pc = "idle" /\ IdleRecoverer \in RecovererStates
  BY IdleType DEF JInv, IInv, TypeOK, RecovererStates, IdleRecoverer
<1>1. CASE LoadForRecovery(r)
  <2>1. UNCHANGED <<stored, ex, cache, effects>>
    BY <1>1 DEF LoadForRecovery
  <2>2. CASE rc' = [rc EXCEPT ![r] = IdleRecoverer]
    BY <1>0, <2>1, <2>2, RecovererDone DEF StoreStep
  <2>3. CASE rc' # [rc EXCEPT ![r] = IdleRecoverer]
    <3>1. PICK rec : rec = RecoveryRecord(stored)
      OBVIOUS
    <3>2. PICK plan : plan = PlanRecovery(rec.call, rec.outcome)
      OBVIOUS
    <3>3. stored.boundary # "completed"
      BY <1>1, <2>3 DEF LoadForRecovery
    <3>4. PICK pc \in {"reconcile", "commit"} :
            /\ pc = "reconcile" <=> plan = "reconcile"
            /\ rc' = [rc EXCEPT ![r] = [rc[r] EXCEPT !.pc = pc, !.k = stored, !.answer = "none"]]
      BY <1>1, <2>3, <3>1, <3>2 DEF LoadForRecovery
    <3>5. /\ rc'[r].pc = pc /\ rc'[r].k = stored /\ rc'[r].answer = "none"
          /\ \A q \in Recoverers \ {r} : rc'[q] = rc[q]
      BY <1>0, <3>4 DEF RecovererStates
    <3>6. PlanHeld(r)'
      BY <2>1, <3>1, <3>2, <3>3, <3>4, <3>5 DEF PlanHeld
    <3> QED
      BY <2>1, <3>5, <3>6 DEF RecoveryStep, StoreStep
  <2> QED
    BY <2>2, <2>3
<1>2. CASE Reconcile(r)
  <2>1. UNCHANGED <<stored, ex, cache, effects>> /\ rc[r].pc = "reconcile"
    BY <1>2 DEF Reconcile
  <2>2. CASE rc' = [rc EXCEPT ![r] = IdleRecoverer]
    BY <1>0, <2>1, <2>2, RecovererDone DEF StoreStep
  <2>3. CASE rc' # [rc EXCEPT ![r] = IdleRecoverer]
    <3>1. PICK rec : rec = RecoveryRecord(rc[r].k)
      OBVIOUS
    <3>2. PICK a \in TruthfulAnswers(rec.call) :
            rc' = [rc EXCEPT ![r] = [rc[r] EXCEPT !.pc = "commit", !.answer = a]]
      BY <1>2, <2>3, <3>1 DEF Reconcile
    <3>3. a = "executed" => effects[rec.call] > 0
      BY <3>2 DEF TruthfulAnswers
    <3>4. /\ rc'[r].pc = "commit" /\ rc'[r].k = rc[r].k /\ rc'[r].answer = a
          /\ \A q \in Recoverers \ {r} : rc'[q] = rc[q]
      BY <1>0, <3>2 DEF RecovererStates
    <3>5. PlanHeld(r)'
      BY <2>1, <3>1, <3>3, <3>4 DEF PlanHeld, JInv
    <3> QED
      BY <2>1, <3>4, <3>5 DEF RecoveryStep, StoreStep
  <2> QED
    BY <2>2, <2>3
<1>3. CASE Commit(r)
  <2>1. UNCHANGED <<ex, cache, effects>> /\ rc[r].pc = "commit"
    BY <1>3 DEF Commit
  <2>2. CASE CanSave(rc[r].k.version)
    <3>1. /\ stored' = Saved(Resolved(rc[r].k, rc[r].answer))
          /\ rc' = [rc EXCEPT ![r] = IdleRecoverer]
      BY <1>3, <2>2 DEF Commit
    <3>2. rc[r].k = stored /\ HasRecoveryRecord(stored)
      BY <2>1, <2>2 DEF JInv, IInv, FreshSnapshot, HasWork
    <3>3. EntersResolution(rc[r].answer)
      BY <2>1, <3>1, <3>2 DEF EntersResolution, JInv, PlanHeld
    <3>4. StoreStep
      BY <1>0, <3>3 DEF StoreStep
    <3> QED
      BY <1>0, <2>1, <3>1, <3>4, RecovererDone
  <2>3. CASE ~CanSave(rc[r].k.version)
    <3>1. UNCHANGED stored
      BY <1>3, <2>3 DEF Commit
    <3>2. PICK e : e = IF rc[r].conflicts + 1 > MaxConflicts THEN IdleRecoverer
                       ELSE [IdleRecoverer EXCEPT !.pc = "load",
                                                  !.conflicts = rc[r].conflicts + 1]
      OBVIOUS
    <3>3. rc' = [rc EXCEPT ![r] = e]
      BY <1>3, <2>3, <3>2 DEF Commit
    <3>4. rc[r].conflicts + 1 \in Nat
      BY <1>0 DEF RecovererStates
    <3>5. e.pc \in {"idle", "load"} /\ e \in RecovererStates
      BY <1>0, <3>2, <3>4 DEF RecovererStates
    <3> QED
      BY <2>1, <3>1, <3>3, <3>5, RecovererDone DEF StoreStep
  <2> QED
    BY <2>2, <2>3
<1>4. CASE StartRecovery(r)
  <2>1. PICK e : e = [rc[r] EXCEPT !.pc = "load"]
    OBVIOUS
  <2>2. e \in RecovererStates /\ e.pc = "load" /\ rc' = [rc EXCEPT ![r] = e] /\ UNCHANGED <<stored, ex, cache, effects>>
    BY <1>0, <1>4, <2>1 DEF StartRecovery, RecovererStates
  <2> QED
    BY <2>2, RecovererDone DEF StoreStep
<1>5. CASE CrashRecoverer(r)
  BY <1>0, <1>5, RecovererDone DEF CrashRecoverer, StoreStep
<1> QED
  BY <1>1, <1>2, <1>3, <1>4, <1>5 DEF RecovererStep

-----------------------------------------------------------------------------
LEMMA InitJInv == Init => JInv
<1> SUFFICES ASSUME Init PROVE JInv
  OBVIOUS
<1>1. IInv
  BY InitIInv
<1>2. /\ stored.execs = << >> /\ DOMAIN stored.execs = {}
  BY DEF Init, InitialCheckpoint
<1>3. Shape(stored) /\ ExecutedIsReal
  BY <1>2 DEF Shape, Unique, ExecutedIsReal, OutcomeOf, Recorded
<1>4. \A w \in Executors : IntentHeld(w)
  BY DEF Init, IntentHeld, InFlight, IdleExecutor
<1>5. \A r \in Recoverers : PlanHeld(r)
  BY DEF Init, PlanHeld, IdleRecoverer
<1> QED
  BY <1>1, <1>3, <1>4, <1>5 DEF JInv

\* Every step is the step of one worker, of one recoverer, or the end of the run.
LEMMA StepCases ==
  ASSUME JInv, Next
  PROVE  \/ \E w \in Executors : WorkerStep(w)
         \/ \E r \in Recoverers : RecoveryStep(r)
         \/ CompleteRun
<1>1. ASSUME NEW w \in Executors, ExecutorStep(w) \/ Crash(w) \/ \E c \in Calls : Begin(w, c)
      PROVE  WorkerStep(w)
  BY <1>1, LocalStepHeld, SaveStepHeld, BeginOrCrashHeld DEF ExecutorStep
<1>2. ASSUME NEW r \in Recoverers, RecovererStep(r) \/ StartRecovery(r) \/ CrashRecoverer(r)
      PROVE  RecoveryStep(r)
  BY <1>2, RecovererStepHeld
<1> QED
  BY <1>1, <1>2 DEF Next

\* Every step treats the store as StoreStep says, and effects only grow.
LEMMA EveryStep ==
  ASSUME JInv, [Next]_vars
  PROVE  StoreStep /\ Grows
<1>1. UNCHANGED effects => Grows
  BY DEF JInv, IInv, TypeOK, Grows
<1>2. CASE UNCHANGED vars
  BY <1>1, <1>2 DEF vars, StoreStep
<1>3. CASE Next
  BY <1>1, <1>3, StepCases DEF WorkerStep, RecoveryStep, StoreStep, CompleteRun
<1> QED
  BY <1>2, <1>3

LEMMA JInvInductive == JInv /\ [Next]_vars => JInv'
<1> SUFFICES ASSUME JInv, [Next]_vars PROVE JInv'
  OBVIOUS
<1>1. IInv'
  BY IInvInductive DEF JInv
<1>2. StoreStep /\ Grows
  BY EveryStep
<1>3. Shape(stored)' /\ ExecutedIsReal'
  BY <1>2, StoreStepIsJournalStep, ExecutedStaysReal DEF JInv, IInv, TypeOK
<1>4. ASSUME NEW w \in Executors, ex'[w] = ex[w], cache'[w] = cache[w]
      PROVE  IntentHeld(w)'
  BY <1>2, <1>4, IntentKept DEF JInv, IInv
<1>5. ASSUME NEW r \in Recoverers, rc'[r] = rc[r]
      PROVE  PlanHeld(r)'
  BY <1>2, <1>5, PlanKept DEF JInv
<1>6. ASSUME NEW w \in Executors, WorkerStep(w)
      PROVE  /\ \A v \in Executors : IntentHeld(v)'
             /\ \A r \in Recoverers : PlanHeld(r)'
  <2>1. \A v \in Executors \ {w} : IntentHeld(v)'
    <3>1. SUFFICES ASSUME NEW v \in Executors \ {w} PROVE IntentHeld(v)'
      OBVIOUS
    <3>2. ex'[v] = ex[v] /\ cache'[v] = cache[v]
      BY <1>6 DEF WorkerStep
    <3> QED
      BY <1>4, <3>2
  <2>2. IntentHeld(w)' /\ rc' = rc
    BY <1>6 DEF WorkerStep
  <2> QED
    BY <1>5, <2>1, <2>2
<1>7. ASSUME NEW r \in Recoverers, RecoveryStep(r)
      PROVE  /\ \A w \in Executors : IntentHeld(w)'
             /\ \A q \in Recoverers : PlanHeld(q)'
  <2>1. \A q \in Recoverers \ {r} : PlanHeld(q)'
    <3>1. SUFFICES ASSUME NEW q \in Recoverers \ {r} PROVE PlanHeld(q)'
      OBVIOUS
    <3>2. rc'[q] = rc[q]
      BY <1>7 DEF RecoveryStep
    <3> QED
      BY <1>5, <3>2
  <2>2. PlanHeld(r)' /\ ex' = ex /\ cache' = cache
    BY <1>7 DEF RecoveryStep
  <2> QED
    BY <1>4, <2>1, <2>2
<1>8. ASSUME ex' = ex, cache' = cache, rc' = rc
      PROVE  /\ \A w \in Executors : IntentHeld(w)'
             /\ \A r \in Recoverers : PlanHeld(r)'
  <2>1. \A w \in Executors : IntentHeld(w)'
    BY <1>4, <1>8
  <2>2. \A r \in Recoverers : PlanHeld(r)'
    BY <1>5, <1>8
  <2> QED
    BY <2>1, <2>2
<1>9. /\ \A w \in Executors : IntentHeld(w)'
      /\ \A r \in Recoverers : PlanHeld(r)'
  <2>1. CASE UNCHANGED vars
    BY <1>8, <2>1 DEF vars
  <2>2. CASE CompleteRun
    BY <1>8, <2>2 DEF CompleteRun
  <2> QED
    BY <1>6, <1>7, <2>1, <2>2, StepCases
<1> QED
  BY <1>1, <1>3, <1>9 DEF JInv

\* A call recorded as executed did take effect, whoever wrote the record: the
\* executor, its idempotency cache or a recovery, even one beside a live worker.
THEOREM ExecutedRecordsAreReal == Spec => []ExecutedIsReal
<1>1. JInv => ExecutedIsReal
  BY DEF JInv
<1> QED
  BY InitJInv, JInvInductive, <1>1, PTL DEF Spec

\* Concurrent workers and recoveries over load / await / compare-and-swap write
\* the checkpoint as the atomic journal of RunJournal would: an intent before
\* each effect, an outcome over its own intent, recoveries along the legal
\* transitions only.
THEOREM ImplementsJournal == Spec => JournalSpec
<1>1. Init => Journal!Init
  BY DEF Init, Journal!Init, InitialCheckpoint, Journal!InitialCheckpoint
<1>2. JInv /\ [Next]_vars => [Journal!Next]_stored
  BY EveryStep, StoreStepIsJournalStep DEF JInv, IInv, TypeOK
<1> QED
  BY InitJInv, JInvInductive, <1>1, <1>2, PTL DEF Spec, JournalSpec, Journal!Spec

-----------------------------------------------------------------------------
(***************************************************************************)
(* Where recovery waits for live workers (RecoverLive = FALSE), the        *)
(* checkpoint is the lock of its run.                                      *)
(***************************************************************************)
LockKept == Locked' /\ NoHiddenEffect' /\ ClaimsHeld' /\ AtMostOneEffect'

\* After a write no snapshot taken before it is the stored checkpoint.
LEMMA WriteMakesStale ==
  ASSUME IInv, stored'.version = stored.version + 1
  PROVE  /\ \A w \in Executors : ex[w].pc # "idle" => ex[w].k # stored'
         /\ \A r \in Recoverers : rc[r].pc \in {"reconcile", "commit"} => rc[r].k # stored'
<1>1. /\ stored.version \in Nat
      /\ \A w \in Executors : ex[w].k.version \in Nat
      /\ \A r \in Recoverers : rc[r].k.version \in Nat
  BY DEF IInv, TypeOK, Checkpoints, ExecutorStates, RecovererStates
<1>2. ASSUME NEW w \in Executors, ex[w].pc # "idle", ex[w].k = stored' PROVE FALSE
  <2>1. ex[w].k.version <= stored.version
    BY <1>2 DEF IInv, FreshSnapshot
  <2> QED
    BY <1>1, <1>2, <2>1
<1>3. ASSUME NEW r \in Recoverers, rc[r].pc \in {"reconcile", "commit"}, rc[r].k = stored'
      PROVE  FALSE
  <2>1. rc[r].k.version <= stored.version
    BY <1>3 DEF IInv, FreshSnapshot
  <2> QED
    BY <1>1, <1>3, <2>1
<1> QED
  BY <1>2, <1>3

\* A write of one record hides no effect if the new outcome does not claim
\* falsely that its call did not run.
LEMMA WriteHidesNothing ==
  ASSUME stored \in Checkpoints, Unique(stored.execs), NoHiddenEffect, UNCHANGED effects,
         NEW b \in Boundaries, NEW c \in Calls, NEW o \in Outcomes,
         stored' = Saved(WithRecord(stored, b, c, o)),
         \/ o \in {"started", "executed", "failed", "unknown"}
         \/ c \in RetrySafe
         \/ ~(effects[c] > 0)
         \/ o = OutcomeOf(stored.execs, c)
  PROVE  NoHiddenEffect'
<1>1. /\ OutcomeOf(stored'.execs, c) = o
      /\ \A d : d # c => OutcomeOf(stored'.execs, d) = OutcomeOf(stored.execs, d)
      /\ Recorded(stored'.execs) = Recorded(stored.execs) \union {c}
  BY OutcomeAfter
<1>2. SUFFICES ASSUME NEW d \in Calls, effects[d] > 0
               PROVE  /\ d \in Recorded(stored'.execs)
                      /\ d \notin RetrySafe => OutcomeOf(stored'.execs, d)
                                                 \in {"started", "executed", "failed", "unknown"}
  BY DEF NoHiddenEffect
<1>3. /\ d \in Recorded(stored.execs)
      /\ d \notin RetrySafe => OutcomeOf(stored.execs, d)
                                 \in {"started", "executed", "failed", "unknown"}
  BY <1>2 DEF NoHiddenEffect
<1>4. CASE d = c
  BY <1>1, <1>2, <1>3, <1>4
<1>5. CASE d # c
  BY <1>1, <1>3, <1>5
<1> QED
  BY <1>4, <1>5

\* A worker's step that writes nothing and has no effect: it moves on past
\* its intent, leaves, or takes a new snapshot.
LEMMA QuietStep ==
  ASSUME LInv, NEW w \in Executors, UNCHANGED <<stored, effects, rc>>,
         \A v \in Executors \ {w} : ex'[v] = ex[v],
         InFlight(w)' =>
           /\ InFlight(w) /\ ex'[w].k = ex[w].k /\ ex'[w].call = ex[w].call
           /\ ex'[w].pc # "secure"
           /\ ex'[w].pc = "outcome" /\ ex'[w].outcome # "executed" => ex[w].pc = "secure"
  PROVE  LockKept
<1>1. \A v \in Executors : InFlight(v)' => InFlight(v) /\ ex'[v].k = ex[v].k
  BY DEF InFlight
<1>2. Locked'
  BY <1>1 DEF LInv, Locked
<1>3. NoHiddenEffect' /\ AtMostOneEffect'
  BY DEF LInv, NoHiddenEffect, AtMostOneEffect
<1>4. ClaimsHeld'
  <2>1. ASSUME NEW v \in Executors, ex'[v].call \notin RetrySafe,
               ex'[v].pc = "secure" \/ (ex'[v].pc = "outcome" /\ ex'[v].outcome # "executed")
        PROVE  effects'[ex'[v].call] = 0
    <3>1. InFlight(v)'
      BY <2>1 DEF InFlight
    <3>2. CASE v = w
      BY <2>1, <3>1, <3>2 DEF LInv, ClaimsHeld
    <3>3. CASE v # w
      BY <2>1, <3>3 DEF LInv, ClaimsHeld
    <3> QED
      BY <3>2, <3>3
  <2>2. ASSUME NEW r \in Recoverers, rc'[r].pc = "commit", rc'[r].answer = "never_executed",
               rc'[r].k = stored'
        PROVE  effects'[RecoveryRecord(rc'[r].k).call] = 0
    BY <2>2 DEF LInv, ClaimsHeld
  <2> QED
    BY <2>1, <2>2 DEF ClaimsHeld
<1> QED
  BY <1>2, <1>3, <1>4 DEF LockKept

\* A write after which nobody is past an intent.
LEMMA ReleasingWrite ==
  ASSUME LInv, stored'.version = stored.version + 1, UNCHANGED effects, NoHiddenEffect',
         \A w \in Executors : ~InFlight(w)',
         \A r \in Recoverers : rc'[r].pc \in {"reconcile", "commit"} => rc'[r] = rc[r]
  PROVE  LockKept
<1>1. \A r \in Recoverers : rc'[r].pc \in {"reconcile", "commit"} => rc'[r].k # stored'
  BY WriteMakesStale DEF LInv, JInv
<1>2. Locked'
  BY <1>1 DEF Locked
<1>3. AtMostOneEffect'
  BY DEF LInv, AtMostOneEffect
<1>4. ClaimsHeld'
  BY <1>1 DEF ClaimsHeld, InFlight
<1> QED
  BY <1>2, <1>3, <1>4 DEF LockKept

\* The handler takes effect, or throws without effect.
LEMMA HandlerKeepsLock ==
  ASSUME LInv, NEW w \in Executors, HandlerReturns(w) \/ HandlerThrows(w)
  PROVE  LockKept
<1>0. /\ ex \in [Executors -> ExecutorStates] /\ ex[w] \in ExecutorStates
      /\ effects \in [Calls -> Nat] /\ ex[w].call \in Calls /\ ex[w].pc = "secure"
      /\ InFlight(w) /\ UNCHANGED <<stored, rc>>
  BY DEF LInv, JInv, IInv, TypeOK, ExecutorStates, HandlerReturns, HandlerThrows, InFlight
<1>1. /\ \A v \in Executors \ {w} : ex'[v] = ex[v]
      /\ ex'[w].pc \in {"audit", "audit_failed"} /\ ex'[w].k = ex[w].k /\ ex'[w].call = ex[w].call
  <2>1. \E pc \in {"audit", "audit_failed"} : \E o : Continue(w, pc, o)
    BY DEF HandlerReturns, HandlerThrows
  <2> QED
    BY <1>0, <2>1 DEF Continue, ExecutorStates
<1>2. effects' = effects \/ effects' = [effects EXCEPT ![ex[w].call] = effects[ex[w].call] + 1]
  BY DEF HandlerReturns, HandlerThrows
<1>3. \A c \in Calls : c # ex[w].call => effects'[c] = effects[c]
  BY <1>0, <1>2
<1>4. \A v \in Executors \ {w} : ~InFlight(v)
  BY <1>0 DEF LInv, Locked
<1>5. \A r \in Recoverers : rc[r].pc \in {"reconcile", "commit"} => rc[r].k # stored
  BY <1>0 DEF LInv, Locked
<1>6. Locked'
  BY <1>0, <1>1, <1>4 DEF LInv, Locked, InFlight
<1>7. ex[w].call \notin RetrySafe => effects[ex[w].call] = 0
  BY <1>0 DEF LInv, ClaimsHeld
<1>8. AtMostOneEffect'
  <2>1. SUFFICES ASSUME NEW c \in Calls \ RetrySafe PROVE effects'[c] <= 1
    BY DEF AtMostOneEffect
  <2>2. CASE c = ex[w].call
    BY <1>0, <1>2, <1>7, <2>1, <2>2
  <2>3. CASE c # ex[w].call
    BY <1>3, <2>1, <2>3 DEF LInv, AtMostOneEffect
  <2> QED
    BY <2>2, <2>3
<1>9. NoHiddenEffect'
  <2>1. OutcomeOf(stored.execs, ex[w].call) = "started"
    BY <1>0 DEF LInv, Locked, JInv, IntentHeld
  <2>2. ex[w].call \in Recorded(stored.execs)
    BY <2>1 DEF OutcomeOf
  <2> QED
    BY <1>0, <1>3, <2>1, <2>2 DEF LInv, NoHiddenEffect
<1>10. ClaimsHeld'
  BY <1>0, <1>1, <1>4, <1>5 DEF ClaimsHeld, InFlight
<1> QED
  BY <1>6, <1>8, <1>9, <1>10 DEF LockKept

\* Steps that move one worker on inside this process.
LEMMA LocalKeepsLock ==
  ASSUME LInv, NEW w \in Executors,
         \/ Refuse(w) \/ ThrowEarly(w) \/ ReturnCached(w) \/ Audit(w) \/ AuditFailed(w)
         \/ Crash(w) \/ \E c \in Calls : Begin(w, c)
         \/ SaveOutcome(w) /\ UNCHANGED stored /\ ex' # [ex EXCEPT ![w] = IdleExecutor]
  PROVE  LockKept
<1>0. ex \in [Executors -> ExecutorStates] /\ ex[w] \in ExecutorStates
  BY DEF LInv, JInv, IInv, TypeOK
<1>1. ASSUME NEW pc \in {"audit", "audit_failed", "outcome", "catch"}, NEW o,
             Continue(w, pc, o), InFlight(w), UNCHANGED <<stored, effects, rc>>,
             pc = "outcome" /\ o # "executed" => ex[w].pc = "secure"
      PROVE  LockKept
  <2>1. /\ \A v \in Executors \ {w} : ex'[v] = ex[v]
        /\ ex'[w].pc = pc /\ ex'[w].outcome = o /\ ex'[w].k = ex[w].k
        /\ ex'[w].call = ex[w].call
    BY <1>0, <1>1 DEF Continue, ExecutorStates
  <2> QED
    BY <1>1, <2>1, QuietStep
<1>2. CASE Refuse(w)
  <2>1. ex[w].pc = "secure" /\ InFlight(w) /\ UNCHANGED <<stored, effects, rc>>
    BY <1>2 DEF Refuse, InFlight
  <2>2. PICK o : Continue(w, "outcome", o)
    BY <1>2 DEF Refuse
  <2> QED
    BY <1>1, <2>1, <2>2
<1>3. CASE ThrowEarly(w)
  <2>1. InFlight(w) /\ UNCHANGED <<stored, effects, rc>>
    BY <1>3 DEF ThrowEarly, InFlight
  <2>2. PICK o : Continue(w, "catch", o)
    BY <1>3 DEF ThrowEarly
  <2> QED
    BY <1>1, <2>1, <2>2
<1>4. CASE ReturnCached(w)
  <2>1. InFlight(w) /\ UNCHANGED <<stored, effects, rc>> /\ Continue(w, "outcome", "executed")
    BY <1>4 DEF ReturnCached, InFlight
  <2> QED
    BY <1>1, <2>1
<1>5. CASE Audit(w)
  <2>1. InFlight(w) /\ UNCHANGED <<stored, effects, rc>>
    BY <1>5 DEF Audit, InFlight
  <2>2. PICK o : Continue(w, "audit_failed", o) \/ (o = "executed" /\ Continue(w, "outcome", o))
    BY <1>5 DEF Audit
  <2> QED
    BY <1>1, <2>1, <2>2
<1>6. CASE AuditFailed(w)
  <2>1. InFlight(w) /\ UNCHANGED <<stored, effects, rc>>
    BY <1>6 DEF AuditFailed, InFlight
  <2>2. PICK o : Continue(w, "catch", o)
    BY <1>6 DEF AuditFailed
  <2> QED
    BY <1>1, <2>1, <2>2
<1>7. CASE Crash(w)
  <2>1. /\ \A v \in Executors \ {w} : ex'[v] = ex[v]
        /\ ex'[w].pc = "idle" /\ UNCHANGED <<stored, effects, rc>>
    BY <1>0, <1>7 DEF Crash, IdleExecutor
  <2>2. ~InFlight(w)'
    BY <2>1 DEF InFlight
  <2> QED
    BY <2>1, <2>2, QuietStep
<1>8. ASSUME NEW c \in Calls, Begin(w, c) PROVE LockKept
  <2>1. /\ \A v \in Executors \ {w} : ex'[v] = ex[v]
        /\ ex'[w].pc = "intent" /\ UNCHANGED <<stored, effects, rc>>
    BY <1>0, <1>8 DEF Begin, ExecutorStates
  <2>2. ~InFlight(w)'
    BY <2>1 DEF InFlight
  <2> QED
    BY <2>1, <2>2, QuietStep
<1>9. CASE SaveOutcome(w) /\ UNCHANGED stored /\ ex' # [ex EXCEPT ![w] = IdleExecutor]
  <2>1. InFlight(w) /\ UNCHANGED <<stored, effects, rc>>
    BY <1>9 DEF SaveOutcome, InFlight
  <2>2. PICK o : Continue(w, "catch", o)
    BY <1>9 DEF SaveOutcome
  <2> QED
    BY <1>1, <2>1, <2>2
<1> QED
  BY <1>2, <1>3, <1>4, <1>5, <1>6, <1>7, <1>8, <1>9

\* Entering an intent takes the lock.
LEMMA SaveIntentKeepsLock ==
  ASSUME LInv, NEW w \in Executors, SaveIntent(w)
  PROVE  LockKept
<1>0. /\ ex \in [Executors -> ExecutorStates] /\ ex[w] \in ExecutorStates
      /\ stored \in Checkpoints /\ ex[w].call \in Calls /\ ex[w].pc = "intent"
      /\ effects \in [Calls -> Nat] /\ UNCHANGED <<cache, rc, effects>>
      /\ Unique(stored.execs)
  BY DEF LInv, JInv, IInv, TypeOK, ExecutorStates, SaveIntent, Shape
<1>1. CASE ~CanSave(ex[w].k.version)
  <2>1. ex' = [ex EXCEPT ![w] = IdleExecutor] /\ UNCHANGED stored
    BY <1>1 DEF SaveIntent
  <2>2. /\ \A v \in Executors \ {w} : ex'[v] = ex[v]
        /\ ex'[w].pc = "idle"
    BY <1>0, <2>1 DEF IdleExecutor
  <2>3. ~InFlight(w)'
    BY <2>2 DEF InFlight
  <2> QED
    BY <1>0, <2>1, <2>2, <2>3, QuietStep
<1>2. CASE CanSave(ex[w].k.version)
  <2>1. ex[w].k = stored /\ MayRun(stored, ex[w].call)
    BY <1>0, <1>2 DEF LInv, JInv, IInv, FreshSnapshot, IntentHeld
  <2>2. /\ stored' = Saved(WithRecord(stored, "ready_for_tool", ex[w].call, "started"))
        /\ ex' = [ex EXCEPT ![w] = [ex[w] EXCEPT !.pc = "secure", !.k = stored']]
    BY <1>2, <2>1 DEF SaveIntent
  <2>3. "ready_for_tool" \in Boundaries /\ "started" \in Outcomes
    BY DEF Boundaries, Outcomes
  <2>4. stored'.version = stored.version + 1
    <3>1. PICK n : n = WithRecord(stored, "ready_for_tool", ex[w].call, "started")
      OBVIOUS
    <3>2. n \in Checkpoints
      BY <1>0, <2>3, <3>1, WithRecordType
    <3> QED
      BY <1>0, <2>2, <3>1, <3>2, SavedType
  <2>5. \A v \in Executors : ~InFlight(v)
    <3>1. SUFFICES ASSUME NEW v \in Executors, InFlight(v) PROVE FALSE
      OBVIOUS
    <3>2. OutcomeOf(stored.execs, ex[v].call) \in Open
      BY <3>1 DEF LInv, Locked, JInv, IntentHeld, Open
    <3>3. ex[v].call \in Recorded(stored.execs)
      BY <3>2 DEF OutcomeOf, Open
    <3>4. PICK i \in DOMAIN stored.execs : stored.execs[i].call = ex[v].call
      BY <3>3, PositionOf
    <3>5. stored.execs[i].outcome \in Open
      BY <1>0, <3>2, <3>4, OutcomeAt
    <3> QED
      BY <1>0, <2>1, <3>5, MayRunClosed DEF LInv, JInv
  <2>6. /\ \A v \in Executors \ {w} : ex'[v] = ex[v]
        /\ ex'[w].pc = "secure" /\ ex'[w].k = stored' /\ ex'[w].call = ex[w].call
    BY <1>0, <2>2 DEF ExecutorStates
  <2>7. \A v \in Executors : InFlight(v)' => v = w
    BY <2>5, <2>6 DEF InFlight
  <2>8. \A r \in Recoverers : rc'[r].pc \in {"reconcile", "commit"} => rc'[r].k # stored'
    BY <1>0, <2>4, WriteMakesStale DEF LInv, JInv
  <2>9. Locked'
    BY <2>6, <2>7, <2>8 DEF Locked
  <2>10. NoHiddenEffect'
    BY <1>0, <2>2, <2>3, WriteHidesNothing DEF LInv
  <2>11. AtMostOneEffect'
    BY <1>0 DEF LInv, AtMostOneEffect
  <2>12. ex[w].call \notin RetrySafe => effects[ex[w].call] = 0
    <3>1. OutcomeOf(stored.execs, ex[w].call) \in {"absent", "never_executed"}
      BY <1>0, <2>1, MayRunClosed DEF LInv, JInv
    <3>2. SUFFICES ASSUME ex[w].call \notin RetrySafe, effects[ex[w].call] > 0 PROVE FALSE
      BY <1>0
    <3>3. OutcomeOf(stored.execs, ex[w].call) \in {"started", "executed", "failed", "unknown"}
      BY <1>0, <3>2 DEF LInv, NoHiddenEffect
    <3> QED
      BY <3>1, <3>3
  <2>13. ClaimsHeld'
    <3>1. ASSUME NEW v \in Executors, ex'[v].call \notin RetrySafe,
                 ex'[v].pc = "secure" \/ (ex'[v].pc = "outcome" /\ ex'[v].outcome # "executed")
          PROVE  effects'[ex'[v].call] = 0
      <4>1. v = w
        BY <2>7, <3>1 DEF InFlight
      <4> QED
        BY <1>0, <2>6, <2>12, <3>1, <4>1
    <3> QED
      BY <2>8, <3>1 DEF ClaimsHeld
  <2> QED
    BY <2>9, <2>10, <2>11, <2>13 DEF LockKept
<1> QED
  BY <1>1, <1>2

\* Storing an outcome, or giving up on it, releases the lock.
LEMMA StoreOutcomeKeepsLock ==
  ASSUME LInv, NEW w \in Executors, ex[w].pc \in {"outcome", "catch"},
         ex' = [ex EXCEPT ![w] = IdleExecutor], UNCHANGED <<rc, effects>>,
         UNCHANGED stored \/ (CanSave(ex[w].k.version) /\ StoreOutcome(w))
  PROVE  LockKept
<1>0. /\ ex \in [Executors -> ExecutorStates] /\ ex[w] \in ExecutorStates
      /\ stored \in Checkpoints /\ ex[w].call \in Calls /\ ex[w].outcome \in Outcomes
      /\ effects \in [Calls -> Nat]
      /\ Unique(stored.execs)
  BY DEF LInv, JInv, IInv, TypeOK, ExecutorStates, Shape
<1>1. /\ \A v \in Executors \ {w} : ex'[v] = ex[v]
      /\ ex'[w].pc = "idle" /\ ~InFlight(w)'
  BY <1>0 DEF IdleExecutor, InFlight
<1>2. CASE UNCHANGED stored
  BY <1>1, <1>2, QuietStep
<1>3. CASE CanSave(ex[w].k.version) /\ StoreOutcome(w)
  <2>1. ex[w].k = stored
    BY <1>3 DEF LInv, JInv, IInv, FreshSnapshot
  <2>2. stored' = Saved(WithRecord(stored, BoundaryOf(ex[w].outcome), ex[w].call, ex[w].outcome))
    BY <1>3, <2>1 DEF StoreOutcome
  <2>3. stored'.version = stored.version + 1
    BY <1>3, StoreOutcomeType DEF LInv, JInv
  <2>4. InFlight(w)
    BY DEF InFlight
  <2>5. \A v \in Executors : ~InFlight(v)'
    BY <1>1, <2>4 DEF LInv, Locked, InFlight
  <2>6. BoundaryOf(ex[w].outcome) \in Boundaries
    BY DEF BoundaryOf, Boundaries
  <2>7. \/ ex[w].outcome \in {"started", "executed", "failed", "unknown"}
        \/ ex[w].call \in RetrySafe \/ ~(effects[ex[w].call] > 0)
    <3>1. CASE ex[w].pc = "catch"
      BY <3>1 DEF LInv, JInv, IntentHeld
    <3>2. CASE ex[w].pc = "outcome" /\ ex[w].outcome # "executed" /\ ex[w].call \notin RetrySafe
      <4>1. effects[ex[w].call] = 0
        BY <3>2 DEF LInv, ClaimsHeld
      <4> QED
        BY <4>1
    <3> QED
      BY <3>1, <3>2
  <2>8. NoHiddenEffect'
    BY <1>0, <2>2, <2>6, <2>7, WriteHidesNothing DEF LInv
  <2> QED
    BY <2>3, <2>5, <2>8, ReleasingWrite
<1> QED
  BY <1>2, <1>3

\* A recovery that still may commit runs beside no worker past its intent.
LEMMA RecovererKeepsLock ==
  ASSUME LInv, ~RecoverLive, NEW r \in Recoverers,
         LoadForRecovery(r) \/ Reconcile(r) \/ StartRecovery(r) \/ CrashRecoverer(r)
         \/ (Commit(r) /\ ~CanSave(rc[r].k.version))
  PROVE  LockKept
<1>0. /\ rc \in [Recoverers -> RecovererStates] /\ rc[r] \in RecovererStates
      /\ effects \in [Calls -> Nat] /\ stored \in Checkpoints /\ rc[r].k \in Checkpoints
      /\ UNCHANGED <<stored, ex, cache, effects>>
  BY DEF LInv, JInv, IInv, TypeOK, RecovererStates, LoadForRecovery, Reconcile,
         StartRecovery, CrashRecoverer, Commit
<1>1. \A q \in Recoverers \ {r} : rc'[q] = rc[q]
  BY <1>0 DEF LoadForRecovery, Reconcile, StartRecovery, CrashRecoverer, Commit
<1>2. ASSUME rc'[r].pc \in {"reconcile", "commit"}
      PROVE  /\ rc'[r].k = stored => \A w \in Executors : ~InFlight(w)
             /\ rc'[r].pc = "commit" /\ rc'[r].answer = "never_executed" =>
                  effects[RecoveryRecord(rc'[r].k).call] = 0
  <2>1. IdleRecoverer.pc = "idle"
    BY DEF IdleRecoverer
  <2>2. CASE LoadForRecovery(r)
    <3>1. \A w \in Executors : ~InFlight(w)
      BY <2>2 DEF LoadForRecovery, MayRecover
    <3>2. PICK pc : rc' = [rc EXCEPT ![r] =
                             [rc[r] EXCEPT !.pc = pc, !.k = stored, !.answer = "none"]]
      BY <1>0, <1>2, <2>1, <2>2 DEF LoadForRecovery
    <3>3. rc'[r].answer = "none"
      BY <1>0, <3>2 DEF RecovererStates
    <3> QED
      BY <3>1, <3>3
  <2>3. CASE Reconcile(r)
    <3>1. PICK c : c = RecoveryRecord(rc[r].k).call
      OBVIOUS
    <3>2. PICK a \in TruthfulAnswers(c) :
            rc' = [rc EXCEPT ![r] = [rc[r] EXCEPT !.pc = "commit", !.answer = a]]
      BY <1>0, <1>2, <2>1, <2>3, <3>1 DEF Reconcile
    <3>3. rc'[r].k = rc[r].k /\ rc'[r].answer = a /\ a \in Answers
      BY <1>0, <3>2 DEF RecovererStates, TruthfulAnswers, Answers
    <3>4. rc[r].pc = "reconcile"
      BY <2>3 DEF Reconcile
    <3>5. c \in Calls
      BY <1>0, <3>1, <3>4, RecoveryRecordType DEF LInv, JInv, IInv, HasWork, Records
    <3>6. a = "never_executed" => effects[c] = 0
      BY <1>0, <3>2, <3>5 DEF TruthfulAnswers
    <3> QED
      BY <3>1, <3>3, <3>4, <3>6 DEF LInv, Locked
  <2>4. CASE StartRecovery(r)
    BY <1>0, <1>2, <2>4 DEF StartRecovery, RecovererStates
  <2>5. CASE CrashRecoverer(r)
    BY <1>0, <1>2, <2>1, <2>5 DEF CrashRecoverer
  <2>6. CASE Commit(r) /\ ~CanSave(rc[r].k.version)
    <3>1. PICK e : e = [IdleRecoverer EXCEPT !.pc = "load", !.conflicts = rc[r].conflicts + 1]
      OBVIOUS
    <3>2. rc'[r] = IdleRecoverer \/ rc'[r] = e
      BY <1>0, <2>6, <3>1 DEF Commit
    <3>3. e.pc = "load"
      BY <3>1, IdleType DEF RecovererStates
    <3> QED
      BY <1>2, <2>1, <3>2, <3>3
  <2> QED
    BY <2>2, <2>3, <2>4, <2>5, <2>6
<1>3. Locked'
  BY <1>0, <1>1, <1>2 DEF LInv, Locked, InFlight
<1>4. NoHiddenEffect' /\ AtMostOneEffect'
  BY <1>0 DEF LInv, NoHiddenEffect, AtMostOneEffect
<1>5. ClaimsHeld'
  BY <1>0, <1>1, <1>2 DEF LInv, ClaimsHeld
<1> QED
  BY <1>3, <1>4, <1>5 DEF LockKept

\* A committed resolution never declares falsely that a call did not run.
LEMMA CommitKeepsLock ==
  ASSUME LInv, NEW r \in Recoverers, Commit(r), CanSave(rc[r].k.version)
  PROVE  LockKept
<1>0. /\ rc \in [Recoverers -> RecovererStates] /\ rc[r] \in RecovererStates
      /\ stored \in Checkpoints /\ rc[r].answer \in Answers \union {"none"}
      /\ effects \in [Calls -> Nat]
      /\ rc[r].pc = "commit" /\ UNCHANGED <<ex, cache, effects>>
      /\ Unique(stored.execs)
  BY DEF LInv, JInv, IInv, TypeOK, RecovererStates, Commit, Shape
<1>1. rc[r].k = stored /\ HasRecoveryRecord(stored)
  BY <1>0 DEF LInv, JInv, IInv, FreshSnapshot, HasWork
<1>2. \A w \in Executors : ~InFlight(w)'
  BY <1>0, <1>1 DEF LInv, Locked, InFlight
<1>3. /\ rc'[r].pc = "idle" /\ \A q \in Recoverers \ {r} : rc'[q] = rc[q]
      /\ stored' = Saved(Resolved(stored, rc[r].answer))
  BY <1>0, <1>1 DEF Commit, IdleRecoverer
<1>4. PICK rec : rec = RecoveryRecord(stored)
  OBVIOUS
<1>5. PICK a \in Answers \union {"none"} : a = rc[r].answer
  BY <1>0
<1>6. PICK s : s = Resolution(rec.call, rec.outcome, a)
  OBVIOUS
<1>7. /\ rec.call \in Calls /\ rec.outcome \in Outcomes
      /\ rec.outcome # "cancelled_before_execution"
      /\ OutcomeOf(stored.execs, rec.call) = rec.outcome
  BY <1>0, <1>1, <1>4, RecoveryOutcome DEF Records, LInv, JInv
<1>8. /\ a # "none" => PlanRecovery(rec.call, rec.outcome) = "reconcile"
      /\ a = "never_executed" => effects[rec.call] = 0
  BY <1>0, <1>1, <1>4, <1>5 DEF LInv, JInv, PlanHeld, ClaimsHeld
<1>9. /\ s.outcome \in Outcomes /\ s.boundary \in Boundaries
      /\ \/ s.outcome \in {"started", "executed", "failed", "unknown"}
         \/ rec.call \in RetrySafe
         \/ effects[rec.call] = 0
         \/ s.outcome = rec.outcome
  BY <1>6, <1>7, <1>8, ResolutionCases DEF Outcomes, Boundaries
<1>10. stored' = Saved(WithRecord(stored, s.boundary, rec.call, s.outcome))
  BY <1>3, <1>4, <1>5, <1>6 DEF Resolved
<1>11. PICK c \in Calls, b \in Boundaries, o \in Outcomes :
         c = rec.call /\ b = s.boundary /\ o = s.outcome
  BY <1>7, <1>9
<1>12. stored' = Saved(WithRecord(stored, b, c, o))
  BY <1>10, <1>11
<1>13. \/ o \in {"started", "executed", "failed", "unknown"} \/ c \in RetrySafe
       \/ ~(effects[c] > 0) \/ o = OutcomeOf(stored.execs, c)
  BY <1>0, <1>7, <1>9, <1>11
<1>14. NoHiddenEffect'
  BY <1>0, <1>12, <1>13, WriteHidesNothing DEF LInv
<1>15. stored'.version = stored.version + 1
  <2>1. PICK n : n = WithRecord(stored, b, c, o)
    OBVIOUS
  <2>2. n \in Checkpoints
    BY <1>0, <2>1, WithRecordType
  <2> QED
    BY <1>0, <1>12, <2>1, <2>2, SavedType
<1> QED
  BY <1>0, <1>2, <1>3, <1>14, <1>15, ReleasingWrite

\* A run is completed only when no worker is past an intent.
LEMMA CompleteRunKeepsLock ==
  ASSUME LInv, CompleteRun
  PROVE  LockKept
<1>0. stored \in Checkpoints /\ stored.boundary = "ready_for_next_step"
      /\ UNCHANGED <<ex, cache, rc, effects>>
  BY DEF LInv, JInv, IInv, TypeOK, CompleteRun
<1>1. \A w \in Executors : ~InFlight(w)'
  BY <1>0 DEF LInv, Locked, JInv, IntentHeld, InFlight
<1>2. PICK n : n = [stored EXCEPT !.boundary = "completed"]
  OBVIOUS
<1>3. n \in Checkpoints /\ n.execs = stored.execs
  BY <1>0, <1>2 DEF Checkpoints, Boundaries
<1>4. stored' = Saved(n)
  BY <1>2 DEF CompleteRun
<1>5. stored'.version = stored.version + 1 /\ stored'.execs = stored.execs
  BY <1>0, <1>3, <1>4, SavedType, SavedFields
<1>6. NoHiddenEffect'
  BY <1>0, <1>5 DEF LInv, NoHiddenEffect
<1> QED
  BY <1>0, <1>1, <1>5, <1>6, ReleasingWrite

LEMMA InitLInv == Init => LInv
<1> SUFFICES ASSUME Init PROVE LInv
  OBVIOUS
<1>1. JInv
  BY InitJInv
<1>2. Locked
  BY DEF Init, Locked, InFlight, IdleExecutor, IdleRecoverer
<1>3. NoHiddenEffect /\ AtMostOneEffect
  BY DEF Init, NoHiddenEffect, AtMostOneEffect
<1>4. ClaimsHeld
  BY DEF Init, ClaimsHeld, IdleExecutor, IdleRecoverer
<1> QED
  BY <1>1, <1>2, <1>3, <1>4 DEF LInv

LEMMA LInvInductive == ~RecoverLive /\ LInv /\ [Next]_vars => LInv'
<1> SUFFICES ASSUME ~RecoverLive, LInv, [Next]_vars PROVE LInv'
  OBVIOUS
<1>1. JInv'
  BY JInvInductive DEF LInv
<1>2. ASSUME UNCHANGED vars PROVE LockKept
  BY <1>2 DEF vars, LockKept, LInv, Locked, NoHiddenEffect, ClaimsHeld, AtMostOneEffect, InFlight
<1>3. ASSUME NEW w \in Executors, ExecutorStep(w) PROVE LockKept
  <2>1. CASE SaveIntent(w)
    BY <2>1, SaveIntentKeepsLock
  <2>2. CASE HandlerReturns(w) \/ HandlerThrows(w)
    BY <2>2, HandlerKeepsLock
  <2>3. CASE SaveOutcome(w)
    <3>1. CASE ex' = [ex EXCEPT ![w] = IdleExecutor]
      BY <2>3, <3>1, StoreOutcomeKeepsLock DEF SaveOutcome
    <3>2. CASE ex' # [ex EXCEPT ![w] = IdleExecutor]
      BY <2>3, <3>2, LocalKeepsLock DEF SaveOutcome
    <3> QED
      BY <3>1, <3>2
  <2>4. CASE SaveFailure(w)
    BY <2>4, StoreOutcomeKeepsLock DEF SaveFailure
  <2> QED
    BY <1>3, <2>1, <2>2, <2>3, <2>4, LocalKeepsLock DEF ExecutorStep
<1>4. ASSUME NEW w \in Executors, Crash(w) \/ \E c \in Calls : Begin(w, c) PROVE LockKept
  BY <1>4, LocalKeepsLock
<1>5. ASSUME NEW r \in Recoverers, RecovererStep(r) \/ StartRecovery(r) \/ CrashRecoverer(r)
      PROVE  LockKept
  BY <1>5, RecovererKeepsLock, CommitKeepsLock DEF RecovererStep
<1>6. LockKept
  BY <1>2, <1>3, <1>4, <1>5, CompleteRunKeepsLock DEF Next
<1> QED
  BY <1>1, <1>6 DEF LInv, LockKept

\* Two open records are one record, by the shape of the journal.
LEMMA LInvImpliesOneOpenCall == LInv => OneOpenCall
<1> SUFFICES ASSUME LInv,
                    NEW i \in DOMAIN stored.execs, NEW j \in DOMAIN stored.execs,
                    stored.execs[i].outcome \in Open, stored.execs[j].outcome \in Open
             PROVE  i = j
  BY DEF LInv, Locked, OneOpenCall, Open
<1>1. DOMAIN stored.execs \subseteq Nat
  BY DEF LInv, JInv, IInv, TypeOK, Checkpoints
<1>2. i \in Recoverable(stored.execs) /\ j \in Recoverable(stored.execs)
  BY DEF Recoverable, Open
<1>3. i <= j /\ j <= i
  BY <1>2 DEF LInv, JInv, Shape
<1> QED
  BY <1>1, <1>3

\* If recovery waits for live workers, the version check and the boundary act
\* as the lock of the run: one worker past its intent, one open record.
THEOREM OneCallOpen ==
  ASSUME ~RecoverLive
  PROVE  Spec => []OneOpenCall
<1>1. LInv /\ [Next]_vars => LInv'
  BY LInvInductive
<1> QED
  BY InitLInv, <1>1, LInvImpliesOneOpenCall, PTL DEF Spec

\* A call that took effect has a record, and a call that must not be retried
\* is never recorded as not having run.
THEOREM EffectsRecorded ==
  ASSUME ~RecoverLive
  PROVE  Spec => []NoHiddenEffect
<1>1. LInv /\ [Next]_vars => LInv'
  BY LInvInductive
<1>2. LInv => NoHiddenEffect
  BY DEF LInv
<1> QED
  BY InitLInv, <1>1, <1>2, PTL DEF Spec

\* A call whose policy forbids retries takes effect at most once, through any
\* number of workers, crashes, conflicts, recoveries and re-executions.
THEOREM EffectAtMostOnce ==
  ASSUME ~RecoverLive
  PROVE  Spec => []AtMostOneEffect
<1>1. LInv /\ [Next]_vars => LInv'
  BY LInvInductive
<1>2. LInv => AtMostOneEffect
  BY DEF LInv
<1> QED
  BY InitLInv, <1>1, <1>2, PTL DEF Spec
=============================================================================
