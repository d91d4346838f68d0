----------------------- MODULE DurableExecutionProofs -----------------------
(***************************************************************************)
(* Proofs about DurableExecution, for any sets of calls, executors and     *)
(* recoverers and any tool policies: type correctness, and that a snapshot *)
(* which still passes the version check is the stored checkpoint.          *)
(***************************************************************************)
EXTENDS DurableExecution, TLAPS, WellFoundedInduction

(***************************************************************************)
(* Facts about the pure functions of Checkpoint.                           *)
(***************************************************************************)

\* A non-empty set of positions of a sequence has a last one.
LEMMA LastPosition ==
  ASSUME NEW n \in Nat, NEW S \in SUBSET (1 .. n), S # {}
  PROVE  \E i \in S : \A j \in S : j <= i
<1> DEFINE T == {n - i : i \in S}
<1>1. T \subseteq Nat /\ T # {}
  <2>1. \A i \in S : i \in 1 .. n /\ n - i \in Nat
    OBVIOUS
  <2>2. PICK i \in S : TRUE
    OBVIOUS
  <2>3. n - i \in T
    OBVIOUS
  <2> QED
    BY <2>1, <2>3
<1>2. PICK m \in T : \A x \in T : ~(<<x, m>> \in OpToRel(<, Nat))
  BY <1>1, NatLessThanWellFounded, WFMin
<1>3. \A x \in T : ~(x < m)
  BY <1>1, <1>2 DEF OpToRel
<1>4. PICK i \in S : m = n - i
  OBVIOUS
<1>5. \A j \in S : j <= i
  <2> SUFFICES ASSUME NEW j \in S PROVE j <= i
    OBVIOUS
  <2>1. ~(n - j < n - i)
    BY <1>3, <1>4
  <2> QED
    BY <2>1
<1> QED
  BY <1>5

\* The record recovery works on is one of the journal's records.
LEMMA RecoveryRecordType ==
  ASSUME NEW k \in Checkpoints, HasRecoveryRecord(k)
  PROVE  RecoveryRecord(k) \in Records
<1> DEFINE S == Recoverable(k.execs)
<1>1. k.execs \in Seq(Records)
  BY DEF Checkpoints
<1>2. S \in SUBSET (1 .. Len(k.execs)) /\ S # {} /\ Len(k.execs) \in Nat
  BY <1>1 DEF Recoverable, HasRecoveryRecord
<1>3. \E i \in S : \A j \in S : j <= i
  BY <1>2, LastPosition
<1> DEFINE m == CHOOSE i \in S : \A j \in S : j <= i
<1>4. m \in 1 .. Len(k.execs)
  BY <1>2, <1>3
<1>5. RecoveryRecord(k) = k.execs[m]
  BY DEF RecoveryRecord
<1> HIDE DEF m
<1> QED
  BY <1>1, <1>4, <1>5

\* Writing one record keeps a checkpoint a checkpoint, at the same version.
LEMMA WithRecordType ==
  ASSUME NEW k \in Checkpoints, NEW b \in Boundaries, NEW c \in Calls, NEW o \in Outcomes
  PROVE  /\ WithRecord(k, b, c, o) \in Checkpoints
         /\ WithRecord(k, b, c, o).version = k.version
<1>1. k.execs \in Seq(Records) /\ [call |-> c, outcome |-> o] \in Records
  BY DEF Checkpoints, Records
<1>2. Upsert(k.execs, c, o) \in Seq(Records)
  <2>1. CASE c \in Recorded(k.execs)
    <3> DEFINE e == [i \in DOMAIN k.execs |->
                      IF k.execs[i].call = c THEN [call |-> c, outcome |-> o] ELSE k.execs[i]]
    <3>1. DOMAIN k.execs = 1 .. Len(k.execs) /\ Len(k.execs) \in Nat
      BY <1>1
    <3>2. e \in [1 .. Len(k.execs) -> Records]
      BY <1>1, <3>1
    <3>3. e \in Seq(Records)
      BY <3>1, <3>2
    <3> QED
      BY <2>1, <3>3 DEF Upsert
  <2>2. CASE c \notin Recorded(k.execs)
    BY <1>1, <2>2 DEF Upsert
  <2> QED
    BY <2>1, <2>2
<1> QED
  BY <1>2 DEF WithRecord, Checkpoints

\* What a recovery writes is a checkpoint.
LEMMA ResolvedType ==
  ASSUME NEW k \in Checkpoints, HasRecoveryRecord(k),
         NEW a \in Answers \union {"none"}
  PROVE  Resolved(k, a) \in Checkpoints /\ Resolved(k, a).version = k.version
<1>1. PICK r : r = RecoveryRecord(k)
  OBVIOUS
<1>2. PICK s : s = Resolution(r.call, r.outcome, a)
  OBVIOUS
<1>3. r.call \in Calls /\ r.outcome \in Outcomes
  BY <1>1, RecoveryRecordType DEF Records
<1>4. s.boundary \in Boundaries /\ s.outcome \in Outcomes
  BY <1>2, <1>3 DEF Resolution, Boundaries, Outcomes, Answers
<1>5. Resolved(k, a) = WithRecord(k, s.boundary, r.call, s.outcome)
  BY <1>1, <1>2 DEF Resolved
<1> QED
  BY <1>3, <1>4, <1>5, WithRecordType

-----------------------------------------------------------------------------
(***************************************************************************)
(* Type correctness is inductive together with one fact about the          *)
(* recoverers: one that waits for an answer or is about to commit holds a  *)
(* checkpoint with a record to recover.                                    *)
(***************************************************************************)
HasWork ==
  \A r \in Recoverers :
    rc[r].pc \in {"reconcile", "commit"} => HasRecoveryRecord(rc[r].k)

\* The inductive invariant.
IInv == TypeOK /\ HasWork /\ FreshSnapshot

\* The idle states are well typed.
LEMMA IdleType == IdleExecutor \in ExecutorStates /\ IdleRecoverer \in RecovererStates
<1>1. InitialCheckpoint \in Checkpoints
  BY DEF InitialCheckpoint, Checkpoints, Boundaries
<1>2. (CHOOSE c \in Calls : TRUE) \in Calls
  BY BoundsAssumption
<1> QED
  BY <1>1, <1>2 DEF IdleExecutor, IdleRecoverer, ExecutorStates, RecovererStates, Outcomes

\* The outcome recorded for an error is an outcome.
LEMMA FailureOutcomeType ==
  \A c, kind : FailureOutcome(c, kind) \in Outcomes
BY DEF FailureOutcome, Outcomes

\* save() keeps a checkpoint well typed and takes the next version.
LEMMA SavedType ==
  ASSUME NEW k \in Checkpoints, stored \in Checkpoints
  PROVE  /\ Saved(k) \in Checkpoints
         /\ Saved(k).version = stored.version + 1
BY DEF Saved, Checkpoints

\* The initial state.
LEMMA InitIInv == Init => IInv
<1> SUFFICES ASSUME Init PROVE IInv
  OBVIOUS
<1>1. InitialCheckpoint \in Checkpoints
  BY DEF InitialCheckpoint, Checkpoints, Boundaries
<1> QED
  BY <1>1, IdleType DEF Init, IInv, TypeOK, HasWork, FreshSnapshot, IdleExecutor, IdleRecoverer

(***************************************************************************)
(* Every step leaves each worker's snapshot alone, drops it, or takes the  *)
(* checkpoint that is stored after the step; and a step that writes takes  *)
(* the next version.  That is all freshness needs.                         *)
(***************************************************************************)
KeepsSnapshots ==
  /\ stored' = stored \/ stored'.version = stored.version + 1
  /\ \A w \in Executors : ex'[w].pc # "idle" =>
       ex'[w].k = stored' \/ (ex'[w].k = ex[w].k /\ ex[w].pc # "idle")
  /\ \A r \in Recoverers : rc'[r].pc \in {"reconcile", "commit"} =>
       \/ rc'[r].k = stored'
       \/ rc'[r].k = rc[r].k /\ rc[r].pc \in {"reconcile", "commit"}

LEMMA FreshnessKept ==
  ASSUME IInv, TypeOK', KeepsSnapshots
  PROVE  FreshSnapshot'
<1>1. /\ stored.version \in Nat /\ stored'.version \in Nat
      /\ \A w \in Executors : ex[w].k.version \in Nat
      /\ \A r \in Recoverers : rc[r].k.version \in Nat
  BY DEF IInv, TypeOK, Checkpoints, ExecutorStates, RecovererStates
<1>2. ASSUME NEW w \in Executors, ex'[w].pc # "idle"
      PROVE  /\ ex'[w].k.version <= stored'.version
             /\ stored'.version = ex'[w].k.version => ex'[w].k = stored'
  <2>1. CASE ex'[w].k = stored'
    BY <1>1, <2>1
  <2>2. CASE ex'[w].k = ex[w].k /\ ex[w].pc # "idle"
    <3>1. /\ ex[w].k.version <= stored.version
          /\ stored.version = ex[w].k.version => ex[w].k = stored
      BY <2>2 DEF IInv, FreshSnapshot, CanSave
    <3> QED
      BY <1>1, <2>2, <3>1 DEF KeepsSnapshots
  <2> QED
    BY <1>2, <2>1, <2>2 DEF KeepsSnapshots
<1>3. ASSUME NEW r \in Recoverers, rc'[r].pc \in {"reconcile", "commit"}
      PROVE  /\ rc'[r].k.version <= stored'.version
             /\ stored'.version = rc'[r].k.version => rc'[r].k = stored'
  <2>1. CASE rc'[r].k = stored'
    BY <1>1, <2>1
  <2>2. CASE rc'[r].k = rc[r].k /\ rc[r].pc \in {"reconcile", "commit"}
    <3>1. /\ rc[r].k.version <= stored.version
          /\ stored.version = rc[r].k.version => rc[r].k = stored
      BY <2>2 DEF IInv, FreshSnapshot, CanSave
    <3> QED
      BY <1>1, <2>2, <3>1 DEF KeepsSnapshots
  <2> QED
    BY <1>3, <2>1, <2>2 DEF KeepsSnapshots
<1> QED
  BY <1>2, <1>3 DEF FreshSnapshot, CanSave

\* What each step must be shown to do.
StepOK == TypeOK' /\ HasWork' /\ KeepsSnapshots

(***************************************************************************)
(* Steps of an executor that write nothing.                                *)
(***************************************************************************)
LEMMA ContinueOK ==
  ASSUME IInv, NEW w \in Executors, ex[w].pc # "idle",
         NEW pc \in {"audit", "audit_failed", "outcome", "catch"}, NEW o \in Outcomes,
         Continue(w, pc, o), UNCHANGED <<stored, rc>>,
         cache' \in [Executors -> SUBSET Calls], effects' \in [Calls -> Nat]
  PROVE  StepOK
<1> USE DEF IInv
<1>1. [ex[w] EXCEPT !.pc = pc, !.outcome = o] \in ExecutorStates
  BY DEF TypeOK, ExecutorStates
<1>2. TypeOK'
  BY <1>1 DEF TypeOK, Continue
<1>3. HasWork'
  BY DEF HasWork
<1>4. KeepsSnapshots
  BY DEF KeepsSnapshots, Continue, TypeOK, ExecutorStates
<1> QED
  BY <1>2, <1>3, <1>4 DEF StepOK

LEMMA ExecutorLocalOK ==
  ASSUME IInv, NEW w \in Executors,
         Refuse(w) \/ ThrowEarly(w) \/ ReturnCached(w) \/ HandlerReturns(w)
         \/ HandlerThrows(w) \/ Audit(w) \/ AuditFailed(w)
  PROVE  StepOK
<1>1. /\ ex[w].call \in Calls /\ ex[w].outcome \in Outcomes
      /\ effects \in [Calls -> Nat] /\ cache \in [Executors -> SUBSET Calls]
      /\ cache[w] \subseteq Calls
  BY DEF IInv, TypeOK, ExecutorStates
<1>2. CASE Refuse(w)
  <2>1. PICK o \in {"cancelled_before_execution", "never_executed"} : Continue(w, "outcome", o)
    BY <1>2 DEF Refuse
  <2>2. o \in Outcomes
    BY <2>1 DEF Outcomes
  <2> QED
    BY <1>1, <1>2, <2>1, <2>2, ContinueOK DEF Refuse
<1>3. CASE ThrowEarly(w)
  <2>1. PICK kind \in ErrorKinds : Continue(w, "catch", FailureOutcome(ex[w].call, kind))
    BY <1>3 DEF ThrowEarly
  <2> QED
    BY <1>1, <1>3, <2>1, FailureOutcomeType, ContinueOK DEF ThrowEarly
<1>4. CASE ReturnCached(w)
  <2>1. "executed" \in Outcomes
    BY DEF Outcomes
  <2> QED
    BY <1>1, <1>4, <2>1, ContinueOK DEF ReturnCached
<1>5. CASE HandlerReturns(w)
  <2>1. "executed" \in Outcomes
    BY DEF Outcomes
  <2>2. /\ effects' \in [Calls -> Nat]
        /\ cache' \in [Executors -> SUBSET Calls]
    BY <1>1, <1>5 DEF HandlerReturns
  <2> QED
    BY <1>5, <2>1, <2>2, ContinueOK DEF HandlerReturns
<1>6. CASE HandlerThrows(w)
  <2>1. PICK kind : Continue(w, "audit_failed", FailureOutcome(ex[w].call, kind))
    BY <1>6 DEF HandlerThrows
  <2>2. effects' \in [Calls -> Nat]
    BY <1>1, <1>6 DEF HandlerThrows
  <2> QED
    BY <1>1, <1>6, <2>1, <2>2, FailureOutcomeType, ContinueOK DEF HandlerThrows
<1>7. CASE Audit(w)
  <2>1. "executed" \in Outcomes
    BY DEF Outcomes
  <2>2. PICK o \in Outcomes : Continue(w, "outcome", o) \/ Continue(w, "audit_failed", o)
    BY <1>7, <2>1, FailureOutcomeType DEF Audit
  <2> QED
    BY <1>1, <1>7, <2>2, ContinueOK DEF Audit
<1>8. CASE AuditFailed(w)
  <2>1. PICK o \in Outcomes : Continue(w, "catch", o)
    BY <1>1, <1>8, FailureOutcomeType DEF AuditFailed
  <2> QED
    BY <1>1, <1>8, <2>1, ContinueOK DEF AuditFailed
<1> QED
  BY <1>2, <1>3, <1>4, <1>5, <1>6, <1>7, <1>8

(***************************************************************************)
(* The other steps of an executor.                                         *)
(***************************************************************************)
LEMMA ReturnOK ==
  ASSUME IInv, NEW w \in Executors,
         ex' = [ex EXCEPT ![w] = IdleExecutor],
         stored' = stored \/ (stored' \in Checkpoints /\ stored'.version = stored.version + 1),
         cache' \in [Executors -> SUBSET Calls], UNCHANGED <<rc, effects>>
  PROVE  StepOK
<1> USE DEF IInv
<1>1. TypeOK'
  BY IdleType DEF TypeOK
<1>2. HasWork'
  BY DEF HasWork
<1>3. KeepsSnapshots
  BY DEF KeepsSnapshots, TypeOK, IdleExecutor
<1> QED
  BY <1>1, <1>2, <1>3 DEF StepOK

LEMMA StoreOutcomeType ==
  ASSUME IInv, NEW w \in Executors, StoreOutcome(w)
  PROVE  stored' \in Checkpoints /\ stored'.version = stored.version + 1
<1>1. /\ stored \in Checkpoints /\ ex[w].k \in Checkpoints
      /\ ex[w].call \in Calls /\ ex[w].outcome \in Outcomes
  BY DEF IInv, TypeOK, ExecutorStates
<1>2. BoundaryOf(ex[w].outcome) \in Boundaries
  BY DEF BoundaryOf, Boundaries
<1>3. WithRecord(ex[w].k, BoundaryOf(ex[w].outcome), ex[w].call, ex[w].outcome) \in Checkpoints
  BY <1>1, <1>2, WithRecordType
<1> QED
  BY <1>1, <1>3, SavedType DEF StoreOutcome

LEMMA SaveIntentOK ==
  ASSUME IInv, NEW w \in Executors, SaveIntent(w)
  PROVE  StepOK
<1>1. PICK next : next = Saved(WithRecord(ex[w].k, "ready_for_tool", ex[w].call, "started"))
  OBVIOUS
<1>2. next \in Checkpoints /\ next.version = stored.version + 1
  <2>1. /\ stored \in Checkpoints /\ ex[w].k \in Checkpoints /\ ex[w].call \in Calls
        /\ "ready_for_tool" \in Boundaries /\ "started" \in Outcomes
    BY DEF IInv, TypeOK, ExecutorStates, Boundaries, Outcomes
  <2>2. WithRecord(ex[w].k, "ready_for_tool", ex[w].call, "started") \in Checkpoints
    BY <2>1, WithRecordType
  <2> QED
    BY <1>1, <2>1, <2>2, SavedType
<1>3. CASE CanSave(ex[w].k.version)
  <2>1. /\ stored' = next
        /\ ex' = [ex EXCEPT ![w] = [ex[w] EXCEPT !.pc = "secure", !.k = next]]
        /\ UNCHANGED <<cache, rc, effects>>
    BY <1>1, <1>3 DEF SaveIntent
  <2>2. [ex[w] EXCEPT !.pc = "secure", !.k = next] \in ExecutorStates
    BY <1>2 DEF IInv, TypeOK, ExecutorStates
  <2>3. TypeOK'
    BY <1>2, <2>1, <2>2 DEF IInv, TypeOK
  <2>4. HasWork'
    BY <2>1 DEF IInv, HasWork
  <2>5. KeepsSnapshots
    BY <1>2, <2>1 DEF KeepsSnapshots, IInv, TypeOK, ExecutorStates
  <2> QED
    BY <2>3, <2>4, <2>5 DEF StepOK
<1>4. CASE ~CanSave(ex[w].k.version)
  BY <1>4, ReturnOK DEF SaveIntent, IInv, TypeOK
<1> QED
  BY <1>3, <1>4

LEMMA ExecutorStepOK ==
  ASSUME IInv, NEW w \in Executors, ExecutorStep(w)
  PROVE  StepOK
<1>0. cache \in [Executors -> SUBSET Calls] /\ effects \in [Calls -> Nat]
  BY DEF IInv, TypeOK
<1>1. CASE SaveIntent(w)
  BY <1>1, SaveIntentOK
<1>2. CASE SaveOutcome(w)
  <2>1. CASE StoreOutcome(w) /\ ex' = [ex EXCEPT ![w] = IdleExecutor]
    BY <1>0, <1>2, <2>1, StoreOutcomeType, ReturnOK DEF SaveOutcome
  <2>2. CASE ~(StoreOutcome(w) /\ ex' = [ex EXCEPT ![w] = IdleExecutor])
    <3>1. "failed" \in Outcomes
      BY DEF Outcomes
    <3>2. UNCHANGED stored /\ \E o \in Outcomes : Continue(w, "catch", o)
      BY <1>2, <2>2, <3>1, FailureOutcomeType DEF SaveOutcome
    <3>3. PICK o \in Outcomes : Continue(w, "catch", o)
      BY <3>2
    <3> QED
      BY <1>0, <1>2, <3>2, <3>3, ContinueOK DEF SaveOutcome
  <2> QED
    BY <2>1, <2>2
<1>3. CASE SaveFailure(w)
  BY <1>0, <1>3, StoreOutcomeType, ReturnOK DEF SaveFailure
<1> QED
  BY <1>1, <1>2, <1>3, ExecutorLocalOK DEF ExecutorStep

LEMMA BeginOK ==
  ASSUME IInv, NEW w \in Executors, NEW c \in Calls, Begin(w, c)
  PROVE  StepOK
<1> USE DEF IInv, Begin
<1>1. [ex[w] EXCEPT !.pc = "intent", !.k = stored, !.call = c] \in ExecutorStates
  BY DEF TypeOK, ExecutorStates
<1>2. TypeOK'
  BY <1>1 DEF TypeOK
<1>3. HasWork'
  BY DEF HasWork
<1>4. KeepsSnapshots
  BY DEF KeepsSnapshots, TypeOK, ExecutorStates
<1> QED
  BY <1>2, <1>3, <1>4 DEF StepOK

LEMMA CrashOK ==
  ASSUME IInv, NEW w \in Executors, Crash(w)
  PROVE  StepOK
<1>1. cache' \in [Executors -> SUBSET Calls]
  BY DEF IInv, TypeOK, Crash
<1> QED
  BY <1>1, ReturnOK DEF Crash

(***************************************************************************)
(* Steps of a recoverer.                                                   *)
(***************************************************************************)
LEMMA RecovererOK ==
  ASSUME IInv, NEW r \in Recoverers, NEW e \in RecovererStates,
         rc' = [rc EXCEPT ![r] = e],
         e.pc \in {"reconcile", "commit"} =>
           /\ HasRecoveryRecord(e.k)
           /\ e.k = stored \/ (e.k = rc[r].k /\ rc[r].pc \in {"reconcile", "commit"}),
         \/ stored' = stored
         \/ /\ e.pc \notin {"reconcile", "commit"}
            /\ stored' \in Checkpoints /\ stored'.version = stored.version + 1,
         UNCHANGED <<ex, cache, effects>>
  PROVE  StepOK
<1> USE DEF IInv
<1>1. TypeOK'
  BY DEF TypeOK
<1>2. HasWork'
  BY DEF HasWork, TypeOK
<1>3. KeepsSnapshots
  BY DEF KeepsSnapshots, TypeOK
<1> QED
  BY <1>1, <1>2, <1>3 DEF StepOK

LEMMA LoadForRecoveryOK ==
  ASSUME IInv, NEW r \in Recoverers, LoadForRecovery(r)
  PROVE  StepOK
<1>0. /\ rc[r] \in RecovererStates /\ stored \in Checkpoints
      /\ UNCHANGED <<stored, ex, cache, effects>>
  BY DEF IInv, TypeOK, LoadForRecovery
<1>1. CASE rc' = [rc EXCEPT ![r] = IdleRecoverer]
  <2>1. IdleRecoverer.pc = "idle"
    BY DEF IdleRecoverer
  <2> QED
    BY <1>0, <1>1, <2>1, IdleType, RecovererOK
<1>2. CASE rc' # [rc EXCEPT ![r] = IdleRecoverer]
  <2>1. HasRecoveryRecord(stored)
    BY <1>2 DEF LoadForRecovery
  <2>2. PICK pc \in {"reconcile", "commit"} :
          rc' = [rc EXCEPT ![r] = [rc[r] EXCEPT !.pc = pc, !.k = stored, !.answer = "none"]]
    BY <1>2 DEF LoadForRecovery
  <2>3. PICK e : e = [rc[r] EXCEPT !.pc = pc, !.k = stored, !.answer = "none"]
    OBVIOUS
  <2>4. e \in RecovererStates /\ e.k = stored
    BY <1>0, <2>3 DEF RecovererStates
  <2>5. rc' = [rc EXCEPT ![r] = e]
    BY <2>2, <2>3
  <2> QED
    BY <1>0, <2>1, <2>4, <2>5, RecovererOK
<1> QED
  BY <1>1, <1>2

LEMMA ReconcileOK ==
  ASSUME IInv, NEW r \in Recoverers, Reconcile(r)
  PROVE  StepOK
<1>0. /\ rc[r] \in RecovererStates /\ rc[r].pc = "reconcile"
      /\ UNCHANGED <<stored, ex, cache, effects>>
  BY DEF IInv, TypeOK, Reconcile
<1>1. HasRecoveryRecord(rc[r].k)
  BY <1>0 DEF IInv, HasWork
<1>2. CASE rc' = [rc EXCEPT ![r] = IdleRecoverer]
  <2>1. IdleRecoverer.pc = "idle"
    BY DEF IdleRecoverer
  <2> QED
    BY <1>0, <1>2, <2>1, IdleType, RecovererOK
<1>3. CASE rc' # [rc EXCEPT ![r] = IdleRecoverer]
  <2>1. PICK a \in TruthfulAnswers(RecoveryRecord(rc[r].k).call) :
          rc' = [rc EXCEPT ![r] = [rc[r] EXCEPT !.pc = "commit", !.answer = a]]
    BY <1>3 DEF Reconcile
  <2>2. a \in Answers
    BY DEF TruthfulAnswers, Answers
  <2>3. PICK e : e = [rc[r] EXCEPT !.pc = "commit", !.answer = a]
    OBVIOUS
  <2>4. e \in RecovererStates /\ e.k = rc[r].k
    BY <1>0, <2>2, <2>3 DEF RecovererStates
  <2>5. rc' = [rc EXCEPT ![r] = e]
    BY <2>1, <2>3
  <2> QED
    BY <1>0, <1>1, <2>4, <2>5, RecovererOK
<1> QED
  BY <1>2, <1>3

LEMMA CommitOK ==
  ASSUME IInv, NEW r \in Recoverers, Commit(r)
  PROVE  StepOK
<1>0. /\ rc[r] \in RecovererStates /\ rc[r].pc = "commit" /\ stored \in Checkpoints
      /\ UNCHANGED <<ex, cache, effects>>
  BY DEF IInv, TypeOK, Commit
<1>1. IdleRecoverer.pc = "idle" /\ IdleRecoverer \in RecovererStates
  BY IdleType DEF IdleRecoverer
<1>2. CASE CanSave(rc[r].k.version)
  <2>1. /\ stored' = Saved(Resolved(rc[r].k, rc[r].answer))
        /\ rc' = [rc EXCEPT ![r] = IdleRecoverer]
    BY <1>2 DEF Commit
  <2>2. Resolved(rc[r].k, rc[r].answer) \in Checkpoints
    BY <1>0, ResolvedType DEF IInv, HasWork, RecovererStates
  <2>3. stored' \in Checkpoints /\ stored'.version = stored.version + 1
    BY <1>0, <2>1, <2>2, SavedType
  <2> QED
    BY <1>0, <1>1, <2>1, <2>3, RecovererOK
<1>3. CASE ~CanSave(rc[r].k.version)
  <2>1. stored' = stored
    BY <1>3 DEF Commit
  <2>2. PICK e : e = IF rc[r].conflicts + 1 > MaxConflicts THEN IdleRecoverer
                     ELSE [IdleRecoverer EXCEPT !.pc = "load",
                                                !.conflicts = rc[r].conflicts + 1]
    OBVIOUS
  <2>3. rc' = [rc EXCEPT ![r] = e]
    BY <1>3, <2>2 DEF Commit
  <2>4. rc[r].conflicts + 1 \in Nat
    BY <1>0 DEF RecovererStates
  <2>5. e \in RecovererStates /\ e.pc \notin {"reconcile", "commit"}
    BY <1>1, <2>2, <2>4 DEF RecovererStates
  <2> QED
    BY <1>0, <2>1, <2>3, <2>5, RecovererOK
<1> QED
  BY <1>2, <1>3

LEMMA StartOrCrashRecovererOK ==
  ASSUME IInv, NEW r \in Recoverers, StartRecovery(r) \/ CrashRecoverer(r)
  PROVE  StepOK
<1>1. IdleRecoverer.pc = "idle" /\ IdleRecoverer \in RecovererStates
  BY IdleType DEF IdleRecoverer
<1>2. PICK e : e = [rc[r] EXCEPT !.pc = "load"]
  OBVIOUS
<1>3. e \in RecovererStates /\ e.pc = "load"
  BY <1>2 DEF IInv, TypeOK, RecovererStates
<1>4. CASE StartRecovery(r)
  BY <1>2, <1>3, <1>4, RecovererOK DEF StartRecovery
<1>5. CASE CrashRecoverer(r)
  BY <1>1, <1>5, RecovererOK DEF CrashRecoverer
<1> QED
  BY <1>4, <1>5

LEMMA CompleteRunOK ==
  ASSUME IInv, CompleteRun
  PROVE  StepOK
<1> USE DEF IInv, CompleteRun
<1>1. [stored EXCEPT !.boundary = "completed"] \in Checkpoints
  BY DEF TypeOK, Checkpoints, Boundaries
<1>2. stored' \in Checkpoints /\ stored'.version = stored.version + 1
  BY <1>1, SavedType DEF TypeOK
<1>3. TypeOK'
  BY <1>2 DEF TypeOK
<1>4. HasWork'
  BY DEF HasWork
<1>5. KeepsSnapshots
  BY <1>2 DEF KeepsSnapshots
<1> QED
  BY <1>3, <1>4, <1>5 DEF StepOK

-----------------------------------------------------------------------------
(***************************************************************************)
(* The theorems.                                                           *)
(***************************************************************************)
LEMMA IInvInductive == IInv /\ [Next]_vars => IInv'
<1> SUFFICES ASSUME IInv, [Next]_vars PROVE IInv'
  OBVIOUS
<1>1. CASE UNCHANGED vars
  BY <1>1 DEF vars, IInv, TypeOK, HasWork, FreshSnapshot, CanSave
<1>2. ASSUME NEW w \in Executors, ExecutorStep(w) PROVE StepOK
  BY <1>2, ExecutorStepOK
<1>3. ASSUME NEW w \in Executors, Crash(w) PROVE StepOK
  BY <1>3, CrashOK
<1>4. ASSUME NEW w \in Executors, NEW c \in Calls, Begin(w, c) PROVE StepOK
  BY <1>4, BeginOK
<1>5. ASSUME NEW r \in Recoverers, RecovererStep(r) PROVE StepOK
  BY <1>5, LoadForRecoveryOK, ReconcileOK, CommitOK DEF RecovererStep
<1>6. ASSUME NEW r \in Recoverers, StartRecovery(r) \/ CrashRecoverer(r) PROVE StepOK
  BY <1>6, StartOrCrashRecovererOK
<1>7. CASE Next
  <2>1. StepOK
    BY <1>2, <1>3, <1>4, <1>5, <1>6, <1>7, CompleteRunOK DEF Next
  <2> QED
    BY <2>1, FreshnessKept DEF StepOK, IInv
<1> QED
  BY <1>1, <1>7

\* Every reachable state is well typed: checkpoints, snapshots and counters
\* stay what the code's types say, for every policy and number of workers.
THEOREM TypeCorrect == Spec => []TypeOK
<1>1. IInv => TypeOK
  BY DEF IInv
<1> QED
  BY InitIInv, IInvInductive, <1>1, PTL DEF Spec

\* A worker whose snapshot still passes save()'s version check holds exactly
\* the stored checkpoint, so compare-and-swap on the version alone never loses
\* an update, however many workers, recoveries and crashes there are.
THEOREM SnapshotsFresh == Spec => []FreshSnapshot
<1>1. IInv => FreshSnapshot
  BY DEF IInv
<1> QED
  BY InitIInv, IInvInductive, <1>1, PTL DEF Spec
=============================================================================
