--------------------------- MODULE DeliveryCutover ---------------------------
(***************************************************************************)
(* Handing the outbox over from the legacy dispatcher: the bootstrap of    *)
(* the verified gateway and the guard, which collect evidence from the     *)
(* deployment's controller (recovery-dispatcher-cutover-*.ts,              *)
(* recovery-cutover-evidence-guard.ts), and the epochs that fence writers  *)
(* in the database (recovery-writer-epoch-store.ts).                       *)
(*                                                                         *)
(* Evidence is a snapshot: collect() is awaited, and what it reported may  *)
(* no longer be so when the operation it allowed takes place.  An epoch is *)
(* compared in the transaction that writes.  The two are independent: no   *)
(* code in src/ checks both.  The controller, the coordinator that rotates *)
(* and the worker that asks the guard before each operation are external;  *)
(* what the gateway's claim() and confirm() do is in OutboxDelivery.       *)
(***************************************************************************)
EXTENDS Naturals, FiniteSets

CONSTANTS
  Workers,         \* workers, one owner id each
  Facts,           \* the facts of TrustedDispatcherCutoverEvidence
  MaxEpoch,        \* bound on rotations
  MaxWithdrawals   \* bound on how often a fact stops being so

VARIABLES
  evidence,   \* external: the facts that hold, how often one was withdrawn
  fence,      \* recovery_writer_fence: epoch and owner
  worker,     \* per worker: its gateway, whether the guard has allowed, and when, its epoch
  done        \* history: the last gateway operation, the epoch of the last guarded update

vars == <<evidence, fence, worker, done>>

Nobody == "nobody"

TypeOK ==
  /\ evidence \in [facts : SUBSET Facts, withdrawn : 0..MaxWithdrawals]
  /\ fence \in [epoch : 0..MaxEpoch, owner : Workers \union {Nobody}]
  /\ worker \in [Workers -> [gateway : BOOLEAN, allowed : BOOLEAN,
                             since : 0..MaxWithdrawals, epoch : 0..MaxEpoch]]
  /\ done \in [beside : SUBSET Facts, late : BOOLEAN, epoch : 0..MaxEpoch]

Init ==
  /\ evidence = [facts |-> {}, withdrawn |-> 0]
  /\ fence = [epoch |-> 0, owner |-> Nobody]
  /\ worker = [w \in Workers |->
       [gateway |-> FALSE, allowed |-> FALSE, since |-> 0, epoch |-> 0]]
  /\ done = [beside |-> {}, late |-> FALSE, epoch |-> 0]

\* reviewDispatcherCutover, and the same loop in the guard.
Eligible(facts) == facts = Facts

\* bootstrapRecoveryDelivery hands the gateway out; a hold, or a controller that cannot be
\* reached, is a step not taken, here and in the guard.
Bootstrap(w) ==
  /\ ~worker[w].gateway /\ Eligible(evidence.facts)
  /\ worker' = [worker EXCEPT ![w].gateway = TRUE]
  /\ UNCHANGED <<evidence, fence, done>>

\* CutoverEvidenceGuard.check allows the next operation.
Check(w) ==
  /\ worker[w].gateway /\ ~worker[w].allowed /\ Eligible(evidence.facts)
  /\ worker' = [worker EXCEPT ![w].allowed = TRUE, ![w].since = evidence.withdrawn]
  /\ UNCHANGED <<evidence, fence, done>>

\* The claim() or confirm() of the gateway it was asked for.
Operate(w) ==
  /\ worker[w].allowed
  /\ worker' = [worker EXCEPT ![w].allowed = FALSE]
  /\ done' = [done EXCEPT !.beside = Facts \ evidence.facts,
                          !.late = worker[w].since # evidence.withdrawn]
  /\ UNCHANGED <<evidence, fence>>

-----------------------------------------------------------------------------
(* SQLiteWriterEpochStore.                                                 *)

\* rotate.
Rotate(owner) ==
  /\ fence.epoch < MaxEpoch
  /\ fence' = [epoch |-> fence.epoch + 1, owner |-> owner]
  /\ UNCHANGED <<evidence, worker, done>>

\* External: the owner is told its epoch.
Learn(w) ==
  /\ fence.owner = w
  /\ worker' = [worker EXCEPT ![w].epoch = fence.epoch]
  /\ UNCHANGED <<evidence, fence, done>>

\* Mutant: only the owner is compared.
MayUpdateAsOwner(w) == fence.owner = w

\* The check of guardedUpdate, in the transaction of the update; otherwise it throws
\* stale_writer_fenced.
MayUpdate(w) == fence.owner = w /\ fence.epoch = worker[w].epoch

GuardedUpdate(w) ==
  /\ worker[w].epoch > 0 /\ MayUpdate(w)
  /\ done' = [done EXCEPT !.epoch = worker[w].epoch]
  /\ UNCHANGED <<evidence, fence, worker>>

-----------------------------------------------------------------------------

\* External: the controller finds that a fact holds, or no longer does.
Gather ==
  /\ \E fact \in Facts \ evidence.facts :
       evidence' = [evidence EXCEPT !.facts = @ \union {fact}]
  /\ UNCHANGED <<fence, worker, done>>

Withdraw ==
  /\ evidence.withdrawn < MaxWithdrawals
  /\ \E fact \in evidence.facts :
       evidence' = [facts |-> evidence.facts \ {fact}, withdrawn |-> evidence.withdrawn + 1]
  /\ UNCHANGED <<fence, worker, done>>

Next ==
  \/ \E w \in Workers :
       Bootstrap(w) \/ Check(w) \/ Operate(w) \/ Rotate(w) \/ Learn(w) \/ GuardedUpdate(w)
  \/ Gather \/ Withdraw

Spec == Init /\ [][Next]_vars

-----------------------------------------------------------------------------
(* Properties.                                                             *)

\* No operation takes place beside the legacy dispatcher, or without any other of the
\* facts, unless one was withdrawn after the check that allowed the operation: the window
\* the guard's comment admits ("a bootstrap snapshot is not a continuous write fence").
NoMixedWriters == done.beside # {} => done.late

\* No guarded update goes back to an epoch that was handed over, however late its writer.
EpochsGrow == done'.epoch >= done.epoch
=============================================================================
