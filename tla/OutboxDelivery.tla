--------------------------- MODULE OutboxDelivery ---------------------------
(***************************************************************************)
(* Delivery of the recovery outbox: dispatcher workers that lease an event *)
(* (recovery-outbox-delivery-lease.ts, and with a writer epoch             *)
(* recovery-fenced-outbox-delivery.ts), a network that loses, repeats and  *)
(* reorders, a consumer that deduplicates in its own database              *)
(* (recovery-outbox-consumer-inbox.ts), and acknowledgements that are      *)
(* verified asynchronously (recovery-outbox-authenticated-dispatch.ts).    *)
(*                                                                         *)
(* Every SQLite method runs under BEGIN IMMEDIATE and is one step; what    *)
(* interleaves is the calls, the network and the passing of time.          *)
(*                                                                         *)
(* Time is not counted.  A lease is live, then in grace, then expired:     *)
(* during grace the callers' clocks (nowEpochMs is an argument) disagree   *)
(* on whether it has run out.  The lease token, a fresh UUID per claim, is *)
(* named by the attempt number that the same transaction allocates.        *)
(***************************************************************************)
EXTENDS Naturals

CONSTANTS
  Events,         \* outbox records the finalizer has written
  Workers,        \* dispatcher workers
  Deployments,    \* which workers go through SQLiteFencedOutboxDelivery, and which
                  \* call acknowledge() without the verifying adapter
  Contract,       \* the consumer contract every worker is configured with
  MaxAttempts,    \* bound: nothing fails any more at this many claims of an event
  MaxEpoch        \* bound on writer epochs

Contracts == [dedupe : BOOLEAN, retention : Nat, window : Nat, ack : BOOLEAN]

ASSUME DeliveryAssumption ==
  /\ Deployments \subseteq [fenced : SUBSET Workers, raw : SUBSET Workers]
  /\ Contract \in Contracts
  /\ MaxAttempts \in Nat
  /\ MaxEpoch \in Nat

VARIABLES
  deployed,  \* the deployment, which stays as it is
  outbox,    \* producer: per event, the record's status, attempts and version
  lease,     \* producer: per event, the row of the lease table; token 0 = none
  fence,     \* producer: the row of recovery_writer_fence; epoch 0 = none
  wk,        \* per worker and event: the token it holds, and the verdict of
             \* its clock on the lease once it is confirming
  epoch,     \* per worker: the epoch it was last given
  net,       \* requests under way to the consumer
  replies,   \* consumer answers under way to the workers
  inbox,     \* consumer: events in recovery_consumer_inbox
  applied,   \* consumer: rows of recovery_consumer_business_effects, counted
  writer     \* history: the epoch under which the outbox was last written

vars == <<deployed, outbox, lease, fence, wk, epoch, net, replies, inbox, applied, writer>>

FencedWorkers == deployed.fenced
RawAckers == deployed.raw

OutboxRecords == [status : {"pending", "dispatched"}, attempts : Nat, version : Nat]
Leases == [worker : Workers, token : Nat, age : {"live", "grace", "expired"}]
WorkerStates == [token : Nat, verdict : {"none", "live", "late"}]
Nobody == [token |-> 0, verdict |-> "none"]
Messages == Workers \X Events

TypeOK ==
  /\ deployed \in Deployments
  /\ outbox \in [Events -> OutboxRecords]
  /\ lease \in [Events -> Leases]
  /\ fence \in [epoch : 0..MaxEpoch, owner : Workers]
  /\ wk \in [Workers -> [Events -> WorkerStates]]
  /\ epoch \in [Workers -> 0..fence.epoch]
  /\ net \subseteq Messages /\ replies \subseteq Messages
  /\ inbox \subseteq Events
  /\ applied \in [Events -> Nat]
  /\ writer \in 0..fence.epoch

Init ==
  /\ deployed \in Deployments
  /\ outbox = [e \in Events |-> [status |-> "pending", attempts |-> 0, version |-> 1]]
  /\ \E w \in Workers :
       /\ lease = [e \in Events |-> [worker |-> w, token |-> 0, age |-> "expired"]]
       /\ fence = [epoch |-> 0, owner |-> w]
  /\ wk = [w \in Workers |-> [e \in Events |-> Nobody]]
  /\ epoch = [w \in Workers |-> 0]
  /\ net = {} /\ replies = {}
  /\ inbox = {}
  /\ applied = [e \in Events |-> 0]
  /\ writer = 0

-----------------------------------------------------------------------------
(* The producer's database.                                                *)

\* recovery-outbox-delivery-contract.ts: what may be done with a record.
PlanDelivery(record, contract) ==
  CASE record.status = "dispatched" -> "already_dispatched"
    [] \/ ~contract.dedupe
       \/ contract.window = 0
       \/ contract.retention < contract.window
       \/ ~contract.ack -> "hold"
    [] OTHER -> "requires_atomic_delivery_claim"

\* Mutant: any worker that was ever given an epoch may write.
MayWriteOnceGiven(w) == w \in FencedWorkers => epoch[w] > 0

\* assertFence: the worker owns the current epoch.  Legacy workers are not asked.
MayWrite(w) ==
  w \in FencedWorkers => fence = [epoch |-> epoch[w], owner |-> w] /\ fence.epoch > 0

\* The trusted coordinator hands the outbox to worker w.
Rotate(w) ==
  /\ w \in FencedWorkers
  /\ fence.epoch < MaxEpoch
  /\ \A e \in Events : outbox[e].attempts < MaxAttempts
  /\ fence' = [epoch |-> fence.epoch + 1, owner |-> w]
  /\ epoch' = [epoch EXCEPT ![w] = fence.epoch + 1]
  /\ UNCHANGED <<deployed, outbox, lease, wk, net, replies, inbox, applied, writer>>

\* Mutant: clocks are never compared with the expiry in the grace period, and an
\* expired row stays busy.
SeenExpiredNever(age) == age = "grace" /\ age = "expired"

\* The ages at which some clock says that the lease has run out, or has not.
SeenExpired(age) == age \in {"grace", "expired"}
SeenLive(age) == age \in {"live", "grace"}

\* Mutant: the transaction writes the lease row but not the outbox record.
ClaimUncounted(w, e) ==
  /\ MayWrite(w) /\ SeenExpired(lease[e].age) /\ outbox[e].status = "pending"
  /\ LET attempt == outbox[e].attempts + 1
     IN /\ lease' = [lease EXCEPT ![e] = [worker |-> w, token |-> attempt, age |-> "live"]]
        /\ wk' = [wk EXCEPT ![w][e] = [token |-> attempt, verdict |-> "none"]]
  /\ UNCHANGED <<deployed, outbox, fence, epoch, net, replies, inbox, applied, writer>>

\* claim(): a new lease when there is none or the worker's clock says that the
\* previous one has run out.  (A hold, busy or already_dispatched answer changes
\* nothing.)
Claim(w, e) ==
  /\ outbox[e].attempts < MaxAttempts
  /\ MayWrite(w)
  /\ PlanDelivery(outbox[e], Contract) = "requires_atomic_delivery_claim"
  /\ SeenExpired(lease[e].age)
  /\ LET attempt == outbox[e].attempts + 1
     IN /\ outbox' = [outbox EXCEPT ![e] = [@ EXCEPT !.attempts = attempt,
                                                     !.version = outbox[e].version + 1]]
        /\ lease' = [lease EXCEPT ![e] = [worker |-> w, token |-> attempt, age |-> "live"]]
        /\ wk' = [wk EXCEPT ![w][e] = [token |-> attempt, verdict |-> "none"]]
  /\ writer' = epoch[w]
  /\ UNCHANGED <<deployed, fence, epoch, net, replies, inbox, applied>>

\* The lease binding that acknowledge() demands: the current token, and on the
\* fenced path the lease's own worker.
Bound(w, e) ==
  /\ lease[e].token = wk[w][e].token
  /\ w \in FencedWorkers => lease[e].worker = w

\* acknowledge(): the record is settled, or nothing changes (denied, or already
\* dispatched).  The caller may ask again with the same token.
Acknowledge(w, e, verdict) ==
  /\ IF /\ MayWrite(w) /\ Bound(w, e)
        /\ outbox[e].status = "pending"
        /\ verdict = "live"
        /\ lease[e].token = outbox[e].attempts
     THEN /\ outbox' = [outbox EXCEPT ![e] = [@ EXCEPT !.status = "dispatched",
                                                       !.version = outbox[e].version + 1]]
          /\ writer' = epoch[w]
     ELSE UNCHANGED <<outbox, writer>>
  /\ wk' = [wk EXCEPT ![w][e].verdict = "none"]
  /\ UNCHANGED <<deployed, lease, fence, epoch, net, replies, inbox, applied>>

-----------------------------------------------------------------------------
(* Workers, network and consumer.                                          *)

\* Environment: until an event's last attempt, time runs, messages are lost (a
\* consumer transaction that rolls back is a lost request), verification fails
\* and workers crash.
Unreliable(e) == outbox[e].attempts < MaxAttempts

\* External: the holder of a token publishes, even when its lease has run out.
Publish(w, e) ==
  /\ wk[w][e].token > 0
  /\ net' = net \union {<<w, e>>}
  /\ UNCHANGED <<deployed, outbox, lease, fence, wk, epoch, replies, inbox, applied, writer>>

\* Mutant: the business effect is inserted before the inbox is consulted.
ConsumeEffectFirst(w, e) ==
  /\ <<w, e>> \in net
  /\ inbox' = inbox \union {e}
  /\ applied' = [applied EXCEPT ![e] = @ + 1]
  /\ replies' = replies \union {<<w, e>>}
  /\ net' = net \ {<<w, e>>}
  /\ UNCHANGED <<deployed, outbox, lease, fence, wk, epoch, writer>>

\* consume(): inbox row and business effect in one transaction; a repeated event
\* is answered from the inbox.  The request may be delivered again.
Consume(w, e) ==
  /\ <<w, e>> \in net
  /\ inbox' = inbox \union {e}
  /\ applied' = IF e \in inbox THEN applied ELSE [applied EXCEPT ![e] = @ + 1]
  /\ replies' = replies \union {<<w, e>>}
  /\ net' \in {net, net \ {<<w, e>>}}
  /\ UNCHANGED <<deployed, outbox, lease, fence, wk, epoch, writer>>

\* acknowledgeVerifiedConsumerDelivery starts: the caller reads its clock once,
\* before the adapter is awaited.
BeginConfirm(w, e) ==
  /\ <<w, e>> \in replies
  /\ wk[w][e].token > 0 /\ wk[w][e].verdict = "none"
  /\ \E verdict \in {"live", "late"} :
       /\ Bound(w, e) => IF verdict = "live" THEN SeenLive(lease[e].age)
                                             ELSE SeenExpired(lease[e].age)
       /\ wk' = [wk EXCEPT ![w][e].verdict = verdict]
  /\ UNCHANGED <<deployed, outbox, lease, fence, epoch, net, replies, inbox, applied, writer>>

\* The adapter has authenticated the reply and its binding was reviewed.
FinishConfirm(w, e) ==
  /\ wk[w][e].verdict # "none"
  /\ Acknowledge(w, e, wk[w][e].verdict)

\* The adapter failed or refused the reply, or the review found its evidence too
\* old: a hold, after which the worker may confirm again.
HoldConfirm(w, e) ==
  /\ Unreliable(e)
  /\ wk[w][e].verdict # "none"
  /\ wk' = [wk EXCEPT ![w][e].verdict = "none"]
  /\ UNCHANGED <<deployed, outbox, lease, fence, epoch, net, replies, inbox, applied, writer>>

\* The legacy entry: acknowledge() with the literal source and no evidence.
RawAcknowledge(w, e) ==
  /\ w \in RawAckers
  /\ wk[w][e].token > 0 /\ wk[w][e].verdict = "none"
  /\ \E verdict \in {"live", "late"} :
       /\ Bound(w, e) /\ verdict = "live" => SeenLive(lease[e].age)
       /\ Acknowledge(w, e, verdict)

TimePasses(e) ==
  /\ Unreliable(e)
  /\ \/ lease[e].age = "live" /\ lease' = [lease EXCEPT ![e].age = "grace"]
     \/ lease[e].age = "grace" /\ lease' = [lease EXCEPT ![e].age = "expired"]
  /\ UNCHANGED <<deployed, outbox, fence, wk, epoch, net, replies, inbox, applied, writer>>

Lose(w, e) ==
  /\ Unreliable(e)
  /\ \/ <<w, e>> \in net /\ net' = net \ {<<w, e>>} /\ UNCHANGED replies
     \/ <<w, e>> \in replies /\ replies' = replies \ {<<w, e>>} /\ UNCHANGED net
  /\ UNCHANGED <<deployed, outbox, lease, fence, wk, epoch, inbox, applied, writer>>

CrashWorker(w) ==
  /\ \A e \in Events : Unreliable(e)
  /\ \E e \in Events : wk[w][e] # Nobody
  /\ wk' = [wk EXCEPT ![w] = [e \in Events |-> Nobody]]
  /\ UNCHANGED <<deployed, outbox, lease, fence, epoch, net, replies, inbox, applied, writer>>

-----------------------------------------------------------------------------
Next ==
  \/ \E w \in Workers : Rotate(w) \/ CrashWorker(w)
  \/ \E w \in Workers, e \in Events :
       \/ Claim(w, e) \/ Publish(w, e) \/ Consume(w, e) \/ Lose(w, e)
       \/ BeginConfirm(w, e) \/ FinishConfirm(w, e) \/ HoldConfirm(w, e)
       \/ RawAcknowledge(w, e)
  \/ \E e \in Events : TimePasses(e)

Spec == Init /\ [][Next]_vars

-----------------------------------------------------------------------------
(* Properties.                                                             *)

\* Lost, repeated and late requests, lost replies, crashes and lease takeovers
\* included, the two databases implement exactly-once delivery: one business
\* effect per event, settled only after it, and for good, as long as nobody
\* acknowledges without the verifying adapter; the effect is one in any case.
Delivery == INSTANCE EventDelivery
  WITH settled <- {e \in Events : outbox[e].status = "dispatched" /\ RawAckers = {}}
DeliverySpec == Delivery!Spec

\* A worker never holds a token the lease table has not issued, and only the
\* latest claimer can still settle the event.
OnlyLatestClaimerBound ==
  /\ TypeOK
  /\ \A e \in Events :
       /\ lease[e].token = outbox[e].attempts
       /\ \A v, w \in Workers :
            /\ wk[v][e].token <= lease[e].token
            /\ wk[v][e].token > 0 /\ wk[v][e].token = wk[w][e].token => v = w

\* Once the outbox has been handed to a new epoch, no worker of an older epoch
\* changes any record, neither by a claim nor by a late acknowledgement, when
\* every worker is fenced.
TakenOverIsSilent ==
  [][outbox' # outbox /\ FencedWorkers = Workers => writer' = fence.epoch]_vars

\* Every event is settled, once the network and the workers stop failing, also when a
\* fenced worker never gets an epoch; somebody must be there who needs none.
EventuallySettled ==
  \A e \in Events : <>(outbox[e].status = "dispatched" \/ FencedWorkers = Workers)

\* Workers that keep working and a network that keeps delivering.
FairSpec ==
  /\ Spec
  /\ \A w \in Workers, e \in Events :
       /\ WF_vars(Publish(w, e)) /\ WF_vars(Consume(w, e))
       /\ WF_vars(BeginConfirm(w, e)) /\ WF_vars(FinishConfirm(w, e))
  /\ \A e \in Events : WF_vars(\E w \in Workers : Claim(w, e)) /\ WF_vars(TimePasses(e))
=============================================================================
