------------------------ MODULE OutboxDeliveryProofs ------------------------
(***************************************************************************)
(* Proofs about OutboxDelivery, for any events, workers, deployments and   *)
(* consumer contract: only the latest claimer of an event is bound to it,  *)
(* no worker of an older epoch writes, and the two databases with the      *)
(* unreliable network between them deliver exactly once.                   *)
(***************************************************************************)
EXTENDS OutboxDelivery, TLAPS

(***************************************************************************)
(* The inductive invariant.  The consumer's two tables agree, and whoever  *)
(* has a reply, or acts on one, acts on an event the consumer has taken.   *)
(***************************************************************************)
InboxIsEffect ==
  \A e \in Events : applied[e] = IF e \in inbox THEN 1 ELSE 0

ReplyMeansInbox ==
  \A w \in Workers, e \in Events :
    <<w, e>> \in replies \/ wk[w][e].verdict # "none" => e \in inbox

IInv == OnlyLatestClaimerBound /\ InboxIsEffect /\ ReplyMeansInbox

LEMMA InitIInv == Init => IInv
<1> SUFFICES ASSUME Init PROVE IInv
  OBVIOUS
<1>1. PICK w \in Workers :
        /\ lease = [e \in Events |-> [worker |-> w, token |-> 0, age |-> "expired"]]
        /\ fence = [epoch |-> 0, owner |-> w]
  BY DEF Init
<1>2. TypeOK
  <2>1. outbox \in [Events -> OutboxRecords] /\ lease \in [Events -> Leases]
    BY <1>1 DEF Init, OutboxRecords, Leases
  <2>2. wk \in [Workers -> [Events -> WorkerStates]]
    BY DEF Init, WorkerStates, Nobody
  <2>3. fence \in [epoch : 0..MaxEpoch, owner : Workers] /\ fence.epoch = 0
    BY <1>1, DeliveryAssumption
  <2> QED
    BY <2>1, <2>2, <2>3 DEF Init, TypeOK
<1>3. OnlyLatestClaimerBound
  BY <1>1, <1>2 DEF Init, OnlyLatestClaimerBound, Nobody
<1>4. InboxIsEffect /\ ReplyMeansInbox
  BY DEF Init, InboxIsEffect, ReplyMeansInbox, Nobody
<1> QED
  BY <1>3, <1>4 DEF IInv

(***************************************************************************)
(* The steps of the producer's database.                                   *)
(***************************************************************************)
LEMMA RotateOK ==
  ASSUME IInv, NEW w \in Workers, Rotate(w)
  PROVE  IInv'
<1> USE DEF IInv, OnlyLatestClaimerBound
<1>1. /\ fence.epoch \in Nat /\ fence.epoch < MaxEpoch /\ MaxEpoch \in Nat
      /\ fence' = [epoch |-> fence.epoch + 1, owner |-> w]
      /\ epoch' = [epoch EXCEPT ![w] = fence.epoch + 1]
      /\ UNCHANGED <<deployed, outbox, lease, wk, net, replies, inbox, applied, writer>>
  BY DeliveryAssumption DEF Rotate, TypeOK
<1>2. fence' \in [epoch : 0..MaxEpoch, owner : Workers] /\ fence'.epoch = fence.epoch + 1
  BY <1>1
<1>3. epoch' \in [Workers -> 0..fence'.epoch] /\ writer' \in 0..fence'.epoch
  BY <1>1, <1>2 DEF TypeOK
<1>4. TypeOK'
  BY <1>1, <1>2, <1>3 DEF TypeOK
<1> QED
  BY <1>1, <1>4 DEF InboxIsEffect, ReplyMeansInbox

LEMMA ClaimOK ==
  ASSUME IInv, NEW w \in Workers, NEW e \in Events, Claim(w, e)
  PROVE  IInv'
<1> USE DEF IInv, OnlyLatestClaimerBound
<1>0. outbox[e] \in OutboxRecords
  BY DEF TypeOK
<1>1. PICK n \in Nat : n = outbox[e].attempts + 1
  BY <1>0 DEF OutboxRecords
<1>2. PICK m \in Nat : m = outbox[e].version + 1
  BY <1>0 DEF OutboxRecords
<1> DEFINE r == [outbox[e] EXCEPT !.attempts = outbox[e].attempts + 1, !.version = outbox[e].version + 1]
<1>3. r \in OutboxRecords /\ r.attempts = n
  <2>1. r = [outbox[e] EXCEPT !.attempts = n, !.version = m]
    BY <1>1, <1>2
  <2> HIDE DEF r
  <2> QED
    BY <1>0, <2>1 DEF OutboxRecords
<1> DEFINE l == [worker |-> w, token |-> outbox[e].attempts + 1, age |-> "live"]
<1>5. l \in Leases /\ l.token = n
  BY <1>1 DEF Leases
<1> DEFINE s == [token |-> outbox[e].attempts + 1, verdict |-> "none"]
<1>7. s \in WorkerStates /\ s.token = n /\ s.verdict = "none"
  BY <1>1 DEF WorkerStates
<1>8. /\ outbox' = [outbox EXCEPT ![e] = r]
      /\ lease' = [lease EXCEPT ![e] = l]
      /\ wk' = [wk EXCEPT ![w][e] = s]
      /\ writer' = epoch[w]
      /\ UNCHANGED <<deployed, fence, epoch, net, replies, inbox, applied>>
  BY DEF Claim
<1> HIDE DEF r, l, s
<1>9. TypeOK'
  BY <1>3, <1>5, <1>7, <1>8 DEF TypeOK
<1>10. /\ wk'[w][e] = s
       /\ \A v \in Workers, f \in Events : ~(v = w /\ f = e) => wk'[v][f] = wk[v][f]
  BY <1>8 DEF TypeOK
<1>11. ASSUME NEW f \in Events
       PROVE  /\ lease'[f].token = outbox'[f].attempts
              /\ \A u, v \in Workers :
                   /\ wk'[u][f].token <= lease'[f].token
                   /\ wk'[u][f].token > 0 /\ wk'[u][f].token = wk'[v][f].token => u = v
  <2>1. CASE f = e
    <3>1. lease'[f] = l /\ outbox'[f] = r
      BY <1>8, <2>1 DEF TypeOK
    <3>2. \A v \in Workers : wk[v][e].token \in Nat /\ wk[v][e].token < n
      BY <1>1 DEF TypeOK, WorkerStates, OutboxRecords
    <3> QED
      BY <1>3, <1>5, <1>7, <1>10, <2>1, <3>1, <3>2
  <2>2. CASE f # e
    <3>1. lease'[f] = lease[f] /\ outbox'[f] = outbox[f]
      BY <1>8, <2>2 DEF TypeOK
    <3> QED
      BY <1>10, <2>2, <3>1
  <2> QED
    BY <2>1, <2>2
<1>12. InboxIsEffect' /\ ReplyMeansInbox'
  BY <1>7, <1>8, <1>10 DEF InboxIsEffect, ReplyMeansInbox
<1> QED
  BY <1>9, <1>11, <1>12

\* Steps that change a worker's verdict, and perhaps settle the record.
LEMMA VerdictOK ==
  ASSUME IInv, NEW w \in Workers, NEW e \in Events, NEW v \in {"none", "live", "late"},
         v # "none" => e \in inbox,
         wk' = [wk EXCEPT ![w][e].verdict = v],
         \/ UNCHANGED <<outbox, writer>>
         \/ /\ outbox' = [outbox EXCEPT ![e] = [@ EXCEPT !.status = "dispatched",
                                                         !.version = outbox[e].version + 1]]
            /\ writer' = epoch[w],
         UNCHANGED <<deployed, lease, fence, epoch, net, replies, inbox, applied>>
  PROVE  IInv'
<1> USE DEF IInv, OnlyLatestClaimerBound
<1>0. wk[w][e] \in WorkerStates /\ outbox[e] \in OutboxRecords
  BY DEF TypeOK
<1>1. PICK s : s = [wk[w][e] EXCEPT !.verdict = v]
  OBVIOUS
<1>2. s \in WorkerStates /\ s.token = wk[w][e].token /\ s.verdict = v
  BY <1>0, <1>1 DEF WorkerStates
<1>3. wk' = [wk EXCEPT ![w][e] = s]
  BY <1>1
<1>4. PICK m \in Nat : m = outbox[e].version + 1
  BY <1>0 DEF OutboxRecords
<1> DEFINE r == [outbox[e] EXCEPT !.status = "dispatched", !.version = outbox[e].version + 1]
<1>5. r \in OutboxRecords /\ r.attempts = outbox[e].attempts
  <2>1. r = [outbox[e] EXCEPT !.status = "dispatched", !.version = m]
    BY <1>4
  <2> HIDE DEF r
  <2> QED
    BY <1>0, <1>4, <2>1 DEF OutboxRecords
<1>6. /\ outbox' \in [Events -> OutboxRecords]
      /\ \A f \in Events : outbox'[f].attempts = outbox[f].attempts
      /\ writer' \in 0..fence.epoch
  <2>1. CASE UNCHANGED <<outbox, writer>>
    BY <2>1 DEF TypeOK
  <2>2. CASE /\ outbox' = [outbox EXCEPT ![e] = [@ EXCEPT !.status = "dispatched",
                                                       !.version = outbox[e].version + 1]]
             /\ writer' = epoch[w]
    <3>1. outbox' = [outbox EXCEPT ![e] = r]
      BY <2>2
    <3> HIDE DEF r
    <3> QED
      BY <1>5, <2>2, <3>1 DEF TypeOK
  <2> QED
    BY <2>1, <2>2
<1>7. TypeOK'
  <2>1. wk' \in [Workers -> [Events -> WorkerStates]]
    <3>1. wk \in [Workers -> [Events -> WorkerStates]]
      BY DEF TypeOK
    <3>2. [wk[w] EXCEPT ![e] = s] \in [Events -> WorkerStates]
      BY <1>2, <3>1
    <3>3. wk' = [wk EXCEPT ![w] = [wk[w] EXCEPT ![e] = s]]
      BY <1>3
    <3> QED
      BY <3>1, <3>2, <3>3
  <2> QED
    BY <1>6, <2>1 DEF TypeOK
<1>8. /\ wk'[w][e] = s
      /\ \A u \in Workers, f \in Events : ~(u = w /\ f = e) => wk'[u][f] = wk[u][f]
  BY <1>3 DEF TypeOK
<1>9. \A u \in Workers, f \in Events : wk'[u][f].token = wk[u][f].token
  BY <1>2, <1>8
<1>10. ASSUME NEW f \in Events
       PROVE  /\ lease'[f].token = outbox'[f].attempts
              /\ \A t, u \in Workers :
                   /\ wk'[t][f].token <= lease'[f].token
                   /\ wk'[t][f].token > 0 /\ wk'[t][f].token = wk'[u][f].token => t = u
  BY <1>6, <1>9
<1>11. InboxIsEffect' /\ ReplyMeansInbox'
  BY <1>2, <1>8 DEF InboxIsEffect, ReplyMeansInbox
<1> QED
  BY <1>7, <1>10, <1>11

(***************************************************************************)
(* The steps of workers, network and consumer.                             *)
(***************************************************************************)

\* Steps that touch neither the producer's database nor the workers.
LEMMA MessageOK ==
  ASSUME IInv, UNCHANGED <<deployed, outbox, fence, epoch, writer>>,
         lease' \in [Events -> Leases],
         \A e \in Events : lease'[e].token = lease[e].token,
         wk' = wk \/ (\E w \in Workers : wk' = [wk EXCEPT ![w] = [e \in Events |-> Nobody]]),
         net' \subseteq Messages, replies' \subseteq Messages, inbox' \subseteq Events,
         applied' \in [Events -> Nat], InboxIsEffect', inbox \subseteq inbox',
         \A w \in Workers, e \in Events : <<w, e>> \in replies' => e \in inbox'
  PROVE  IInv'
<1> USE DEF IInv, OnlyLatestClaimerBound
<1>1. Nobody \in WorkerStates /\ Nobody.token = 0 /\ Nobody.verdict = "none"
  BY DEF Nobody, WorkerStates
<1>2. /\ wk' \in [Workers -> [Events -> WorkerStates]]
      /\ \A w \in Workers, e \in Events : wk'[w][e] = wk[w][e] \/ wk'[w][e] = Nobody
  <2>1. CASE wk' = wk
    BY <2>1 DEF TypeOK
  <2>2. ASSUME NEW w \in Workers, wk' = [wk EXCEPT ![w] = [e \in Events |-> Nobody]]
        PROVE  /\ wk' \in [Workers -> [Events -> WorkerStates]]
               /\ \A v \in Workers, e \in Events : wk'[v][e] = wk[v][e] \/ wk'[v][e] = Nobody
    BY <1>1, <2>2 DEF TypeOK
  <2> QED
    BY <2>1, <2>2
<1>3. TypeOK'
  BY <1>2 DEF TypeOK
<1>4. \A e \in Events : lease[e].token \in Nat
  BY DEF TypeOK, Leases
<1>5. ASSUME NEW e \in Events
      PROVE  /\ lease'[e].token = outbox'[e].attempts
             /\ \A u, v \in Workers :
                  /\ wk'[u][e].token <= lease'[e].token
                  /\ wk'[u][e].token > 0 /\ wk'[u][e].token = wk'[v][e].token => u = v
  BY <1>1, <1>2, <1>4
<1>6. ReplyMeansInbox'
  BY <1>1, <1>2 DEF ReplyMeansInbox
<1> QED
  BY <1>3, <1>5, <1>6

LEMMA ConsumeOK ==
  ASSUME IInv, NEW w \in Workers, NEW e \in Events, Consume(w, e)
  PROVE  IInv'
<1>0. /\ net \subseteq Messages /\ replies \subseteq Messages /\ inbox \subseteq Events
      /\ applied \in [Events -> Nat] /\ lease \in [Events -> Leases]
      /\ <<w, e>> \in Messages
  BY DEF IInv, OnlyLatestClaimerBound, TypeOK, Messages
<1>1. /\ inbox' = inbox \union {e}
      /\ applied' = IF e \in inbox THEN applied ELSE [applied EXCEPT ![e] = @ + 1]
      /\ replies' = replies \union {<<w, e>>}
      /\ net' \subseteq net
      /\ UNCHANGED <<deployed, outbox, lease, fence, wk, epoch, writer>>
  BY DEF Consume
<1>2. applied' \in [Events -> Nat] /\ InboxIsEffect'
  <2>1. \A f \in Events : applied[f] = IF f \in inbox THEN 1 ELSE 0
    BY DEF IInv, InboxIsEffect
  <2>2. CASE e \in inbox
    BY <1>0, <1>1, <2>1, <2>2 DEF InboxIsEffect
  <2>3. CASE e \notin inbox
    BY <1>0, <1>1, <2>1, <2>3 DEF InboxIsEffect
  <2> QED
    BY <2>2, <2>3
<1>3. \A v \in Workers, f \in Events : <<v, f>> \in replies' => f \in inbox'
  BY <1>1 DEF IInv, ReplyMeansInbox
<1> QED
  BY <1>0, <1>1, <1>2, <1>3, MessageOK

LEMMA EnvironmentOK ==
  ASSUME IInv, NEW w \in Workers, NEW e \in Events,
         Publish(w, e) \/ Lose(w, e) \/ TimePasses(e) \/ CrashWorker(w)
  PROVE  IInv'
<1>0. /\ net \subseteq Messages /\ replies \subseteq Messages /\ inbox \subseteq Events
      /\ applied \in [Events -> Nat] /\ lease \in [Events -> Leases]
      /\ <<w, e>> \in Messages
  BY DEF IInv, OnlyLatestClaimerBound, TypeOK, Messages
<1>1. /\ UNCHANGED <<deployed, outbox, fence, epoch, writer, inbox, applied>>
      /\ net' \subseteq net \union {<<w, e>>} /\ replies' \subseteq replies
  BY DEF Publish, Lose, TimePasses, CrashWorker
<1>2. wk' = wk \/ wk' = [wk EXCEPT ![w] = [f \in Events |-> Nobody]]
  BY DEF Publish, Lose, TimePasses, CrashWorker
<1>3. lease' \in [Events -> Leases] /\ \A f \in Events : lease'[f].token = lease[f].token
  <2>1. CASE lease' = lease
    BY <1>0, <2>1
  <2>2. CASE \E age \in {"grace", "expired"} : lease' = [lease EXCEPT ![e].age = age]
    BY <1>0, <2>2 DEF Leases
  <2> QED
    BY <2>1, <2>2 DEF Publish, Lose, TimePasses, CrashWorker
<1>4. InboxIsEffect'
  BY <1>1 DEF IInv, InboxIsEffect
<1>5. \A v \in Workers, f \in Events : <<v, f>> \in replies' => f \in inbox'
  BY <1>1 DEF IInv, ReplyMeansInbox
<1> QED
  BY <1>0, <1>1, <1>2, <1>3, <1>4, <1>5, MessageOK

\* An acknowledgement, and the clock reading and the wait that precede it.
LEMMA ConfirmOK ==
  ASSUME IInv, NEW w \in Workers, NEW e \in Events,
         BeginConfirm(w, e) \/ FinishConfirm(w, e) \/ HoldConfirm(w, e) \/ RawAcknowledge(w, e)
  PROVE  IInv'
<1>1. CASE BeginConfirm(w, e)
  <2>1. e \in inbox
    BY <1>1 DEF BeginConfirm, IInv, ReplyMeansInbox
  <2>2. PICK v \in {"live", "late"} : wk' = [wk EXCEPT ![w][e].verdict = v]
    BY <1>1 DEF BeginConfirm
  <2> QED
    BY <1>1, <2>1, <2>2, VerdictOK DEF BeginConfirm
<1>2. ASSUME NEW verdict, Acknowledge(w, e, verdict) PROVE IInv'
  BY <1>2, VerdictOK DEF Acknowledge
<1>3. CASE FinishConfirm(w, e) \/ RawAcknowledge(w, e)
  BY <1>2, <1>3 DEF FinishConfirm, RawAcknowledge
<1>4. CASE HoldConfirm(w, e)
  BY <1>4, VerdictOK DEF HoldConfirm
<1> QED
  BY <1>1, <1>3, <1>4

LEMMA IInvInductive == IInv /\ [Next]_vars => IInv'
<1> SUFFICES ASSUME IInv, [Next]_vars PROVE IInv'
  OBVIOUS
<1>1. CASE UNCHANGED vars
  BY <1>1 DEF vars, IInv, OnlyLatestClaimerBound, TypeOK, InboxIsEffect, ReplyMeansInbox
<1>2. ASSUME NEW w \in Workers, Rotate(w) PROVE IInv'
  BY <1>2, RotateOK
<1>3. ASSUME NEW w \in Workers, NEW e \in Events,
             \/ Claim(w, e) \/ Publish(w, e) \/ Consume(w, e) \/ Lose(w, e)
             \/ BeginConfirm(w, e) \/ FinishConfirm(w, e) \/ HoldConfirm(w, e)
             \/ RawAcknowledge(w, e)
      PROVE  IInv'
  BY <1>3, ClaimOK, ConsumeOK, EnvironmentOK, ConfirmOK
<1>4. ASSUME NEW w \in Workers, CrashWorker(w) PROVE IInv'
  <2>1. PICK e \in Events : wk[w][e] # Nobody
    BY <1>4 DEF CrashWorker
  <2> QED
    BY <1>4, EnvironmentOK
<1>5. ASSUME NEW e \in Events, TimePasses(e) PROVE IInv'
  <2>1. fence.owner \in Workers
    BY DEF IInv, OnlyLatestClaimerBound, TypeOK
  <2> QED
    BY <1>5, <2>1, EnvironmentOK
<1> QED
  BY <1>1, <1>2, <1>3, <1>4, <1>5 DEF Next

-----------------------------------------------------------------------------
(***************************************************************************)
(* The theorems.                                                           *)
(***************************************************************************)

\* A worker never holds a token the lease table has not issued, no two workers
\* hold the same one, and the table's token is that of the latest claim.
THEOREM LatestClaimer == Spec => []OnlyLatestClaimerBound
<1>1. IInv => OnlyLatestClaimerBound
  BY DEF IInv
<1> QED
  BY InitIInv, IInvInductive, <1>1, PTL DEF Spec

\* When every worker is fenced, a change of the outbox is made under the current
\* epoch: a worker of an older one neither claims nor acknowledges.
THEOREM OldEpochsAreSilent == Spec => TakenOverIsSilent
<1>1. ASSUME [Next]_vars, outbox' # outbox, FencedWorkers = Workers
      PROVE  writer' = fence.epoch
  <2>1. ASSUME NEW w \in Workers, MayWrite(w), writer' = epoch[w] PROVE writer' = fence.epoch
    BY <1>1, <2>1 DEF MayWrite
  <2>2. ASSUME NEW w \in Workers, NEW e \in Events, Claim(w, e) PROVE writer' = fence.epoch
    BY <2>1, <2>2 DEF Claim
  <2>3. ASSUME NEW w \in Workers, NEW e \in Events, NEW v, Acknowledge(w, e, v)
        PROVE  writer' = fence.epoch
    BY <1>1, <2>1, <2>3 DEF Acknowledge
  <2>4. ASSUME NEW w \in Workers, NEW e \in Events, FinishConfirm(w, e) \/ RawAcknowledge(w, e)
        PROVE  writer' = fence.epoch
    BY <2>3, <2>4 DEF FinishConfirm, RawAcknowledge
  <2> QED
    BY <1>1, <2>2, <2>4 DEF Next, vars, Rotate, CrashWorker, Publish, Consume, Lose,
       BeginConfirm, HoldConfirm, TimePasses
<1>2. [Next]_vars => [outbox' # outbox /\ FencedWorkers = Workers => writer' = fence.epoch]_vars
  BY <1>1
<1> QED
  BY <1>2, PTL DEF Spec, TakenOverIsSilent

(***************************************************************************)
(* The two databases implement exactly-once delivery.  The refinement      *)
(* mapping hides the producer's column where raw acknowledgements may be   *)
(* made, for then only the effect is exactly once.                         *)
(***************************************************************************)
Settled == {e \in Events : outbox[e].status = "dispatched" /\ RawAckers = {}}

\* A step that neither applies an effect nor settles a record stutters.
LEMMA QuietDelivery ==
  ASSUME UNCHANGED <<deployed, applied>>,
         \A e \in Events : outbox'[e].status = outbox[e].status
  PROVE  UNCHANGED <<applied, Settled>>
BY DEF Settled, RawAckers

\* An acknowledgement of a reply settles an event whose effect was applied once.
LEMMA AcknowledgeSettles ==
  ASSUME IInv, NEW w \in Workers, NEW e \in Events, NEW verdict, Acknowledge(w, e, verdict),
         RawAckers = {} => e \in inbox
  PROVE  UNCHANGED <<applied, Settled>> \/ Delivery!Settle(e)
<1>0. outbox \in [Events -> OutboxRecords] /\ outbox[e] \in OutboxRecords
  BY DEF IInv, OnlyLatestClaimerBound, TypeOK
<1>1. UNCHANGED <<deployed, applied>>
  BY DEF Acknowledge
<1>2. CASE outbox' = outbox
  BY <1>1, <1>2, QuietDelivery
<1>3. CASE outbox' # outbox
  <2>1. /\ outbox[e].status = "pending"
        /\ outbox' = [outbox EXCEPT ![e] = [@ EXCEPT !.status = "dispatched",
                                                     !.version = outbox[e].version + 1]]
    BY <1>3 DEF Acknowledge
  <2>2. outbox'[e].status = "dispatched" /\ \A f \in Events : f # e => outbox'[f] = outbox[f]
    BY <1>0, <2>1 DEF OutboxRecords
  <2>3. CASE RawAckers # {}
    BY <1>1, <2>3 DEF Settled, RawAckers
  <2>4. CASE RawAckers = {}
    <3>1. applied[e] = 1
      BY <2>4 DEF IInv, InboxIsEffect
    <3>2. e \notin Settled /\ Settled' = Settled \union {e}
      BY <1>1, <2>1, <2>2, <2>4 DEF Settled, RawAckers
    <3> QED
      BY <1>1, <3>1, <3>2 DEF Delivery!Settle, Settled
  <2> QED
    BY <2>3, <2>4
<1> QED
  BY <1>2, <1>3

LEMMA DeliveryStep ==
  ASSUME IInv, [Next]_vars
  PROVE  [Delivery!Next]_<<applied, Settled>>
<1>0. outbox \in [Events -> OutboxRecords] /\ applied \in [Events -> Nat]
  BY DEF IInv, OnlyLatestClaimerBound, TypeOK
<1>1. CASE UNCHANGED <<deployed, outbox, applied>>
  BY <1>1, QuietDelivery
<1>2. ASSUME NEW w \in Workers, NEW e \in Events, Claim(w, e)
      PROVE  UNCHANGED <<applied, Settled>>
  <2>1. PICK n, m : outbox' = [outbox EXCEPT ![e] = [@ EXCEPT !.attempts = n, !.version = m]]
    BY <1>2 DEF Claim
  <2>2. \A f \in Events : outbox'[f].status = outbox[f].status
    BY <1>0, <2>1 DEF OutboxRecords
  <2> QED
    BY <1>2, <2>2, QuietDelivery DEF Claim
<1>3. ASSUME NEW w \in Workers, NEW e \in Events, Consume(w, e)
      PROVE  UNCHANGED <<applied, Settled>> \/ Delivery!Apply(e)
  <2>1. CASE e \in inbox
    BY <1>3, <2>1, QuietDelivery DEF Consume
  <2>2. CASE e \notin inbox
    <3>1. applied[e] = 0
      BY <2>2 DEF IInv, InboxIsEffect
    <3>2. applied' = [applied EXCEPT ![e] = 1]
      BY <1>0, <1>3, <2>2, <3>1 DEF Consume
    <3>3. Settled' = Settled
      BY <1>3 DEF Consume, Settled, RawAckers
    <3> QED
      BY <3>1, <3>2, <3>3 DEF Delivery!Apply, Settled
  <2> QED
    BY <2>1, <2>2
<1>4. ASSUME NEW w \in Workers, NEW e \in Events, FinishConfirm(w, e) \/ RawAcknowledge(w, e)
      PROVE  UNCHANGED <<applied, Settled>> \/ Delivery!Settle(e)
  <2>1. PICK verdict : Acknowledge(w, e, verdict)
    BY <1>4 DEF FinishConfirm, RawAcknowledge
  <2>2. RawAckers = {} => e \in inbox
    BY <1>4 DEF FinishConfirm, RawAcknowledge, IInv, ReplyMeansInbox
  <2> QED
    BY <2>1, <2>2, AcknowledgeSettles
<1>5. CASE Next
  <2>1. \/ UNCHANGED <<deployed, outbox, applied>>
        \/ \E w \in Workers, e \in Events :
             Claim(w, e) \/ Consume(w, e) \/ FinishConfirm(w, e) \/ RawAcknowledge(w, e)
    BY <1>5 DEF Next, Rotate, CrashWorker, Publish, Lose, BeginConfirm, HoldConfirm, TimePasses
  <2> QED
    BY <1>1, <1>2, <1>3, <1>4, <2>1 DEF Delivery!Next
<1> QED
  BY <1>1, <1>5 DEF vars

\* Lost, repeated and late requests, lost replies, crashes and lease takeovers
\* included: one business effect per event, and, unless somebody acknowledges
\* without the verifying adapter, an event is settled after it and for good.
THEOREM ExactlyOnceDelivery == Spec => DeliverySpec
<1>1. Init => Delivery!Init
  BY DEF Init, Delivery!Init
<1>2. IInv /\ [Next]_vars => [Delivery!Next]_<<applied, Settled>>
  BY DeliveryStep
<1> QED
  BY InitIInv, IInvInductive, <1>1, <1>2, PTL DEF Spec, DeliverySpec, Delivery!Spec, Settled
=============================================================================
