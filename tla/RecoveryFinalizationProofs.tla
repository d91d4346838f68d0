--------------------- MODULE RecoveryFinalizationProofs ---------------------
(***************************************************************************)
(* What RecoveryFinalization promises for any finite number of commands,   *)
(* any number of effects, requests, revisions, epochs and checkpoints.     *)
(*                                                                         *)
(* The tables of the SQLite file each hold a trace of how a command ended. *)
(* The invariant says that the traces agree: the command row, its event,   *)
(* the control version it wrote, and the effect it consumed.               *)
(***************************************************************************)
EXTENDS RecoveryFinalization, FiniteSetTheorems, TLAPS

\* Only the atomic route gives a command an outcome, when it ends it, and for a
\* request that a client has made.
RecordsAreSound ==
  \A c \in Commands :
    /\ Atomic(c) => /\ commands[c].request \in Requests
                    /\ commands[c].status \in {"executing"} \union Terminal
                    /\ Over(c) <=> commands[c].outcome # "none"
    /\ ~Atomic(c) => commands[c].outcome = "none"
    /\ commands[c].status = "accepted" => commands[c].version = 1
    /\ commands[c].status = "executing" => commands[c].version = 2

\* Executions of the adapter belong to commands of the atomic route.
JobsAreAtomic == \A c \in Commands : job[c].pc # "none" => Atomic(c)

\* What an execution has read is an earlier state, or the current one.
SnapshotsAreReal ==
  \A c \in Commands :
    /\ job[c].pc \in {"reading", "prepared"} =>
         /\ job[c].cp.version <= checkpoint.version
         /\ job[c].cp.version = checkpoint.version => job[c].cp = checkpoint
    /\ job[c].pc = "prepared" =>
         /\ job[c].ctl.version <= control.version
         /\ job[c].ctl.version = control.version => job[c].ctl = control

EventOf(c, by) == [command |-> c, by |-> by]

\* A command has an event exactly when the atomic route has ended it, and then one;
\* a command that was committed has no effects, one that was finalized has consumed one.
EventsMatch ==
  \A c \in Commands :
    /\ EventOf(c, "commit") \in outbox \/ EventOf(c, "finalize") \in outbox
         <=> Atomic(c) /\ Over(c)
    /\ ~(EventOf(c, "commit") \in outbox /\ EventOf(c, "finalize") \in outbox)
    /\ EventOf(c, "commit") \in outbox => Staged(c) = {}
    /\ EventOf(c, "finalize") \in outbox =>
         \E e \in Effects : CommandOf[e] = c /\ consumed[e] # 0

\* A consumed effect has ended its command, as the only one, and is committed.
UsesMatch ==
  \A e \in Effects : consumed[e] # 0 =>
    /\ EventOf(CommandOf[e], "finalize") \in outbox
    /\ effects[e].status = "committed"
    /\ consumed[e] = commands[CommandOf[e]].ctl
    /\ \A f \in Effects : CommandOf[f] = CommandOf[e] /\ consumed[f] # 0 => f = e

\* The status of an effect bounds what evidence there is of it, and evidence is of
\* the current epoch.
EvidenceByStatus ==
  \A e \in Effects :
    /\ sink[e] # 0 => /\ sink[e] = effects[e].epoch
                      /\ effects[e].status \in {"leased", "unknown", "committed"}
    /\ receipts[e] # 0 => effects[e].status \in {"unknown", "committed"}

IInv ==
  /\ TypeOK /\ RecordsAreSound /\ JobsAreAtomic /\ SnapshotsAreReal
  /\ EventsMatch /\ UsesMatch /\ EvidenceByStatus /\ EvidenceIsReal /\ ControlHasOneAuthor

-----------------------------------------------------------------------------
(* Types, and what the invariant gives.                                    *)

Records == [status : {"absent", "accepted", "executing"} \union Terminal,
            version : 0..3, owner : Owners, fenced : BOOLEAN,
            request : Requests \union {NoRequest}, outcome : {"none"} \union Outcomes,
            ctl : 0..MaxControl]

LEMMA Types ==
  ASSUME TypeOK
  PROVE  /\ checkpoint \in Checkpoint /\ control \in Control /\ authority \in Authority
         /\ commands \in [Commands -> Records]
         /\ outbox \subseteq Event /\ job \in [Commands -> Job]
         /\ effects \in [Effects -> Intent]
         /\ sink \in [Effects -> 0..MaxEpoch] /\ receipts \in [Effects -> 0..MaxEpoch]
         /\ provider \in [Effects -> 0..MaxEpoch] /\ consumed \in [Effects -> 0..MaxControl]
         /\ plans \subseteq Effects
BY DEF TypeOK, Records

LEMMA MaxControlIsNat == MaxControl \in Nat
BY FinalizationAssumption, FS_CardinalityType DEF MaxControl

LEMMA CommandOfType ==
  ASSUME NEW e \in Effects
  PROVE  CommandOf[e] \in Commands
BY FinalizationAssumption

LEMMA PreparedOutcome ==
  ASSUME NEW request, NEW cp, NEW ctl, NEW allowed
  PROVE  /\ Prepared(request, cp, ctl, allowed) \in Outcomes
         /\ Prepared(request, cp, ctl, allowed) # "rejected" =>
              /\ allowed /\ cp.version = request.cp /\ ctl.version = request.ctl
              /\ Prepared(request, cp, ctl, allowed) = Prepared(request, cp, ctl, TRUE)
BY DEF Prepared, Outcomes

\* A record of which one field changes is still a record.
LEMMA RecordFields ==
  ASSUME NEW r \in Records
  PROVE  /\ \A s \in {"absent", "accepted", "executing"} \union Terminal :
              [r EXCEPT !.status = s] \in Records
         /\ \A v \in 0..3 : [r EXCEPT !.version = v] \in Records
         /\ \A o \in Owners : [r EXCEPT !.owner = o] \in Records
         /\ \A f \in BOOLEAN : [r EXCEPT !.fenced = f] \in Records
         /\ \A q \in Requests \union {NoRequest} : [r EXCEPT !.request = q] \in Records
         /\ \A o \in {"none"} \union Outcomes : [r EXCEPT !.outcome = o] \in Records
         /\ \A v \in 0..MaxControl : [r EXCEPT !.ctl = v] \in Records
<1>1. ASSUME NEW s \in {"absent", "accepted", "executing"} \union Terminal
      PROVE  [r EXCEPT !.status = s] \in Records
  BY DEF Records
<1>2. ASSUME NEW v \in 0..3 PROVE [r EXCEPT !.version = v] \in Records
  BY DEF Records
<1>3. ASSUME NEW o \in Owners PROVE [r EXCEPT !.owner = o] \in Records
  BY DEF Records
<1>4. ASSUME NEW f \in BOOLEAN PROVE [r EXCEPT !.fenced = f] \in Records
  BY DEF Records
<1>5. ASSUME NEW q \in Requests \union {NoRequest} PROVE [r EXCEPT !.request = q] \in Records
  BY DEF Records
<1>6. ASSUME NEW o \in {"none"} \union Outcomes PROVE [r EXCEPT !.outcome = o] \in Records
  BY DEF Records
<1>7. ASSUME NEW v \in 0..MaxControl PROVE [r EXCEPT !.ctl = v] \in Records
  BY DEF Records
<1> QED
  BY <1>1, <1>2, <1>3, <1>4, <1>5, <1>6, <1>7

LEMMA StatusMoves ==
  ASSUME NEW r \in Records, NEW v \in 0..3,
         NEW s \in {"absent", "accepted", "executing"} \union Terminal
  PROVE  [r EXCEPT !.status = s, !.version = v] \in Records
<1>1. PICK a : a = [r EXCEPT !.status = s]
  OBVIOUS
<1>2. a \in Records
  BY <1>1, RecordFields
<1>3. PICK b : b = [a EXCEPT !.version = v]
  OBVIOUS
<1>4. b \in Records
  BY <1>2, <1>3, RecordFields
<1>5. b = [r EXCEPT !.status = s, !.version = v]
  BY <1>1, <1>3
<1> QED
  BY <1>4, <1>5

\* One command's record changes; the others keep theirs.
LEMMA OneCommand ==
  ASSUME TypeOK, NEW c \in Commands, NEW r \in Records,
         commands' = [commands EXCEPT ![c] = r]
  PROVE  /\ commands' \in [Commands -> Records]
         /\ commands'[c] = r
         /\ \A d \in Commands : d # c => commands'[d] = commands[d]
BY DEF TypeOK, Records

LEMMA OneJob ==
  ASSUME TypeOK, NEW c \in Commands, NEW r \in Job,
         job' = [job EXCEPT ![c] = r]
  PROVE  /\ job' \in [Commands -> Job]
         /\ job'[c] = r
         /\ \A d \in Commands : d # c => job'[d] = job[d]
BY DEF TypeOK

-----------------------------------------------------------------------------
(* The environment and the reads.                                          *)

LEMMA AuthorityKeeps == IInv /\ ChangeAuthority => IInv'
<1> SUFFICES ASSUME IInv, ChangeAuthority PROVE IInv'
  OBVIOUS
<1>1. UNCHANGED <<checkpoint, control, commands, outbox, job, effects, sink, receipts,
                  plans, consumed, provider>>
  BY DEF ChangeAuthority, ledger
<1>2. authority' \in Authority
  <2>1. authority.revision \in 1..MaxRevision /\ authority.allowed \in BOOLEAN
    BY DEF IInv, TypeOK, Authority
  <2>2. CASE authority' = [authority EXCEPT !.allowed = ~@]
    BY <2>1, <2>2 DEF IInv, TypeOK, Authority
  <2>3. ASSUME authority.revision < MaxRevision, NEW allowed \in BOOLEAN,
               authority' = [revision |-> authority.revision + 1, allowed |-> allowed]
        PROVE  authority' \in Authority
    BY <2>1, <2>3, FinalizationAssumption DEF Authority
  <2> QED
    BY <2>2, <2>3 DEF ChangeAuthority
<1>3. TypeOK'
  BY <1>1, <1>2 DEF IInv, TypeOK
<1>4. RecordsAreSound' /\ JobsAreAtomic' /\ SnapshotsAreReal'
  BY <1>1 DEF IInv, RecordsAreSound, JobsAreAtomic, SnapshotsAreReal, Atomic, Over
<1>5. EventsMatch' /\ UsesMatch'
  BY <1>1 DEF IInv, EventsMatch, UsesMatch, Atomic, Over, Staged
<1>6. EvidenceByStatus' /\ EvidenceIsReal'
  BY <1>1 DEF IInv, EvidenceByStatus, EvidenceIsReal
<1>7. ControlHasOneAuthor'
  BY <1>1 DEF IInv, ControlHasOneAuthor, Applied
<1> QED
  BY <1>3, <1>4, <1>5, <1>6, <1>7 DEF IInv

LEMMA SaveCheckpointKeeps == IInv /\ SaveCheckpoint => IInv'
<1> SUFFICES ASSUME IInv, SaveCheckpoint PROVE IInv'
  OBVIOUS
<1>1. UNCHANGED <<authority, control, commands, outbox, job, effects, sink, receipts,
                  plans, consumed, provider>>
  BY DEF SaveCheckpoint, ledger
<1>2. PICK n \in Nat : n = checkpoint.version
  BY DEF IInv, TypeOK, Checkpoint
<1>3. checkpoint' \in Checkpoint /\ checkpoint'.version = n + 1
  BY <1>2, FinalizationAssumption DEF SaveCheckpoint, Checkpoint
<1>4. TypeOK'
  BY <1>1, <1>3 DEF IInv, TypeOK
<1>5. SnapshotsAreReal'
  <2>1. ASSUME NEW c \in Commands, job[c].pc \in {"reading", "prepared"}
        PROVE  job[c].cp.version <= n + 1 /\ job[c].cp.version # n + 1
    <3>1. job[c].cp.version \in Nat /\ job[c].cp.version <= n
      BY <1>2, <2>1 DEF IInv, SnapshotsAreReal, TypeOK, Job, Checkpoint
    <3> QED
      BY <3>1
  <2> QED
    BY <1>1, <1>3, <2>1 DEF IInv, SnapshotsAreReal
<1>6. RecordsAreSound' /\ JobsAreAtomic'
  BY <1>1 DEF IInv, RecordsAreSound, JobsAreAtomic, Atomic, Over
<1>7. EventsMatch' /\ UsesMatch'
  BY <1>1 DEF IInv, EventsMatch, UsesMatch, Atomic, Over, Staged
<1>8. EvidenceByStatus' /\ EvidenceIsReal'
  BY <1>1 DEF IInv, EvidenceByStatus, EvidenceIsReal
<1>9. ControlHasOneAuthor'
  BY <1>1 DEF IInv, ControlHasOneAuthor, Applied
<1> QED
  BY <1>4, <1>5, <1>6, <1>7, <1>8, <1>9 DEF IInv

\* A step of the adapter that only changes its own execution.
LEMMA JobKeeps ==
  ASSUME IInv, NEW c \in Commands, job[c].pc # "none",
         NEW r \in Job, job' = [job EXCEPT ![c] = r],
         UNCHANGED <<checkpoint, control, authority, commands, outbox, effects, sink, receipts,
                     plans, consumed, provider>>,
         r.pc \in {"reading", "prepared"} =>
           /\ r.cp.version <= checkpoint.version
           /\ r.cp.version = checkpoint.version => r.cp = checkpoint,
         r.pc = "prepared" => r.ctl.version <= control.version /\ 
                              (r.ctl.version = control.version => r.ctl = control)
  PROVE  IInv'
<1>1. /\ job' \in [Commands -> Job] /\ job'[c] = r
      /\ \A d \in Commands : d # c => job'[d] = job[d]
  BY OneJob DEF IInv
<1>2. TypeOK'
  BY <1>1 DEF IInv, TypeOK
<1>3. RecordsAreSound' /\ JobsAreAtomic'
  BY <1>1 DEF IInv, RecordsAreSound, JobsAreAtomic, Atomic, Over
<1>4. SnapshotsAreReal'
  BY <1>1 DEF IInv, SnapshotsAreReal
<1>5. EventsMatch' /\ UsesMatch'
  BY DEF IInv, EventsMatch, UsesMatch, Atomic, Over, Staged
<1>6. EvidenceByStatus' /\ EvidenceIsReal'
  BY DEF IInv, EvidenceByStatus, EvidenceIsReal
<1>7. ControlHasOneAuthor'
  BY DEF IInv, ControlHasOneAuthor, Applied
<1> QED
  BY <1>2, <1>3, <1>4, <1>5, <1>6, <1>7 DEF IInv

LEMMA LoadsKeep ==
  ASSUME IInv, NEW c \in Commands, LoadCheckpoint(c) \/ LoadControl(c)
  PROVE  IInv'
<1>1. /\ UNCHANGED <<checkpoint, control, authority, commands, outbox, effects, sink, receipts,
                     plans, consumed, provider>>
      /\ job[c].pc # "none"
  BY DEF LoadCheckpoint, LoadControl, ledger
<1>2. job[c] \in Job /\ checkpoint \in Checkpoint /\ control \in Control
  BY DEF IInv, TypeOK
<1>3. CASE LoadCheckpoint(c)
  <2>1. PICK r : r = [job[c] EXCEPT !.pc = "reading", !.cp = checkpoint]
    OBVIOUS
  <2>2. r \in Job /\ r.pc = "reading" /\ r.cp = checkpoint
    BY <1>2, <2>1 DEF Job
  <2>3. job' = [job EXCEPT ![c] = r]
    BY <1>3, <2>1 DEF LoadCheckpoint
  <2>4. r.cp.version <= checkpoint.version /\ r.pc # "prepared"
    BY <1>2, <2>2 DEF Checkpoint
  <2> QED
    BY <1>1, <2>2, <2>3, <2>4, JobKeeps
<1>4. CASE LoadControl(c)
  <2>1. PICK r : r = [job[c] EXCEPT !.pc = "prepared", !.ctl = control]
    OBVIOUS
  <2>2. r \in Job /\ r.pc = "prepared" /\ r.cp = job[c].cp /\ r.ctl = control
    BY <1>2, <2>1 DEF Job
  <2>3. job' = [job EXCEPT ![c] = r] /\ job[c].pc = "reading"
    BY <1>4, <2>1 DEF LoadControl
  <2>4. control.version <= control.version
    BY <1>2, MaxControlIsNat DEF Control
  <2>5. /\ r.cp.version <= checkpoint.version
        /\ r.cp.version = checkpoint.version => r.cp = checkpoint
    BY <2>2, <2>3 DEF IInv, SnapshotsAreReal
  <2> QED
    BY <1>1, <2>2, <2>3, <2>4, <2>5, JobKeeps
<1> QED
  BY <1>3, <1>4

-----------------------------------------------------------------------------
(* Claims.                                                                 *)

\* A command the atomic route does not own yet changes, without an outcome.
LEMMA CommandKeeps ==
  ASSUME IInv, NEW c \in Commands, ~Atomic(c),
         NEW r \in Records, commands' = [commands EXCEPT ![c] = r],
         r.outcome = "none",
         r.status = "accepted" => r.version = 1, r.status = "executing" => r.version = 2,
         r.owner = "atomic_control_only" => r.status = "executing" /\ r.request \in Requests,
         job' \in [Commands -> Job], job'[c].pc \in {"none", "claimed"},
         job'[c].pc # "none" => r.owner = "atomic_control_only",
         \A d \in Commands : d # c => job'[d] = job[d],
         UNCHANGED <<checkpoint, control, authority, outbox, effects, sink, receipts,
                     plans, consumed, provider>>
  PROVE  IInv'
<1>1. /\ commands' \in [Commands -> Records] /\ commands'[c] = r
      /\ \A d \in Commands : d # c => commands'[d] = commands[d]
  BY OneCommand DEF IInv
<1>2. TypeOK'
  BY <1>1 DEF IInv, TypeOK, Records
<1>3. RecordsAreSound' /\ JobsAreAtomic' /\ SnapshotsAreReal'
  BY <1>1 DEF IInv, RecordsAreSound, JobsAreAtomic, SnapshotsAreReal, Atomic, Over, Terminal
<1>4. ~(Atomic(c) /\ Over(c)) /\ ~(Atomic(c) /\ Over(c))'
  BY <1>1 DEF Atomic, Over, Terminal
<1>5. EventsMatch'
  BY <1>1, <1>4 DEF IInv, EventsMatch, Atomic, Over, Staged
<1>6. ASSUME NEW e \in Effects, consumed[e] # 0
      PROVE  CommandOf[e] # c /\ commands'[CommandOf[e]] = commands[CommandOf[e]]
  BY <1>1, <1>4, <1>6, CommandOfType DEF IInv, UsesMatch, EventsMatch
<1>7. UsesMatch'
  BY <1>6 DEF IInv, UsesMatch
<1>8. EvidenceByStatus' /\ EvidenceIsReal'
  BY DEF IInv, EvidenceByStatus, EvidenceIsReal
<1>9. ControlHasOneAuthor'
  <2>1. c \notin Applied /\ c \notin Applied'
    BY <1>1 DEF Applied, IInv, RecordsAreSound
  <2>2. Applied' = Applied
    BY <1>1, <2>1 DEF Applied
  <2>3. \A d \in Applied : commands'[d] = commands[d]
    BY <1>1, <2>1 DEF Applied
  <2> QED
    BY <2>2, <2>3 DEF IInv, ControlHasOneAuthor
<1> QED
  BY <1>2, <1>3, <1>5, <1>7, <1>8, <1>9 DEF IInv

LEMMA UnseenIsFree ==
  ASSUME IInv, NEW c \in Commands, Unseen(c)
  PROVE  ~Atomic(c) /\ job[c].pc = "none"
BY DEF IInv, RecordsAreSound, JobsAreAtomic, Unseen, Terminal

LEMMA ExecutingRecord ==
  ASSUME NEW request \in Requests \union {NoRequest}, NEW owner \in Owners, NEW fenced \in BOOLEAN
  PROVE  /\ Executing(request, owner, fenced) \in Records
         /\ Executing(request, owner, fenced).outcome = "none"
         /\ Executing(request, owner, fenced).status = "executing"
         /\ Executing(request, owner, fenced).version = 2
         /\ Executing(request, owner, fenced).owner = owner
         /\ Executing(request, owner, fenced).request = request
<1>1. PICK a : a = Absent
  OBVIOUS
<1>2. a \in Records /\ a.outcome = "none"
  BY <1>1, MaxControlIsNat DEF Absent, Records, Owners
<1>3. Executing(request, owner, fenced) =
        [a EXCEPT !.status = "executing", !.version = 2, !.owner = owner,
                  !.fenced = fenced, !.request = request]
  BY <1>1 DEF Executing
<1>4. PICK b : b = [a EXCEPT !.status = "executing"]
  OBVIOUS
<1>5. b \in Records
  BY <1>2, <1>4, RecordFields
<1>6. PICK d : d = [b EXCEPT !.version = 2]
  OBVIOUS
<1>7. d \in Records
  <2>1. 2 \in 0..3
    OBVIOUS
  <2> QED
    BY <1>5, <1>6, <2>1, RecordFields
<1>8. PICK f : f = [d EXCEPT !.owner = owner]
  OBVIOUS
<1>9. f \in Records
  BY <1>7, <1>8, RecordFields
<1>10. PICK g : g = [f EXCEPT !.fenced = fenced]
  OBVIOUS
<1>11. g \in Records
  BY <1>9, <1>10, RecordFields
<1>12. PICK h : h = [g EXCEPT !.request = request]
  OBVIOUS
<1>13. h \in Records
  BY <1>11, <1>12, RecordFields
<1>14. Executing(request, owner, fenced) = h
  BY <1>3, <1>4, <1>6, <1>8, <1>10, <1>12
<1>15. /\ h.outcome = "none" /\ h.status = "executing" /\ h.version = 2
       /\ h.owner = owner /\ h.request = request
  <2>1. b.outcome = "none" /\ b.status = "executing"
    BY <1>2, <1>4 DEF Records
  <2>2. d.outcome = "none" /\ d.status = "executing" /\ d.version = 2
    BY <1>5, <1>6, <2>1 DEF Records
  <2>3. f.outcome = "none" /\ f.status = "executing" /\ f.version = 2 /\ f.owner = owner
    BY <1>7, <1>8, <2>2 DEF Records
  <2>4. /\ g.outcome = "none" /\ g.status = "executing" /\ g.version = 2 /\ g.owner = owner
    BY <1>9, <1>10, <2>3 DEF Records
  <2> QED
    BY <1>11, <1>12, <2>4 DEF Records
<1> QED
  BY <1>13, <1>14, <1>15

LEMMA ClaimKeeps ==
  ASSUME IInv, NEW c \in Commands, NEW request \in Requests, NEW fenced \in BOOLEAN,
         Claim(c, request, fenced)
  PROVE  IInv'
<1>1. ~Atomic(c)
  BY UnseenIsFree DEF Claim
<1>2. PICK r \in Records :
        /\ commands' = [commands EXCEPT ![c] = r]
        /\ r.outcome = "none" /\ r.status = "executing" /\ r.version = 2
        /\ r.owner = "atomic_control_only" /\ r.request = request
  <2>1. PICK r : r = Executing(request, "atomic_control_only", fenced)
    OBVIOUS
  <2>2. /\ r \in Records /\ r.outcome = "none" /\ r.status = "executing" /\ r.version = 2
        /\ r.owner = "atomic_control_only" /\ r.request = request
    <3>1. "atomic_control_only" \in Owners
      BY DEF Owners
    <3> QED
      BY <2>1, <3>1, ExecutingRecord
  <2> QED
    BY <2>1, <2>2 DEF Claim
<1>3. PICK ev \in 0..MaxRevision :
        job' = [job EXCEPT ![c].pc = "claimed", ![c].evidence = ev]
  <2>1. (IF fenced THEN authority.revision ELSE 0) \in 0..MaxRevision
    BY FinalizationAssumption DEF IInv, TypeOK, Authority
  <2> QED
    BY <2>1 DEF Claim
<1>4. PICK j : j = [job[c] EXCEPT !.pc = "claimed", !.evidence = ev]
  OBVIOUS
<1>5. j \in Job /\ j.pc = "claimed"
  BY <1>4 DEF IInv, TypeOK, Job
<1>6. job' = [job EXCEPT ![c] = j]
  BY <1>3, <1>4
<1>7. /\ job' \in [Commands -> Job] /\ job'[c].pc = "claimed"
      /\ \A d \in Commands : d # c => job'[d] = job[d]
  BY <1>5, <1>6, OneJob DEF IInv
<1>8. UNCHANGED <<checkpoint, control, authority, outbox, effects, sink, receipts,
                  plans, consumed, provider>>
  BY DEF Claim, ledger
<1> QED
  BY <1>1, <1>2, <1>7, <1>8, CommandKeeps

LEMMA LegacyKeeps ==
  ASSUME IInv, NEW c \in Commands, ~Atomic(c), NEW r \in Records,
         commands' = [commands EXCEPT ![c] = r], r.owner = "legacy", r.outcome = "none",
         r.status = "accepted" => r.version = 1, r.status = "executing" => r.version = 2,
         UNCHANGED <<checkpoint, control, authority, outbox, job, ledger>>
  PROVE  IInv'
<1>1. job \in [Commands -> Job] /\ job[c].pc = "none"
  BY DEF IInv, TypeOK, JobsAreAtomic
<1> QED
  BY <1>1, CommandKeeps DEF ledger

LEMMA LegacyActionsKeep ==
  ASSUME IInv, NEW c \in Commands,
         \/ InsertLegacy(c)
         \/ \E fenced \in BOOLEAN : ClaimLegacy(c, fenced)
         \/ \E status \in Terminal \union {"executing"} : UpdateLegacy(c, status)
  PROVE  IInv'
<1>0. commands[c] \in Records
  BY DEF IInv, TypeOK, Records
<1>1. CASE InsertLegacy(c)
  <2>1. PICK r : r = [commands[c] EXCEPT !.status = "accepted", !.version = 1]
    OBVIOUS
  <2>2. ~Atomic(c) /\ commands[c].owner = "legacy" /\ commands[c].outcome = "none"
    BY <1>0, <1>1, UnseenIsFree DEF InsertLegacy, IInv, RecordsAreSound, Atomic, Records, Owners
  <2>3. /\ r \in Records /\ r.owner = "legacy" /\ r.outcome = "none"
        /\ r.status = "accepted" /\ r.version = 1
    <3>1. 1 \in 0..3 /\ "accepted" \in {"absent", "accepted", "executing"} \union Terminal
      OBVIOUS
    <3>2. [commands[c] EXCEPT !.status = "accepted", !.version = 1] \in Records
      BY ONLY <1>0, <3>1, StatusMoves
    <3> QED
      BY <1>0, <2>1, <2>2, <3>2 DEF Records
  <2>4. commands' = [commands EXCEPT ![c] = r]
    BY <1>1, <2>1 DEF InsertLegacy
  <2> QED
    BY <1>1, <2>2, <2>3, <2>4, LegacyKeeps DEF InsertLegacy
<1>2. ASSUME NEW fenced \in BOOLEAN, ClaimLegacy(c, fenced) PROVE IInv'
  <2>1. PICK r : r = Executing(NoRequest, "legacy", fenced)
    OBVIOUS
  <2>3. /\ r \in Records /\ r.outcome = "none" /\ r.status = "executing" /\ r.version = 2
        /\ r.owner = "legacy"
    <3>1. "legacy" \in Owners /\ NoRequest \in Requests \union {NoRequest}
      BY DEF Owners
    <3> QED
      BY <2>1, <3>1, ExecutingRecord
  <2>4. commands' = [commands EXCEPT ![c] = r]
    BY <1>2, <2>1 DEF ClaimLegacy
  <2>2. ~Atomic(c)
    BY <1>2, UnseenIsFree DEF ClaimLegacy
  <2> QED
    BY <1>2, <2>2, <2>3, <2>4, LegacyKeeps DEF ClaimLegacy
<1>3. ASSUME NEW status \in Terminal \union {"executing"}, UpdateLegacy(c, status) PROVE IInv'
  <2>1. ~Atomic(c) /\ commands[c].owner = "legacy" /\ commands[c].outcome = "none"
    BY <1>3 DEF UpdateLegacy, Atomic, IInv, RecordsAreSound
  <2>2. PICK n \in 1..2 : /\ n = commands[c].version
                          /\ status = "executing" => n = 1
    BY <1>3 DEF UpdateLegacy, IInv, RecordsAreSound, Terminal
  <2>3. PICK r : r = [commands[c] EXCEPT !.status = status, !.version = n + 1]
    OBVIOUS
  <2>4. /\ r \in Records /\ r.owner = "legacy" /\ r.outcome = "none"
        /\ r.status = status /\ r.version = n + 1
    <3>1. n + 1 \in 0..3 /\ status \in {"absent", "accepted", "executing"} \union Terminal
      OBVIOUS
    <3>2. PICK m : m = n + 1
      OBVIOUS
    <3>3. [commands[c] EXCEPT !.status = status, !.version = m] \in Records
      BY ONLY <1>0, <3>1, <3>2, StatusMoves
    <3> QED
      BY <1>0, <2>1, <2>3, <3>2, <3>3 DEF Records
  <2>5. commands' = [commands EXCEPT ![c] = r]
    BY <1>3, <2>2, <2>3 DEF UpdateLegacy
  <2>6. /\ r.status = "accepted" => r.version = 1
        /\ r.status = "executing" => r.version = 2
    BY <2>2, <2>4 DEF Terminal
  <2> QED
    BY <1>3, <2>1, <2>4, <2>5, <2>6, LegacyKeeps DEF UpdateLegacy
<1> QED
  BY <1>1, <1>2, <1>3

-----------------------------------------------------------------------------
(* Effects, before they are consumed.                                      *)

\* The tables of one effect change: a consumed effect stays committed, an effect is
\* only staged for a command that is not over, and the evidence fits the status.
LEMMA EffectKeeps ==
  ASSUME IInv, NEW e \in Effects,
         UNCHANGED <<checkpoint, control, authority, commands, outbox, job, consumed>>,
         plans' \subseteq Effects, effects' \in [Effects -> Intent],
         sink' \in [Effects -> 0..MaxEpoch], receipts' \in [Effects -> 0..MaxEpoch],
         provider' \in [Effects -> 0..MaxEpoch],
         \A f \in Effects : f # e => /\ effects'[f] = effects[f] /\ sink'[f] = sink[f]
                                     /\ receipts'[f] = receipts[f] /\ provider'[f] = provider[f],
         consumed[e] # 0 => effects'[e].status = "committed",
         effects[e].status = "absent" /\ effects'[e].status # "absent" => ~Over(CommandOf[e]),
         sink'[e] # 0 => /\ sink'[e] = effects'[e].epoch
                         /\ effects'[e].status \in {"leased", "unknown", "committed"},
         receipts'[e] # 0 => effects'[e].status \in {"unknown", "committed"},
         sink'[e] = 0 \/ receipts'[e] = 0,
         receipts'[e] # 0 => provider'[e] = receipts'[e] /\ receipts'[e] = effects'[e].epoch,
         effects'[e].status = "committed" => sink'[e] = effects'[e].epoch \/ consumed[e] # 0
  PROVE  IInv'
<1>1. TypeOK'
  BY DEF IInv, TypeOK
<1>2. RecordsAreSound' /\ JobsAreAtomic' /\ SnapshotsAreReal'
  BY DEF IInv, RecordsAreSound, JobsAreAtomic, SnapshotsAreReal, Atomic, Over
<1>3. EvidenceByStatus' /\ EvidenceIsReal'
  BY DEF IInv, EvidenceByStatus, EvidenceIsReal
<1>4. UsesMatch'
  BY DEF IInv, UsesMatch
<1>5. EventsMatch'
  <2>1. ASSUME NEW c \in Commands, EventOf(c, "commit") \in outbox
        PROVE  Staged(c)' = {}
    <3>1. Over(c) /\ Staged(c) = {}
      BY <2>1 DEF IInv, EventsMatch
    <3>2. ASSUME NEW f \in Effects, CommandOf[f] = c
          PROVE  effects'[f].status = "absent"
      BY <3>1, <3>2 DEF Staged
    <3> QED
      BY <3>2 DEF Staged
  <2> QED
    BY <2>1 DEF IInv, EventsMatch, Atomic, Over
<1>6. ControlHasOneAuthor'
  BY DEF IInv, ControlHasOneAuthor, Applied
<1> QED
  BY <1>1, <1>2, <1>3, <1>4, <1>5, <1>6 DEF IInv

\* What the invariant says of one effect.
LEMMA EffectFacts ==
  ASSUME IInv, NEW e \in Effects
  PROVE  /\ effects[e] \in Intent
         /\ sink[e] \in 0..MaxEpoch /\ receipts[e] \in 0..MaxEpoch /\ provider[e] \in 0..MaxEpoch
         /\ sink[e] # 0 => /\ sink[e] = effects[e].epoch
                           /\ effects[e].status \in {"leased", "unknown", "committed"}
         /\ receipts[e] # 0 => effects[e].status \in {"unknown", "committed"}
         /\ sink[e] = 0 \/ receipts[e] = 0
         /\ receipts[e] # 0 => provider[e] = receipts[e] /\ receipts[e] = effects[e].epoch
         /\ effects[e].status = "committed" => sink[e] = effects[e].epoch \/ consumed[e] # 0
         /\ consumed[e] # 0 => effects[e].status = "committed"
<1>1. consumed[e] # 0 => effects[e].status = "committed"
  BY DEF IInv, UsesMatch
<1> QED
  BY <1>1 DEF IInv, TypeOK, EvidenceByStatus, EvidenceIsReal

\* A step that changes the intent and nothing else.
LEMMA IntentKeeps ==
  ASSUME IInv, NEW e \in Effects, OnlyEffects, NEW i \in Intent,
         effects' = [effects EXCEPT ![e] = i], consumed[e] = 0,
         effects[e].status = "absent" /\ i.status # "absent" => ~Over(CommandOf[e]),
         sink[e] # 0 => i.epoch = effects[e].epoch /\ i.status \in {"leased", "unknown", "committed"},
         receipts[e] # 0 => i.epoch = effects[e].epoch /\ i.status \in {"unknown", "committed"},
         i.status = "committed" => sink[e] # 0
  PROVE  IInv'
<1>1. /\ effects' \in [Effects -> Intent] /\ effects'[e] = i
      /\ \A f \in Effects : f # e => effects'[f] = effects[f]
  BY DEF IInv, TypeOK
<1>2. /\ UNCHANGED <<checkpoint, control, authority, commands, outbox, job, consumed,
                     sink, receipts, plans, provider>>
      /\ plans \subseteq Effects /\ sink \in [Effects -> 0..MaxEpoch]
      /\ receipts \in [Effects -> 0..MaxEpoch] /\ provider \in [Effects -> 0..MaxEpoch]
  BY DEF OnlyEffects, IInv, TypeOK
<1>3. /\ plans' \subseteq Effects /\ sink' \in [Effects -> 0..MaxEpoch]
      /\ receipts' \in [Effects -> 0..MaxEpoch] /\ provider' \in [Effects -> 0..MaxEpoch]
  BY <1>2
<1>4. \A f \in Effects : f # e => /\ effects'[f] = effects[f] /\ sink'[f] = sink[f]
                                  /\ receipts'[f] = receipts[f] /\ provider'[f] = provider[f]
  BY <1>1, <1>2
<1>5. /\ sink'[e] # 0 => /\ sink'[e] = effects'[e].epoch
                         /\ effects'[e].status \in {"leased", "unknown", "committed"}
      /\ receipts'[e] # 0 => effects'[e].status \in {"unknown", "committed"}
      /\ sink'[e] = 0 \/ receipts'[e] = 0
      /\ receipts'[e] # 0 => provider'[e] = receipts'[e] /\ receipts'[e] = effects'[e].epoch
      /\ effects'[e].status = "committed" => sink'[e] = effects'[e].epoch \/ consumed[e] # 0
  BY <1>1, <1>2, EffectFacts
<1>6. effects[e].status = "absent" /\ effects'[e].status # "absent" => ~Over(CommandOf[e])
  BY <1>1
<1> QED
  BY <1>1, <1>2, <1>3, <1>4, <1>5, <1>6, EffectKeeps

LEMMA StageIntentKeeps ==
  ASSUME IInv, NEW e \in Effects, StageIntent(e)
  PROVE  IInv'
<1>1. /\ effects[e] \in Intent /\ effects[e].status = "absent"
      /\ sink[e] = 0 /\ receipts[e] = 0 /\ consumed[e] = 0 /\ OnlyEffects
  BY EffectFacts DEF StageIntent
<1>2. authority.revision \in 0..MaxRevision
  BY FinalizationAssumption DEF IInv, TypeOK, Authority
<1>3. PICK i : i = [effects[e] EXCEPT !.status = "pending", !.revision = authority.revision]
  OBVIOUS
<1>4. i \in Intent /\ i.status = "pending"
  BY <1>1, <1>2, <1>3 DEF Intent
<1>5. effects' = [effects EXCEPT ![e] = i]
  BY <1>3 DEF StageIntent
<1>6. ~Over(CommandOf[e])
  BY DEF StageIntent, CurrentAuthority, Over, Terminal
<1> QED
  BY <1>1, <1>4, <1>5, <1>6, IntentKeeps

LEMMA ClaimDispatchKeeps ==
  ASSUME IInv, NEW e \in Effects, ClaimDispatch(e)
  PROVE  IInv'
<1>1. /\ effects[e] \in Intent /\ effects[e].status = "pending" /\ effects[e].epoch < MaxEpoch
      /\ sink[e] = 0 /\ receipts[e] = 0 /\ consumed[e] = 0 /\ OnlyEffects
  BY EffectFacts DEF ClaimDispatch
<1>2. PICK n \in Nat : n = effects[e].epoch /\ n + 1 \in 0..MaxEpoch
  BY <1>1, FinalizationAssumption DEF Intent
<1>3. PICK i : i = [effects[e] EXCEPT !.status = "leased", !.epoch = n + 1]
  OBVIOUS
<1>4. i \in Intent /\ i.status = "leased"
  BY <1>1, <1>2, <1>3 DEF Intent
<1>5. effects' = [effects EXCEPT ![e] = i]
  BY <1>2, <1>3 DEF ClaimDispatch
<1> QED
  BY <1>1, <1>4, <1>5, IntentKeeps

LEMMA SetEffectKeeps ==
  ASSUME IInv, NEW e \in Effects, NEW status \in {"pending", "unknown", "committed"},
         SetEffect(e, status), OnlyEffects, effects[e].status \in {"leased", "unknown"},
         sink[e] # 0 => status \in {"unknown", "committed"},
         receipts[e] # 0 => status \in {"unknown", "committed"},
         status = "committed" => sink[e] # 0
  PROVE  IInv'
<1>1. effects[e] \in Intent /\ consumed[e] = 0
  BY EffectFacts
<1>2. PICK i : i = [effects[e] EXCEPT !.status = status]
  OBVIOUS
<1>3. i \in Intent /\ i.status = status /\ i.epoch = effects[e].epoch
  BY <1>1, <1>2 DEF Intent
<1>4. effects' = [effects EXCEPT ![e] = i]
  BY <1>2 DEF SetEffect
<1> QED
  BY <1>1, <1>3, <1>4, IntentKeeps

LEMMA VerdictsKeep ==
  ASSUME IInv, NEW e \in Effects,
         Reconcile(e) \/ \E epoch \in 1..MaxEpoch : ConfirmApplied(e, epoch) \/ MarkUnknown(e, epoch)
  PROVE  IInv'
<1>1. CASE Reconcile(e)
  <2>1. PICK status : status = IF sink[e] # 0 THEN "committed" ELSE "pending"
    OBVIOUS
  <2>2. /\ status \in {"pending", "unknown", "committed"}
        /\ sink[e] # 0 => status \in {"unknown", "committed"}
        /\ status = "committed" => sink[e] # 0
    BY <2>1
  <2>3. /\ SetEffect(e, status) /\ OnlyEffects
        /\ effects[e].status \in {"leased", "unknown"} /\ receipts[e] = 0
    BY <1>1, <2>1 DEF Reconcile
  <2> QED
    BY <2>2, <2>3, SetEffectKeeps
<1>2. ASSUME NEW epoch \in 1..MaxEpoch, ConfirmApplied(e, epoch) PROVE IInv'
  <2>1. /\ SetEffect(e, "committed") /\ OnlyEffects /\ sink[e] # 0
        /\ effects[e].status \in {"leased", "unknown"}
    BY <1>2 DEF ConfirmApplied
  <2> QED
    BY <2>1, SetEffectKeeps
<1>3. ASSUME NEW epoch \in 1..MaxEpoch, MarkUnknown(e, epoch) PROVE IInv'
  <2>1. /\ SetEffect(e, "unknown") /\ OnlyEffects
        /\ effects[e].status \in {"leased", "unknown"}
    BY <1>3 DEF MarkUnknown
  <2> QED
    BY <2>1, SetEffectKeeps
<1> QED
  BY <1>1, <1>2, <1>3

\* The three steps that leave the intent alone: an application here, an application
\* at the provider, and the receipt of the latter; and the review of a receipt.
LEMMA EvidenceKeeps ==
  ASSUME IInv, NEW e \in Effects,
         \/ \E epoch \in 1..MaxEpoch : \/ DispatchLocally(e, epoch) \/ ProviderApplies(e, epoch)
                                       \/ PersistReceipt(e, epoch)
         \/ PlanConsumption(e)
  PROVE  IInv'
<1>1. /\ effects \in [Effects -> Intent] /\ sink \in [Effects -> 0..MaxEpoch]
      /\ receipts \in [Effects -> 0..MaxEpoch] /\ provider \in [Effects -> 0..MaxEpoch]
      /\ plans \subseteq Effects
  BY DEF IInv, TypeOK
<1>2. ASSUME NEW epoch \in 1..MaxEpoch, DispatchLocally(e, epoch) PROVE IInv'
  <2>1. /\ UNCHANGED <<checkpoint, control, authority, commands, outbox, job, consumed,
                       effects, receipts, plans, provider>>
        /\ sink' = [sink EXCEPT ![e] = epoch] /\ effects[e].status = "leased"
        /\ effects[e].epoch = epoch
    BY <1>2 DEF DispatchLocally
  <2>2. epoch \in 0..MaxEpoch
    BY FinalizationAssumption
  <2>3. /\ sink' \in [Effects -> 0..MaxEpoch] /\ sink'[e] = epoch
        /\ \A f \in Effects : f # e => sink'[f] = sink[f]
    BY <1>1, <2>1, <2>2
  <2>4. receipts[e] = 0 /\ consumed[e] = 0
    BY <2>1, EffectFacts
  <2>5. /\ effects' \in [Effects -> Intent] /\ receipts' \in [Effects -> 0..MaxEpoch]
        /\ provider' \in [Effects -> 0..MaxEpoch] /\ plans' \subseteq Effects
    BY <1>1, <2>1
  <2> QED
    BY <2>1, <2>3, <2>4, <2>5, EffectKeeps
<1>3. ASSUME NEW epoch \in 1..MaxEpoch, ProviderApplies(e, epoch) PROVE IInv'
  <2>1. /\ UNCHANGED <<checkpoint, control, authority, commands, outbox, job, consumed,
                       effects, sink, receipts, plans>>
        /\ provider' = [provider EXCEPT ![e] = epoch] /\ provider[e] = 0
    BY <1>3 DEF ProviderApplies
  <2>2. epoch \in 0..MaxEpoch
    BY FinalizationAssumption
  <2>3. /\ provider' \in [Effects -> 0..MaxEpoch] /\ provider'[e] = epoch
        /\ \A f \in Effects : f # e => provider'[f] = provider[f]
    BY <1>1, <2>1, <2>2
  <2>4. receipts[e] = 0
    BY <2>1, EffectFacts
  <2>5. /\ effects' \in [Effects -> Intent] /\ receipts' \in [Effects -> 0..MaxEpoch]
        /\ sink' \in [Effects -> 0..MaxEpoch] /\ plans' \subseteq Effects
    BY <1>1, <2>1
  <2> QED
    BY <2>1, <2>3, <2>4, <2>5, EffectFacts, EffectKeeps
<1>4. ASSUME NEW epoch \in 1..MaxEpoch, PersistReceipt(e, epoch) PROVE IInv'
  <2>1. /\ UNCHANGED <<checkpoint, control, authority, commands, outbox, job, consumed,
                       effects, sink, plans, provider>>
        /\ receipts' = [receipts EXCEPT ![e] = epoch] /\ provider[e] = epoch /\ sink[e] = 0
        /\ effects[e].status = "unknown" /\ effects[e].epoch = epoch
    BY <1>4 DEF PersistReceipt, Observed
  <2>2. epoch \in 0..MaxEpoch
    BY FinalizationAssumption
  <2>3. /\ receipts' \in [Effects -> 0..MaxEpoch] /\ receipts'[e] = epoch
        /\ \A f \in Effects : f # e => receipts'[f] = receipts[f]
    BY <1>1, <2>1, <2>2
  <2>4. consumed[e] = 0
    BY <2>1, EffectFacts
  <2>5. /\ effects' \in [Effects -> Intent] /\ provider' \in [Effects -> 0..MaxEpoch]
        /\ sink' \in [Effects -> 0..MaxEpoch] /\ plans' \subseteq Effects
    BY <1>1, <2>1
  <2> QED
    BY <2>1, <2>3, <2>4, <2>5, EffectKeeps
<1>5. CASE PlanConsumption(e)
  <2>1. /\ UNCHANGED <<checkpoint, control, authority, commands, outbox, job, consumed,
                       effects, sink, receipts, provider>>
        /\ plans' = plans \union {e}
    BY <1>5 DEF PlanConsumption
  <2>2. /\ effects' \in [Effects -> Intent] /\ receipts' \in [Effects -> 0..MaxEpoch]
        /\ sink' \in [Effects -> 0..MaxEpoch] /\ provider' \in [Effects -> 0..MaxEpoch]
        /\ plans' \subseteq Effects
    BY <1>1, <2>1
  <2> QED
    BY <2>1, <2>2, EffectFacts, EffectKeeps
<1> QED
  BY <1>2, <1>3, <1>4, <1>5

-----------------------------------------------------------------------------
(* The end of a command.                                                   *)

LEMMA EndedRecord ==
  ASSUME NEW r \in Records, NEW s \in Terminal, NEW o \in Outcomes, NEW v \in 0..MaxControl
  PROVE  [r EXCEPT !.status = s, !.version = 3, !.outcome = o, !.ctl = v] \in Records
<1>1. PICK a : a = [r EXCEPT !.status = s, !.version = 3]
  OBVIOUS
<1>2. a \in Records
  <2>1. 3 \in 0..3 /\ s \in {"absent", "accepted", "executing"} \union Terminal
    OBVIOUS
  <2>2. [r EXCEPT !.status = s, !.version = 3] \in Records
    BY <2>1, StatusMoves
  <2> QED
    BY <1>1, <2>2
<1>3. PICK b : b = [a EXCEPT !.outcome = o]
  OBVIOUS
<1>4. b \in Records
  BY <1>2, <1>3, RecordFields
<1>5. PICK d : d = [b EXCEPT !.ctl = v]
  OBVIOUS
<1>6. d \in Records
  BY <1>4, <1>5, RecordFields
<1>7. d = [r EXCEPT !.status = s, !.version = 3, !.outcome = o, !.ctl = v]
  BY <1>1, <1>3, <1>5
<1> QED
  BY <1>6, <1>7

\* The commands that were applied, and with one more of them.
LEMMA AppliedGrows ==
  ASSUME IInv, NEW c \in Commands, c \notin Applied
  PROVE  /\ IsFiniteSet(Applied) /\ Applied \subseteq Commands
         /\ Cardinality(Applied \union {c}) = control.version + 1
         /\ control.version \in Nat /\ control.version + 1 <= MaxControl
<1>1. Applied \subseteq Commands
  BY DEF Applied
<1>2. IsFiniteSet(Applied)
  BY <1>1, FinalizationAssumption, FS_Subset
<1>3. PICK S : S = Applied \union {c}
  OBVIOUS
<1>4. S \subseteq Commands /\ Cardinality(S) <= Cardinality(Commands)
  <2>1. S \subseteq Commands
    BY <1>1, <1>3
  <2> QED
    BY <2>1, FinalizationAssumption, FS_Subset
<1>5. Cardinality(S) = Cardinality(Applied) + 1
  BY <1>2, <1>3, FS_AddElement
<1>6. Cardinality(Applied) = control.version
  BY DEF IInv, ControlHasOneAuthor
<1>7. control.version \in Nat
  BY <1>2, <1>6, FS_CardinalityType
<1> QED
  BY <1>1, <1>2, <1>3, <1>4, <1>5, <1>6, <1>7 DEF MaxControl

\* The command row and the control state change together: a row that is applied
\* names the version it wrote, as the only one.
LEMMA EndFacts ==
  ASSUME IInv, NEW c \in Commands, Atomic(c), commands[c].status = "executing",
         NEW outcome \in Outcomes, control.version = commands[c].request.ctl,
         commands' = [commands EXCEPT ![c] = Ended(c, outcome)],
         control' = IF WritesControl(outcome) THEN Successor(c) ELSE control
  PROVE  /\ commands' \in [Commands -> Records] /\ control' \in Control
         /\ \A d \in Commands : d # c => commands'[d] = commands[d]
         /\ commands'[c].owner = "atomic_control_only" /\ commands'[c].status \in Terminal
         /\ commands'[c].outcome = outcome /\ commands'[c].request = commands[c].request
         /\ outcome = "applied" => commands'[c].ctl = control.version + 1
         /\ control.version <= control'.version
         /\ control'.version = control.version => control' = control
         /\ ControlHasOneAuthor'
<1>1. /\ commands[c] \in Records /\ commands[c].owner = "atomic_control_only"
      /\ commands[c].request \in Requests /\ commands[c].outcome = "none"
      /\ control \in Control
  BY DEF IInv, TypeOK, Records, RecordsAreSound, Atomic, Over, Terminal
<1>2. c \notin Applied
  BY <1>1 DEF Applied
<1>3. /\ IsFiniteSet(Applied) /\ Applied \subseteq Commands
      /\ Cardinality(Applied \union {c}) = control.version + 1
      /\ control.version \in Nat /\ control.version + 1 <= MaxControl
  BY <1>2, AppliedGrows
<1>4. PICK n \in Nat : n = control.version /\ n = commands[c].request.ctl /\ n + 1 <= MaxControl
  BY <1>3
<1>5. PICK v \in 0..MaxControl : /\ v = n + (IF WritesControl(outcome) THEN 1 ELSE 0)
                                 /\ outcome = "applied" => v = n + 1
  BY <1>4, MaxControlIsNat DEF WritesControl
<1>6. PICK s \in Terminal : s = IF outcome = "rejected" THEN "rejected" ELSE "succeeded"
  BY DEF Terminal
<1>7. PICK r \in Records :
        /\ commands' = [commands EXCEPT ![c] = r]
        /\ r.status = s /\ r.outcome = outcome /\ r.ctl = v
        /\ r.owner = "atomic_control_only" /\ r.request = commands[c].request
  <2>1. PICK q : q = [commands[c] EXCEPT !.status = s, !.version = 3, !.outcome = outcome, !.ctl = v]
    OBVIOUS
  <2>2. q \in Records /\ q.status = s /\ q.outcome = outcome /\ q.ctl = v
        /\ q.owner = commands[c].owner /\ q.request = commands[c].request
    <3>1. [commands[c] EXCEPT !.status = s, !.version = 3, !.outcome = outcome, !.ctl = v]
            \in Records
      BY <1>1, EndedRecord
    <3> QED
      BY <1>1, <2>1, <3>1 DEF Records
  <2>3. Ended(c, outcome) = q
    BY <1>4, <1>5, <1>6, <2>1 DEF Ended
  <2> QED
    BY <1>1, <2>2, <2>3
<1>8. /\ commands' \in [Commands -> Records] /\ commands'[c] = r
      /\ \A d \in Commands : d # c => commands'[d] = commands[d]
  BY <1>7, OneCommand DEF IInv
<1>9. CASE outcome = "applied"
  <2>1. /\ control'.version = n + 1 /\ control'.author = c
        /\ control'.status \in {"active", "quarantined", "dead_lettered"}
        /\ control' = [version |-> control'.version, status |-> control'.status,
                       author |-> control'.author]
    <3>1. commands[c].request.op \in ControlOnlyOperations
      BY <1>1, FinalizationAssumption
    <3> QED
      BY <1>4, <1>9, <3>1 DEF WritesControl, Successor, ControlOnlyOperations
  <2>2. control' \in Control
    BY <1>4, <2>1, MaxControlIsNat DEF Control
  <2>3. Applied' = Applied \union {c}
    BY <1>7, <1>8, <1>9 DEF Applied
  <2>4. \A d \in Applied : commands'[d] = commands[d]
    BY <1>2, <1>3, <1>8
  <2>5. Cardinality(Applied') = control'.version
    BY <1>3, <1>4, <2>1, <2>3
  <2>6. ASSUME NEW w \in 1..control'.version PROVE \E d \in Applied' : commands'[d].ctl = w
    <3>1. CASE w = n + 1
      BY <1>5, <1>7, <1>8, <1>9, <2>3, <3>1
    <3>2. CASE w # n + 1
      <4>1. w \in 1..control.version
        BY <1>4, <2>1, <3>2
      <4>2. PICK d \in Applied : commands[d].ctl = w
        BY <4>1 DEF IInv, ControlHasOneAuthor
      <4> QED
        BY <2>3, <2>4, <4>2
    <3> QED
      BY <3>1, <3>2
  <2>7. control'.author \in Applied' /\ commands'[control'.author].ctl = control'.version
    BY <1>5, <1>7, <1>8, <1>9, <2>1, <2>3
  <2>8. ControlHasOneAuthor'
    BY <2>5, <2>6, <2>7 DEF ControlHasOneAuthor
  <2>9. control.version <= control'.version /\ control'.version # control.version
    BY <1>4, <2>1
  <2> QED
    BY <1>4, <1>5, <1>7, <1>8, <1>9, <2>2, <2>8, <2>9
<1>10. CASE outcome # "applied"
  <2>1. control' = control
    BY <1>10 DEF WritesControl
  <2>2. Applied' = Applied
    BY <1>2, <1>7, <1>8, <1>10 DEF Applied
  <2>3. \A d \in Applied : commands'[d] = commands[d]
    BY <1>2, <1>3, <1>8
  <2>4. ControlHasOneAuthor'
    BY <2>1, <2>2, <2>3 DEF IInv, ControlHasOneAuthor
  <2>5. control.version <= control.version
    BY <1>4
  <2> QED
    BY <1>1, <1>7, <1>8, <1>10, <2>1, <2>4, <2>5
<1> QED
  BY <1>9, <1>10

\* The parts of the invariant about rows, executions and snapshots at the end of a
\* command, whatever becomes of its execution.
LEMMA EndKeeps ==
  ASSUME IInv, NEW c \in Commands, Atomic(c), commands[c].status = "executing",
         NEW outcome \in Outcomes, control.version = commands[c].request.ctl,
         commands' = [commands EXCEPT ![c] = Ended(c, outcome)],
         control' = IF WritesControl(outcome) THEN Successor(c) ELSE control,
         UNCHANGED checkpoint, job' \in [Commands -> Job],
         \A d \in Commands : job'[d] = job[d] \/ (d = c /\ job'[d].pc = "over")
  PROVE  RecordsAreSound' /\ JobsAreAtomic' /\ SnapshotsAreReal'
<1>1. /\ control' \in Control
      /\ \A d \in Commands : d # c => commands'[d] = commands[d]
      /\ commands'[c].owner = "atomic_control_only" /\ commands'[c].status \in Terminal
      /\ commands'[c].outcome = outcome /\ commands'[c].request = commands[c].request
      /\ control.version <= control'.version
      /\ control'.version = control.version => control' = control
  BY EndFacts
<1>2. RecordsAreSound'
  <2>1. /\ commands[c].request \in Requests /\ outcome # "none"
        /\ commands'[c].status \notin {"accepted", "executing"}
    BY <1>1 DEF IInv, RecordsAreSound, Outcomes, Terminal
  <2> QED
    BY <1>1, <2>1 DEF IInv, RecordsAreSound, Atomic, Over
<1>3. JobsAreAtomic'
  BY <1>1 DEF IInv, JobsAreAtomic, Atomic
<1>4. SnapshotsAreReal'
  <2>1. ASSUME NEW d \in Commands, job'[d].pc \in {"reading", "prepared"}
        PROVE  job'[d] = job[d]
    BY <2>1
  <2>2. PICK m \in Nat, n \in Nat : m = control.version /\ n = control'.version /\ m <= n
    BY <1>1, MaxControlIsNat DEF IInv, TypeOK, Control
  <2>3. ASSUME NEW d \in Commands, job'[d].pc = "prepared"
        PROVE  /\ job'[d].ctl.version <= control'.version
               /\ job'[d].ctl.version = control'.version => job'[d].ctl = control'
    <3>1. job'[d] = job[d] /\ job[d].pc = "prepared"
      BY <2>1, <2>3
    <3>2. PICK k \in Nat : k = job[d].ctl.version
      BY MaxControlIsNat DEF IInv, TypeOK, Job, Control
    <3>3. k <= m /\ (k = m => job[d].ctl = control)
      BY <2>2, <3>1, <3>2 DEF IInv, SnapshotsAreReal
    <3>4. k <= n /\ (k = n => m = n)
      BY <2>2, <3>3
    <3> QED
      BY <1>1, <2>2, <3>1, <3>2, <3>3, <3>4
  <2> QED
    BY <2>1, <2>3 DEF IInv, SnapshotsAreReal
<1> QED
  BY <1>2, <1>3, <1>4

\* A command that is not over has no event and no consumed effect.
LEMMA OpenHasNoTrace ==
  ASSUME IInv, NEW c \in Commands, ~Over(c)
  PROVE  /\ \A by \in {"commit", "finalize"} : EventOf(c, by) \notin outbox
         /\ \A e \in Effects : CommandOf[e] = c => consumed[e] = 0
<1>1. EventOf(c, "commit") \notin outbox /\ EventOf(c, "finalize") \notin outbox
  BY DEF IInv, EventsMatch
<1> QED
  BY <1>1 DEF IInv, UsesMatch

\* The event of one command is added, and is its only one.
LEMMA EventAdded ==
  ASSUME NEW c \in Commands, NEW d \in Commands, NEW by \in {"commit", "finalize"},
         NEW how \in {"commit", "finalize"}, outbox' = outbox \union {EventOf(c, by)}
  PROVE  EventOf(d, how) \in outbox' <=> EventOf(d, how) \in outbox \/ (d = c /\ how = by)
BY DEF EventOf

LEMMA CommittedKeeps ==
  ASSUME IInv, NEW c \in Commands, job[c].pc = "prepared", Committable(c),
         NEW outcome \in Outcomes, commands' = [commands EXCEPT ![c] = Ended(c, outcome)],
         control' = IF WritesControl(outcome) THEN Successor(c) ELSE control,
         outbox' = outbox \union {EventOf(c, "commit")},
         job' \in [Commands -> Job], job'[c].pc = "over",
         \A d \in Commands : d # c => job'[d] = job[d],
         UNCHANGED <<checkpoint, authority, effects, sink, receipts, plans, consumed, provider>>
  PROVE  IInv'
<1>1. /\ Atomic(c) /\ commands[c].status = "executing" /\ Staged(c) = {} /\ ~Over(c)
      /\ control.version = commands[c].request.ctl
  BY DEF IInv, JobsAreAtomic, Committable, Over, Terminal
<1>2. /\ commands' \in [Commands -> Records] /\ control' \in Control
      /\ \A d \in Commands : d # c => commands'[d] = commands[d]
      /\ commands'[c].owner = "atomic_control_only" /\ commands'[c].status \in Terminal
      /\ ControlHasOneAuthor'
  BY <1>1, EndFacts
<1>3. RecordsAreSound' /\ JobsAreAtomic' /\ SnapshotsAreReal'
  BY <1>1, EndKeeps
<1>4. outbox' \subseteq Event
  BY DEF IInv, TypeOK, Event, EventOf
<1>5. TypeOK'
  BY <1>2, <1>4 DEF IInv, TypeOK, Records
<1>6. /\ \A by \in {"commit", "finalize"} : EventOf(c, by) \notin outbox
      /\ \A e \in Effects : CommandOf[e] = c => consumed[e] = 0
  BY <1>1, OpenHasNoTrace
<1>7. \A d \in Commands : \A how \in {"commit", "finalize"} :
        EventOf(d, how) \in outbox' <=> EventOf(d, how) \in outbox \/ (d = c /\ how = "commit")
  BY EventAdded
<1>8. EventsMatch'
  <2>1. ASSUME NEW d \in Commands
        PROVE  /\ EventOf(d, "commit") \in outbox' <=> EventOf(d, "commit") \in outbox \/ d = c
               /\ EventOf(d, "finalize") \in outbox' <=> EventOf(d, "finalize") \in outbox
               /\ Staged(d)' = Staged(d)
    BY <1>7 DEF Staged
  <2>2. (Atomic(c) /\ Over(c))'
    BY <1>2 DEF Atomic, Over
  <2>3. \A d \in Commands : d # c => ((Atomic(d) /\ Over(d))' <=> Atomic(d) /\ Over(d))
    BY <1>2 DEF Atomic, Over
  <2>4. ASSUME NEW d \in Commands
        PROVE  /\ EventOf(d, "commit") \in outbox' \/ EventOf(d, "finalize") \in outbox'
                    <=> (Atomic(d) /\ Over(d))'
               /\ ~(EventOf(d, "commit") \in outbox' /\ EventOf(d, "finalize") \in outbox')
               /\ EventOf(d, "commit") \in outbox' => Staged(d)' = {}
               /\ EventOf(d, "finalize") \in outbox' =>
                    \E e \in Effects : CommandOf[e] = d /\ consumed'[e] # 0
    BY <1>1, <1>6, <2>1, <2>2, <2>3 DEF IInv, EventsMatch
  <2> QED
    BY <2>4 DEF EventsMatch, Atomic, Over, EventOf
<1>9. UsesMatch'
  <2>1. ASSUME NEW e \in Effects, consumed[e] # 0
        PROVE  /\ CommandOf[e] \in Commands /\ commands'[CommandOf[e]] = commands[CommandOf[e]]
               /\ EventOf(CommandOf[e], "finalize") \in outbox'
    BY <1>2, <1>6, <2>1, CommandOfType DEF IInv, UsesMatch
  <2> QED
    BY <2>1 DEF IInv, UsesMatch, EventOf
<1>10. EvidenceByStatus' /\ EvidenceIsReal'
  BY DEF IInv, EvidenceByStatus, EvidenceIsReal
<1> QED
  BY <1>2, <1>3, <1>5, <1>8, <1>9, <1>10 DEF IInv

LEMMA CommitKeeps ==
  ASSUME IInv, NEW c \in Commands, Commit(c)
  PROVE  IInv'
<1>1. PICK r : r = [Unread EXCEPT !.pc = "over"]
  OBVIOUS
<1>2. r \in Job /\ r.pc = "over"
  <2>1. 0 \in 0..MaxRevision /\ 1 \in 1..MaxCheckpoint /\ 0 \in 0..MaxControl
    BY FinalizationAssumption, MaxControlIsNat
  <2> QED
    BY <1>1, <2>1 DEF Unread, Job, Checkpoint, Control
<1>3. job' = [job EXCEPT ![c] = r] /\ job[c].pc = "prepared"
  BY <1>1 DEF Commit
<1>4. /\ job' \in [Commands -> Job] /\ job'[c] = r
      /\ \A d \in Commands : d # c => job'[d] = job[d]
  BY <1>2, <1>3, OneJob DEF IInv
<1>5. UNCHANGED <<checkpoint, authority, effects, sink, receipts, plans, consumed, provider>>
  BY DEF Commit, ledger
<1>6. CASE ~Committable(c)
  <2>1. UNCHANGED <<control, commands, outbox>>
    BY <1>6 DEF Commit
  <2> QED
    BY <1>2, <1>3, <1>5, <2>1, JobKeeps
<1>7. CASE Committable(c)
  <2>1. PICK outcome \in Outcomes :
          /\ control' = IF WritesControl(outcome) THEN Successor(c) ELSE control
          /\ commands' = [commands EXCEPT ![c] = Ended(c, outcome)]
          /\ outbox' = outbox \union {EventOf(c, "commit")}
    BY <1>7, PreparedOutcome DEF Commit, EventOf
  <2> QED
    BY <1>2, <1>3, <1>4, <1>5, <1>7, <2>1, CommittedKeeps
<1> QED
  BY <1>6, <1>7

LEMMA FinalizeKeeps ==
  ASSUME IInv, NEW e \in Effects, Finalize(e)
  PROVE  IInv'
<1>1. PICK c \in Commands : c = CommandOf[e]
  BY CommandOfType
<1>2. /\ Atomic(c) /\ commands[c].status = "executing" /\ ~Over(c)
      /\ control.version = commands[c].request.ctl
      /\ receipts[e] # 0 /\ sink[e] = 0 /\ effects[e].status = "unknown"
  BY <1>1 DEF Finalize, Consumable, Atomic, Over, Terminal
<1>3. /\ commands' = [commands EXCEPT ![c] = Ended(c, "applied")]
      /\ control' = IF WritesControl("applied") THEN Successor(c) ELSE control
      /\ outbox' = outbox \union {EventOf(c, "finalize")}
      /\ effects' = [effects EXCEPT ![e].status = "committed"]
      /\ UNCHANGED <<checkpoint, authority, job, sink, receipts, plans, provider>>
  BY <1>1 DEF Finalize, WritesControl, EventOf, SetEffect
<1>4. "applied" \in Outcomes
  BY DEF Outcomes
<1>5. /\ commands' \in [Commands -> Records] /\ control' \in Control
      /\ \A d \in Commands : d # c => commands'[d] = commands[d]
      /\ commands'[c].owner = "atomic_control_only" /\ commands'[c].status \in Terminal
      /\ commands'[c].ctl = control.version + 1
      /\ ControlHasOneAuthor'
  BY <1>2, <1>3, <1>4, EndFacts
<1>6. RecordsAreSound' /\ JobsAreAtomic' /\ SnapshotsAreReal'
  <2>1. job' \in [Commands -> Job] /\ \A d \in Commands : job'[d] = job[d]
    BY <1>3 DEF IInv, TypeOK
  <2> QED
    BY <1>2, <1>3, <1>4, <2>1, EndKeeps
<1>7. PICK v \in 0..MaxControl : v = control.version + 1 /\ v # 0
  <2>1. c \notin Applied
    BY <1>2 DEF Applied, IInv, RecordsAreSound
  <2>2. PICK n : n = control.version
    OBVIOUS
  <2>3. n \in Nat /\ n + 1 <= MaxControl
    BY <2>1, <2>2, AppliedGrows
  <2>4. n + 1 \in 0..MaxControl /\ n + 1 # 0
    BY <2>3, MaxControlIsNat
  <2> QED
    BY <2>2, <2>4
<1>8. /\ consumed' \in [Effects -> 0..MaxControl] /\ consumed'[e] = v
      /\ \A f \in Effects : f # e => consumed'[f] = consumed[f]
  <2>1. consumed' = [consumed EXCEPT ![e] = v]
    BY <1>1, <1>2, <1>7 DEF Finalize
  <2> QED
    BY <2>1 DEF IInv, TypeOK
<1>9. /\ effects' \in [Effects -> Intent] /\ effects'[e].status = "committed"
      /\ effects'[e].epoch = effects[e].epoch
      /\ \A f \in Effects : f # e => effects'[f] = effects[f]
  <2>1. PICK i : i = [effects[e] EXCEPT !.status = "committed"]
    OBVIOUS
  <2>2. i \in Intent /\ i.status = "committed" /\ i.epoch = effects[e].epoch
    BY <2>1 DEF IInv, TypeOK, Intent
  <2>3. effects' = [effects EXCEPT ![e] = i]
    BY <1>3, <2>1
  <2> QED
    BY <2>2, <2>3 DEF IInv, TypeOK
<1>10. TypeOK'
  <2>1. outbox' \subseteq Event
    BY <1>3 DEF IInv, TypeOK, Event, EventOf
  <2> QED
    BY <1>3, <1>5, <1>8, <1>9, <2>1 DEF IInv, TypeOK, Records
<1>11. /\ \A by \in {"commit", "finalize"} : EventOf(c, by) \notin outbox
       /\ \A f \in Effects : CommandOf[f] = c => consumed[f] = 0
  BY <1>2, OpenHasNoTrace
<1>12. \A d \in Commands : \A how \in {"commit", "finalize"} :
         EventOf(d, how) \in outbox' <=> EventOf(d, how) \in outbox \/ (d = c /\ how = "finalize")
  BY <1>3, EventAdded
<1>13. EventsMatch'
  <2>1. ASSUME NEW d \in Commands
        PROVE  /\ EventOf(d, "commit") \in outbox' <=> EventOf(d, "commit") \in outbox
               /\ EventOf(d, "finalize") \in outbox' <=> EventOf(d, "finalize") \in outbox \/ d = c
    BY <1>12
  <2>2. ASSUME NEW d \in Commands, d # c PROVE Staged(d)' = Staged(d)
    BY <1>1, <1>9, <2>2 DEF Staged
  <2>3. (Atomic(c) /\ Over(c))'
    BY <1>5 DEF Atomic, Over
  <2>4. \A d \in Commands : d # c => ((Atomic(d) /\ Over(d))' <=> Atomic(d) /\ Over(d))
    BY <1>5 DEF Atomic, Over
  <2>5. \A f \in Effects : consumed[f] # 0 => consumed'[f] # 0
    BY <1>7, <1>8
  <2>6. ASSUME NEW d \in Commands
        PROVE  /\ EventOf(d, "commit") \in outbox' \/ EventOf(d, "finalize") \in outbox'
                    <=> (Atomic(d) /\ Over(d))'
               /\ ~(EventOf(d, "commit") \in outbox' /\ EventOf(d, "finalize") \in outbox')
               /\ EventOf(d, "commit") \in outbox' => Staged(d)' = {}
               /\ EventOf(d, "finalize") \in outbox' =>
                    \E f \in Effects : CommandOf[f] = d /\ consumed'[f] # 0
    <3>1. CASE d = c
      <4>1. CommandOf[e] = d /\ consumed'[e] # 0
        BY <1>1, <1>7, <1>8, <3>1
      <4> QED
        BY <1>11, <2>1, <2>3, <3>1, <4>1
    <3>2. CASE d # c
      BY <2>1, <2>2, <2>4, <2>5, <3>2 DEF IInv, EventsMatch
    <3> QED
      BY <3>1, <3>2
  <2> QED
    BY <2>6 DEF EventsMatch, Atomic, Over, EventOf
<1>14. UsesMatch'
  <2>1. ASSUME NEW f \in Effects, consumed'[f] # 0
        PROVE  /\ EventOf(CommandOf[f], "finalize") \in outbox'
               /\ effects'[f].status = "committed"
               /\ consumed'[f] = commands'[CommandOf[f]].ctl
               /\ \A g \in Effects : CommandOf[g] = CommandOf[f] /\ consumed'[g] # 0 => g = f
    <3>1. CASE f = e
      <4>1. EventOf(c, "finalize") \in outbox'
        BY <1>12
      <4>2. \A g \in Effects : CommandOf[g] = c /\ consumed'[g] # 0 => g = e
        BY <1>8, <1>11
      <4> QED
        BY <1>1, <1>5, <1>7, <1>8, <1>9, <3>1, <4>1, <4>2
    <3>2. CASE f # e
      <4>1. consumed[f] # 0 /\ consumed'[f] = consumed[f]
        BY <1>8, <2>1, <3>2
      <4>2. PICK d \in Commands : d = CommandOf[f]
        BY CommandOfType
      <4>3. d # c /\ commands'[d] = commands[d]
        BY <1>5, <1>11, <4>1, <4>2
      <4>4. EventOf(d, "finalize") \in outbox'
        BY <1>12, <4>1, <4>2 DEF IInv, UsesMatch
      <4>5. \A g \in Effects : CommandOf[g] = d /\ consumed'[g] # 0 => g = f
        BY <1>1, <1>8, <4>1, <4>2, <4>3 DEF IInv, UsesMatch
      <4> QED
        BY <1>9, <3>2, <4>1, <4>2, <4>3, <4>4, <4>5 DEF IInv, UsesMatch
    <3> QED
      BY <3>1, <3>2
  <2> QED
    BY <2>1 DEF UsesMatch, EventOf
<1>15. EvidenceByStatus'
  BY <1>2, <1>3, <1>9 DEF IInv, EvidenceByStatus
<1>16. EvidenceIsReal'
  BY <1>2, <1>3, <1>7, <1>8, <1>9 DEF IInv, EvidenceIsReal
<1> QED
  BY <1>5, <1>6, <1>10, <1>13, <1>14, <1>15, <1>16 DEF IInv

-----------------------------------------------------------------------------
(* The invariant.                                                          *)

LEMMA InitHolds == Init => IInv
<1> SUFFICES ASSUME Init PROVE IInv
  OBVIOUS
<1>1. PICK a : a = Absent
  OBVIOUS
<1>2. /\ a \in Records /\ a.status = "absent" /\ a.owner = "legacy" /\ a.outcome = "none"
  BY <1>1, MaxControlIsNat DEF Absent, Records, Owners
<1>3. commands \in [Commands -> Records] /\ \A c \in Commands : commands[c] = a
  BY <1>1, <1>2 DEF Init
<1>4. 0 \in 0..MaxRevision /\ 1 \in 1..MaxRevision /\ 1 \in 1..MaxCheckpoint
      /\ 0 \in 0..MaxControl /\ 0 \in 0..MaxEpoch
  BY FinalizationAssumption, MaxControlIsNat
<1>5. control \in Control /\ control.version = 0
  BY <1>4 DEF Init, Unread, Control
<1>6. PICK u : u = Unread
  OBVIOUS
<1>7. u \in Job /\ u.pc = "none"
  BY <1>4, <1>6 DEF Unread, Job, Checkpoint, Control
<1>8. job \in [Commands -> Job] /\ \A c \in Commands : job[c] = u
  BY <1>6, <1>7 DEF Init
<1>9. /\ effects \in [Effects -> Intent] /\ sink \in [Effects -> 0..MaxEpoch]
      /\ receipts \in [Effects -> 0..MaxEpoch] /\ provider \in [Effects -> 0..MaxEpoch]
      /\ consumed \in [Effects -> 0..MaxControl]
  BY <1>4 DEF Init, Intent
<1>10. /\ \A e \in Effects : /\ effects[e].status = "absent" /\ sink[e] = 0
                             /\ receipts[e] = 0 /\ consumed[e] = 0
       /\ outbox = {} /\ plans = {}
  BY DEF Init
<1>11. checkpoint \in Checkpoint /\ authority \in Authority
  BY <1>4 DEF Init, Checkpoint, Authority
<1>12. TypeOK
  BY <1>3, <1>5, <1>8, <1>9, <1>10, <1>11 DEF TypeOK, Records
<1>13. RecordsAreSound /\ JobsAreAtomic /\ SnapshotsAreReal
  BY <1>2, <1>3, <1>7, <1>8 DEF RecordsAreSound, JobsAreAtomic, SnapshotsAreReal, Atomic, Over
<1>14. EventsMatch /\ UsesMatch
  BY <1>2, <1>3, <1>10 DEF EventsMatch, UsesMatch, Atomic
<1>15. EvidenceByStatus /\ EvidenceIsReal
  BY <1>10 DEF EvidenceByStatus, EvidenceIsReal
<1>16. ControlHasOneAuthor
  <2>1. Applied = {}
    BY <1>2, <1>3 DEF Applied
  <2>2. Cardinality(Applied) = 0
    BY <2>1, FS_EmptySet
  <2>3. 1..control.version = {}
    BY <1>5
  <2> QED
    BY <1>5, <2>2, <2>3 DEF ControlHasOneAuthor
<1> QED
  BY <1>12, <1>13, <1>14, <1>15, <1>16 DEF IInv

LEMMA StutterKeeps == IInv /\ UNCHANGED vars => IInv'
<1> SUFFICES ASSUME IInv, UNCHANGED vars PROVE IInv'
  OBVIOUS
<1> USE DEF vars, ledger
<1>1. TypeOK'
  BY DEF IInv, TypeOK
<1>2. RecordsAreSound' /\ JobsAreAtomic' /\ SnapshotsAreReal'
  BY DEF IInv, RecordsAreSound, JobsAreAtomic, SnapshotsAreReal, Atomic, Over
<1>3. EventsMatch' /\ UsesMatch'
  BY DEF IInv, EventsMatch, UsesMatch, Atomic, Over, Staged
<1>4. EvidenceByStatus' /\ EvidenceIsReal'
  BY DEF IInv, EvidenceByStatus, EvidenceIsReal
<1>5. ControlHasOneAuthor'
  BY DEF IInv, ControlHasOneAuthor, Applied
<1> QED
  BY <1>1, <1>2, <1>3, <1>4, <1>5 DEF IInv

LEMMA Inductive == IInv /\ [Next]_vars => IInv'
<1> SUFFICES ASSUME IInv, [Next]_vars PROVE IInv'
  OBVIOUS
<1>1. ASSUME NEW c \in Commands, CommandStep(c) PROVE IInv'
  <2>1. ASSUME Enter(c) \/ EnterAuthorized(c) PROVE IInv'
    <3>1. \/ \E request \in Requests, fenced \in BOOLEAN : Claim(c, request, fenced)
          \/ \E fenced \in BOOLEAN : ClaimLegacy(c, fenced)
          \/ InsertLegacy(c)
      BY <2>1 DEF Enter, EnterAuthorized, Admit
    <3> QED
      BY <3>1, ClaimKeeps, LegacyActionsKeep
  <2> QED
    BY <1>1, <2>1, LegacyActionsKeep, LoadsKeep, CommitKeeps DEF CommandStep
<1>2. ASSUME NEW e \in Effects, EffectStep(e) PROVE IInv'
  BY <1>2, StageIntentKeeps, ClaimDispatchKeeps, VerdictsKeep, EvidenceKeeps, FinalizeKeeps
     DEF EffectStep
<1> QED
  BY <1>1, <1>2, AuthorityKeeps, SaveCheckpointKeeps, StutterKeeps DEF Next

\* Every reachable state of the file has well-typed tables whose traces agree.
THEOREM FinalizationInvariant == Spec => []IInv
BY InitHolds, Inductive, PTL DEF Spec

-----------------------------------------------------------------------------
(* What it implies.                                                        *)

\* A command of the atomic route is terminal exactly when its one event is in the
\* outbox, whichever of commit() and finalize() ended it; and it was finalized exactly
\* when one of its effects is consumed, which then is committed under the control
\* version that the command reports.
THEOREM OneEndOneTrace == Spec => []TerminalIsComplete
<1>1. ASSUME IInv, NEW c \in Commands, Atomic(c)
      PROVE  LET events == InFlightEvidence(c).events
                 uses == {e \in Effects : CommandOf[e] = c /\ consumed[e] # 0} IN
             /\ InFlightEvidence(c).command.status \in Terminal <=> events # {}
             /\ Cardinality(events) <= 1
             /\ Cardinality(uses) = Cardinality({ev \in events : ev.by = "finalize"})
             /\ Over(c) /\ Staged(c) # {} => uses # {}
             /\ \A e \in uses : effects[e].status = "committed" /\ consumed[e] = commands[c].ctl
  <2>1. PICK events : events = {ev \in outbox : ev.command = c}
    OBVIOUS
  <2>2. PICK uses : uses = {e \in Effects : CommandOf[e] = c /\ consumed[e] # 0}
    OBVIOUS
  <2>3. \A ev : ev \in events <=> ev \in outbox /\ (ev = EventOf(c, "commit") \/ ev = EventOf(c, "finalize"))
    <3>1. ASSUME NEW ev \in Event
          PROVE  ev.command = c <=> ev = EventOf(c, "commit") \/ ev = EventOf(c, "finalize")
      BY DEF Event, EventOf
    <3>2. outbox \subseteq Event
      BY <1>1 DEF IInv, TypeOK
    <3> QED
      BY <2>1, <3>1, <3>2
  <2>4. EventOf(c, "commit").by = "commit" /\ EventOf(c, "finalize").by = "finalize"
    BY DEF EventOf
  <2>5. Over(c) <=> EventOf(c, "commit") \in outbox \/ EventOf(c, "finalize") \in outbox
    BY <1>1 DEF IInv, EventsMatch
  <2>6. CASE EventOf(c, "finalize") \in outbox
    <3>1. EventOf(c, "commit") \notin outbox
      BY <1>1, <2>6 DEF IInv, EventsMatch
    <3>2. events = {EventOf(c, "finalize")}
      BY <2>3, <2>6, <3>1
    <3>3. PICK e \in Effects : CommandOf[e] = c /\ consumed[e] # 0
      BY <1>1, <2>6 DEF IInv, EventsMatch
    <3>4. uses = {e}
      BY <1>1, <2>2, <3>3 DEF IInv, UsesMatch
    <3>5. {ev \in events : ev.by = "finalize"} = {EventOf(c, "finalize")}
      BY <2>4, <3>2
    <3>6. /\ Cardinality(events) = 1 /\ Cardinality(uses) = 1
          /\ Cardinality({ev \in events : ev.by = "finalize"}) = 1
      BY <3>2, <3>4, <3>5, FS_Singleton
    <3>7. effects[e].status = "committed" /\ consumed[e] = commands[c].ctl
      BY <1>1, <3>3 DEF IInv, UsesMatch
    <3>8. Over(c) /\ events # {}
      BY <2>5, <2>6, <3>2
    <3> QED
      BY <2>1, <2>2, <3>4, <3>6, <3>7, <3>8 DEF InFlightEvidence, Over
  <2>7. CASE EventOf(c, "finalize") \notin outbox
    <3>1. uses = {}
      BY <1>1, <2>2, <2>7 DEF IInv, UsesMatch
    <3>2. {ev \in events : ev.by = "finalize"} = {}
      BY <2>3, <2>4, <2>7
    <3>3. Cardinality(uses) = Cardinality({ev \in events : ev.by = "finalize"})
      BY <3>1, <3>2
    <3>4. CASE EventOf(c, "commit") \in outbox
      <4>1. events = {EventOf(c, "commit")}
        BY <2>3, <2>7, <3>4
      <4>2. Cardinality(events) = 1
        BY <4>1, FS_Singleton
      <4>3. Staged(c) = {}
        BY <1>1, <3>4 DEF IInv, EventsMatch
      <4> QED
        BY <2>1, <2>2, <2>5, <3>1, <3>3, <3>4, <4>1, <4>2, <4>3 DEF InFlightEvidence, Over
    <3>5. CASE EventOf(c, "commit") \notin outbox
      <4>1. events = {} /\ ~Over(c)
        BY <2>3, <2>5, <2>7, <3>5
      <4>2. Cardinality(events) = 0
        BY <4>1, FS_EmptySet
      <4> QED
        BY <2>1, <2>2, <3>1, <3>3, <4>1, <4>2 DEF InFlightEvidence, Over
    <3> QED
      BY <3>4, <3>5
  <2> QED
    BY <2>6, <2>7
<1>2. IInv => TerminalIsComplete
  BY <1>1 DEF TerminalIsComplete, IInv
<1> QED
  BY <1>2, FinalizationInvariant, PTL

\* Each version of the control state was written by one applied command, which
\* reports that version, and as many commands are applied as there were versions:
\* no update is lost and none is made twice.
THEOREM OneAuthorOfControl == Spec => []ControlHasOneAuthor
<1>1. IInv => ControlHasOneAuthor
  BY DEF IInv
<1> QED
  BY <1>1, FinalizationInvariant, PTL

\* An effect is committed only on the evidence of one of the two systems, taken under
\* the effect's current epoch, however late the holder of an old fence acts.
THEOREM CommittedOnEvidence == Spec => []EvidenceIsReal
<1>1. IInv => EvidenceIsReal
  BY DEF IInv
<1> QED
  BY <1>1, FinalizationInvariant, PTL

\* What a step does to a command that it ends.
LEMMA ClosingStep ==
  ASSUME IInv, Next, NEW c \in Commands, Closes(c)
  PROVE  \/ Commit(c) /\ Committable(c)
         \/ \E e \in Effects : CommandOf[e] = c /\ Finalize(e)
<1>1. commands'[c] # commands[c] /\ commands[c].owner = "atomic_control_only"
  BY DEF Closes, Over, Atomic
<1>2. ASSUME NEW d \in Commands, CommandStep(d)
      PROVE  Commit(c) /\ Committable(c)
  <2>1. \A r : commands' = [commands EXCEPT ![d] = r] => d = c
    BY <1>1 DEF IInv, TypeOK
  <2>2. ~Unseen(c)
    BY UnseenIsFree, <1>1 DEF Atomic
  <2>3. ASSUME Commit(d) PROVE Commit(c) /\ Committable(c)
    BY <1>1, <2>1, <2>3 DEF Commit
  <2>4. ~(LoadCheckpoint(d) \/ LoadControl(d))
    BY <1>1 DEF LoadCheckpoint, LoadControl
  <2>5. ASSUME NEW request, NEW fenced, Claim(d, request, fenced) PROVE FALSE
    BY <2>1, <2>2, <2>5 DEF Claim
  <2>6. ASSUME NEW fenced, ClaimLegacy(d, fenced) PROVE FALSE
    BY <2>1, <2>2, <2>6 DEF ClaimLegacy
  <2>7. ~InsertLegacy(d)
    <3>1. ASSUME InsertLegacy(d) PROVE FALSE
      <4>1. PICK r : r = [commands[d] EXCEPT !.status = "accepted", !.version = 1]
        OBVIOUS
      <4>2. commands' = [commands EXCEPT ![d] = r]
        BY <3>1, <4>1 DEF InsertLegacy
      <4> QED
        BY <2>1, <2>2, <3>1, <4>2 DEF InsertLegacy
    <3> QED
      BY <3>1
  <2>8. ASSUME NEW status, UpdateLegacy(d, status) PROVE FALSE
    <3>1. PICK r : r = [commands[d] EXCEPT !.status = status, !.version = @ + 1]
      OBVIOUS
    <3>2. commands' = [commands EXCEPT ![d] = r]
      BY <2>8, <3>1 DEF UpdateLegacy
    <3> QED
      BY <1>1, <2>1, <2>8, <3>2 DEF UpdateLegacy
  <2> QED
    BY <1>2, <2>3, <2>4, <2>5, <2>6, <2>7, <2>8
       DEF CommandStep, Enter, EnterAuthorized, Admit
<1>3. ASSUME NEW e \in Effects, EffectStep(e)
      PROVE  CommandOf[e] = c /\ Finalize(e)
  <2>1. Finalize(e)
    BY <1>1, <1>3 DEF EffectStep, StageIntent, ClaimDispatch, Reconcile, DispatchLocally,
       ConfirmApplied, MarkUnknown, ProviderApplies, PersistReceipt, PlanConsumption, OnlyEffects
  <2>2. commands' = [commands EXCEPT ![CommandOf[e]] = Ended(CommandOf[e], "applied")]
    BY <2>1 DEF Finalize
  <2> QED
    BY <1>1, <2>1, <2>2 DEF IInv, TypeOK
<1>4. ~(ChangeAuthority \/ SaveCheckpoint)
  BY <1>1 DEF ChangeAuthority, SaveCheckpoint
<1> QED
  BY <1>2, <1>3, <1>4 DEF Next

\* What Ended() stores as the outcome.
LEMMA EndedOutcome ==
  ASSUME IInv, NEW c \in Commands, NEW outcome,
         commands' = [commands EXCEPT ![c] = Ended(c, outcome)]
  PROVE  commands'[c].outcome = outcome
<1>1. commands[c] \in Records
  BY DEF IInv, TypeOK, Records
<1>2. commands'[c] = Ended(c, outcome)
  BY DEF IInv, TypeOK
<1> QED
  BY <1>1, <1>2 DEF Ended, Records

\* A command ends as applied or as a no-op only if the preparation, run again on the
\* checkpoint and the control state of that very moment, says the same: commit()
\* compares versions and the snapshots it prepared from are real, finalize() prepares anew.
THEOREM OutcomesAreCurrent == Spec => OutcomeIsCurrent
<1> DEFINE A == \A c \in Commands :
                  Closes(c) /\ commands'[c].outcome # "rejected" =>
                    commands'[c].outcome = Prepared(commands[c].request, checkpoint, control, TRUE)
<1>1. ASSUME IInv, Next, NEW c \in Commands, Closes(c), commands'[c].outcome # "rejected"
      PROVE  commands'[c].outcome = Prepared(commands[c].request, checkpoint, control, TRUE)
  <2>1. CASE Commit(c) /\ Committable(c)
    <3>1. PICK allowed \in BOOLEAN :
            commands' = [commands EXCEPT ![c] =
              Ended(c, Prepared(commands[c].request, job[c].cp, job[c].ctl, allowed))]
      BY <2>1 DEF Commit
    <3>2. commands'[c].outcome = Prepared(commands[c].request, job[c].cp, job[c].ctl, allowed)
      BY <1>1, <3>1, EndedOutcome
    <3>3. /\ job[c].cp.version = commands[c].request.cp
          /\ job[c].ctl.version = commands[c].request.ctl
          /\ commands'[c].outcome = Prepared(commands[c].request, job[c].cp, job[c].ctl, TRUE)
      <4>1. Prepared(commands[c].request, job[c].cp, job[c].ctl, allowed) # "rejected"
        BY <1>1, <3>2
      <4>2. /\ job[c].cp.version = commands[c].request.cp
            /\ job[c].ctl.version = commands[c].request.ctl
            /\ Prepared(commands[c].request, job[c].cp, job[c].ctl, allowed) =
                 Prepared(commands[c].request, job[c].cp, job[c].ctl, TRUE)
        BY ONLY <4>1, allowed \in BOOLEAN DEF Prepared
      <4> QED
        BY <3>2, <4>2
    <3>4. job[c].cp = checkpoint /\ job[c].ctl = control
      BY <1>1, <2>1, <3>3 DEF IInv, SnapshotsAreReal, Commit, Committable
    <3> QED
      BY <3>3, <3>4
  <2>2. ASSUME NEW e \in Effects, CommandOf[e] = c, Finalize(e)
        PROVE  commands'[c].outcome = Prepared(commands[c].request, checkpoint, control, TRUE)
    <3>1. commands' = [commands EXCEPT ![c] = Ended(c, "applied")]
      BY <2>2 DEF Finalize
    <3>2. commands'[c].outcome = "applied"
      BY <1>1, <3>1, EndedOutcome
    <3> QED
      BY <2>2, <3>2 DEF Finalize, Consumable
  <2> QED
    BY <1>1, <2>1, <2>2, ClosingStep
<1>2. IInv /\ [Next]_vars => [A]_vars
  BY <1>1
<1> QED
  BY <1>2, FinalizationInvariant, PTL DEF Spec, OutcomeIsCurrent

\* A fenced command has no outcome, and the local sink no effect, at a moment when the
\* actor is not allowed, or on evidence from before a change of the grants.
THEOREM AuthorityAtTheEnd == Spec => AuthorityHeld
<1> DEFINE A == /\ \A c \in Commands : Closes(c) /\ commands[c].fenced =>
                     \/ Authorized(job[c].evidence)
                     \/ \E e \in Staged(c) : Authorized(effects[e].revision)
                /\ sink' # sink => authority.allowed
<1>1. ASSUME IInv, Next, NEW c \in Commands, Closes(c), commands[c].fenced
      PROVE  \/ Authorized(job[c].evidence)
             \/ \E e \in Staged(c) : Authorized(effects[e].revision)
  <2>1. CASE Commit(c) /\ Committable(c)
    BY <1>1, <2>1 DEF Committable
  <2>2. ASSUME NEW e \in Effects, CommandOf[e] = c, Finalize(e)
        PROVE  \E f \in Staged(c) : Authorized(effects[f].revision)
    BY <2>2 DEF Finalize, Consumable, Staged
  <2> QED
    BY <1>1, <2>1, <2>2, ClosingStep
<1>2. ASSUME Next, sink' # sink PROVE authority.allowed
  <2>1. ASSUME NEW e \in Effects, NEW epoch \in 1..MaxEpoch, DispatchLocally(e, epoch)
        PROVE  authority.allowed
    BY <2>1 DEF DispatchLocally, CurrentAuthority, Authorized
  <2>2. PICK e \in Effects : EffectStep(e)
    BY <1>2 DEF Next, ChangeAuthority, SaveCheckpoint, CommandStep, Enter, EnterAuthorized, Admit,
       Claim, ClaimLegacy, InsertLegacy, UpdateLegacy, LoadCheckpoint, LoadControl, Commit, ledger
  <2>3. \E epoch \in 1..MaxEpoch : DispatchLocally(e, epoch)
    BY <1>2, <2>2 DEF EffectStep, StageIntent, ClaimDispatch, Reconcile, ConfirmApplied,
       MarkUnknown, ProviderApplies, PersistReceipt, PlanConsumption, Finalize, OnlyEffects
  <2> QED
    BY <2>1, <2>3
<1>3. IInv /\ [Next]_vars => [A]_vars
  BY <1>1, <1>2
<1> QED
  BY <1>3, FinalizationInvariant, PTL DEF Spec, AuthorityHeld
=============================================================================
