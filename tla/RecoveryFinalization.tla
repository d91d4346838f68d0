------------------------ MODULE RecoveryFinalization -------------------------
(***************************************************************************)
(* The SQLite file that recovery commands of one run are finalized in      *)
(* (sqlite-recovery-finalization.ts) and the three writers that end a      *)
(* command in it: the control-only route (recovery-atomic-control-only-    *)
(* adapter.ts), the receipt finalizer of commands with an external effect  *)
(* (recovery-external-effect-ledger.ts, recovery-remote-receipt-finalizer  *)
(* .ts) and the bridge for legacy handlers.                                *)
(*                                                                         *)
(* Every method runs in one BEGIN IMMEDIATE transaction, so an action here *)
(* is a transaction; a check that fails rolls it back and changes nothing. *)
(* What a caller read in an earlier transaction, or was handed by one (a   *)
(* snapshot, evidence of authority, a fence, a plan), is its own copy and  *)
(* may be used at any later time.  A process that dies just does not use   *)
(* it any more.                                                            *)
(***************************************************************************)
EXTENDS Naturals, FiniteSets

CONSTANTS
  Commands,       \* command ids, all for one run
  Effects,        \* effect ids, each with its own idempotency key
  CommandOf,      \* the command an effect's intent belongs to
  Requests,       \* what clients of the control-only route ask for
  MaxCheckpoint,  \* bound: versions of the run's checkpoint
  MaxRevision,    \* bound: revisions of the authorization tables
  MaxEpoch        \* bound: dispatch leases of an effect

ControlOnlyOperations == {"quarantine", "release_quarantine", "dead_letter"}

ASSUME FinalizationAssumption ==
  /\ IsFiniteSet(Commands) /\ CommandOf \in [Effects -> Commands]
  /\ Requests \subseteq [op : ControlOnlyOperations, cp : Nat, ctl : Nat]
  /\ MaxCheckpoint \in Nat \ {0} /\ MaxRevision \in Nat \ {0} /\ MaxEpoch \in Nat

VARIABLES
  checkpoint,  \* agent_checkpoints: version, and whether its boundary is completed
  control,     \* recovery_controls: version, status, causedByCommandId
  authority,   \* recovery_authority_*: the three revisions as one number, and
               \* whether grant and run permission both allow the operation
  commands,    \* recovery_commands
  outbox,      \* recovery_outbox: which command, by which finalizer
  job,         \* in memory: the adapter's execution of a command
  effects,     \* recovery_effect_intents: status, epoch, revision of the evidence
  sink,        \* recovery_effect_sink_receipts: the applied epoch, 0 for none
  receipts,    \* recovery_remote_applied_receipts: the epoch observed, 0 for none
  plans,       \* in memory: effects whose receipt was reviewed for consumption
  consumed,    \* recovery_remote_receipt_consumptions: the control version, 0 for none
  provider     \* external: the epoch under which the remote provider applied it

ledger == <<effects, sink, receipts, plans, consumed, provider>>
vars == <<checkpoint, control, authority, commands, outbox, job, ledger>>

Owners == {"legacy", "atomic_control_only"}
Terminal == {"succeeded", "rejected", "failed"}
Outcomes == {"applied", "no_op", "rejected"}
MaxControl == Cardinality(Commands)

Checkpoint == [version : 1..MaxCheckpoint, completed : BOOLEAN]
Control == [version : 0..MaxControl, status : {"active", "quarantined", "dead_lettered"},
            author : Commands \union {"none"}]
Authority == [revision : 1..MaxRevision, allowed : BOOLEAN]
Job == [pc : {"none", "claimed", "reading", "prepared", "over"},
        evidence : 0..MaxRevision, cp : Checkpoint, ctl : Control]
Intent == [status : {"absent", "pending", "leased", "unknown", "committed"},
           epoch : 0..MaxEpoch, revision : 0..MaxRevision]
Event == [command : Commands, by : {"commit", "finalize"}]

NoRequest == [op |-> "none", cp |-> 0, ctl |-> 0]
Absent == [status |-> "absent", version |-> 0, owner |-> "legacy", fenced |-> FALSE,
           request |-> NoRequest, outcome |-> "none", ctl |-> 0]
Unread == [pc |-> "none", evidence |-> 0, cp |-> [version |-> 1, completed |-> FALSE],
           ctl |-> [version |-> 0, status |-> "active", author |-> "none"]]

TypeOK ==
  /\ checkpoint \in Checkpoint
  /\ control \in Control
  /\ authority \in Authority
  /\ commands \in [Commands -> [status : {"absent", "accepted", "executing"} \union Terminal,
                                version : 0..3, owner : Owners, fenced : BOOLEAN,
                                request : Requests \union {NoRequest}, outcome : {"none"} \union Outcomes,
                                ctl : 0..MaxControl]]
  /\ outbox \subseteq Event
  /\ job \in [Commands -> Job]
  /\ effects \in [Effects -> Intent]
  /\ sink \in [Effects -> 0..MaxEpoch]
  /\ receipts \in [Effects -> 0..MaxEpoch]
  /\ provider \in [Effects -> 0..MaxEpoch]
  /\ consumed \in [Effects -> 0..MaxControl]
  /\ plans \subseteq Effects

Init ==
  /\ checkpoint = [version |-> 1, completed |-> FALSE]
  /\ control = Unread.ctl
  /\ authority = [revision |-> 1, allowed |-> TRUE]
  /\ commands = [c \in Commands |-> Absent]
  /\ outbox = {}
  /\ job = [c \in Commands |-> Unread]
  /\ effects = [e \in Effects |-> [status |-> "absent", epoch |-> 0, revision |-> 0]]
  /\ sink = [e \in Effects |-> 0]
  /\ receipts = [e \in Effects |-> 0]
  /\ provider = [e \in Effects |-> 0]
  /\ consumed = [e \in Effects |-> 0]
  /\ plans = {}

-----------------------------------------------------------------------------
(* The facts a command depends on, and their other writers.                *)

\* assertRecoveryAuthorizationRevisionsUnchanged()
Unchanged(revision) == authority.revision = revision

\* assertAuthorizedEvidenceInTransaction(): the evidence's revisions are still the
\* stored ones, and the actor is allowed.
Authorized(revision) == authority.allowed /\ Unchanged(revision)

\* External: the trusted ACL writer.  Grants carry a revision, the permission
\* for one run does not.
ChangeAuthority ==
  /\ \/ /\ authority.revision < MaxRevision
        /\ \E allowed \in BOOLEAN :
             authority' = [revision |-> authority.revision + 1, allowed |-> allowed]
     \/ authority' = [authority EXCEPT !.allowed = ~@]
  /\ UNCHANGED <<checkpoint, control, commands, outbox, job, ledger>>

\* The run's own worker saves its checkpoint.
SaveCheckpoint ==
  /\ checkpoint.version < MaxCheckpoint /\ ~checkpoint.completed
  /\ \E completed \in BOOLEAN :
       checkpoint' = [version |-> checkpoint.version + 1, completed |-> completed]
  /\ UNCHANGED <<control, authority, commands, outbox, job, ledger>>

\* prepareControlOnlyRecovery() on the facts it is given.
Prepared(request, cp, ctl, allowed) ==
  IF ~allowed \/ cp.version # request.cp \/ ctl.version # request.ctl THEN "rejected"
  ELSE IF cp.completed THEN "no_op"
  ELSE IF ctl.status = "dead_lettered" THEN "rejected"
  ELSE IF request.op = "quarantine" /\ ctl.status = "quarantined" THEN "no_op"
  ELSE IF request.op = "release_quarantine" /\ ctl.status # "quarantined" THEN "rejected"
  ELSE "applied"

\* The control state an applied command leaves behind.
Successor(c) ==
  LET request == commands[c].request IN
  [version |-> request.ctl + 1,
   status |-> CASE request.op = "quarantine"         -> "quarantined"
                [] request.op = "release_quarantine" -> "active"
                [] request.op = "dead_letter"        -> "dead_lettered",
   author |-> c]
-----------------------------------------------------------------------------
(* Claims: an absent command becomes executing v2 in one transaction.  A   *)
(* repeated claim only replays or suspends.                                *)

\* selectAtomicRecoveryRoute() and decideDurableRecoveryOperation(): anything but a
\* command never seen is replayed or suspended, whoever owns it.
Unseen(c) == commands[c].status = "absent"

Executing(request, owner, fenced) ==
  [Absent EXCEPT !.status = "executing", !.version = 2, !.owner = owner,
                 !.fenced = fenced, !.request = request]

\* claim(), or with evidence claimAuthorized(): evidence of any other than the
\* present authority is refused.
Claim(c, request, fenced) ==
  /\ Unseen(c)
  /\ fenced => authority.allowed
  /\ commands' = [commands EXCEPT ![c] = Executing(request, "atomic_control_only", fenced)]
  /\ job' = [job EXCEPT ![c].pc = "claimed",
                        ![c].evidence = IF fenced THEN authority.revision ELSE 0]
  /\ UNCHANGED <<checkpoint, control, authority, outbox, ledger>>

\* admitControlOnlyCommand(): the adapter's own admission, never fenced.
Admit(c, request) == Claim(c, request, FALSE)

\* claim() for a legacy handler.  What it asks for is carried out elsewhere.
ClaimLegacy(c, fenced) ==
  /\ Unseen(c)
  /\ fenced => authority.allowed
  /\ commands' = [commands EXCEPT ![c] = Executing(NoRequest, "legacy", fenced)]
  /\ UNCHANGED <<checkpoint, control, authority, outbox, job, ledger>>

\* The legacy store's insertIfAbsent().
InsertLegacy(c) ==
  /\ Unseen(c)
  /\ commands' = [commands EXCEPT ![c].status = "accepted", ![c].version = 1]
  /\ UNCHANGED <<checkpoint, control, authority, outbox, job, ledger>>

\* updateLegacyCommandIfVersion(): the legacy executor has its control state
\* elsewhere; only the command row is in this file.
UpdateLegacy(c, status) ==
  /\ commands[c].owner = "legacy"
  /\ \/ commands[c].status = "accepted" /\ status = "executing"
     \/ commands[c].status = "executing" /\ status \in Terminal
  /\ commands' = [commands EXCEPT ![c].status = status, ![c].version = @ + 1]
  /\ UNCHANGED <<checkpoint, control, authority, outbox, job, ledger>>

\* RecoveryEntryDispatcher.execute(): with a shared claimer or without, for the
\* owner this process is configured for.
Enter(c) ==
  \/ \E request \in Requests : Claim(c, request, FALSE) \/ Admit(c, request)
  \/ ClaimLegacy(c, FALSE) \/ InsertLegacy(c)

\* claimAuthorized(), for either owner.
EnterAuthorized(c) == (\E request \in Requests : Claim(c, request, TRUE)) \/ ClaimLegacy(c, TRUE)

-----------------------------------------------------------------------------
(* The control-only route: AtomicRecoveryControlOnlyAdapter.               *)

\* executeAlreadyAdmitted() reads checkpoint and control one after the other,
\* then awaits the business authorizer.
LoadCheckpoint(c) ==
  /\ job[c].pc = "claimed"
  /\ job' = [job EXCEPT ![c].pc = "reading", ![c].cp = checkpoint]
  /\ UNCHANGED <<checkpoint, control, authority, commands, outbox, ledger>>

LoadControl(c) ==
  /\ job[c].pc = "reading"
  /\ job' = [job EXCEPT ![c].pc = "prepared", ![c].ctl = control]
  /\ UNCHANGED <<checkpoint, control, authority, commands, outbox, ledger>>

Staged(c) == {e \in Effects : CommandOf[e] = c /\ effects[e].status # "absent"}

\* Mutant: the checkpoint is not part of the read set.
CommittableAnyCheckpoint(c) ==
  /\ Staged(c) = {}
  /\ commands[c].fenced => Authorized(job[c].evidence)
  /\ control.version = commands[c].request.ctl
  /\ commands[c].status = "executing" /\ commands[c].version = 2

\* Mutant: authority is checked at the claim only.
CommittableOnceClaimed(c) ==
  /\ Staged(c) = {}
  /\ checkpoint.version = commands[c].request.cp
  /\ control.version = commands[c].request.ctl
  /\ commands[c].status = "executing" /\ commands[c].version = 2

\* Mutant: nothing asks for staged effects.
CommittableBesideEffects(c) ==
  /\ commands[c].fenced => Authorized(job[c].evidence)
  /\ checkpoint.version = commands[c].request.cp
  /\ control.version = commands[c].request.ctl
  /\ commands[c].status = "executing" /\ commands[c].version = 2

\* What commit() checks again inside its transaction.
Committable(c) ==
  /\ Staged(c) = {}
  /\ commands[c].fenced => Authorized(job[c].evidence)
  /\ checkpoint.version = commands[c].request.cp
  /\ control.version = commands[c].request.ctl
  /\ commands[c].status = "executing" /\ commands[c].version = 2

\* planRecoveryWriteSet(): what is not applied compares and writes nothing, and no
\* control-only operation writes the checkpoint.
WritesControl(outcome) == outcome = "applied"

\* The command row at its end; resultSnapshot.controlVersion is what the
\* request expected, plus one if control was written.
Ended(c, outcome) ==
  [commands[c] EXCEPT
     !.status = IF outcome = "rejected" THEN "rejected" ELSE "succeeded",
     !.version = 3,
     !.outcome = outcome,
     !.ctl = commands[c].request.ctl + (IF WritesControl(outcome) THEN 1 ELSE 0)]

\* commit() of what was prepared from the facts read earlier.  If it throws, the
\* command stays executing and is never run again.
Commit(c) ==
  /\ job[c].pc = "prepared"
  /\ \E allowed \in BOOLEAN :
       LET outcome == Prepared(commands[c].request, job[c].cp, job[c].ctl, allowed) IN
       IF Committable(c)
       THEN /\ control' = IF WritesControl(outcome) THEN Successor(c) ELSE control
            /\ commands' = [commands EXCEPT ![c] = Ended(c, outcome)]
            /\ outbox' = outbox \union {[command |-> c, by |-> "commit"]}
       ELSE UNCHANGED <<control, commands, outbox>>
  /\ job' = [job EXCEPT ![c] = [Unread EXCEPT !.pc = "over"]]
  /\ UNCHANGED <<checkpoint, authority, ledger>>

-----------------------------------------------------------------------------
(* External effects: SQLiteRecoveryExternalEffectLedger.  Fences are never *)
(* taken back: whoever was given epoch k may present it at any time.       *)

\* assertCurrentAuthority()
CurrentAuthority(e, revision) ==
  LET command == commands[CommandOf[e]] IN
  /\ command.status = "executing" /\ command.version = 2 /\ command.fenced
  /\ Authorized(revision)

SetEffect(e, status) == effects' = [effects EXCEPT ![e].status = status]
OnlyEffects == UNCHANGED <<checkpoint, control, authority, commands, outbox, job,
                           sink, receipts, plans, consumed, provider>>

StageIntent(e) ==
  /\ effects[e].status = "absent"
  /\ CurrentAuthority(e, authority.revision)
  /\ effects' = [effects EXCEPT ![e].status = "pending", ![e].revision = authority.revision]
  /\ OnlyEffects

ClaimDispatch(e) ==
  /\ effects[e].status = "pending" /\ effects[e].epoch < MaxEpoch
  /\ CurrentAuthority(e, effects[e].revision)
  /\ effects' = [effects EXCEPT ![e].status = "leased", ![e].epoch = @ + 1]
  /\ OnlyEffects

\* dispatchToSameSQLiteSink(): a key that was applied is not applied again.
DispatchLocally(e, epoch) ==
  /\ effects[e].status = "leased" /\ effects[e].epoch = epoch
  /\ CurrentAuthority(e, effects[e].revision)
  /\ sink[e] = 0
  /\ sink' = [sink EXCEPT ![e] = epoch]
  /\ UNCHANGED <<checkpoint, control, authority, commands, outbox, job,
                 effects, receipts, plans, consumed, provider>>

ConfirmApplied(e, epoch) ==
  /\ effects[e].epoch = epoch /\ effects[e].status \in {"leased", "unknown"}
  /\ sink[e] # 0
  /\ SetEffect(e, "committed")
  /\ OnlyEffects

MarkUnknown(e, epoch) ==
  /\ effects[e].epoch = epoch /\ effects[e].status = "leased"
  /\ SetEffect(e, "unknown")
  /\ OnlyEffects

\* Mutant: the local sink alone decides.
ReconcileLocallyOnly(e) ==
  /\ effects[e].status = "unknown"
  /\ SetEffect(e, IF sink[e] # 0 THEN "committed" ELSE "pending")
  /\ OnlyEffects

\* reconcileAgainstSameSQLiteSink(): a stored remote receipt is not overturned.
Reconcile(e) ==
  /\ effects[e].status = "unknown"
  /\ receipts[e] = 0
  /\ SetEffect(e, IF sink[e] # 0 THEN "committed" ELSE "pending")
  /\ OnlyEffects

\* External: a remote provider with idempotency keys applies what the holder of
\* some fence has sent it, however late.
ProviderApplies(e, epoch) ==
  /\ epoch <= effects[e].epoch
  /\ provider[e] = 0
  /\ provider' = [provider EXCEPT ![e] = epoch]
  /\ UNCHANGED <<checkpoint, control, authority, commands, outbox, job,
                 effects, sink, receipts, plans, consumed>>

\* reviewRemoteAppliedReceiptForPersistence(): the authenticated adapter has seen
\* the application under this very epoch.
Observed(e, epoch) == provider[e] = epoch

\* persistReviewedRemoteAppliedReceipt(): evidence only, the effect stays unknown.
PersistReceipt(e, epoch) ==
  /\ effects[e].status = "unknown" /\ effects[e].epoch = epoch
  /\ sink[e] = 0
  /\ CurrentAuthority(e, effects[e].revision)
  /\ Observed(e, epoch)
  /\ receipts[e] = 0
  /\ receipts' = [receipts EXCEPT ![e] = epoch]
  /\ UNCHANGED <<checkpoint, control, authority, commands, outbox, job,
                 effects, sink, plans, consumed, provider>>

-----------------------------------------------------------------------------
(* Receipt consumption: SQLiteRecoveryRemoteReceiptFinalizer.              *)

\* reviewRemoteReceiptTerminalReadiness(), a view that is consistent and then gone.
Reviewed(e) ==
  /\ effects[e].status = "unknown"
  /\ receipts[e] # 0 /\ receipts[e] = effects[e].epoch /\ sink[e] = 0
  /\ CurrentAuthority(e, effects[e].revision)
  /\ control.version = commands[CommandOf[e]].request.ctl

\* planRemoteReceiptConsumption(): the plan is a hint that nothing keeps true.
PlanConsumption(e) ==
  /\ Reviewed(e)
  /\ commands[CommandOf[e]].owner = "atomic_control_only"
  /\ plans' = plans \union {e}
  /\ UNCHANGED <<checkpoint, control, authority, commands, outbox, job,
                 effects, sink, receipts, consumed, provider>>

\* Mutant: the plan's verdict on control and command is trusted.
ConsumableAsPlanned(e) ==
  LET command == commands[CommandOf[e]] IN
  /\ receipts[e] # 0 /\ receipts[e] = effects[e].epoch
  /\ Authorized(effects[e].revision)
  /\ effects[e].status = "unknown"
  /\ sink[e] = 0
  /\ checkpoint.version = command.request.cp

\* What finalize() checks again inside its transaction.
Consumable(e) ==
  LET command == commands[CommandOf[e]] IN
  /\ receipts[e] # 0 /\ receipts[e] = effects[e].epoch
  /\ Authorized(effects[e].revision)
  /\ command.owner = "atomic_control_only" /\ command.fenced
  /\ effects[e].status = "unknown"
  /\ command.status = "executing" /\ command.version = 2
  /\ sink[e] = 0
  /\ checkpoint.version = command.request.cp
  /\ control.version = command.request.ctl
  /\ Prepared(command.request, checkpoint, control, TRUE) = "applied"

\* finalize(): consumption, control, command, event and effect change together.
Finalize(e) ==
  LET c == CommandOf[e] IN
  /\ e \in plans
  /\ Consumable(e)
  /\ consumed' = [consumed EXCEPT ![e] = commands[c].request.ctl + 1]
  /\ control' = Successor(c)
  /\ commands' = [commands EXCEPT ![c] = Ended(c, "applied")]
  /\ outbox' = outbox \union {[command |-> c, by |-> "finalize"]}
  /\ SetEffect(e, "committed")
  /\ UNCHANGED <<checkpoint, authority, job, sink, receipts, plans, provider>>

-----------------------------------------------------------------------------
CommandStep(c) ==
  \/ Enter(c) \/ EnterAuthorized(c)
  \/ \E status \in Terminal \union {"executing"} : UpdateLegacy(c, status)
  \/ LoadCheckpoint(c) \/ LoadControl(c) \/ Commit(c)

EffectStep(e) ==
  \/ StageIntent(e) \/ ClaimDispatch(e) \/ Reconcile(e)
  \/ \E epoch \in 1..MaxEpoch :
       \/ DispatchLocally(e, epoch) \/ ConfirmApplied(e, epoch) \/ MarkUnknown(e, epoch)
       \/ ProviderApplies(e, epoch) \/ PersistReceipt(e, epoch)
  \/ PlanConsumption(e) \/ Finalize(e)

Next ==
  \/ ChangeAuthority \/ SaveCheckpoint
  \/ \E c \in Commands : CommandStep(c)
  \/ \E e \in Effects : EffectStep(e)

Spec == Init /\ [][Next]_vars

-----------------------------------------------------------------------------
(* Properties.                                                             *)

Atomic(c) == commands[c].owner = "atomic_control_only"
Over(c) == commands[c].status \in Terminal
Applied == {c \in Commands : commands[c].outcome = "applied"}

\* inspectInFlightEvidence(): what an operator sees of one command after a crash, in one
\* read transaction.
InFlightEvidence(c) ==
  [command |-> commands[c], checkpoint |-> checkpoint, control |-> control,
   events |-> {ev \in outbox : ev.command = c}]

\* "An executing command with no event is AMBIGUOUS" (sqlite-recovery-finalization.ts:680),
\* and only such a one is, whatever moment an operator looks at the evidence:
\* a command of the atomic route is terminal exactly when its one event is in the
\* outbox, and only one of the two finalizers has ended it: the receipt finalizer
\* if an effect was ever staged for it, and then exactly one of those effects is
\* consumed, committed, and records the control version the command reports.
TerminalIsComplete ==
  /\ TypeOK
  /\ \A c \in Commands : Atomic(c) =>
       LET events == InFlightEvidence(c).events
           uses == {e \in Effects : CommandOf[e] = c /\ consumed[e] # 0} IN
       /\ InFlightEvidence(c).command.status \in Terminal <=> events # {}
       /\ Cardinality(events) <= 1 /\ Cardinality(uses) = Cardinality({ev \in events : ev.by = "finalize"})
       /\ Over(c) /\ Staged(c) # {} => uses # {}
       /\ \A e \in uses : effects[e].status = "committed" /\ consumed[e] = commands[c].ctl

\* Each version of the control state was written by exactly one applied command,
\* whose stored result names that version; the latest one is its recorded cause.
ControlHasOneAuthor ==
  /\ \A v \in 1..control.version : \E c \in Applied : commands[c].ctl = v
  /\ Cardinality(Applied) = control.version
  /\ control.version > 0 => control.author \in Applied /\ commands[control.author].ctl = control.version

\* An effect is committed only on evidence of one of the two systems, never on
\* evidence of both, and the evidence is of an application that took place under
\* the effect's current epoch.
EvidenceIsReal ==
  \A e \in Effects :
    /\ sink[e] = 0 \/ receipts[e] = 0
    /\ receipts[e] # 0 => provider[e] = receipts[e] /\ receipts[e] = effects[e].epoch
    /\ effects[e].status = "committed" => sink[e] = effects[e].epoch \/ consumed[e] # 0

Closes(c) == Atomic(c) /\ ~Over(c) /\ commands'[c].status \in Terminal

\* A command never ends as applied or as a no-op on facts that are no longer true:
\* at the moment of the transaction the preparation would say the same.
OutcomeIsCurrent ==
  [][\A c \in Commands :
       Closes(c) /\ commands'[c].outcome # "rejected" =>
         commands'[c].outcome = Prepared(commands[c].request, checkpoint, control, TRUE)]_vars

\* After its claim a fenced command has no outcome, and the local sink no effect,
\* while the actor is not allowed; and a change of the grants since the evidence
\* was issued stops the command for good on that evidence.
AuthorityHeld ==
  [][/\ \A c \in Commands : Closes(c) /\ commands[c].fenced =>
          \/ Authorized(job[c].evidence)
          \/ \E e \in Staged(c) : Authorized(effects[e].revision)
     /\ sink' # sink => authority.allowed]_vars
=============================================================================
