---------------------------- MODULE ProviderGates ----------------------------
(***************************************************************************)
(* The reviews that stand between an effect of unknown outcome and what is *)
(* done about it: the capability audit of a provider's profile, the        *)
(* candidate review, the conformance gate with its probe evidence, the     *)
(* plan for an unknown effect and the review of a remote receipt           *)
(* (recovery-provider-*.ts, recovery-external-effect-reconciliation.ts,    *)
(* recovery-remote-receipt-review.ts).                                     *)
(*                                                                         *)
(* The reviews are pure; the state they read is not.  The provider has     *)
(* guarantees of its own, which its profile declares and a probe observes, *)
(* and any of the three may change between a query and the review of what  *)
(* it answered.  The provider, the probes, the profile's publisher and the *)
(* caller that follows the reviews are external.                           *)
(***************************************************************************)
EXTENDS Naturals, FiniteSets

CONSTANTS
  Declarations,   \* sets of guarantees a profile may declare
  Behaviours,     \* sets of guarantees a provider may really give
  MaxRevision,    \* bound on the revisions of the profile
  MaxEpoch,       \* bound on the claims of the effect
  MaxTime,        \* bound on the clock
  MaxAge          \* the age up to which a probe or an observation counts

VARIABLES
  provider,   \* its behaviour, and whether it may have changed since it was probed
  registry,   \* the server's evidence: profile, its revision, latest probe, incidents
  effect,     \* the ledger's view of one effect, its requests on the way, the effect itself
  seen,       \* the latest answer of the status query
  clock

vars == <<provider, registry, effect, seen, clock>>

\* What a profile declares and a probe observes.
Guarantees == {"atomic", "effectKey", "retention", "fencing", "final", "receipt", "noLate"}

NoProbe == [trusted |-> FALSE, revision |-> 0, at |-> 0, passed |-> FALSE, observed |-> {}]
Unseen == [kind |-> "unknown", epoch |-> 0, revision |-> 0, at |-> 0, sure |-> FALSE]

TypeOK ==
  /\ provider \in [gives : Behaviours, drifted : BOOLEAN]
  /\ registry \in [verified : BOOLEAN, declares : Declarations, revision : 1..MaxRevision,
                   probe : [trusted : BOOLEAN, revision : 0..MaxRevision, at : 0..MaxTime,
                            passed : BOOLEAN, observed : SUBSET Guarantees],
                   incident : BOOLEAN]
  /\ effect \in [status : {"pending", "unknown", "confirmed"}, epoch : 0..MaxEpoch,
                 underway : SUBSET (1..MaxEpoch), applied : 0..MaxEpoch, excused : BOOLEAN]
  /\ seen \in [kind : {"unknown", "applied", "negative", "final_negative"},
               epoch : 0..MaxEpoch, revision : 0..MaxRevision, at : 0..MaxTime, sure : BOOLEAN]
  /\ clock \in 1..MaxTime

Init ==
  /\ provider \in [gives : Behaviours, drifted : {TRUE}]
  /\ registry \in [verified : BOOLEAN, declares : Declarations, revision : {1},
                   probe : {NoProbe}, incident : {FALSE}]
  /\ effect = [status |-> "pending", epoch |-> 0, underway |-> {}, applied |-> 0,
               excused |-> FALSE]
  /\ seen = Unseen
  /\ clock = 1

-----------------------------------------------------------------------------
(* The reviews.                                                            *)

\* The audit of a profile: every declared guarantee an operation needs.
Needs == [first_dispatch |-> {},
          reconcile_unknown_applied |-> {"final", "receipt"},
          fresh_claim_after_final_negative |->
            {"final", "receipt", "noLate", "atomic", "effectKey", "retention"}]

Audited(operation) ==
  /\ Needs[operation] \subseteq registry.declares
  /\ operation = "first_dispatch" => registry.declares \intersect {"atomic", "fencing"} # {}

\* The candidate review: a verified profile, the phase of the effect, the audit.
\* The fourth operation, automatic_unknown_resend, is never a candidate.
PhaseExpected(operation) == IF operation = "first_dispatch" THEN "pending" ELSE "unknown"

Candidate(operation, status) ==
  registry.verified /\ status = PhaseExpected(operation) /\ Audited(operation)

\* Mutant: only what the operation needs is held against the probe.
ObservedNothing == TRUE

\* Every guarantee the current profile advertises was observed.
Observed ==
  LET declares == registry.declares
      observed == registry.probe.observed
  IN /\ "atomic" \in declares =>
          ({"atomic", "retention"} \union ({"effectKey"} \intersect declares)) \subseteq observed
     /\ (declares \intersect {"fencing", "final", "receipt", "noLate"}) \subseteq observed

\* The conformance gate.
Recent(at) == at \in 1..clock /\ clock - at <= MaxAge

Conforms(operation, status) ==
  /\ Candidate(operation, status)
  /\ ~registry.incident
  /\ registry.probe.trusted /\ registry.probe.passed
  /\ registry.probe.revision = registry.revision
  /\ Recent(registry.probe.at)
  /\ Observed

\* The fences that were ever handed out; each may be presented at any time.
Fences == 1..effect.epoch

\* The identity of the fence, which binds a decision to the epoch of the claim it is for.
Bound(epoch) == effect.status = "unknown" /\ effect.epoch = epoch

\* The plan for an unknown effect.
Plan(epoch, observation) ==
  IF ~Bound(epoch) \/ "final" \notin registry.declares \/ observation.kind = "unknown"
  THEN "manual_review_required"
  ELSE IF observation.kind = "applied" THEN "verified_applied_requires_receipt_persistence"
  ELSE IF observation.kind = "final_negative"
            /\ registry.declares \intersect {"atomic", "fencing"} # {}
  THEN "verified_not_applied_requires_fresh_authorized_claim"
  ELSE "manual_review_required"

\* The review of a receipt.
ReceiptAccepted(epoch, receipt) ==
  /\ Conforms("reconcile_unknown_applied", "unknown")
  /\ receipt.epoch = epoch
  /\ receipt.revision = registry.revision
  /\ Recent(receipt.at)
  /\ Plan(epoch, receipt) = "verified_applied_requires_receipt_persistence"

-----------------------------------------------------------------------------
(* The caller that follows the reviews.                                    *)

\* A request of a new epoch is on the way, and its outcome is unknown until it is known.
Send ==
  effect' = [effect EXCEPT !.status = "unknown", !.epoch = @ + 1,
                           !.underway = @ \union {effect.epoch + 1},
                           !.excused = @ \/ provider.drifted \/ (effect.epoch > 0 /\ ~seen.sure)]

Dispatch ==
  /\ Conforms("first_dispatch", effect.status)
  /\ Send
  /\ UNCHANGED <<provider, registry, seen, clock>>

FreshClaim ==
  /\ effect.epoch < MaxEpoch
  /\ \E epoch \in Fences :
       /\ Conforms("fresh_claim_after_final_negative", effect.status)
       /\ Plan(epoch, seen) = "verified_not_applied_requires_fresh_authorized_claim"
  /\ Send
  /\ seen' = Unseen
  /\ UNCHANGED <<provider, registry, clock>>

PersistReceipt ==
  /\ \E epoch \in Fences : Bound(epoch) /\ ReceiptAccepted(epoch, seen)
  /\ effect' = [effect EXCEPT !.status = "confirmed",
                              !.excused = @ \/ provider.drifted \/ ~seen.sure]
  /\ UNCHANGED <<provider, registry, seen, clock>>

-----------------------------------------------------------------------------
(* The provider.                                                           *)

\* A request arrives, early or late.  With atomic idempotency scoped to the effect and
\* kept long enough, the second one of a key changes nothing; with fencing, an epoch that
\* is not the latest is refused.
Deduplicates == {"atomic", "effectKey", "retention"} \subseteq provider.gives

Apply(epoch) ==
  /\ epoch \in effect.underway
  /\ effect' = [effect EXCEPT !.underway = @ \ {epoch},
       !.applied = IF (Deduplicates /\ effect.applied > 0)
                        \/ ("fencing" \in provider.gives /\ epoch # effect.epoch)
                   THEN @ ELSE @ + 1]
  /\ UNCHANGED <<provider, registry, seen, clock>>

\* What the status query may answer, under the guarantees the provider gives: an
\* authoritative one tells what is; a bound receipt is this effect's; a final negative
\* keeps what is underway from committing later.
Answers ==
  (IF "final" \notin provider.gives \/ effect.applied = 0
   THEN {"final_negative", "negative"} ELSE {})
  \union (IF effect.applied > 0 \/ ~({"final", "receipt"} \subseteq provider.gives)
          THEN {"applied"} ELSE {})

Query ==
  /\ effect.status = "unknown"
  /\ \E kind \in Answers \union {"unknown"} :
       /\ seen' = [kind |-> kind, epoch |-> effect.epoch, revision |-> registry.revision,
                   at |-> clock, sure |-> ~provider.drifted]
       /\ effect' = IF kind = "final_negative" /\ "noLate" \in provider.gives
                    THEN [effect EXCEPT !.underway = {}] ELSE effect
  /\ UNCHANGED <<provider, registry, clock>>

\* The provider changes what it does, in a release of its own.
Drift ==
  /\ \E gives \in Behaviours \ {provider.gives} :
       provider' = [gives |-> gives, drifted |-> TRUE]
  /\ effect' = [effect EXCEPT !.excused = @ \/ effect.status # "pending"]
  /\ UNCHANGED <<registry, seen, clock>>

-----------------------------------------------------------------------------
(* The evidence.                                                           *)

\* A probe that passes in the trusted harness observes what the provider gives; one of
\* another harness, or one that has failed, counts for nothing, whatever it observed.
Probe ==
  /\ \/ /\ registry' = [registry EXCEPT !.probe =
             [trusted |-> TRUE, passed |-> TRUE, observed |-> provider.gives,
              revision |-> registry.revision, at |-> clock]]
        /\ provider' = [provider EXCEPT !.drifted = FALSE]
     \/ /\ \E trusted, passed \in BOOLEAN :
             /\ ~trusted \/ ~passed
             /\ registry' = [registry EXCEPT !.probe =
                  [NoProbe EXCEPT !.trusted = trusted, !.passed = passed]]
        /\ UNCHANGED provider
  /\ UNCHANGED <<effect, seen, clock>>

\* A new revision of the profile.
Publish ==
  /\ registry.revision < MaxRevision
  /\ \E declares \in Declarations :
       registry' = [registry EXCEPT !.declares = declares, !.revision = @ + 1]
  /\ UNCHANGED <<provider, effect, seen, clock>>

\* A violation is reported, or resolved by a privileged resolution.
Incident ==
  /\ registry' = [registry EXCEPT !.incident = ~@]
  /\ UNCHANGED <<provider, effect, seen, clock>>

Tick ==
  /\ clock < MaxTime
  /\ clock' = clock + 1
  /\ UNCHANGED <<provider, registry, effect, seen>>

Next ==
  \/ Dispatch \/ FreshClaim \/ PersistReceipt
  \/ (\E epoch \in effect.underway : Apply(epoch)) \/ Query \/ Drift
  \/ Probe \/ Publish \/ Incident \/ Tick

Spec == Init /\ [][Next]_vars

-----------------------------------------------------------------------------
(* Properties.                                                             *)

\* A caller that follows the reviews never applies the effect twice and never confirms an
\* effect that did not happen, whatever profile was declared and whatever the status query
\* answered: the only excuse is a provider that has changed since it was last probed.
ReviewsProtect ==
  ~effect.excused => /\ effect.applied <= 1
                     /\ effect.status = "confirmed" => effect.applied = 1
=============================================================================
