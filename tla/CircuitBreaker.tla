--------------------------- MODULE CircuitBreaker ---------------------------
(***************************************************************************)
(* The circuit breaker of one LLM provider (provider-circuit-breaker.ts),  *)
(* used by concurrent agent runs through invokeWithReliabilityFallback     *)
(* (reliability-fallback.ts, production-runtime.ts).                       *)
(*                                                                         *)
(* beforeRequest, recordSuccess and recordFailure run to completion on the *)
(* JavaScript thread; what interleaves is the time between a request's     *)
(* admission and its report.  The clock is one bit, "cooling": cooldownMs  *)
(* has not elapsed since openedAt.  The failure count saturates at the     *)
(* threshold, the only value it is compared with.  Calls to the fallback   *)
(* provider bypass the breaker in the code and are not modelled.           *)
(***************************************************************************)
EXTENDS Naturals, FiniteSets

CONSTANTS
  Requests,          \* agent runs that keep issuing requests to this provider
  Abortable,         \* those whose caller may abort them
  BadRequests,       \* those the provider rejects deterministically (400, schema)
  FailureThreshold

VARIABLES
  breaker,   \* ProviderCircuitState
  cooling,   \* the clock has not reached openedAt + cooldownMs
  mode,      \* per run: idle, or the decision its current request was admitted under
  healthy,   \* environment: whether the provider answers at all
  holder,    \* history: the requests admitted since halfOpenProbeInFlight was last set
  straggled, \* history: while several requests were under way, one that did not
             \* hold the probe has reported during half_open
  leaked     \* history: the probe mark is that of a request that was aborted

vars == <<breaker, cooling, mode, healthy, holder, straggled, leaked>>

Breakers == [state : {"closed", "open", "half_open"},
             consecutiveFailures : 0..FailureThreshold,
             halfOpenProbeInFlight : BOOLEAN]

TypeOK ==
  /\ breaker \in Breakers
  /\ cooling \in BOOLEAN
  /\ mode \in [Requests -> {"idle", "normal", "probe"}]
  /\ healthy \in BOOLEAN
  /\ holder \subseteq Requests /\ Cardinality(holder) <= 1
  /\ straggled \in BOOLEAN /\ leaked \in BOOLEAN
  /\ breaker.state = "closed" => ~breaker.halfOpenProbeInFlight

Init ==
  /\ breaker = [state |-> "closed", consecutiveFailures |-> 0,
                halfOpenProbeInFlight |-> FALSE]
  /\ cooling = FALSE
  /\ mode = [r \in Requests |-> "idle"]
  /\ healthy \in BOOLEAN
  /\ holder = {} /\ straggled = FALSE /\ leaked = FALSE

InFlight == {r \in Requests : mode[r] # "idle"}

-----------------------------------------------------------------------------
\* The decision of beforeRequest.
Admitted ==
  CASE breaker.state = "closed" -> "normal"
    [] breaker.state = "open" -> IF cooling THEN "denied" ELSE "probe"
    [] OTHER -> IF breaker.halfOpenProbeInFlight THEN "denied" ELSE "probe"

\* beforeRequest admits the run's request.  (A denied request changes nothing
\* here: it goes to the fallback provider or fails.)
BeforeRequest(r) ==
  /\ mode[r] = "idle"
  /\ Admitted # "denied"
  /\ mode' = [mode EXCEPT ![r] = Admitted]
  /\ IF Admitted = "probe"
     THEN /\ breaker' = [breaker EXCEPT !.state = "half_open",
                                        !.halfOpenProbeInFlight = TRUE]
          /\ holder' = {r}
     ELSE UNCHANGED <<breaker, holder>>
  /\ UNCHANGED <<cooling, healthy, straggled, leaked>>

\* The request of run r is over, perhaps with the probe unreported; bookkeeping of
\* the histories.
Leave(r, unreported) ==
  /\ mode' = [mode EXCEPT ![r] = "idle"]
  /\ holder' = holder \ {r}
  /\ straggled' = /\ InFlight # {r}
                  /\ straggled \/ (breaker.state = "half_open" /\ r \notin holder)
  /\ leaked' = (breaker'.halfOpenProbeInFlight /\ (leaked \/ unreported))

\* Mutant: a success clears the probe but does not close the circuit.
RecordSuccessStaysHalfOpen(r) ==
  /\ mode[r] # "idle" /\ healthy /\ r \notin BadRequests
  /\ breaker' = [breaker EXCEPT !.consecutiveFailures = 0,
                                !.halfOpenProbeInFlight = FALSE]
  /\ UNCHANGED <<cooling, healthy>>
  /\ Leave(r, FALSE)

\* onPrimarySuccess: recordSuccess, whatever state the circuit is in by now.
RecordSuccess(r) ==
  /\ mode[r] # "idle" /\ healthy /\ r \notin BadRequests
  /\ breaker' = [state |-> "closed", consecutiveFailures |-> 0,
                 halfOpenProbeInFlight |-> FALSE]
  /\ cooling' = FALSE
  /\ Leave(r, FALSE)
  /\ UNCHANGED healthy

\* Mutant: a deterministic failure returns before the probe mark is cleared.
RecordFailureMarkKept(r, transient) ==
  /\ IF ~transient THEN UNCHANGED <<breaker, cooling>>
     ELSE LET failures == IF breaker.consecutiveFailures = FailureThreshold
                          THEN FailureThreshold ELSE breaker.consecutiveFailures + 1
              opens == breaker.state = "half_open" \/ failures = FailureThreshold
          IN /\ breaker' = [state |-> IF opens THEN "open" ELSE breaker.state,
                            consecutiveFailures |-> failures,
                            halfOpenProbeInFlight |-> FALSE]
             /\ cooling' = (opens \/ cooling)
  /\ Leave(r, FALSE)

\* onPrimaryFailure: recordFailure.  Every report clears the probe mark; only a
\* transient one counts, and it opens the circuit from half_open or at the threshold.
RecordFailure(r, transient) ==
  /\ LET failures == IF breaker.consecutiveFailures = FailureThreshold
                     THEN FailureThreshold ELSE breaker.consecutiveFailures + 1
         opens == breaker.state = "half_open" \/ failures = FailureThreshold
         cleared == [breaker EXCEPT !.halfOpenProbeInFlight = FALSE]
     IN IF transient
        THEN /\ breaker' = [cleared EXCEPT !.state = IF opens THEN "open" ELSE @,
                                           !.consecutiveFailures = failures]
             /\ cooling' = (opens \/ cooling)
        ELSE breaker' = cleared /\ UNCHANGED cooling
  /\ Leave(r, FALSE)

\* classifyReliabilityFailure: what a failed request is reported as.
Fails(r) ==
  /\ mode[r] # "idle"
  /\ ~healthy \/ r \in BadRequests
  /\ RecordFailure(r, ~healthy)
  /\ UNCHANGED healthy

\* throwIfAborted, before the call or in the catch block: the run leaves without
\* any report to the breaker.
Aborted(r) ==
  /\ mode[r] # "idle" /\ r \in Abortable
  /\ UNCHANGED <<breaker, cooling, healthy>>
  /\ Leave(r, r \in holder)

\* Environment: cooldownMs elapses, and the provider breaks and recovers.
CooldownElapses ==
  /\ cooling /\ cooling' = FALSE
  /\ UNCHANGED <<breaker, mode, healthy, holder, straggled, leaked>>

HealthChanges ==
  /\ healthy' = ~healthy
  /\ UNCHANGED <<breaker, cooling, mode, holder, straggled, leaked>>

Next ==
  \/ \E r \in Requests : BeforeRequest(r) \/ RecordSuccess(r) \/ Fails(r) \/ Aborted(r)
  \/ CooldownElapses
  \/ HealthChanges

Spec == Init /\ [][Next]_vars

\* Runs keep issuing requests, an LLM call ends (withTimeout bounds it, and the
\* end is reported unless the caller aborts), and the clock advances.
FairSpec ==
  /\ Spec
  /\ WF_vars(\E r \in Requests : BeforeRequest(r))
  /\ \A r \in Requests : WF_vars(RecordSuccess(r) \/ Fails(r))
  /\ WF_vars(CooldownElapses)

-----------------------------------------------------------------------------
(* Properties.                                                             *)

Probes == {r \in Requests : mode[r] = "probe"}

\* Two probes are under way together only when a request that did not hold the
\* probe has reported during half_open: without such stragglers the half-open
\* gate admits one request at a time, aborts and rejected requests included.
OneProbeWithoutStragglers == ~straggled => Cardinality(Probes) <= 1

\* The half-open gate is shut only by a request that can open it again: unless the
\* mark is that of an aborted probe, the probe that set it is under way, whatever
\* stragglers and rejected requests have reported meanwhile.
MarkMeansProbe ==
  breaker.halfOpenProbeInFlight /\ ~leaked => holder # {} /\ holder \subseteq Probes

\* day27-circuit-breaker-integration.md: a successful probe closes the circuit and
\* a failed one opens it: every probe is followed by one of the two.
ProbeSettles == breaker.state = "half_open" ~> breaker.state # "half_open"

\* The provider is healthy, no probe was aborted, and no rejected request is under way.
Recovers == healthy /\ ~leaked /\ \A r \in BadRequests : mode[r] = "idle"

Admits == breaker.state = "closed"
=============================================================================
