--------------------------- MODULE AgentPartsProofs ---------------------------
(***************************************************************************)
(* What the parts of AgentParts promise for any number of runs, limits,    *)
(* retries, messages and actions.                                          *)
(*                                                                         *)
(* A behaviour of AgentParts is one of a single part, so there is one      *)
(* invariant for each part, stated over the variables s1 to s10 of it.     *)
(***************************************************************************)
EXTENDS AgentParts, Sequences, FiniteSetTheorems, SequenceTheorems, TLAPS

LEMMA Bounds ==
  /\ MaxTools \in Nat /\ ValidationRetries \in Nat
  /\ FailureThreshold \in Nat \ {0} /\ MaxSteps \in Nat \ {0}
<1>1. MaxTools \in {MaxTools, ValidationRetries} /\ ValidationRetries \in {MaxTools, ValidationRetries}
  OBVIOUS
<1>2. FailureThreshold \in {FailureThreshold, MaxSteps} /\ MaxSteps \in {FailureThreshold, MaxSteps}
  OBVIOUS
<1> QED
  BY <1>1, <1>2, AgentAssumption

-----------------------------------------------------------------------------
(* The circuit breaker: s1 is breaker, s2 cooling, s3 mode, s5 holder,     *)
(* s6 straggled, s7 leaked.                                                *)

Mark == s1.halfOpenProbeInFlight

\* The mark is set in half_open only; at most one request holds it, and is a probe; while
\* no straggler has reported, the holder is the only probe, and there is none without mark.
ProbeIsHeld ==
  /\ Mark => s1.state = "half_open"
  /\ s5 = {} \/ \E r \in Actors : s5 = {r}
  /\ s5 \subseteq Breaker!Probes
  /\ ~s6 => Breaker!Probes \subseteq s5 /\ (~Mark => Breaker!Probes = {})

BreakerInv ==
  /\ s1 \in Breaker!Breakers /\ s2 \in BOOLEAN /\ s4 \in BOOLEAN
  /\ s3 \in [Actors -> {"idle", "normal", "probe"}]
  /\ s6 \in BOOLEAN /\ s7 \in BOOLEAN
  /\ ProbeIsHeld /\ Breaker!MarkMeansProbe

LEMMA BreakerInit == Breaker!Init => BreakerInv
<1> SUFFICES ASSUME Breaker!Init PROVE BreakerInv
  OBVIOUS
<1>1. s1 \in Breaker!Breakers /\ ~Mark
  BY Bounds DEF Breaker!Init, Breaker!Breakers, Mark
<1>2. s3 \in [Actors -> {"idle", "normal", "probe"}] /\ Breaker!Probes = {} /\ s5 = {}
  BY DEF Breaker!Init, Breaker!Probes
<1> QED
  BY <1>1, <1>2 DEF Breaker!Init, BreakerInv, ProbeIsHeld, Breaker!MarkMeansProbe, Mark

\* Admission as a probe finds the mark unset, and hence no probe unless one straggles.
LEMMA BreakerAdmits ==
  ASSUME BreakerInv, NEW r \in Actors, Breaker!BeforeRequest(r)
  PROVE  BreakerInv'
<1>1. /\ s3[r] = "idle" /\ UNCHANGED <<s2, s4, s6, s7>>
      /\ s3' = [s3 EXCEPT ![r] = Breaker!Admitted]
  BY DEF Breaker!BeforeRequest
<1>2. CASE Breaker!Admitted = "probe"
  <2>1. s5' = {r} /\ s1' = [s1 EXCEPT !.state = "half_open", !.halfOpenProbeInFlight = TRUE]
    BY <1>2 DEF Breaker!BeforeRequest
  <2>2. ~Mark
    BY <1>2 DEF Breaker!Admitted, Mark, BreakerInv, ProbeIsHeld, Breaker!Breakers
  <2>3. Breaker!Probes' = Breaker!Probes \union {r}
    BY <1>1, <1>2 DEF Breaker!Probes, BreakerInv
  <2>4. s1' \in Breaker!Breakers /\ Mark' /\ s1'.state = "half_open"
    BY <2>1 DEF BreakerInv, Breaker!Breakers, Mark
  <2>5. s3' \in [Actors -> {"idle", "normal", "probe"}]
    BY <1>1, <1>2 DEF BreakerInv
  <2> QED
    BY <1>1, <2>1, <2>2, <2>3, <2>4, <2>5 DEF BreakerInv, ProbeIsHeld, Breaker!MarkMeansProbe, Mark
<1>3. CASE Breaker!Admitted # "probe"
  <2>1. UNCHANGED <<s1, s5>> /\ Breaker!Admitted = "normal"
    BY <1>3 DEF Breaker!BeforeRequest, Breaker!Admitted
  <2>2. s3' \in [Actors -> {"idle", "normal", "probe"}] /\ Breaker!Probes' = Breaker!Probes
    BY <1>1, <2>1 DEF BreakerInv, Breaker!Probes
  <2> QED
    BY <1>1, <2>1, <2>2 DEF BreakerInv, ProbeIsHeld, Breaker!MarkMeansProbe, Mark
<1> QED
  BY <1>2, <1>3

\* A request leaves, after a report that clears the mark or without one.
LEMMA BreakerLeaves ==
  ASSUME BreakerInv, NEW r \in Actors, s3[r] # "idle", NEW unreported \in BOOLEAN,
         Breaker!Leave(r, unreported), s1' \in Breaker!Breakers, s2' \in BOOLEAN, UNCHANGED s4,
         \/ ~Mark' /\ ~unreported
         \/ UNCHANGED s1 /\ (unreported <=> r \in s5)
  PROVE  BreakerInv'
<1>1. /\ s3' = [s3 EXCEPT ![r] = "idle"] /\ s5' = s5 \ {r}
      /\ s6' = (Breaker!InFlight # {r} /\ (s6 \/ (s1.state = "half_open" /\ r \notin s5)))
      /\ s7' = (Mark' /\ (s7 \/ unreported))
  BY DEF Breaker!Leave, Mark
<1>2. s3' \in [Actors -> {"idle", "normal", "probe"}] /\ s6' \in BOOLEAN /\ s7' \in BOOLEAN
  BY <1>1 DEF BreakerInv, Breaker!Breakers, Mark
<1>3. Breaker!Probes' = Breaker!Probes \ {r}
  BY <1>1 DEF Breaker!Probes, BreakerInv
<1>4. /\ Mark' => s1'.state = "half_open"
      /\ s5' = {} \/ \E q \in Actors : s5' = {q}
      /\ s5' \subseteq Breaker!Probes'
  BY <1>1, <1>3 DEF BreakerInv, ProbeIsHeld, Mark
<1>5. ~s6' => Breaker!Probes' \subseteq s5' /\ (~Mark' => Breaker!Probes' = {})
  <2>1. CASE Breaker!InFlight = {r}
    BY <1>3, <2>1 DEF Breaker!InFlight, Breaker!Probes
  <2>2. CASE Breaker!InFlight # {r} /\ ~s6'
    <3>1. ~s6 /\ (s1.state # "half_open" \/ r \in s5)
      BY <1>1, <2>2 DEF BreakerInv
    <3>2. Breaker!Probes \subseteq s5 /\ (~Mark => Breaker!Probes = {})
      BY <3>1 DEF BreakerInv, ProbeIsHeld
    <3>3. CASE r \in s5
      BY <1>1, <1>3, <3>2, <3>3 DEF BreakerInv, ProbeIsHeld
    <3>4. CASE s1.state # "half_open"
      BY <1>1, <1>3, <3>2, <3>4 DEF BreakerInv, ProbeIsHeld
    <3> QED
      BY <3>1, <3>3, <3>4
  <2> QED
    BY <2>1, <2>2
<1>6. Breaker!MarkMeansProbe'
  <2>1. ASSUME Mark', ~s7' PROVE s5' # {} /\ s5' \subseteq Breaker!Probes'
    <3>1. UNCHANGED s1 /\ (unreported <=> r \in s5) /\ ~s7 /\ ~unreported
      BY <1>1, <1>2, <2>1 DEF BreakerInv
    <3>2. Mark /\ s5 # {} /\ r \notin s5
      BY <2>1, <3>1 DEF BreakerInv, Breaker!MarkMeansProbe, Mark
    <3> QED
      BY <1>1, <1>4, <3>2
  <2> QED
    BY <2>1 DEF Breaker!MarkMeansProbe, Mark
<1> QED
  BY <1>2, <1>4, <1>5, <1>6 DEF BreakerInv, ProbeIsHeld

LEMMA BreakerStep ==
  ASSUME BreakerInv, Breaker!Next
  PROVE  BreakerInv'
<1>1. ASSUME NEW r \in Actors, Breaker!RecordSuccess(r) PROVE BreakerInv'
  <2>1. s1' \in Breaker!Breakers /\ ~Mark' /\ s2' \in BOOLEAN
    <3>1. /\ s1' = [state |-> "closed", consecutiveFailures |-> 0, halfOpenProbeInFlight |-> FALSE]
          /\ s2' = FALSE
      BY <1>1 DEF Breaker!RecordSuccess
    <3>2. 0 \in 0..FailureThreshold
      BY Bounds
    <3> QED
      BY <3>1, <3>2 DEF Breaker!Breakers, Mark
  <2> QED
    BY <1>1, <2>1, BreakerLeaves DEF Breaker!RecordSuccess
<1>2. ASSUME NEW r \in Actors, Breaker!Fails(r) PROVE BreakerInv'
  <2>1. PICK n \in 0..FailureThreshold :
          n = IF s1.consecutiveFailures = FailureThreshold THEN FailureThreshold
              ELSE s1.consecutiveFailures + 1
    BY Bounds DEF BreakerInv, Breaker!Breakers
  <2>2. s1 \in Breaker!Breakers /\ s2 \in BOOLEAN
    BY DEF BreakerInv
  <2>3. PICK cleared : cleared = [s1 EXCEPT !.halfOpenProbeInFlight = FALSE]
    OBVIOUS
  <2>4. cleared \in Breaker!Breakers /\ ~cleared.halfOpenProbeInFlight
    BY <2>2, <2>3 DEF Breaker!Breakers
  <2>5. \/ s1' = cleared /\ s2' = s2
        \/ \E opens \in BOOLEAN :
             /\ s1' = [cleared EXCEPT !.state = IF opens THEN "open" ELSE @,
                                      !.consecutiveFailures = n]
             /\ s2' = (opens \/ s2)
    BY <1>2, <2>1, <2>3 DEF Breaker!Fails, Breaker!RecordFailure
  <2>6. s1' \in Breaker!Breakers /\ ~Mark' /\ s2' \in BOOLEAN
    BY <2>2, <2>4, <2>5 DEF Breaker!Breakers, Mark
  <2>7. s3[r] # "idle" /\ Breaker!Leave(r, FALSE) /\ UNCHANGED s4
    BY <1>2 DEF Breaker!Fails, Breaker!RecordFailure
  <2> QED
    BY <2>6, <2>7, BreakerLeaves
<1>3. ASSUME NEW r \in Actors, Breaker!Aborted(r) PROVE BreakerInv'
  <2>1. /\ s3[r] # "idle" /\ UNCHANGED <<s1, s2, s4>>
        /\ Breaker!Leave(r, r \in s5)
    BY <1>3 DEF Breaker!Aborted
  <2>2. s1' \in Breaker!Breakers /\ s2' \in BOOLEAN /\ (r \in s5) \in BOOLEAN
    BY <2>1 DEF BreakerInv
  <2> QED
    BY <2>1, <2>2, BreakerLeaves
<1>4. CASE Breaker!CooldownElapses \/ Breaker!HealthChanges
  BY <1>4 DEF Breaker!CooldownElapses, Breaker!HealthChanges, BreakerInv, ProbeIsHeld,
     Breaker!MarkMeansProbe, Breaker!Probes, Mark
<1> QED
  BY <1>1, <1>2, <1>3, <1>4, BreakerAdmits DEF Breaker!Next

\* The instance has its own copy of Cardinality.
LEMMA BreakerCardinality ==
  ASSUME NEW S
  PROVE  Breaker!Cardinality(S) = Cardinality(S)
BY DEF Cardinality, Breaker!Cardinality

\* Every reachable state of the breaker satisfies its invariant.
LEMMA BreakerAlways == Spec => [](part = "breaker" => BreakerInv)
<1>1. Init => (part = "breaker" => BreakerInv)
  BY BreakerInit DEF Init
<1>2. (part = "breaker" => BreakerInv) /\ [Next]_vars => (part = "breaker" => BreakerInv)'
  <2> SUFFICES ASSUME part = "breaker" => BreakerInv, [Next]_vars, part' = "breaker"
               PROVE  BreakerInv'
    OBVIOUS
  <2>1. CASE Next
    <3>1. part = "breaker" /\ Breaker!Next
      BY <2>1 DEF Next
    <3> QED
      BY <3>1, BreakerStep
  <2>2. CASE UNCHANGED vars
    BY <2>2 DEF vars, BreakerInv, ProbeIsHeld, Breaker!MarkMeansProbe, Breaker!Probes, Mark
  <2> QED
    BY <2>1, <2>2
<1> QED
  BY <1>1, <1>2, PTL DEF Spec

\* The half-open gate of the breaker admits one request at a time, unless a request from
\* before has reported to it meanwhile, and is never shut by a request that is gone,
\* unless the caller of that one has aborted it.
THEOREM OneProbeAtATime == Spec => []GateIsSound
<1>1. ASSUME BreakerInv
      PROVE  Breaker!TypeOK /\ Breaker!OneProbeWithoutStragglers /\ Breaker!MarkMeansProbe
  <2>1. Cardinality(s5) <= 1
    <3>1. CASE s5 = {}
      BY <3>1, FS_EmptySet
    <3>2. ASSUME NEW r \in Actors, s5 = {r} PROVE Cardinality(s5) <= 1
      BY <3>2, FS_Singleton
    <3> QED
      BY <1>1, <3>1, <3>2 DEF BreakerInv, ProbeIsHeld
  <2>2. Breaker!TypeOK
    <3>1. s5 \subseteq Actors
      BY <1>1 DEF BreakerInv, ProbeIsHeld
    <3>2. s1.state = "closed" => ~s1.halfOpenProbeInFlight
      BY <1>1 DEF BreakerInv, ProbeIsHeld, Mark
    <3> QED
      BY <1>1, <2>1, <3>1, <3>2, BreakerCardinality DEF BreakerInv, Breaker!TypeOK
  <2>3. Breaker!OneProbeWithoutStragglers
    <3>1. ~s6 => Breaker!Probes = s5
      BY <1>1 DEF BreakerInv, ProbeIsHeld
    <3> QED
      BY <2>1, <3>1, BreakerCardinality DEF Breaker!OneProbeWithoutStragglers
  <2> QED
    BY <1>1, <2>2, <2>3 DEF BreakerInv
<1>2. (part = "breaker" => BreakerInv) => GateIsSound
  BY <1>1 DEF GateIsSound
<1> QED
  BY <1>2, BreakerAlways, PTL

-----------------------------------------------------------------------------
(* The delegation: s1 is coordinator.                                      *)

\* Only a validated selection is delegated; what has failed lacks one or its customer.
DelegationInv ==
  /\ Delegation!TypeOK
  /\ \A g \in Actors :
       /\ s1[g].pc = "delegating" => Delegation!ValidSelection(s1[g].selected)
       /\ s1[g].pc # "rejected"
       /\ s1[g].pc = "failed" =>
            ~Delegation!ValidSelection(s1[g].selected) \/ ~s1[g].customer

\* A selection that is valid is in the policy and known to the runtime.
LEMMA TablesAgree ==
  ASSUME NEW name, Delegation!ValidSelection(name)
  PROVE  /\ Delegation!MayDelegate("coordinator", name) /\ name \in Delegation!Runtimes
         /\ name \in Delegation!Names
BY DEF Delegation!ValidSelection, Delegation!Routable, Delegation!Registry, Delegation!MayDelegate,
   Delegation!DelegationPolicy, Delegation!Runtimes, Delegation!Names

\* One goal moves on.
LEMMA DelegationMoves ==
  ASSUME DelegationInv, NEW g \in Actors,
         NEW r \in [pc : Delegation!Outcomes, selected : Delegation!Names \union {"none"},
                    customer : BOOLEAN],
         s1' = [s1 EXCEPT ![g] = r],
         r.pc = "delegating" => Delegation!ValidSelection(r.selected),
         r.pc # "rejected",
         r.pc = "failed" => ~Delegation!ValidSelection(r.selected) \/ ~r.customer
  PROVE  DelegationInv'
<1>1. Delegation!TypeOK'
  BY DEF DelegationInv, Delegation!TypeOK
<1>2. s1'[g] = r /\ \A h \in Actors : h # g => s1'[h] = s1[h]
  BY DEF DelegationInv, Delegation!TypeOK
<1> QED
  BY <1>1, <1>2 DEF DelegationInv, Delegation!ValidSelection

LEMMA DelegationStep ==
  ASSUME DelegationInv, Delegation!Next
  PROVE  DelegationInv'
<1>1. PICK g \in Actors : Delegation!Step(g)
  BY DEF Delegation!Next
<1>2. /\ s1[g] \in [pc : Delegation!Outcomes, selected : Delegation!Names \union {"none"},
                    customer : BOOLEAN]
      /\ s1 \in [Actors -> [pc : Delegation!Outcomes, selected : Delegation!Names \union {"none"},
                            customer : BOOLEAN]]
  BY DEF DelegationInv, Delegation!TypeOK
<1>3. CASE Delegation!Select(g)
  <2>1. PICK r : r = [s1[g] EXCEPT !.pc = "selecting"]
    OBVIOUS
  <2>2. /\ r \in [pc : Delegation!Outcomes, selected : Delegation!Names \union {"none"},
                  customer : BOOLEAN]
        /\ r.pc = "selecting"
    BY <1>2, <2>1 DEF Delegation!Outcomes
  <2>3. s1' = [s1 EXCEPT ![g] = r]
    BY <1>3, <2>1 DEF Delegation!Select
  <2> QED
    BY <2>2, <2>3, DelegationMoves
<1>4. CASE Delegation!Selected(g)
  <2>1. PICK name \in Delegation!Names :
          s1' = [s1 EXCEPT ![g].selected = name,
                           ![g].pc = IF Delegation!ValidSelection(name) THEN "delegating" ELSE "failed"]
    BY <1>4 DEF Delegation!Selected
  <2>2. PICK pc : pc = IF Delegation!ValidSelection(name) THEN "delegating" ELSE "failed"
    OBVIOUS
  <2>3. PICK r : r = [s1[g] EXCEPT !.selected = name, !.pc = pc]
    OBVIOUS
  <2>4. /\ r \in [pc : Delegation!Outcomes, selected : Delegation!Names \union {"none"},
                  customer : BOOLEAN]
        /\ r.pc = pc /\ r.selected = name
    BY <1>2, <2>2, <2>3 DEF Delegation!Outcomes
  <2>5. s1' = [s1 EXCEPT ![g] = r]
    BY <1>2, <2>1, <2>2, <2>3
  <2>6. /\ r.pc = "delegating" => Delegation!ValidSelection(r.selected)
        /\ r.pc # "rejected" /\ (r.pc = "failed" => ~Delegation!ValidSelection(r.selected))
    BY <2>2, <2>4
  <2> QED
    BY <2>4, <2>5, <2>6, DelegationMoves
<1>5. CASE Delegation!Delegate(g)
  <2>1. Delegation!ValidSelection(s1[g].selected)
    BY <1>5 DEF Delegation!Delegate, DelegationInv
  <2>2. /\ Delegation!MayDelegate("coordinator", s1[g].selected)
        /\ s1[g].selected \in Delegation!Runtimes
    BY <2>1, TablesAgree
  <2>3. PICK pc : /\ s1' = [s1 EXCEPT ![g].pc = pc]
                  /\ pc = IF Delegation!Serves(s1[g].selected, s1[g].customer)
                          THEN "succeeded" ELSE "failed"
    BY <1>5, <2>2 DEF Delegation!Delegate
  <2>4. pc = "succeeded" \/ (pc = "failed" /\ ~s1[g].customer)
    BY <2>3 DEF Delegation!Serves
  <2>5. PICK r : r = [s1[g] EXCEPT !.pc = pc]
    OBVIOUS
  <2>6. /\ r \in [pc : Delegation!Outcomes, selected : Delegation!Names \union {"none"},
                  customer : BOOLEAN]
        /\ r.pc = pc /\ r.customer = s1[g].customer
    BY <1>2, <2>4, <2>5 DEF Delegation!Outcomes
  <2>7. s1' = [s1 EXCEPT ![g] = r]
    BY <2>3, <2>5
  <2> QED
    BY <2>4, <2>6, <2>7, DelegationMoves
<1> QED
  BY <1>1, <1>3, <1>4, <1>5 DEF Delegation!Step

LEMMA DelegationAlways == Spec => [](part = "delegation" => DelegationInv)
<1>1. Init => (part = "delegation" => DelegationInv)
  <2> SUFFICES ASSUME Delegation!Init PROVE DelegationInv
    BY DEF Init
  <2>1. PICK customer \in [Actors -> BOOLEAN] :
          s1 = [g \in Actors |-> [pc |-> "idle", selected |-> "none", customer |-> customer[g]]]
    BY DEF Delegation!Init
  <2>2. Delegation!TypeOK
    BY <2>1 DEF Delegation!TypeOK, Delegation!Outcomes
  <2> QED
    BY <2>1, <2>2 DEF DelegationInv
<1>2. (part = "delegation" => DelegationInv) /\ [Next]_vars => (part = "delegation" => DelegationInv)'
  <2> SUFFICES ASSUME part = "delegation" => DelegationInv, [Next]_vars, part' = "delegation"
               PROVE  DelegationInv'
    OBVIOUS
  <2>1. CASE Next
    <3>1. part = "delegation" /\ Delegation!Next
      BY <2>1 DEF Next
    <3> QED
      BY <3>1, DelegationStep
  <2>2. CASE UNCHANGED vars
    BY <2>2 DEF vars, DelegationInv, Delegation!TypeOK, Delegation!ValidSelection
  <2> QED
    BY <2>1, <2>2
<1> QED
  BY <1>1, <1>2, PTL DEF Spec

-----------------------------------------------------------------------------
(* The planner: s1 is setup, s2 plan, s3 visited, s4 observed, s5 asked,   *)
(* s6 executed.                                                            *)

Plans == [pc : {"top", "planning", "chosen", "executing", "answered", "failed"},
          step : 0..MaxSteps, attempt : 0..ValidationRetries,
          action : Proposals \union {Planner!NoAction}, notes : 0..MaxSteps]

PlannerTypes ==
  /\ s1 \in [planner : Planner!Planners, executor : {"default", "own"}]
  /\ s2 \in Plans
  /\ s3 \subseteq Proposals /\ s4 \subseteq Proposals /\ s5 \in Nat
  /\ s6 \in Seq(Proposals)

\* A chosen action is a proposal, a valid one if the LLM planner chose it; one that is
\* under execution is marked, and was not executed before.
ChoiceIsSound ==
  /\ s2.pc \in {"chosen", "executing"} =>
       s2.action \in Proposals /\ (s1.planner = "llm" => Planner!Allowed(s2.action))
  /\ s2.pc = "executing" => s2.action \in s3 /\ \A i \in DOMAIN s6 : s6[i] # s2.action
  /\ s2.pc = "answered" => s2.action.type = "finish"

\* What has been executed is marked, differs, and is allowed unless nobody looked.
ExecutedIsSound ==
  /\ \A i \in DOMAIN s6 : s6[i] \in s3
  /\ \A i, j \in DOMAIN s6 : s6[i] = s6[j] => i = j
  /\ \A i \in DOMAIN s6 :
       Planner!Allowed(s6[i]) \/ (s1.planner # "llm" /\ s1.executor = "own")

\* Each step may ask once and retry; each step leaves at most one note.
AskedBySteps ==
  /\ s2.notes <= s2.step
  /\ s2.pc \in {"planning", "chosen", "executing"} => s2.notes + 1 <= s2.step
  /\ s1.planner # "llm" => s5 = 0
  /\ s5 <= s2.step * (ValidationRetries + 1)
  /\ s2.pc = "planning" => s5 + (ValidationRetries - s2.attempt) <= s2.step * (ValidationRetries + 1)

PlannerInv == PlannerTypes /\ ChoiceIsSound /\ ExecutedIsSound /\ AskedBySteps

LEMMA NextStepAsks ==
  ASSUME NEW n \in Nat, NEW m \in Nat
  PROVE  n * m \in Nat /\ (n + 1) * m = n * m + m
OBVIOUS

LEMMA OneAskMore ==
  ASSUME NEW q \in Nat, NEW x \in Nat, NEW m \in Nat, q <= x + 1
  PROVE  q <= x + (m + 1) /\ q + (m - 0) <= x + (m + 1)
OBVIOUS

\* A record of the plan of which some fields change.
LEMMA PlanFields ==
  ASSUME NEW p \in Plans
  PROVE  /\ p.step \in Nat /\ p.attempt \in Nat /\ p.notes \in Nat
         /\ \A pc \in {"top", "planning", "chosen", "executing", "answered", "failed"} :
              [p EXCEPT !.pc = pc] \in Plans
         /\ \A k \in 0..MaxSteps : [p EXCEPT !.step = k] \in Plans
         /\ \A k \in 0..ValidationRetries : [p EXCEPT !.attempt = k] \in Plans
         /\ \A a \in Proposals : [p EXCEPT !.action = a] \in Plans
         /\ \A k \in 0..MaxSteps : [p EXCEPT !.notes = k] \in Plans
<1>1. p.step \in Nat /\ p.attempt \in Nat /\ p.notes \in Nat
  BY Bounds DEF Plans
<1>2. ASSUME NEW pc \in {"top", "planning", "chosen", "executing", "answered", "failed"}
      PROVE  [p EXCEPT !.pc = pc] \in Plans
  BY DEF Plans
<1>3. ASSUME NEW k \in 0..MaxSteps PROVE [p EXCEPT !.step = k] \in Plans
  BY DEF Plans
<1>4. ASSUME NEW k \in 0..ValidationRetries PROVE [p EXCEPT !.attempt = k] \in Plans
  BY DEF Plans
<1>5. ASSUME NEW a \in Proposals PROVE [p EXCEPT !.action = a] \in Plans
  BY DEF Plans
<1>6. ASSUME NEW k \in 0..MaxSteps PROVE [p EXCEPT !.notes = k] \in Plans
  BY DEF Plans
<1> QED
  BY <1>1, <1>2, <1>3, <1>4, <1>5, <1>6

\* A step that executes nothing and leaves the marks alone.
LEMMA PlannerMoves ==
  ASSUME PlannerInv, UNCHANGED <<s1, s3, s4, s6>>, s2' \in Plans, s5' \in Nat,
         s2'.pc # "executing",
         s2'.pc = "chosen" =>
           s2'.action \in Proposals /\ (s1.planner = "llm" => Planner!Allowed(s2'.action)),
         s2'.pc = "answered" => s2'.action.type = "finish",
         AskedBySteps'
  PROVE  PlannerInv'
<1>1. PlannerTypes'
  BY DEF PlannerInv, PlannerTypes
<1>2. ChoiceIsSound' /\ ExecutedIsSound'
  BY DEF PlannerInv, ChoiceIsSound, ExecutedIsSound, Planner!Allowed, Planner!ActionSpace
<1> QED
  BY <1>1, <1>2 DEF PlannerInv

LEMMA BeginPlanKeeps ==
  ASSUME PlannerInv, Planner!BeginPlan
  PROVE  PlannerInv'
<1>1. /\ s2 \in Plans /\ s2.pc = "top" /\ s5 \in Nat /\ s2.step \in Nat /\ s2.notes \in Nat
      /\ UNCHANGED <<s1, s3, s4, s6>>
  BY PlanFields DEF PlannerInv, PlannerTypes, Planner!BeginPlan
<1>2. CASE /\ s2.step < MaxSteps
           /\ s2' = [s2 EXCEPT !.pc = "planning", !.step = @ + 1, !.attempt = 0]
           /\ s5' = IF s1.planner = "llm" THEN s5 + 1 ELSE s5
  <2>1. PICK n \in Nat : n = s2.step /\ n + 1 \in 0..MaxSteps
    BY <1>1, <1>2, Bounds
  <2>2. PICK a : a = [s2 EXCEPT !.pc = "planning"]
    OBVIOUS
  <2>3. PICK b : b = [a EXCEPT !.step = n + 1]
    OBVIOUS
  <2>4. PICK d : d = [b EXCEPT !.attempt = 0]
    OBVIOUS
  <2>5. /\ a \in Plans /\ b \in Plans /\ d \in Plans
    <3>1. a \in Plans
      BY <1>1, <2>2, PlanFields
    <3>2. b \in Plans
      BY <2>1, <2>3, <3>1, PlanFields
    <3>3. 0 \in 0..ValidationRetries
      BY Bounds
    <3> QED
      BY <2>4, <3>1, <3>2, <3>3, PlanFields
  <2>6. s2' = d /\ d.pc = "planning" /\ d.step = n + 1 /\ d.attempt = 0 /\ d.notes = s2.notes
    BY <1>1, <1>2, <2>1, <2>2, <2>3, <2>4, <2>5 DEF Plans
  <2>7. PICK m \in Nat, k \in Nat, j \in Nat :
          m = ValidationRetries /\ k = s5 /\ j = s2.notes
    BY <1>1, Bounds
  <2>8. /\ n * (m + 1) \in Nat /\ (n + 1) * (m + 1) = n * (m + 1) + (m + 1)
    BY NextStepAsks
  <2>9. j <= n /\ k <= n * (m + 1) /\ (s1.planner # "llm" => k = 0)
    BY <2>1, <2>7 DEF PlannerInv, AskedBySteps
  <2>10. PICK x \in Nat : x = n * (m + 1) /\ (n + 1) * (m + 1) = x + (m + 1)
    BY <2>8
  <2>11. s5' \in Nat /\ s5' <= x + 1 /\ (s1.planner # "llm" => s5' = 0)
    BY <1>2, <2>7, <2>9, <2>10
  <2>12. AskedBySteps'
    <3>1. j <= n + 1 /\ j + 1 <= n + 1
      BY <2>9
    <3>2. s5' <= x + (m + 1) /\ s5' + (m - 0) <= x + (m + 1)
      <4>1. PICK q \in Nat : q = s5' /\ q <= x + 1
        BY <2>11
      <4>2. q <= x + (m + 1) /\ q + (m - 0) <= x + (m + 1)
        BY <4>1, OneAskMore
      <4> QED
        BY <4>1, <4>2
    <3> QED
      BY <1>1, <2>6, <2>7, <2>10, <2>11, <3>1, <3>2 DEF AskedBySteps
  <2> QED
    BY <1>1, <2>5, <2>6, <2>11, <2>12, PlannerMoves
<1>3. CASE s2' = [s2 EXCEPT !.pc = "failed"] /\ UNCHANGED s5
  <2>1. /\ s2' \in Plans /\ s2'.pc = "failed" /\ s2'.step = s2.step /\ s2'.notes = s2.notes
    BY <1>1, <1>3 DEF Plans
  <2>2. AskedBySteps'
    BY <1>1, <1>3, <2>1 DEF PlannerInv, AskedBySteps
  <2> QED
    BY <1>1, <1>3, <2>1, <2>2, PlannerMoves
<1> QED
  BY <1>2, <1>3 DEF Planner!BeginPlan

LEMMA ChooseKeeps ==
  ASSUME PlannerInv, s2.pc = "planning", NEW action \in Proposals, Planner!Choose(action),
         s1.planner = "llm" => Planner!Allowed(action), UNCHANGED <<s1, s3, s4, s6>>
  PROVE  PlannerInv'
<1>1. s2 \in Plans /\ s5 \in Nat
  BY DEF PlannerInv, PlannerTypes
<1>2. PICK a : a = [s2 EXCEPT !.pc = "chosen"]
  OBVIOUS
<1>3. PICK b : b = [a EXCEPT !.action = action]
  OBVIOUS
<1>4. a \in Plans /\ b \in Plans
  <2>1. a \in Plans
    BY <1>1, <1>2, PlanFields
  <2> QED
    BY <1>3, <2>1, PlanFields
<1>5. /\ s2' = b /\ UNCHANGED s5
      /\ b.pc = "chosen" /\ b.action = action /\ b.step = s2.step /\ b.notes = s2.notes
  BY <1>1, <1>2, <1>3, <1>4 DEF Planner!Choose, Plans
<1>6. AskedBySteps'
  BY <1>5 DEF PlannerInv, AskedBySteps
<1> QED
  BY <1>1, <1>4, <1>5, <1>6, PlannerMoves

\* The plan fails and nothing else happens.
LEMMA PlanFails ==
  ASSUME PlannerInv, s2' = [s2 EXCEPT !.pc = "failed"], UNCHANGED <<s1, s3, s4, s5, s6>>
  PROVE  PlannerInv'
<1>1. s2 \in Plans /\ s5 \in Nat
  BY DEF PlannerInv, PlannerTypes
<1>2. s2' \in Plans /\ s2'.pc = "failed" /\ s2'.step = s2.step /\ s2'.notes = s2.notes
  BY <1>1 DEF Plans
<1>3. AskedBySteps'
  BY <1>2 DEF PlannerInv, AskedBySteps
<1> QED
  BY <1>1, <1>2, <1>3, PlannerMoves

LEMMA PlanningKeeps ==
  ASSUME PlannerInv, Planner!CustomerPlans \/ Planner!LLMProposes \/ Planner!OwnProposes
  PROVE  PlannerInv'
<1>1. s2.pc = "planning" /\ UNCHANGED <<s1, s3, s4, s6>>
  BY DEF Planner!CustomerPlans, Planner!LLMProposes, Planner!OwnProposes
<1>2. CASE Planner!CustomerPlans
  <2>1. s1.planner # "llm"
    BY <1>2 DEF Planner!CustomerPlans
  <2>2. \/ \E action \in Proposals : Planner!Choose(action)
        \/ s2' = [s2 EXCEPT !.pc = "failed"] /\ UNCHANGED s5
    BY <1>2 DEF Planner!CustomerPlans
  <2> QED
    BY <1>1, <2>1, <2>2, ChooseKeeps, PlanFails
<1>3. CASE Planner!OwnProposes
  <2>1. s1.planner # "llm" /\ \E action \in Proposals : Planner!Choose(action)
    BY <1>3 DEF Planner!OwnProposes
  <2> QED
    BY <1>1, <2>1, ChooseKeeps
<1>4. CASE Planner!LLMProposes
  <2>0. s1.planner = "llm"
    BY <1>4 DEF Planner!LLMProposes
  <2>1. PICK action \in Proposals \union {Planner!NoAction} :
          \/ Planner!Valid(action) /\ Planner!Choose(action)
          \/ /\ s2.attempt < ValidationRetries
             /\ s2' = [s2 EXCEPT !.attempt = @ + 1] /\ s5' = s5 + 1
          \/ s2' = [s2 EXCEPT !.pc = "failed"] /\ UNCHANGED s5
    BY <1>4 DEF Planner!LLMProposes
  <2>2. CASE Planner!Valid(action) /\ Planner!Choose(action)
    <3>1. action \in Proposals /\ Planner!Allowed(action)
      BY <2>2 DEF Planner!Valid
    <3> QED
      BY <1>1, <2>2, <3>1, ChooseKeeps
  <2>3. CASE /\ s2.attempt < ValidationRetries
             /\ s2' = [s2 EXCEPT !.attempt = @ + 1] /\ s5' = s5 + 1
    <3>1. s2 \in Plans /\ s5 \in Nat
      BY DEF PlannerInv, PlannerTypes
    <3>2. PICK n \in Nat : n = s2.attempt /\ n + 1 \in 0..ValidationRetries
      <4>1. s2.attempt \in Nat
        BY <3>1, PlanFields
      <4>2. PICK n \in Nat : n = s2.attempt /\ n < ValidationRetries
        BY <2>3, <4>1
      <4>3. n + 1 \in 0..ValidationRetries
        BY <4>2, Bounds
      <4> QED
        BY <4>2, <4>3
    <3>3. PICK a : a = [s2 EXCEPT !.attempt = n + 1]
      OBVIOUS
    <3>4. a \in Plans
      BY <3>1, <3>2, <3>3, PlanFields
    <3>5. /\ s2' = a /\ a.pc = "planning" /\ a.step = s2.step /\ a.notes = s2.notes
          /\ a.attempt = n + 1
      BY <1>1, <2>3, <3>1, <3>2, <3>3, <3>4 DEF Plans
    <3>6. PICK m \in Nat, k \in Nat, j \in Nat :
            m = ValidationRetries /\ k = s5 /\ j = s2.step
      BY <3>1, Bounds, PlanFields
    <3>7. PICK x \in Nat : x = j * (m + 1)
      BY NextStepAsks
    <3>8. k + (m - n) <= x /\ n + 1 <= m
      BY <1>1, <3>2, <3>6, <3>7 DEF PlannerInv, AskedBySteps
    <3>9. k + 1 <= x /\ (k + 1) + (m - (n + 1)) <= x
      BY <3>8
    <3>10. AskedBySteps'
      BY <1>1, <2>0, <2>3, <3>5, <3>6, <3>7, <3>9 DEF PlannerInv, AskedBySteps
    <3>11. s5' \in Nat
      BY <2>3, <3>1
    <3> QED
      BY <1>1, <3>4, <3>5, <3>10, <3>11, PlannerMoves
  <2>4. CASE s2' = [s2 EXCEPT !.pc = "failed"] /\ UNCHANGED s5
    BY <1>1, <2>4, PlanFails
  <2> QED
    BY <2>1, <2>2, <2>3, <2>4
<1> QED
  BY <1>2, <1>3, <1>4

LEMMA ReflectKeeps ==
  ASSUME PlannerInv, Planner!Reflect
  PROVE  PlannerInv'
<1>1. /\ s2.pc = "chosen" /\ s2 \in Plans /\ s5 \in Nat /\ s2.action \in Proposals
      /\ UNCHANGED <<s1, s4, s5, s6>>
  BY DEF PlannerInv, PlannerTypes, ChoiceIsSound, Planner!Reflect
<1>2. CASE s2.action.type = "finish" /\ s2' = [s2 EXCEPT !.pc = "answered"] /\ UNCHANGED s3
  <2>1. /\ s2' \in Plans /\ s2'.pc = "answered" /\ s2'.action = s2.action
        /\ s2'.step = s2.step /\ s2'.notes = s2.notes
    BY <1>1, <1>2 DEF Plans
  <2>2. AskedBySteps'
    BY <1>1, <2>1 DEF PlannerInv, AskedBySteps
  <2> QED
    BY <1>1, <1>2, <2>1, <2>2, PlannerMoves
<1>3. CASE s2' = [s2 EXCEPT !.pc = "top", !.notes = @ + 1] /\ UNCHANGED s3
  <2>1. PICK n \in Nat, k \in Nat : n = s2.notes /\ k = s2.step /\ n + 1 <= k /\ k <= MaxSteps
    BY <1>1, PlanFields DEF PlannerInv, AskedBySteps, Plans
  <2>2. n + 1 \in 0..MaxSteps
    BY <2>1, Bounds
  <2>3. PICK a : a = [s2 EXCEPT !.pc = "top"]
    OBVIOUS
  <2>4. PICK b : b = [a EXCEPT !.notes = n + 1]
    OBVIOUS
  <2>5. a \in Plans /\ b \in Plans
    <3>1. a \in Plans
      BY <1>1, <2>3, PlanFields
    <3> QED
      BY <2>2, <2>4, <3>1, PlanFields
  <2>6. s2' = b /\ b.pc = "top" /\ b.step = k /\ b.notes = n + 1
    BY <1>1, <1>3, <2>1, <2>3, <2>4, <2>5 DEF Plans
  <2>7. AskedBySteps'
    BY <1>1, <2>1, <2>6 DEF PlannerInv, AskedBySteps
  <2> QED
    BY <1>1, <1>3, <2>5, <2>6, <2>7, PlannerMoves
<1>4. CASE /\ ~Planner!IsDuplicate(s2.action)
           /\ s2' = [s2 EXCEPT !.pc = "executing"]
           /\ s3' = s3 \union {s2.action}
  <2>1. /\ s2' \in Plans /\ s2'.pc = "executing" /\ s2'.action = s2.action
        /\ s2'.step = s2.step /\ s2'.notes = s2.notes
    BY <1>1, <1>4 DEF Plans
  <2>2. PlannerTypes'
    BY <1>1, <1>4, <2>1 DEF PlannerInv, PlannerTypes
  <2>3. \A i \in DOMAIN s6 : s6[i] # s2.action
    BY <1>4 DEF PlannerInv, ExecutedIsSound, Planner!IsDuplicate
  <2>4. ChoiceIsSound'
    BY <1>1, <1>4, <2>1, <2>3 DEF PlannerInv, ChoiceIsSound, Planner!Allowed, Planner!ActionSpace
  <2>5. ExecutedIsSound'
    BY <1>1, <1>4 DEF PlannerInv, ExecutedIsSound, Planner!Allowed, Planner!ActionSpace
  <2>6. AskedBySteps'
    BY <1>1, <2>1 DEF PlannerInv, AskedBySteps
  <2> QED
    BY <2>2, <2>4, <2>5, <2>6 DEF PlannerInv
<1> QED
  BY <1>2, <1>3, <1>4 DEF Planner!Reflect

\* The chosen action is executed or not, and the plan goes back to the top or fails.
LEMMA ExecutionKeeps ==
  ASSUME PlannerInv, s2.pc = "executing", NEW pc \in {"top", "failed"}, NEW k \in Nat,
         s2' = [s2 EXCEPT !.pc = pc, !.notes = k], k <= s2.notes + 1,
         \/ UNCHANGED s6
         \/ s6' = Append(s6, s2.action) /\ (Planner!Allowed(s2.action) \/ s1.executor = "own"),
         s4' \subseteq Proposals, UNCHANGED <<s1, s3, s5>>
  PROVE  PlannerInv'
<1>1. /\ s2 \in Plans /\ s5 \in Nat /\ s6 \in Seq(Proposals)
      /\ s2.action \in Proposals /\ s2.action \in s3
      /\ (s1.planner = "llm" => Planner!Allowed(s2.action))
      /\ \A i \in DOMAIN s6 : s6[i] # s2.action
  BY DEF PlannerInv, PlannerTypes, ChoiceIsSound
<1>2. PICK n \in Nat, j \in Nat : n = s2.notes /\ j = s2.step /\ n + 1 <= j /\ j <= MaxSteps
  BY <1>1, PlanFields DEF PlannerInv, AskedBySteps, Plans
<1>3. k \in 0..MaxSteps /\ k <= j
  BY <1>2, Bounds
<1>4. PICK a : a = [s2 EXCEPT !.pc = pc]
  OBVIOUS
<1>5. PICK b : b = [a EXCEPT !.notes = k]
  OBVIOUS
<1>6. a \in Plans /\ b \in Plans
  <2>1. a \in Plans
    BY <1>1, <1>4, PlanFields
  <2> QED
    BY <1>3, <1>5, <2>1, PlanFields
<1>7. s2' = b /\ b.pc = pc /\ b.step = j /\ b.notes = k
  BY <1>1, <1>2, <1>4, <1>5, <1>6 DEF Plans
<1>8. AskedBySteps'
  BY <1>2, <1>3, <1>7 DEF PlannerInv, AskedBySteps
<1>9. s6' \in Seq(Proposals)
  BY <1>1, AppendProperties
<1>10. PlannerTypes'
  BY <1>6, <1>7, <1>9 DEF PlannerInv, PlannerTypes
<1>11. ChoiceIsSound'
  BY <1>7 DEF ChoiceIsSound
<1>12. ExecutedIsSound'
  <2>1. CASE UNCHANGED s6
    BY <2>1 DEF PlannerInv, ExecutedIsSound, Planner!Allowed, Planner!ActionSpace
  <2>2. CASE /\ s6' = Append(s6, s2.action)
             /\ Planner!Allowed(s2.action) \/ s1.executor = "own"
    <3>1. PICK l \in Nat : l = Len(s6) /\ DOMAIN s6 = 1..l
      BY <1>1, LenProperties
    <3>2. /\ DOMAIN s6' = 1..l + 1
          /\ \A i \in 1..l : s6'[i] = s6[i]
          /\ s6'[l + 1] = s2.action
      BY <1>1, <2>2, <3>1, AppendProperties
    <3>3. \A i \in 1..l + 1 : i \in 1..l \/ i = l + 1
      BY <3>1
    <3>4. \A i \in 1..l + 1 : s6'[i] \in s3
      BY <1>1, <3>1, <3>2, <3>3 DEF PlannerInv, ExecutedIsSound
    <3>5. ASSUME NEW i1 \in 1..l + 1, NEW i2 \in 1..l + 1, s6'[i1] = s6'[i2]
          PROVE  i1 = i2
      <4>1. CASE i1 \in 1..l /\ i2 \in 1..l
        BY <3>1, <3>2, <3>5, <4>1 DEF PlannerInv, ExecutedIsSound
      <4>2. CASE i1 = l + 1 /\ i2 \in 1..l
        BY <1>1, <3>1, <3>2, <3>5, <4>2
      <4>3. CASE i2 = l + 1 /\ i1 \in 1..l
        BY <1>1, <3>1, <3>2, <3>5, <4>3
      <4> QED
        BY <3>3, <4>1, <4>2, <4>3
    <3>6. ASSUME NEW i \in 1..l + 1
          PROVE  Planner!Allowed(s6'[i]) \/ (s1.planner # "llm" /\ s1.executor = "own")
      <4>1. CASE i \in 1..l
        BY <3>1, <3>2, <4>1 DEF PlannerInv, ExecutedIsSound
      <4>2. CASE i = l + 1
        BY <1>1, <2>2, <3>2, <4>2
      <4> QED
        BY <3>3, <4>1, <4>2
    <3> QED
      BY <3>2, <3>4, <3>5, <3>6 DEF ExecutedIsSound, Planner!Allowed, Planner!ActionSpace
  <2> QED
    BY <2>1, <2>2
<1> QED
  BY <1>8, <1>10, <1>11, <1>12 DEF PlannerInv

LEMMA PlannerStep ==
  ASSUME PlannerInv, Planner!Next
  PROVE  PlannerInv'
<1>1. s2 \in Plans /\ s2.notes \in Nat /\ s4 \subseteq Proposals
  BY PlanFields DEF PlannerInv, PlannerTypes
<1>2. CASE Planner!Execute
  <2>1. s2.pc = "executing" /\ UNCHANGED <<s1, s3, s5>> /\ s2.action \in Proposals
    BY <1>2 DEF Planner!Execute, PlannerInv, ChoiceIsSound
  <2>2. /\ s6' = Append(s6, s2.action) /\ s4' \subseteq Proposals
        /\ Planner!Allowed(s2.action) \/ s1.executor = "own"
    <3>1. s1.executor \in {"default", "own"}
      BY DEF PlannerInv, PlannerTypes
    <3> QED
      BY <1>1, <1>2, <2>1, <3>1 DEF Planner!Execute
  <2>3. PICK useful \in BOOLEAN :
          s2' = [s2 EXCEPT !.pc = "top", !.notes = IF useful THEN @ ELSE @ + 1]
    BY <1>2 DEF Planner!Execute
  <2>4. PICK k \in Nat : k = (IF useful THEN s2.notes ELSE s2.notes + 1) /\ k <= s2.notes + 1
    BY <1>1
  <2>5. s2' = [s2 EXCEPT !.pc = "top", !.notes = k]
    BY <2>3, <2>4
  <2> QED
    BY <2>1, <2>2, <2>4, <2>5, ExecutionKeeps
<1>3. CASE Planner!ExecutionThrows
  <2>1. /\ s2.pc = "executing" /\ UNCHANGED <<s1, s3, s4, s5>>
        /\ UNCHANGED s6 \/ (s6' = Append(s6, s2.action) /\ s1.executor = "own")
    BY <1>3 DEF Planner!ExecutionThrows
  <2>2. s2' = [s2 EXCEPT !.pc = "failed", !.notes = s2.notes] /\ s2.notes <= s2.notes + 1
    <3>1. PICK a : a = [s2 EXCEPT !.pc = "failed"]
      OBVIOUS
    <3>2. a \in Plans
      BY <1>1, <3>1, PlanFields
    <3>3. a.notes = s2.notes /\ s2' = a
      BY <1>1, <1>3, <3>1 DEF Planner!ExecutionThrows, Plans
    <3>4. a = [a EXCEPT !.notes = a.notes]
      BY <3>2 DEF Plans
    <3> QED
      BY <1>1, <3>1, <3>3, <3>4
  <2> QED
    BY <1>1, <2>1, <2>2, ExecutionKeeps
<1>4. CASE Planner!PlanningThrows
  BY <1>4, PlanFails DEF Planner!PlanningThrows
<1> QED
  BY <1>2, <1>3, <1>4, BeginPlanKeeps, PlanningKeeps, ReflectKeeps DEF Planner!Next

LEMMA PlannerAlways == Spec => [](part = "planner" => PlannerInv)
<1>1. Init => (part = "planner" => PlannerInv)
  <2> SUFFICES ASSUME Planner!Init PROVE PlannerInv
    BY DEF Init
  <2>1. /\ s1 \in [planner : Planner!Planners, executor : {"default", "own"}]
        /\ s2 = [pc |-> "top", step |-> 0, attempt |-> 0, action |-> Planner!NoAction, notes |-> 0]
        /\ s3 = {} /\ s4 = {} /\ s5 = 0 /\ s6 = << >>
    BY DEF Planner!Init
  <2>2. PlannerTypes
    <3>1. 0 \in 0..MaxSteps /\ 0 \in 0..ValidationRetries
      BY Bounds
    <3>2. s6 \in Seq(Proposals)
      BY <2>1
    <3> QED
      BY <2>1, <3>1, <3>2 DEF PlannerTypes, Plans
  <2>3. ChoiceIsSound /\ ExecutedIsSound
    BY <2>1 DEF ChoiceIsSound, ExecutedIsSound
  <2>4. AskedBySteps
    <3>1. 0 * (ValidationRetries + 1) = 0
      BY Bounds
    <3> QED
      BY <2>1, <3>1 DEF AskedBySteps
  <2> QED
    BY <2>2, <2>3, <2>4 DEF PlannerInv
<1>2. (part = "planner" => PlannerInv) /\ [Next]_vars => (part = "planner" => PlannerInv)'
  <2> SUFFICES ASSUME part = "planner" => PlannerInv, [Next]_vars, part' = "planner"
               PROVE  PlannerInv'
    OBVIOUS
  <2>1. CASE Next
    <3>1. part = "planner" /\ Planner!Next
      BY <2>1 DEF Next
    <3> QED
      BY <3>1, PlannerStep
  <2>2. CASE UNCHANGED vars
    BY <2>2 DEF vars, PlannerInv, PlannerTypes, ChoiceIsSound, ExecutedIsSound, AskedBySteps,
       Planner!Allowed, Planner!ActionSpace
  <2> QED
    BY <2>1, <2>2
<1> QED
  BY <1>1, <1>2, PTL DEF Spec

\* Whatever a model proposes, a planner executes no action twice, none that the policy
\* forbids unless nothing of the runtime looked at it, asks a bounded number of times, and
\* answers only with "finish"; and the three tables of the delegation agree.
THEOREM AgentsAreConfined == Spec => []AgentsStayInside
<1>1. ASSUME PlannerInv PROVE Planner!TypeOK /\ Planner!PlanStaysInside
  <2>1. s6 \in Seq(Proposals) /\ \A i \in DOMAIN s6 : s6[i] \in Proposals
    BY <1>1 DEF PlannerInv, PlannerTypes
  <2>2. \A action : action \in Planner!Range(s6) <=> \E i \in DOMAIN s6 : s6[i] = action
    BY DEF Planner!Range
  <2>3. Planner!TypeOK
    BY <1>1, <2>1, <2>2 DEF PlannerInv, PlannerTypes, Plans, Planner!TypeOK
  <2>4. Planner!IsInjective(s6)
    BY <1>1 DEF PlannerInv, ExecutedIsSound, Planner!IsInjective
  <2>5. \A action \in Planner!Range(s6) :
          \/ action.type \in Planner!ActionSpace /\ action.filled
          \/ s1.planner # "llm" /\ s1.executor = "own"
    BY <1>1, <2>2 DEF PlannerInv, ExecutedIsSound, Planner!Allowed
  <2> QED
    BY <1>1, <2>3, <2>4, <2>5 DEF PlannerInv, AskedBySteps, ChoiceIsSound, Planner!PlanStaysInside
<1>2. DelegationInv => Delegation!TypeOK /\ Delegation!SelectionIsServed
  BY DEF DelegationInv, Delegation!SelectionIsServed
<1>3. (part = "planner" => PlannerInv) /\ (part = "delegation" => DelegationInv) => AgentsStayInside
  BY <1>1, <1>2 DEF AgentsStayInside
<1> QED
  BY <1>3, PlannerAlways, DelegationAlways, PTL

-----------------------------------------------------------------------------
(* A run: s1 is config, s2 run, s3 call, s4 budget, s5 aborted, s6 trace,  *)
(* s7 result, s8 used, s9 requests, s10 failure.                           *)

RunRecords == [pc : {"turn", "calling", "backoff", "answered", "tools", "tool", "ended"},
               step : Nat, mode : {"normal", "closing"}, tools : 0..MaxTools,
               usage : Usages \union {0}]
Invocations == [provider : Run!Providers, attempt : 0..s1.maxRetries, last : BOOLEAN]
Budgets == [steps : 0..s1.maxSteps, calls : 0..s1.maxModelCalls, tokens : 0..s1.maxTokens]
Traces == [open : SUBSET Run!Spans, failed : SUBSET (Run!Spans \union {"circuit"}),
           tools : Nat, root : {"open", "ok", "error"}]

RunTypes ==
  /\ s1 \in Configs /\ Run!Loaded(s1)
  /\ s2 \in RunRecords /\ s3 \in Invocations /\ s4 \in Budgets /\ s5 \in BOOLEAN
  /\ s6 \in Traces /\ s7 \in Run!StopReasons \union {"none"}
  /\ s8 \in Nat /\ s9 \in Nat /\ s10 \in Run!FailureKinds \union {"none"}

Asking == s2.pc \in {"calling", "backoff", "answered"}

\* What the budget admits: nothing is asked at a limit, what is charged is within all
\* limits, and all that was used is charged, but for an answer that is not charged yet.
Spending ==
  /\ s2.pc \in {"turn", "tools", "tool"} => s2.mode = "normal" /\ s4.steps < s1.maxSteps
  /\ s2.pc \in {"tools", "tool"} => s2.tools # 0
  /\ Asking => s4.tokens < s1.maxTokens /\ Run!Cost(s4.tokens) < s1.maxCost
  /\ s4.tokens <= s1.guardTokens
  /\ s2.pc \notin {"answered", "ended"} => s8 = s4.tokens
  /\ s2.pc = "answered" => s8 = s4.tokens + s2.usage

\* The requests of one model call: every attempt begins one, at the first provider and at
\* its fallback.
PerCall == 2 * (s1.maxRetries + 1)
RequestsByAttempt ==
  /\ s2.pc = "backoff" => s3.attempt < s1.maxRetries
  /\ s2.pc \in {"turn", "tools", "tool"} => s9 <= s4.calls * PerCall
  /\ Asking =>
       s9 <= s4.calls * PerCall + s3.attempt + 1 + (IF s3.last THEN s1.maxRetries + 1 ELSE 0)

\* Until the end the root span is open, and beside it only what the loop waits for.
TraceIsOpen ==
  /\ s2.pc # "ended" => s6.root = "open"
  /\ s2.pc \in {"turn", "tools"} => s6.open = {}
  /\ Asking => s6.open \subseteq {"llm"}

RunInv ==
  /\ RunTypes /\ Spending /\ RequestsByAttempt /\ TraceIsOpen
  /\ s7 # "none" <=> s2.pc = "ended"
  /\ Run!SpendIsBounded /\ Run!StopReasonIsReal

LEMMA ConfigFacts ==
  ASSUME RunTypes
  PROVE  /\ s1.maxSteps \in Nat \ {0} /\ s1.maxModelCalls \in Nat \ {0}
         /\ s1.maxTokens \in Nat \ {0} /\ s1.maxCost \in Nat \ {0} /\ s1.maxRetries \in Nat \ {0}
         /\ s1.price \in Nat /\ s1.guardTokens \in Nat /\ s1.loopSteps \in Nat
         /\ s1.economy \in Run!Providers \union {"none"}
         /\ s1.fallback \in Run!Providers \union {"none"}
<1>1. /\ {s1.maxSteps, s1.loopSteps, s1.maxModelCalls, s1.maxTokens, s1.price,
          s1.maxCost, s1.guardTokens, s1.maxRetries} \subseteq Nat
      /\ {s1.economy, s1.fallback} \subseteq {"none", "primary", "cheap", "spare"}
  BY AgentAssumption DEF RunTypes
<1>2. \A n \in {s1.maxSteps, s1.maxModelCalls, s1.maxTokens, s1.maxCost, s1.maxRetries} : n > 0
  BY DEF RunTypes, Run!Loaded
<1>3. /\ s1.maxSteps \in Nat /\ s1.maxModelCalls \in Nat /\ s1.maxTokens \in Nat
      /\ s1.maxCost \in Nat /\ s1.maxRetries \in Nat
      /\ s1.price \in Nat /\ s1.guardTokens \in Nat /\ s1.loopSteps \in Nat
  BY <1>1
<1>4. /\ s1.maxSteps > 0 /\ s1.maxModelCalls > 0 /\ s1.maxTokens > 0
      /\ s1.maxCost > 0 /\ s1.maxRetries > 0
  BY <1>2
<1>5. s1.economy \in Run!Providers \union {"none"} /\ s1.fallback \in Run!Providers \union {"none"}
  BY <1>1 DEF Run!Providers
<1> QED
  BY <1>3, <1>4, <1>5

LEMMA BiggestIsBiggest ==
  /\ Run!BiggestUsage \in Usages /\ \A v \in Usages : v <= Run!BiggestUsage
BY AgentAssumption, Zenon DEF Run!BiggestUsage

LEMMA CostAdds ==
  ASSUME s1.price \in Nat, NEW n \in Nat, NEW m \in Nat
  PROVE  /\ Run!Cost(n) \in Nat /\ Run!Cost(0) = 0
         /\ Run!Cost(n + m) = Run!Cost(n) + Run!Cost(m)
         /\ n <= m => Run!Cost(n) <= Run!Cost(m)
<1>1. PICK p \in Nat : p = s1.price
  OBVIOUS
<1>2. n * p \in Nat /\ m * p \in Nat /\ 0 * p = 0 /\ (n + m) * p = n * p + m * p
  OBVIOUS
<1>3. ASSUME n <= m PROVE n * p <= m * p
  <2>1. PICK d \in Nat : m = n + d
    <3>1. m - n \in Nat /\ m = n + (m - n)
      BY <1>3
    <3> QED
      BY <3>1
  <2>2. (n + d) * p = n * p + d * p /\ d * p \in Nat /\ n * p \in Nat
    OBVIOUS
  <2> QED
    BY <2>1, <2>2
<1> QED
  BY <1>1, <1>2, <1>3 DEF Run!Cost

\* Records of which one field changes.
LEMMA RunFields ==
  ASSUME NEW r \in RunRecords
  PROVE  /\ r.step \in Nat /\ r.tools \in Nat /\ r.usage \in Nat
         /\ \A pc \in {"turn", "calling", "backoff", "answered", "tools", "tool", "ended"} :
              [r EXCEPT !.pc = pc] \in RunRecords
         /\ \A n \in Nat : [r EXCEPT !.step = n] \in RunRecords
         /\ \A m \in {"normal", "closing"} : [r EXCEPT !.mode = m] \in RunRecords
         /\ \A n \in 0..MaxTools : [r EXCEPT !.tools = n] \in RunRecords
         /\ \A u \in Usages \union {0} : [r EXCEPT !.usage = u] \in RunRecords
<1>1. r.step \in Nat /\ r.tools \in Nat /\ r.usage \in Nat
  <2>1. Usages \subseteq Nat
    BY AgentAssumption
  <2>2. r.step \in Nat /\ r.tools \in 0..MaxTools /\ r.usage \in Usages \union {0}
    BY DEF RunRecords
  <2>3. r.step \in Nat /\ r.usage \in Nat
    <3>1. \A u \in Usages \union {0} : u \in Nat
      BY <2>1
    <3> QED
      BY <2>2, <3>1
  <2>4. r.tools \in Nat
    BY <2>2, Bounds
  <2> QED
    BY <2>3, <2>4
<1>2. ASSUME NEW pc \in {"turn", "calling", "backoff", "answered", "tools", "tool", "ended"}
      PROVE  [r EXCEPT !.pc = pc] \in RunRecords
  BY DEF RunRecords
<1>3. ASSUME NEW n \in Nat PROVE [r EXCEPT !.step = n] \in RunRecords
  BY DEF RunRecords
<1>4. ASSUME NEW m \in {"normal", "closing"} PROVE [r EXCEPT !.mode = m] \in RunRecords
  BY DEF RunRecords
<1>5. ASSUME NEW n \in 0..MaxTools PROVE [r EXCEPT !.tools = n] \in RunRecords
  BY DEF RunRecords
<1>6. ASSUME NEW u \in Usages \union {0} PROVE [r EXCEPT !.usage = u] \in RunRecords
  BY DEF RunRecords
<1> QED
  BY <1>1, <1>2, <1>3, <1>4, <1>5, <1>6

LEMMA TraceFields ==
  ASSUME NEW t \in Traces
  PROVE  /\ t.tools \in Nat /\ t.open \subseteq Run!Spans
         /\ t.failed \subseteq Run!Spans \union {"circuit"}
         /\ \A o \in SUBSET Run!Spans : [t EXCEPT !.open = o] \in Traces
         /\ \A f \in SUBSET (Run!Spans \union {"circuit"}) : [t EXCEPT !.failed = f] \in Traces
         /\ \A n \in Nat : [t EXCEPT !.tools = n] \in Traces
         /\ \A r \in {"open", "ok", "error"} : [t EXCEPT !.root = r] \in Traces
<1>1. /\ t.tools \in Nat /\ t.open \subseteq Run!Spans
      /\ t.failed \subseteq Run!Spans \union {"circuit"}
  BY DEF Traces
<1>2. ASSUME NEW o \in SUBSET Run!Spans PROVE [t EXCEPT !.open = o] \in Traces
  BY DEF Traces
<1>3. ASSUME NEW f \in SUBSET (Run!Spans \union {"circuit"}) PROVE [t EXCEPT !.failed = f] \in Traces
  BY DEF Traces
<1>4. ASSUME NEW n \in Nat PROVE [t EXCEPT !.tools = n] \in Traces
  BY DEF Traces
<1>5. ASSUME NEW r \in {"open", "ok", "error"} PROVE [t EXCEPT !.root = r] \in Traces
  BY DEF Traces
<1> QED
  BY <1>1, <1>2, <1>3, <1>4, <1>5

\* What startSpan, endSpan and finish() make of a trace.
LEMMA TraceSteps ==
  ASSUME NEW t \in Traces
  PROVE  /\ \A span \in Run!Spans :
              /\ Run!WithSpan(t, span) \in Traces /\ Run!WithSpan(t, span).tools = t.tools
              /\ Run!WithSpan(t, span).root = t.root
              /\ Run!WithSpan(t, span).open = t.open \union {span}
         /\ \A spans \in SUBSET (Run!Spans \union {"circuit"}) :
              /\ Run!WithFailed(t, spans) \in Traces /\ Run!WithFailed(t, spans).tools = t.tools
              /\ Run!WithFailed(t, spans).root = t.root
              /\ Run!WithFailed(t, spans).open = t.open \ spans
         /\ \A verdict \in {"ok", "error"} :
              /\ Run!Finished(t, verdict) \in Traces /\ Run!Finished(t, verdict).open = {}
              /\ Run!Finished(t, verdict).root = verdict
              /\ Run!Finished(t, verdict).tools = t.tools
<1>1. ASSUME NEW span \in Run!Spans
      PROVE  /\ Run!WithSpan(t, span) \in Traces /\ Run!WithSpan(t, span).tools = t.tools
             /\ Run!WithSpan(t, span).root = t.root
             /\ Run!WithSpan(t, span).open = t.open \union {span}
  <2>1. PICK o \in SUBSET Run!Spans : o = t.open \union {span}
    BY TraceFields
  <2>2. PICK a : a = [t EXCEPT !.open = o]
    OBVIOUS
  <2>3. a \in Traces
    BY <2>2, TraceFields
  <2>4. a.tools = t.tools /\ a.root = t.root /\ a.open = o
    BY <2>2, <2>3 DEF Traces
  <2>5. Run!WithSpan(t, span) = a
    BY <2>1, <2>2 DEF Run!WithSpan
  <2> QED
    BY <2>1, <2>3, <2>4, <2>5
<1>2. ASSUME NEW spans \in SUBSET (Run!Spans \union {"circuit"})
      PROVE  /\ Run!WithFailed(t, spans) \in Traces /\ Run!WithFailed(t, spans).tools = t.tools
             /\ Run!WithFailed(t, spans).root = t.root
             /\ Run!WithFailed(t, spans).open = t.open \ spans
  <2>1. PICK f \in SUBSET (Run!Spans \union {"circuit"}) : f = t.failed \union spans
    BY TraceFields
  <2>2. PICK o \in SUBSET Run!Spans : o = t.open \ spans
    BY TraceFields
  <2>3. PICK a : a = [t EXCEPT !.failed = f]
    OBVIOUS
  <2>4. a \in Traces
    BY <2>3, TraceFields
  <2>5. a.tools = t.tools /\ a.root = t.root /\ a.open = t.open
    BY <2>3, <2>4 DEF Traces
  <2>6. PICK b : b = [a EXCEPT !.open = o]
    OBVIOUS
  <2>7. b \in Traces
    BY <2>4, <2>6, TraceFields
  <2>8. b.tools = a.tools /\ b.root = a.root /\ b.open = o
    BY <2>4, <2>6, <2>7 DEF Traces
  <2>9. Run!WithFailed(t, spans) = b
    BY <2>1, <2>2, <2>3, <2>5, <2>6 DEF Run!WithFailed
  <2> QED
    BY <2>2, <2>5, <2>7, <2>8, <2>9
<1>3. ASSUME NEW verdict \in {"ok", "error"}
      PROVE  /\ Run!Finished(t, verdict) \in Traces /\ Run!Finished(t, verdict).open = {}
             /\ Run!Finished(t, verdict).root = verdict
             /\ Run!Finished(t, verdict).tools = t.tools
  <2>1. PICK a : a = [t EXCEPT !.open = {}]
    OBVIOUS
  <2>2. a \in Traces /\ a.open = {} /\ a.tools = t.tools
    <3>1. a \in Traces
      BY <2>1, TraceFields
    <3> QED
      BY <2>1, <3>1 DEF Traces
  <2>3. PICK b : b = [a EXCEPT !.root = verdict]
    OBVIOUS
  <2>4. b \in Traces
    BY <2>2, <2>3, TraceFields
  <2>5. b.root = verdict /\ b.open = {} /\ b.tools = t.tools
    BY <2>2, <2>3, <2>4 DEF Traces
  <2>6. Run!Finished(t, verdict) = b
    BY <2>1, <2>3 DEF Run!Finished
  <2> QED
    BY <2>4, <2>5, <2>6
<1> QED
  BY <1>1, <1>2, <1>3

\* The trace of a loop that throws is finished, unless the closing call throws.
LEMMA ThrownTrace ==
  ASSUME NEW t \in Traces, NEW mode \in {"normal", "closing"}
  PROVE  /\ Run!Thrown(mode, t) \in Traces /\ Run!Thrown(mode, t).tools = t.tools
         /\ mode = "closing" => Run!Thrown(mode, t) = t
         /\ mode = "normal" => Run!Thrown(mode, t).open = {} /\ Run!Thrown(mode, t).root = "error"
<1>1. CASE mode = "closing"
  BY <1>1 DEF Run!Thrown
<1>2. CASE mode = "normal"
  <2>1. Run!Thrown(mode, t) = Run!Finished(t, "error")
    BY <1>2 DEF Run!Thrown
  <2> QED
    BY <1>2, <2>1, TraceSteps
<1> QED
  BY <1>1, <1>2

\* One more call is charged for.
LEMMA OneCallMore ==
  ASSUME NEW c \in Nat, NEW m \in Nat
  PROVE  /\ c * (2 * (m + 1)) \in Nat
         /\ (c + 1) * (2 * (m + 1)) = c * (2 * (m + 1)) + 2 * (m + 1)
<1>1. PICK k \in Nat : k = 2 * (m + 1)
  OBVIOUS
<1>2. c * k \in Nat /\ (c + 1) * k = c * k + k
  OBVIOUS
<1> QED
  BY <1>1, <1>2

\* 2 * (maxRetries + 1) requests more at most.
LEMMA TwiceTheAttempts ==
  ASSUME NEW n \in Nat, NEW x \in Nat, NEW a \in Nat, NEW m \in Nat, NEW last \in BOOLEAN,
         a <= m, n <= x + a + 1 + (IF last THEN m + 1 ELSE 0)
  PROVE  n <= x + 2 * (m + 1)
<1>1. CASE last
  BY <1>1
<1>2. CASE ~last
  BY <1>2
<1> QED
  BY <1>1, <1>2

\* Whatever the run is at, the call it may break off adds to those it was charged for.
LEMMA RequestBound ==
  ASSUME NEW n \in Nat, NEW c \in Nat, NEW a \in Nat, NEW m \in Nat, NEW last \in BOOLEAN,
         a <= m,
         \/ n <= c * (2 * (m + 1))
         \/ n <= c * (2 * (m + 1)) + a + 1 + (IF last THEN m + 1 ELSE 0)
  PROVE  n <= (c + 1) * (2 * (m + 1))
<1>1. PICK x \in Nat : x = c * (2 * (m + 1)) /\ (c + 1) * (2 * (m + 1)) = x + 2 * (m + 1)
  BY OneCallMore
<1>2. CASE n <= x
  BY <1>1, <1>2
<1>3. CASE n <= x + a + 1 + (IF last THEN m + 1 ELSE 0)
  BY <1>1, <1>3, TwiceTheAttempts
<1> QED
  BY <1>1, <1>2, <1>3

\* The run goes on and has not been answered by a provider.
LEMMA RunGoesOn ==
  ASSUME RunInv, s2.pc # "ended", s2'.pc # "ended", UNCHANGED <<s1, s7, s8>>,
         RunTypes', Spending', RequestsByAttempt', TraceIsOpen'
  PROVE  RunInv'
<1>1. s7' = "none"
  BY DEF RunInv
<1>2. Run!StopReasonIsReal'
  BY <1>1 DEF Run!StopReasonIsReal
<1>3. s9' <= (s4'.calls + 1) * (2 * (s1'.maxRetries + 1))
  <2>1. s1.maxRetries \in Nat /\ s1.maxModelCalls \in Nat
    BY ConfigFacts DEF RunInv
  <2>2. /\ s9' \in Nat /\ s3'.attempt \in Nat /\ s3'.attempt <= s1'.maxRetries
        /\ s3'.last \in BOOLEAN /\ s1'.maxRetries \in Nat /\ s4'.calls \in Nat
    BY <2>1 DEF RunTypes, Invocations, Budgets
  <2>3. PICK n \in Nat, c \in Nat, a \in Nat, m \in Nat, last \in BOOLEAN :
          /\ n = s9' /\ c = s4'.calls /\ a = s3'.attempt /\ m = s1'.maxRetries
          /\ last = s3'.last /\ a <= m
    BY <2>2
  <2>4. s2'.pc \in {"turn", "tools", "tool"} \/ Asking'
    BY DEF RunTypes, RunRecords, Asking
  <2>5. \/ n <= c * (2 * (m + 1))
        \/ n <= c * (2 * (m + 1)) + a + 1 + (IF last THEN m + 1 ELSE 0)
    BY <2>3, <2>4 DEF RequestsByAttempt, PerCall
  <2> QED
    BY <2>3, <2>5, RequestBound
<1>4. s4'.calls <= s1'.maxModelCalls
  <2>1. s1.maxModelCalls \in Nat
    BY ConfigFacts DEF RunInv
  <2> QED
    BY <2>1 DEF RunTypes, Budgets
<1>5. Run!SpendIsBounded'
  BY <1>3, <1>4 DEF RunInv, Run!SpendIsBounded, Run!Cost, Run!BiggestUsage
<1> QED
  BY <1>1, <1>2, <1>5 DEF RunInv

\* The run ends, without a further request.
LEMMA RunEnds ==
  ASSUME RunInv, s2.pc # "ended", s2'.pc = "ended", UNCHANGED <<s1, s3, s5, s8, s9>>,
         s2' \in RunRecords, s4' \in Budgets, s4'.tokens <= s1.guardTokens,
         s4'.calls \in {s4.calls, s4.calls + 1},
         s6' \in Traces, s7' \in Run!StopReasons,
         s10' \in Run!FailureKinds \union {"none"}, Run!StopReasonIsReal'
  PROVE  RunInv'
<1>1. RunTypes'
  BY DEF RunInv, RunTypes, RunRecords, Invocations, Budgets, Traces, Run!Loaded
<1>2. Spending'
  BY DEF Spending, Asking
<1>3. RequestsByAttempt' /\ TraceIsOpen'
  BY DEF RequestsByAttempt, TraceIsOpen, Asking
<1>4. s9' <= (s4'.calls + 1) * (2 * (s1'.maxRetries + 1))
  <2>1. PICK n \in Nat, c \in Nat, m \in Nat : n = s9 /\ c = s4.calls /\ m = s1.maxRetries
    <3>1. s1.maxRetries \in Nat /\ s1.maxModelCalls \in Nat
      BY ConfigFacts DEF RunInv
    <3> QED
      BY <3>1 DEF RunInv, RunTypes, Budgets
  <2>2. n <= (c + 1) * (2 * (m + 1))
    BY <2>1 DEF RunInv, Run!SpendIsBounded
  <2>3. PICK x \in Nat : x = (c + 1) * (2 * (m + 1)) /\ ((c + 1) + 1) * (2 * (m + 1)) = x + 2 * (m + 1)
    <3>1. c + 1 \in Nat
      OBVIOUS
    <3> QED
      BY <3>1, OneCallMore
  <2>4. n <= x /\ n <= x + 2 * (m + 1)
    BY <2>2, <2>3
  <2>5. CASE s4'.calls = s4.calls
    BY <2>1, <2>2, <2>5
  <2>6. CASE s4'.calls = s4.calls + 1
    BY <2>1, <2>3, <2>4, <2>6
  <2> QED
    BY <2>5, <2>6
<1>5. s4'.calls <= s1'.maxModelCalls
  <2>1. s1.maxModelCalls \in Nat
    BY ConfigFacts DEF RunInv
  <2> QED
    BY <2>1 DEF Budgets
<1>6. Run!SpendIsBounded'
  BY <1>4, <1>5 DEF RunInv, Run!SpendIsBounded, Run!Cost, Run!BiggestUsage
<1>7. s7' # "none"
  BY DEF Run!StopReasons
<1> QED
  BY <1>1, <1>2, <1>3, <1>6, <1>7 DEF RunInv

LEMMA TypesKept ==
  ASSUME RunTypes, UNCHANGED s1, s2' \in RunRecords, s3' \in Invocations, s4' \in Budgets,
         s5' \in BOOLEAN, s6' \in Traces, s7' \in Run!StopReasons \union {"none"},
         s8' \in Nat, s9' \in Nat, s10' \in Run!FailureKinds \union {"none"}
  PROVE  RunTypes'
BY DEF RunTypes, Invocations, Budgets, Run!Loaded

LEMMA ExhaustedAt ==
  ASSUME NEW b
  PROVE  Run!Exhausted(b) <=>
           \/ b.steps >= s1.maxSteps \/ b.calls >= s1.maxModelCalls
           \/ b.tokens >= s1.maxTokens \/ Run!Cost(b.tokens) >= s1.maxCost
BY DEF Run!Exhausted, Run!Shares

\* The loop throws, at the end of a turn or out of a closing call: what becomes of its trace.
LEMMA ThrowsWithTrace ==
  ASSUME RunInv, s2.pc # "ended", NEW t \in Traces, t.root = "open",
         NEW reason \in Run!StopReasons \ {"completed"},
         t.open = {} \/ s2.mode = "normal" \/ reason \in {"cancelled", "budget_exceeded"},
         Run!Stop(reason), s6' = Run!Thrown(s2.mode, t)
  PROVE  /\ s2' \in RunRecords /\ s2'.pc = "ended" /\ s2'.step = s2.step
         /\ s7' = reason /\ s6' \in Traces
         /\ s6'.root # "ok" /\ (s6'.root = "open" => s2'.mode = "closing")
         /\ s6'.open # {} =>
              s6'.root = "open" /\ reason \in {"cancelled", "budget_exceeded"}
<1>1. s7' = reason /\ s2' = [s2 EXCEPT !.pc = "ended"] /\ s2 \in RunRecords
  BY DEF Run!Stop, RunInv, RunTypes
<1>2. s2' \in RunRecords
  BY <1>1, RunFields
<1>3. s2'.pc = "ended" /\ s2'.step = s2.step /\ s2'.mode = s2.mode
  BY <1>1, <1>2 DEF RunRecords
<1>4. s2.mode \in {"normal", "closing"}
  BY <1>1 DEF RunRecords
<1>5. CASE s2.mode = "closing"
  <2>1. s6' = t
    BY <1>5, ThrownTrace
  <2> QED
    BY <1>1, <1>2, <1>3, <1>5, <2>1
<1>6. CASE s2.mode = "normal"
  <2>1. s6' \in Traces /\ s6'.open = {} /\ s6'.root = "error"
    BY <1>6, ThrownTrace
  <2> QED
    BY <1>1, <1>2, <1>3, <2>1
<1> QED
  BY <1>4, <1>5, <1>6

\* The run ends on an error, a cancellation or a timeout: nothing is charged.
LEMMA RunBreaksOff ==
  ASSUME RunInv, s2.pc # "ended",
         NEW reason \in {"cancelled", "permission_denied", "deadline_exceeded", "runtime_error"},
         NEW t \in Traces, t.root = "open", s6' = Run!Thrown(s2.mode, t),
         t.open = {} \/ s2.mode = "normal" \/ reason = "cancelled",
         Run!Stop(reason), UNCHANGED <<s1, s3, s4, s5, s8, s9>>,
         reason = "cancelled" => s5, reason = "deadline_exceeded" => s10' = "timeout",
         s10' \in Run!FailureKinds \union {"none"}
  PROVE  RunInv'
<1>1. reason \in Run!StopReasons \ {"completed"}
  BY DEF Run!StopReasons
<1>2. /\ s2' \in RunRecords /\ s2'.pc = "ended" /\ s7' = reason /\ s6' \in Traces
      /\ s6'.root # "ok" /\ (s6'.root = "open" => s2'.mode = "closing")
      /\ s6'.open # {} =>
           s6'.root = "open" /\ reason \in {"cancelled", "budget_exceeded"}
  BY <1>1, ThrowsWithTrace
<1>3. Run!StopReasonIsReal'
  BY <1>2 DEF Run!StopReasonIsReal
<1>4. s4' \in Budgets /\ s4'.tokens <= s1.guardTokens /\ s4'.calls = s4.calls
  BY DEF RunInv, RunTypes, Spending, Budgets
<1> QED
  BY <1>1, <1>2, <1>3, <1>4, RunEnds

\* The run ends at a limit.
LEMMA RunReachesLimit ==
  ASSUME RunInv, s2.pc # "ended", Run!Stop("budget_exceeded"),
         s6' = Run!Thrown(s2.mode, s6),
         NEW b \in Budgets, s4' = b, b.tokens <= s1.guardTokens,
         b.calls \in {s4.calls, s4.calls + 1},
         UNCHANGED <<s1, s3, s5, s8, s9, s10>>,
         \/ Run!Exhausted(b) \/ s8 > s1.maxTokens \/ s8 > s1.guardTokens
         \/ Run!Cost(s8) > s1.maxCost
  PROVE  RunInv'
<1>1. "budget_exceeded" \in Run!StopReasons \ {"completed"} /\ s6 \in Traces /\ s6.root = "open"
  BY DEF Run!StopReasons, RunInv, RunTypes, TraceIsOpen
<1>2. /\ s2' \in RunRecords /\ s2'.pc = "ended" /\ s7' = "budget_exceeded" /\ s6' \in Traces
      /\ s6'.root # "ok" /\ (s6'.root = "open" => s2'.mode = "closing")
      /\ s6'.open # {} => s6'.root = "open"
  BY <1>1, ThrowsWithTrace
<1>3. Run!Exhausted(b) => Run!Exhausted(s4)'
  BY DEF Run!Exhausted, Run!Shares, Run!Cost
<1>4. Run!StopReasonIsReal'
  BY <1>2, <1>3 DEF Run!StopReasonIsReal, Run!Cost
<1>5. s7' \in Run!StopReasons /\ s10' \in Run!FailureKinds \union {"none"}
  BY <1>1, <1>2 DEF RunInv, RunTypes
<1> QED
  BY <1>2, <1>4, <1>5, RunEnds

\* The model is asked, with what was charged below every limit.
LEMMA InvokeKeeps ==
  ASSUME RunInv, s2.pc \in {"turn", "answered"},
         NEW mode \in {"normal", "closing"}, NEW step \in Nat, NEW b \in Budgets,
         s4' = b, Run!Invoke(mode, step, b), UNCHANGED <<s1, s5, s8>>,
         b.tokens < s1.maxTokens, Run!Cost(b.tokens) < s1.maxCost,
         b.tokens <= s1.guardTokens, s8 = b.tokens,
         b.calls \in {s4.calls, s4.calls + 1}, s9 <= b.calls * PerCall
  PROVE  RunInv'
<1>1. RunTypes /\ s2 \in RunRecords /\ s6 \in Traces /\ s3 \in Invocations
  BY DEF RunInv, RunTypes
<1>2. /\ Run!Route(mode, b) \in Run!Providers
      /\ \A p \in Run!Providers : Run!HasFallback(p) => s1.fallback \in Run!Providers
      /\ 0 \in 0..s1.maxRetries
  <2>1. /\ s1.economy \in Run!Providers \union {"none"}
        /\ s1.fallback \in Run!Providers \union {"none"} /\ s1.maxRetries \in Nat
    BY <1>1, ConfigFacts
  <2> QED
    BY <2>1 DEF Run!Route, Run!HasFallback, Run!Providers
<1>3. PICK asking \in RunRecords :
        /\ asking = [s2 EXCEPT !.pc = "calling", !.mode = mode, !.step = step]
        /\ asking.pc = "calling" /\ asking.mode = mode
  <2>1. PICK x : x = [s2 EXCEPT !.pc = "calling"]
    OBVIOUS
  <2>2. x \in RunRecords /\ x.pc = "calling"
    <3>1. x \in RunRecords
      BY <1>1, <2>1, RunFields
    <3> QED
      BY <1>1, <2>1, <3>1 DEF RunRecords
  <2>3. PICK y : y = [x EXCEPT !.mode = mode]
    OBVIOUS
  <2>4. y \in RunRecords /\ y.pc = "calling" /\ y.mode = mode
    <3>1. y \in RunRecords
      BY <2>2, <2>3, RunFields
    <3> QED
      BY <2>2, <2>3, <3>1 DEF RunRecords
  <2>5. PICK z : z = [y EXCEPT !.step = step]
    OBVIOUS
  <2>6. z \in RunRecords /\ z.pc = "calling" /\ z.mode = mode
    <3>1. z \in RunRecords
      BY <2>4, <2>5, RunFields
    <3> QED
      BY <2>4, <2>5, <3>1 DEF RunRecords
  <2> QED
    BY <2>1, <2>3, <2>5, <2>6
<1>4. PICK traced \in Traces :
        /\ traced = Run!WithSpan(s6, "llm") /\ traced.root = "open" /\ traced.open = {"llm"}
  <2>1. s6.root = "open" /\ s6.open \subseteq {"llm"}
    BY DEF RunInv, TraceIsOpen, Asking
  <2>2. "llm" \in Run!Spans
    BY DEF Run!Spans
  <2> QED
    BY <1>1, <2>1, <2>2, TraceSteps
<1>5. PICK open \in Traces :
        /\ open = Run!WithFailed(traced, {"circuit"}) /\ open.root = "open" /\ open.open = {"llm"}
  BY <1>4, TraceSteps
<1>6. PICK shut \in Traces :
        /\ shut = Run!WithFailed(traced, {"circuit", "llm"}) /\ shut.root = "open"
        /\ shut.open = {}
  <2>1. {"circuit", "llm"} \in SUBSET (Run!Spans \union {"circuit"})
    BY DEF Run!Spans
  <2> QED
    BY <1>4, <2>1, TraceSteps
<1>7. \/ /\ s2' = asking /\ s6' \in {traced, open} /\ s9' = s9 + 1 /\ UNCHANGED <<s7, s10>>
         /\ \E p \in Run!Providers, last \in BOOLEAN :
              s3' = [provider |-> p, attempt |-> 0, last |-> last]
      \/ /\ s7' = "runtime_error" /\ s2' = [asking EXCEPT !.pc = "ended"]
         /\ s6' = Run!Thrown(mode, shut) /\ s10' = "broken"
         /\ UNCHANGED <<s3, s9>>
  BY <1>2, <1>3, <1>4, <1>5, <1>6 DEF Run!Invoke
<1>8. CASE /\ s2' = asking /\ s6' \in {traced, open} /\ s9' = s9 + 1 /\ UNCHANGED <<s7, s10>>
           /\ \E p \in Run!Providers, last \in BOOLEAN :
                s3' = [provider |-> p, attempt |-> 0, last |-> last]
  <2>1. s3' \in Invocations /\ s3'.attempt = 0 /\ s3'.last \in BOOLEAN
    BY <1>2, <1>8 DEF Invocations
  <2>2. RunTypes'
    <3>1. /\ s7' \in Run!StopReasons \union {"none"} /\ s8' \in Nat /\ s9' \in Nat
          /\ s10' \in Run!FailureKinds \union {"none"} /\ s5' \in BOOLEAN /\ s6' \in Traces
      BY <1>1, <1>8 DEF RunTypes
    <3> QED
      BY <1>1, <1>3, <1>8, <2>1, <3>1, TypesKept
  <2>3. Spending'
    BY <1>3, <1>8 DEF Spending, Asking, Run!Cost
  <2>4. RequestsByAttempt'
    <3>1. PICK n \in Nat, c \in Nat, m \in Nat : n = s9 /\ c = b.calls /\ m = s1.maxRetries
      <4>1. s1.maxRetries \in Nat /\ s1.maxModelCalls \in Nat
        BY <1>1, ConfigFacts
      <4> QED
        BY <1>1, <4>1 DEF RunTypes, Budgets
    <3>2. PICK x \in Nat : x = c * (2 * (m + 1))
      BY OneCallMore
    <3>3. n <= x
      BY <3>1, <3>2 DEF PerCall
    <3>4. n + 1 <= x + 0 + 1 + (IF s3'.last THEN m + 1 ELSE 0)
      BY <3>3
    <3>5. s9' <= s4'.calls * (2 * (s1'.maxRetries + 1)) + s3'.attempt + 1
                 + (IF s3'.last THEN s1'.maxRetries + 1 ELSE 0)
      BY <1>8, <2>1, <3>1, <3>2, <3>4
    <3> QED
      BY <1>3, <1>8, <3>5 DEF RequestsByAttempt, PerCall
  <2>5. TraceIsOpen'
    BY <1>3, <1>4, <1>5, <1>8 DEF TraceIsOpen
  <2> QED
    BY <1>3, <1>8, <2>2, <2>3, <2>4, <2>5, RunGoesOn
<1>9. CASE /\ s7' = "runtime_error" /\ s2' = [asking EXCEPT !.pc = "ended"]
           /\ s6' = Run!Thrown(mode, shut) /\ s10' = "broken"
           /\ UNCHANGED <<s3, s9>>
  <2>1. s2' \in RunRecords /\ s2'.pc = "ended" /\ s2'.mode = mode
    BY <1>3, <1>9 DEF RunRecords
  <2>2. /\ s6' \in Traces /\ s6'.open = {} /\ s6'.root # "ok"
        /\ s6'.root = "open" => mode = "closing"
    BY <1>6, <1>9, ThrownTrace
  <2>3. Run!StopReasonIsReal'
    BY <1>9, <2>1, <2>2 DEF Run!StopReasonIsReal
  <2>4. s7' \in Run!StopReasons /\ s10' \in Run!FailureKinds \union {"none"}
    BY <1>9 DEF Run!StopReasons, Run!FailureKinds
  <2> QED
    BY <1>9, <2>1, <2>2, <2>3, <2>4, RunEnds
<1> QED
  BY <1>7, <1>8, <1>9

LEMMA BeginTurnKeeps == ASSUME RunInv, Run!BeginTurn PROVE RunInv'
<1> DEFINE stepped == [s4 EXCEPT !.steps = @ + 1]
<1>1. /\ RunTypes /\ s2.pc = "turn" /\ s2 \in RunRecords /\ s4 \in Budgets /\ s6 \in Traces
      /\ s2.step \in Nat /\ UNCHANGED <<s1, s5, s8>>
  BY RunFields DEF RunInv, RunTypes, Run!BeginTurn
<1>2. /\ s8 = s4.tokens /\ s4.tokens <= s1.guardTokens /\ s4.steps < s1.maxSteps
      /\ s2.mode = "normal" /\ s6.root = "open" /\ s9 <= s4.calls * PerCall
  BY <1>1 DEF RunInv, Spending, TraceIsOpen, RequestsByAttempt
<1>3. PICK b \in Budgets : b = stepped /\ b.tokens = s4.tokens /\ b.calls = s4.calls
  <2>1. s1.maxSteps \in Nat
    BY <1>1, ConfigFacts
  <2>2. stepped \in Budgets /\ stepped.tokens = s4.tokens /\ stepped.calls = s4.calls
    BY <1>1, <1>2, <2>1 DEF Budgets
  <2> QED
    BY <2>2
<1>4. CASE /\ s2.step = s1.loopSteps /\ Run!Stop("max_steps_reached")
           /\ s6' = Run!Thrown(s2.mode, s6)
           /\ UNCHANGED <<s3, s4, s9, s10>>
  <2>1. "max_steps_reached" \in Run!StopReasons \ {"completed"}
    BY DEF Run!StopReasons
  <2>2. /\ s2' \in RunRecords /\ s2'.pc = "ended" /\ s7' = "max_steps_reached" /\ s6' \in Traces
        /\ s2'.step = s2.step /\ s6'.root # "ok" /\ (s6'.root = "open" => s2'.mode = "closing")
        /\ s6'.open = {}
    BY <1>1, <1>2, <1>4, <2>1, ThrowsWithTrace
  <2>3. Run!StopReasonIsReal'
    BY <1>1, <1>4, <2>2 DEF Run!StopReasonIsReal
  <2>4. s7' \in Run!StopReasons /\ s10' \in Run!FailureKinds \union {"none"}
    BY <1>1, <1>4, <2>1, <2>2 DEF RunTypes
  <2> QED
    BY <1>1, <1>2, <1>4, <2>2, <2>3, <2>4, RunEnds
<1>5. CASE /\ Run!Exhausted(b) /\ Run!Stop("budget_exceeded")
           /\ s6' = Run!Thrown(s2.mode, s6) /\ s4' = b
           /\ UNCHANGED <<s3, s9, s10>>
  BY <1>1, <1>2, <1>3, <1>5, RunReachesLimit
<1>6. CASE ~Run!Exhausted(b) /\ s4' = b /\ Run!Invoke("normal", s2.step + 1, b)
  <2>1. b.tokens < s1.maxTokens /\ Run!Cost(b.tokens) < s1.maxCost
    <3>1. PICK c : c = Run!Cost(b.tokens)
      OBVIOUS
    <3>2. c \in Nat /\ s1.maxCost \in Nat /\ s1.maxTokens \in Nat /\ b.tokens \in Nat
      <4>1. s1.maxCost \in Nat /\ s1.maxTokens \in Nat /\ s1.price \in Nat
        BY <1>1, ConfigFacts
      <4>2. b.tokens \in Nat
        BY <4>1 DEF Budgets
      <4> QED
        BY <3>1, <4>1, <4>2, CostAdds
    <3>3. ~(b.tokens >= s1.maxTokens) /\ ~(c >= s1.maxCost)
      BY <1>6, <3>1, ExhaustedAt
    <3> QED
      BY <3>1, <3>2, <3>3
  <2>2. s2.step + 1 \in Nat
    BY <1>1
  <2> QED
    BY <1>1, <1>2, <1>3, <1>6, <2>1, <2>2, InvokeKeeps
<1> QED
  BY <1>3, <1>4, <1>5, <1>6 DEF Run!BeginTurn

\* throwIfRunCancelled, wherever it is called.
LEMMA CancelledKeeps == ASSUME RunInv, s2.pc # "ended", Run!Cancelled PROVE RunInv'
<1>1. /\ s5 /\ Run!Stop("cancelled") /\ s6' = Run!Thrown(s2.mode, s6)
      /\ UNCHANGED <<s1, s3, s4, s5, s8, s9, s10>>
  BY DEF Run!Cancelled
<1>2. s6 \in Traces /\ s6.root = "open" /\ s10' \in Run!FailureKinds \union {"none"}
  BY <1>1 DEF RunInv, RunTypes, TraceIsOpen
<1> QED
  BY <1>1, <1>2, RunBreaksOff

\* The invoker throws, with the span of the call failed.
LEMMA LLMThrowsKeeps ==
  ASSUME RunInv, s2.pc \in {"calling", "backoff"},
         NEW reason \in {"permission_denied", "deadline_exceeded", "runtime_error"},
         Run!LLMThrows(reason), UNCHANGED <<s1, s3, s4, s5, s8, s9>>,
         reason = "deadline_exceeded" => s10' = "timeout",
         s10' \in Run!FailureKinds \union {"none"}
  PROVE  RunInv'
<1>1. s6 \in Traces /\ s6.root = "open" /\ s6.open \subseteq {"llm"}
  BY DEF RunInv, RunTypes, TraceIsOpen, Asking
<1>2. PICK t \in Traces : t = Run!WithFailed(s6, {"llm"}) /\ t.root = "open" /\ t.open = {}
  <2>1. {"llm"} \in SUBSET (Run!Spans \union {"circuit"})
    BY DEF Run!Spans
  <2> QED
    BY <1>1, <2>1, TraceSteps
<1>3. Run!Stop(reason) /\ s6' = Run!Thrown(s2.mode, t)
  BY <1>2 DEF Run!LLMThrows
<1> QED
  BY <1>2, <1>3, RunBreaksOff

LEMMA AnswerKeeps == ASSUME RunInv, Run!Answer PROVE RunInv'
<1>1. /\ RunTypes /\ s2.pc = "calling" /\ s2 \in RunRecords
      /\ UNCHANGED <<s1, s3, s4, s5, s6, s7, s9, s10>>
  BY DEF RunInv, RunTypes, Run!Answer
<1>2. PICK u \in Usages, n \in 0..MaxTools :
        /\ s2' = [s2 EXCEPT !.pc = "answered", !.tools = n, !.usage = u] /\ s8' = s8 + u
  BY DEF Run!Answer
<1>3. s2' \in RunRecords /\ s2'.pc = "answered" /\ s2'.usage = u
  <2>1. PICK x : x = [s2 EXCEPT !.pc = "answered"]
    OBVIOUS
  <2>2. x \in RunRecords /\ x.pc = "answered"
    <3>1. x \in RunRecords
      BY <1>1, <2>1, RunFields
    <3> QED
      BY <1>1, <2>1, <3>1 DEF RunRecords
  <2>3. PICK y : y = [x EXCEPT !.tools = n]
    OBVIOUS
  <2>4. y \in RunRecords /\ y.pc = "answered"
    <3>1. y \in RunRecords
      BY <2>2, <2>3, RunFields
    <3> QED
      BY <2>2, <2>3, <3>1 DEF RunRecords
  <2>5. PICK z : z = [y EXCEPT !.usage = u]
    OBVIOUS
  <2>6. z \in RunRecords /\ z.pc = "answered" /\ z.usage = u
    <3>1. z \in RunRecords
      BY <2>4, <2>5, RunFields
    <3> QED
      BY <2>4, <2>5, <3>1 DEF RunRecords
  <2>7. s2' = z
    BY <1>2, <2>1, <2>3, <2>5
  <2> QED
    BY <2>6, <2>7
<1>4. /\ s8 = s4.tokens /\ s4.tokens < s1.maxTokens /\ s4.tokens <= s1.guardTokens
      /\ Run!Cost(s4.tokens) < s1.maxCost
  BY <1>1 DEF RunInv, Spending, Asking
<1>5. PICK big \in Nat : big = Run!BiggestUsage /\ u \in Nat /\ u <= big /\ Usages \subseteq Nat
  BY BiggestIsBiggest, AgentAssumption
<1>6. /\ s1.maxTokens \in Nat /\ s1.maxCost \in Nat /\ s1.guardTokens \in Nat /\ s1.price \in Nat
      /\ s8 \in Nat /\ s8 + u \in Nat
  BY <1>1, <1>5, ConfigFacts DEF RunTypes
<1>7. RunTypes'
  <2>1. /\ s8' \in Nat /\ s3' \in Invocations /\ s4' \in Budgets /\ s5' \in BOOLEAN
        /\ s6' \in Traces /\ s7' \in Run!StopReasons \union {"none"} /\ s9' \in Nat
        /\ s10' \in Run!FailureKinds \union {"none"}
    BY <1>1, <1>2, <1>6 DEF RunTypes
  <2> QED
    BY <1>1, <1>3, <2>1, TypesKept
<1>8. Spending'
  BY <1>1, <1>2, <1>3, <1>4 DEF Spending, Asking, Run!Cost
<1>9. RequestsByAttempt' /\ TraceIsOpen'
  BY <1>1, <1>3 DEF RunInv, RequestsByAttempt, TraceIsOpen, Asking, PerCall
<1>10. Run!SpendIsBounded'
  <2>1. s8 + u < s1.maxTokens + big /\ s8 + u <= s1.guardTokens + big
    BY <1>4, <1>5, <1>6
  <2>2. Run!Cost(s8 + u) < s1.maxCost + Run!Cost(big)
    <3>1. PICK a \in Nat, b \in Nat, c \in Nat :
            a = Run!Cost(s8) /\ b = Run!Cost(u) /\ c = Run!Cost(big)
      BY <1>5, <1>6, CostAdds
    <3>2. Run!Cost(s8 + u) = a + b /\ b <= c
      BY <1>5, <1>6, <3>1, CostAdds
    <3>3. a < s1.maxCost
      BY <1>4, <3>1
    <3>4. a + b < s1.maxCost + c
      BY <1>6, <3>2, <3>3
    <3> QED
      BY <3>1, <3>2, <3>4
  <2>3. s4.calls <= s1.maxModelCalls /\ s9 <= (s4.calls + 1) * (2 * (s1.maxRetries + 1))
    BY DEF RunInv, Run!SpendIsBounded
  <2> QED
    BY <1>1, <1>2, <1>5, <2>1, <2>2, <2>3 DEF Run!SpendIsBounded, Run!Cost, Run!BiggestUsage
<1>11. s7' = "none"
  BY <1>1 DEF RunInv
<1>12. Run!StopReasonIsReal'
  BY <1>11 DEF Run!StopReasonIsReal
<1> QED
  BY <1>3, <1>7, <1>8, <1>9, <1>10, <1>11, <1>12 DEF RunInv

\* An answer is charged within the limits, or refused.
LEMMA ChargeKeeps == ASSUME RunInv, Run!Charge PROVE RunInv'
<1> DEFINE charged == [s4 EXCEPT !.calls = @ + 1, !.tokens = @ + s2.usage]
<1> DEFINE answers == s2.mode = "closing" \/ s2.tools = 0
<1>1. /\ RunTypes /\ s2.pc = "answered" /\ s2 \in RunRecords /\ s4 \in Budgets /\ s6 \in Traces
      /\ s2.step \in Nat /\ s2.usage \in Nat /\ UNCHANGED <<s1, s5, s8>>
  BY RunFields DEF RunInv, RunTypes, Run!Charge, Run!AnswerTaken
<1>2. /\ s8 = s4.tokens + s2.usage /\ s4.tokens <= s1.guardTokens
      /\ s6.root = "open" /\ s9 <= (s4.calls + 1) * PerCall
  BY <1>1 DEF RunInv, Spending, TraceIsOpen, Run!SpendIsBounded, PerCall
<1>3. /\ s1.maxSteps \in Nat /\ s1.maxModelCalls \in Nat /\ s1.maxTokens \in Nat
      /\ s1.maxCost \in Nat /\ s1.price \in Nat /\ s1.guardTokens \in Nat
  BY <1>1, ConfigFacts
<1>4. s4.steps \in Nat /\ s4.calls \in Nat /\ s4.tokens \in Nat
  BY <1>1, <1>3 DEF Budgets
<1>5. PICK c \in Nat : c = Run!Cost(s8)
  <2>1. s8 \in Nat
    BY <1>1 DEF RunTypes
  <2> QED
    BY <1>3, <2>1, CostAdds
\* What is charged unless the answer is refused.
<1>6. ASSUME ~Run!Refuses(s2.usage)
      PROVE  /\ charged \in Budgets /\ charged.tokens = s8 /\ charged.steps = s4.steps
             /\ charged.calls = s4.calls + 1
             /\ s8 <= s1.maxTokens /\ s8 <= s1.guardTokens /\ c <= s1.maxCost
  <2>1. ~(s4.calls + 1 > s1.maxModelCalls) /\ ~(s8 > s1.maxTokens) /\ ~(s8 > s1.guardTokens)
        /\ ~(c > s1.maxCost)
    BY <1>2, <1>5, <1>6 DEF Run!Refuses, Run!Overdrawn
  <2>2. s8 \in Nat
    BY <1>2, <1>1, <1>4
  <2>3. PICK k \in 0..s1.maxModelCalls, n \in 0..s1.maxTokens : k = s4.calls + 1 /\ n = s8
    BY <1>3, <1>4, <2>1, <2>2
  <2>4. charged = [s4 EXCEPT !.calls = k, !.tokens = n]
    BY <1>2, <2>3
  <2>5. /\ charged \in Budgets /\ charged.tokens = n /\ charged.steps = s4.steps
        /\ charged.calls = k
    BY <1>1, <2>4 DEF Budgets
  <2> QED
    BY <1>3, <1>5, <2>1, <2>2, <2>3, <2>5
<1>7. CASE /\ Run!Refuses(s2.usage) /\ Run!Stop("budget_exceeded")
           /\ s6' = Run!Thrown(s2.mode, s6) /\ UNCHANGED <<s3, s4, s9, s10>>
  <2>1. \/ s4.calls + 1 > s1.maxModelCalls
        \/ s8 > s1.maxTokens \/ s8 > s1.guardTokens \/ Run!Cost(s8) > s1.maxCost
    BY <1>2, <1>7 DEF Run!Refuses, Run!Overdrawn
  <2>2. ASSUME s4.calls + 1 > s1.maxModelCalls PROVE Run!Exhausted(s4)
    <3>1. s4.calls >= s1.maxModelCalls
      BY <1>3, <1>4, <2>2
    <3> QED
      BY <3>1, ExhaustedAt
  <2> QED
    BY <1>1, <1>2, <1>7, <2>1, <2>2, RunReachesLimit
<1>8. CASE /\ ~Run!Refuses(s2.usage) /\ answers /\ s4' = charged /\ Run!Stop("completed")
           /\ s6' = Run!Finished(s6, "ok") /\ UNCHANGED <<s3, s9, s10>>
  <2>1. s7' = "completed" /\ s2' = [s2 EXCEPT !.pc = "ended"]
    BY <1>8 DEF Run!Stop
  <2>2. s2' \in RunRecords /\ s2'.pc = "ended" /\ s2'.mode = s2.mode /\ s2'.tools = s2.tools
    BY <1>1, <2>1 DEF RunRecords
  <2>3. s6' \in Traces /\ s6'.open = {} /\ s6'.root = "ok"
    BY <1>1, <1>8, <2>1, TraceSteps
  <2>4. Run!StopReasonIsReal'
    BY <1>1, <1>5, <1>6, <1>8, <2>1, <2>2, <2>3 DEF Run!StopReasonIsReal, Run!Cost
  <2>5. s7' \in Run!StopReasons /\ s10' \in Run!FailureKinds \union {"none"}
    BY <1>1, <1>8, <2>1 DEF Run!StopReasons, RunTypes
  <2> QED
    BY <1>1, <1>6, <1>8, <2>2, <2>3, <2>4, <2>5, RunEnds
<1>9. ASSUME ~Run!Exhausted(charged), ~Run!Refuses(s2.usage)
      PROVE  /\ charged.steps < s1.maxSteps /\ charged.tokens < s1.maxTokens
             /\ Run!Cost(charged.tokens) < s1.maxCost
  <2>1. /\ ~(charged.steps >= s1.maxSteps) /\ ~(charged.tokens >= s1.maxTokens)
        /\ ~(Run!Cost(charged.tokens) >= s1.maxCost)
    BY <1>9, ExhaustedAt
  <2> QED
    BY <1>1, <1>2, <1>3, <1>4, <1>5, <1>6, <1>9, <2>1
<1>10. CASE /\ ~Run!Refuses(s2.usage) /\ ~answers /\ Run!Warning(charged) /\ s4' = charged
            /\ Run!Invoke("closing", s2.step, charged)
  <2>1. ~Run!Exhausted(charged)
    BY <1>10 DEF Run!Warning
  <2>2. PICK b \in Budgets : b = charged
    BY <1>6, <1>10
  <2> QED
    BY <1>1, <1>2, <1>6, <1>9, <1>10, <2>1, <2>2, InvokeKeeps
<1>11. CASE /\ ~Run!Refuses(s2.usage) /\ Run!Exhausted(charged) /\ s4' = charged
            /\ Run!Stop("budget_exceeded") /\ s6' = Run!Thrown(s2.mode, s6)
            /\ UNCHANGED <<s3, s9, s10>>
  <2>1. PICK b \in Budgets : b = charged
    BY <1>6, <1>11
  <2> QED
    BY <1>1, <1>6, <1>11, <2>1, RunReachesLimit
<1>12. CASE /\ ~Run!Refuses(s2.usage) /\ ~answers /\ ~Run!Exhausted(charged) /\ s4' = charged
            /\ s2' = [s2 EXCEPT !.pc = "tools"] /\ s6' = [s6 EXCEPT !.open = {}]
            /\ UNCHANGED <<s3, s7, s9, s10>>
  <2>1. s2' \in RunRecords
    BY <1>1, <1>12, RunFields
  <2>2. s2'.pc = "tools" /\ s2'.mode = "normal" /\ s2'.tools # 0
    BY <1>1, <1>12, <2>1 DEF RunRecords
  <2>3. s6' \in Traces
    BY <1>1, <1>12, TraceFields
  <2>4. RunTypes'
    <3>1. /\ s3' \in Invocations /\ s5' \in BOOLEAN /\ s7' \in Run!StopReasons \union {"none"}
          /\ s8' \in Nat /\ s9' \in Nat /\ s10' \in Run!FailureKinds \union {"none"}
      BY <1>1, <1>12 DEF RunTypes
    <3>2. s4' \in Budgets
      BY <1>6, <1>12
    <3> QED
      BY <1>1, <2>1, <2>3, <3>1, <3>2, TypesKept
  <2>5. Spending'
    <3>1. s4'.steps < s1'.maxSteps /\ s4'.tokens <= s1'.guardTokens /\ s8' = s4'.tokens
      BY <1>1, <1>6, <1>9, <1>12
    <3> QED
      BY <2>2, <3>1 DEF Spending, Asking
  <2>6. RequestsByAttempt' /\ TraceIsOpen'
    <3>1. s9' <= s4'.calls * PerCall'
      BY <1>1, <1>2, <1>6, <1>12 DEF PerCall
    <3>2. s6'.open = {} /\ s6'.root = "open"
      BY <1>1, <1>2, <1>12 DEF Traces
    <3> QED
      BY <2>2, <3>1, <3>2 DEF RequestsByAttempt, TraceIsOpen, Asking
  <2> QED
    BY <1>1, <1>12, <2>2, <2>4, <2>5, <2>6, RunGoesOn
<1> QED
  BY <1>7, <1>8, <1>10, <1>11, <1>12 DEF Run!Charge

\* A further request: another attempt, or the first one at the fallback.
LEMMA RequestKeeps ==
  ASSUME RunInv, s2.pc \in {"calling", "backoff"}, s2' = [s2 EXCEPT !.pc = "calling"],
         s9' = s9 + 1, UNCHANGED <<s1, s4, s5, s6, s7, s8>>,
         s10' \in Run!FailureKinds \union {"none"},
         \/ /\ s3.attempt < s1.maxRetries /\ s3' = [s3 EXCEPT !.attempt = @ + 1]
         \/ /\ ~s3.last /\ s1.fallback \in Run!Providers
            /\ s3' = [provider |-> s1.fallback, attempt |-> 0, last |-> TRUE]
  PROVE  RunInv'
<1>1. RunTypes /\ s2 \in RunRecords /\ s3 \in Invocations /\ s1.maxRetries \in Nat
  BY ConfigFacts DEF RunInv, RunTypes
<1>2. s2' \in RunRecords /\ s2'.pc = "calling"
  <2>1. s2' \in RunRecords
    BY <1>1, RunFields
  <2> QED
    BY <1>1, <2>1 DEF RunRecords
<1>3. PICK n \in Nat, a \in Nat, m \in Nat :
        /\ n = s9 /\ a = s3.attempt /\ m = s1.maxRetries /\ a <= m /\ s3.last \in BOOLEAN
  BY <1>1 DEF RunTypes, RunInv, Invocations
<1>8. PICK x \in Nat :
        /\ x = s4.calls * PerCall /\ n <= x + a + 1 + (IF s3.last THEN m + 1 ELSE 0)
  <2>1. s4.calls \in Nat
    <3>1. s1.maxModelCalls \in Nat
      BY <1>1, ConfigFacts
    <3> QED
      BY <1>1, <3>1 DEF RunTypes, Budgets
  <2>2. s4.calls * (2 * (s1.maxRetries + 1)) \in Nat
    BY <1>1, <2>1, OneCallMore
  <2> QED
    BY <1>3, <2>2 DEF PerCall, RunInv, RequestsByAttempt, Asking
<1>4. /\ s3' \in Invocations
      /\ s9' <= x + s3'.attempt + 1 + (IF s3'.last THEN m + 1 ELSE 0)
  <2>1. CASE s3.attempt < s1.maxRetries /\ s3' = [s3 EXCEPT !.attempt = @ + 1]
    <3>1. PICK k \in 0..s1.maxRetries : k = a + 1
      BY <1>1, <1>3, <2>1
    <3>2. s3' = [s3 EXCEPT !.attempt = k]
      BY <1>3, <2>1, <3>1
    <3>3. s3' \in Invocations /\ s3'.attempt = k /\ s3'.last = s3.last
      BY <1>1, <3>2 DEF Invocations
    <3>4. n + 1 <= x + k + 1 + (IF s3.last THEN m + 1 ELSE 0)
      BY <1>3, <1>8, <3>1
    <3> QED
      BY <1>3, <3>3, <3>4
  <2>2. CASE /\ ~s3.last /\ s1.fallback \in Run!Providers
             /\ s3' = [provider |-> s1.fallback, attempt |-> 0, last |-> TRUE]
    <3>1. s3' \in Invocations /\ s3'.attempt = 0 /\ s3'.last
      BY <1>1, <2>2 DEF Invocations
    <3>2. n + 1 <= x + 0 + 1 + (m + 1)
      BY <1>3, <1>8, <2>2
    <3> QED
      BY <1>3, <3>1, <3>2
  <2> QED
    BY <2>1, <2>2
<1>5. RunTypes'
  <2>1. /\ s4' \in Budgets /\ s5' \in BOOLEAN /\ s6' \in Traces
        /\ s7' \in Run!StopReasons \union {"none"} /\ s8' \in Nat
    BY <1>1 DEF RunTypes
  <2>2. s9' \in Nat
    BY <1>3
  <2> QED
    BY <1>1, <1>2, <1>4, <2>1, <2>2, TypesKept
<1>6. Spending'
  BY <1>2 DEF RunInv, Spending, Asking, Run!Cost
<1>7. RequestsByAttempt' /\ TraceIsOpen'
  <2>1. s4'.calls * PerCall' = x
    BY <1>8 DEF PerCall
  <2>2. RequestsByAttempt'
    BY <1>2, <1>3, <1>4, <2>1 DEF RequestsByAttempt, Asking
  <2>3. TraceIsOpen'
    BY <1>2 DEF RunInv, TraceIsOpen, Asking
  <2> QED
    BY <2>2, <2>3
<1> QED
  BY <1>2, <1>5, <1>6, <1>7, RunGoesOn

LEMMA AttemptFailsKeeps == ASSUME RunInv, Run!AttemptFails PROVE RunInv'
<1>1. /\ RunTypes /\ s2.pc = "calling" /\ s2 \in RunRecords /\ s3 \in Invocations
      /\ UNCHANGED <<s1, s4, s5, s8>>
  BY DEF RunInv, RunTypes, Run!AttemptFails, Run!Timed
<1>2. PICK kind \in Run!FailureKinds :
        /\ s10' = kind
        /\ \/ /\ Run!MayRetry(kind)
              /\ s2' = [s2 EXCEPT !.pc = "backoff"]
              /\ UNCHANGED <<s3, s6, s7, s9>>
           \/ /\ ~Run!MayRetry(kind) /\ Run!MayFallBack(kind)
              /\ s3' = [provider |-> s1.fallback, attempt |-> 0, last |-> TRUE]
              /\ s9' = s9 + 1
              /\ UNCHANGED <<s2, s6, s7>>
           \/ /\ ~Run!MayRetry(kind) /\ ~Run!MayFallBack(kind)
              /\ Run!LLMThrows(IF s5 /\ ~s3.last THEN "runtime_error" ELSE Run!StopReason(kind))
              /\ UNCHANGED <<s3, s9>>
  BY DEF Run!AttemptFails
<1>3. CASE Run!MayRetry(kind) /\ s2' = [s2 EXCEPT !.pc = "backoff"] /\ UNCHANGED <<s3, s6, s7, s9>>
  <2>1. s2' \in RunRecords /\ s2'.pc = "backoff"
    <3>1. s2' \in RunRecords
      BY <1>1, <1>3, RunFields
    <3> QED
      BY <1>1, <1>3, <3>1 DEF RunRecords
  <2>2. RunTypes'
    <3>1. /\ s3' \in Invocations /\ s4' \in Budgets /\ s5' \in BOOLEAN /\ s6' \in Traces
          /\ s7' \in Run!StopReasons \union {"none"} /\ s8' \in Nat /\ s9' \in Nat
          /\ s10' \in Run!FailureKinds \union {"none"}
      BY <1>1, <1>2, <1>3 DEF RunTypes
    <3> QED
      BY <1>1, <2>1, <3>1, TypesKept
  <2>3. Spending'
    BY <1>1, <2>1 DEF RunInv, Spending, Asking, Run!Cost
  <2>4. RequestsByAttempt' /\ TraceIsOpen'
    BY <1>1, <1>3, <2>1
       DEF RunInv, RequestsByAttempt, TraceIsOpen, Asking, PerCall, Run!MayRetry
  <2> QED
    BY <1>1, <1>3, <2>1, <2>2, <2>3, <2>4, RunGoesOn
<1>4. CASE /\ Run!MayFallBack(kind) /\ s9' = s9 + 1 /\ UNCHANGED <<s2, s6, s7>>
           /\ s3' = [provider |-> s1.fallback, attempt |-> 0, last |-> TRUE]
  <2>1. ~s3.last /\ s1.fallback \in Run!Providers
    <3>1. s1.fallback \in Run!Providers \union {"none"}
      BY <1>1, ConfigFacts
    <3> QED
      BY <1>4, <3>1 DEF Run!MayFallBack, Run!HasFallback
  <2>2. s2' = [s2 EXCEPT !.pc = "calling"] /\ s10' \in Run!FailureKinds \union {"none"}
    BY <1>1, <1>2, <1>4 DEF RunRecords
  <2> QED
    BY <1>1, <1>4, <2>1, <2>2, RequestKeeps
<1>5. CASE /\ Run!LLMThrows(IF s5 /\ ~s3.last THEN "runtime_error" ELSE Run!StopReason(kind))
           /\ UNCHANGED <<s3, s9>>
  <2>1. PICK reason \in {"permission_denied", "deadline_exceeded", "runtime_error"} :
          /\ reason = (IF s5 /\ ~s3.last THEN "runtime_error" ELSE Run!StopReason(kind))
          /\ reason = "deadline_exceeded" => kind = "timeout"
    BY DEF Run!StopReason
  <2> QED
    BY <1>1, <1>2, <1>5, <2>1, LLMThrowsKeeps
<1> QED
  BY <1>2, <1>3, <1>4, <1>5

LEMMA RequestAbortedKeeps == ASSUME RunInv, Run!RequestAborted PROVE RunInv'
<1>1. /\ s2.pc = "calling" /\ Run!LLMThrows("runtime_error")
      /\ UNCHANGED <<s1, s3, s4, s5, s8, s9, s10>>
  BY DEF Run!RequestAborted
<1>2. s10' \in Run!FailureKinds \union {"none"}
  BY <1>1 DEF RunInv, RunTypes
<1> QED
  BY <1>1, <1>2, LLMThrowsKeeps

LEMMA RetryKeeps == ASSUME RunInv, Run!Retry PROVE RunInv'
<1>1. /\ s2.pc = "backoff" /\ UNCHANGED <<s1, s4, s5, s8, s10>>
      /\ s10' \in Run!FailureKinds \union {"none"} /\ s3.attempt < s1.maxRetries
  BY DEF Run!Retry, RunInv, RunTypes, RequestsByAttempt
<1>2. CASE s5
  <2>1. Run!LLMThrows("runtime_error") /\ UNCHANGED <<s3, s9>>
    BY <1>2 DEF Run!Retry
  <2> QED
    BY <1>1, <2>1, LLMThrowsKeeps
<1>3. CASE ~s5
  <2>1. /\ s2' = [s2 EXCEPT !.pc = "calling"] /\ s3' = [s3 EXCEPT !.attempt = @ + 1]
        /\ s9' = s9 + 1 /\ UNCHANGED <<s6, s7>>
    BY <1>3 DEF Run!Retry
  <2> QED
    BY <1>1, <2>1, RequestKeeps
<1> QED
  BY <1>2, <1>3

\* A step that neither charges nor asks, and does not end the run.
LEMMA ToolStepKeeps ==
  ASSUME RunInv, s2.pc \in {"tools", "tool"}, s2' \in RunRecords,
         s2'.pc \in {"turn", "tools", "tool"}, s2'.mode = s2.mode,
         s2'.pc \in {"tools", "tool"} => s2'.tools # 0,
         s6' \in Traces, s6'.root = "open", s2'.pc # "tool" => s6'.open = {},
         UNCHANGED <<s1, s3, s4, s5, s7, s8, s9, s10>>
  PROVE  RunInv'
<1>1. RunTypes'
  <2>1. /\ RunTypes /\ s3' \in Invocations /\ s4' \in Budgets /\ s5' \in BOOLEAN
        /\ s7' \in Run!StopReasons \union {"none"} /\ s8' \in Nat /\ s9' \in Nat
        /\ s10' \in Run!FailureKinds \union {"none"}
    BY DEF RunInv, RunTypes
  <2> QED
    BY <2>1, TypesKept
<1>2. Spending'
  BY DEF RunInv, Spending, Asking
<1>3. RequestsByAttempt' /\ TraceIsOpen'
  BY DEF RunInv, RequestsByAttempt, TraceIsOpen, Asking, PerCall
<1> QED
  BY <1>1, <1>2, <1>3, RunGoesOn

LEMMA ToolsKeep == ASSUME RunInv, Run!StartTool \/ Run!ToolReturns PROVE RunInv'
<1>1. s2 \in RunRecords /\ s6 \in Traces /\ (s2.pc # "ended" => s6.root = "open")
  BY DEF RunInv, RunTypes, TraceIsOpen
<1>2. CASE Run!StartTool
  <2>1. /\ s2.pc = "tools" /\ s2' = [s2 EXCEPT !.pc = "tool"]
        /\ s6' = [Run!WithSpan(s6, "tool") EXCEPT !.tools = @ + 1]
        /\ UNCHANGED <<s1, s3, s4, s5, s7, s8, s9, s10>> /\ s2.tools # 0
    BY <1>2 DEF Run!StartTool, RunInv, Spending
  <2>2. s2' \in RunRecords
    BY <1>1, <2>1, RunFields
  <2>3. s2'.pc = "tool" /\ s2'.mode = s2.mode /\ s2'.tools # 0
    BY <1>1, <2>1, <2>2 DEF RunRecords
  <2>4. s6' \in Traces /\ s6'.root = "open"
    <3>1. PICK t \in Traces : t = Run!WithSpan(s6, "tool") /\ t.root = "open"
      BY <1>1, <2>1, TraceSteps DEF Run!Spans
    <3>2. PICK n \in Nat : n = t.tools + 1
      <4>1. t.tools \in Nat
        BY <3>1 DEF Traces
      <4> QED
        BY <4>1
    <3>3. s6' = [t EXCEPT !.tools = n]
      BY <2>1, <3>1, <3>2
    <3>4. s6' \in Traces
      BY <3>1, <3>3, TraceFields
    <3> QED
      BY <3>1, <3>3, <3>4 DEF Traces
  <2> QED
    BY <2>1, <2>2, <2>3, <2>4, ToolStepKeeps
<1>3. CASE Run!ToolReturns
  <2>1. /\ s2.pc = "tool" /\ s6' = [s6 EXCEPT !.open = {}] /\ s2.tools # 0
        /\ s2' = [s2 EXCEPT !.tools = @ - 1, !.pc = IF s2.tools = 1 THEN "turn" ELSE "tools"]
        /\ UNCHANGED <<s1, s3, s4, s5, s7, s8, s9, s10>>
    BY <1>3 DEF Run!ToolReturns, RunInv, Spending
  <2>2. PICK n \in 0..MaxTools : n = s2.tools - 1 /\ (s2.tools # 1 => n # 0)
    BY <1>1, <2>1, Bounds DEF RunRecords
  <2>3. PICK pc \in {"turn", "tools"} : pc = IF s2.tools = 1 THEN "turn" ELSE "tools"
    OBVIOUS
  <2>4. PICK x : x = [s2 EXCEPT !.tools = n]
    OBVIOUS
  <2>5. x \in RunRecords /\ x.tools = n /\ x.mode = s2.mode
    <3>1. x \in RunRecords
      BY <1>1, <2>4, RunFields
    <3> QED
      BY <1>1, <2>4, <3>1 DEF RunRecords
  <2>6. s2' = [x EXCEPT !.pc = pc]
    BY <2>1, <2>2, <2>3, <2>4
  <2>7. s2' \in RunRecords
    BY <2>5, <2>6, RunFields
  <2>8. s2'.pc = pc /\ s2'.tools = n /\ s2'.mode = s2.mode
    BY <2>5, <2>6, <2>7 DEF RunRecords
  <2>9. s6' \in Traces /\ s6'.root = "open" /\ s6'.open = {}
    <3>1. s6' \in Traces
      BY <1>1, <2>1, TraceFields
    <3> QED
      BY <1>1, <2>1, <3>1 DEF Traces
  <2> QED
    BY <2>1, <2>2, <2>3, <2>7, <2>8, <2>9, ToolStepKeeps
<1> QED
  BY <1>2, <1>3

LEMMA ToolFailsKeeps == ASSUME RunInv, Run!ToolFails PROVE RunInv'
<1>1. /\ s2.pc = "tool" /\ UNCHANGED <<s1, s3, s4, s5, s8, s9>> /\ s2.mode = "normal"
      /\ s6 \in Traces /\ s6.root = "open"
  BY DEF Run!ToolFails, RunInv, RunTypes, Spending, TraceIsOpen
<1>2. PICK kind \in {"denied", "broken"} :
        /\ s10' = kind /\ Run!Stop(Run!StopReason(kind))
        /\ s6' = Run!Thrown(s2.mode, Run!WithFailed(s6, {"tool"}))
  BY DEF Run!ToolFails
<1>3. PICK reason \in {"permission_denied", "runtime_error"} : reason = Run!StopReason(kind)
  BY DEF Run!StopReason
<1>4. PICK t \in Traces : t = Run!WithFailed(s6, {"tool"}) /\ t.root = "open"
  BY <1>1, TraceSteps DEF Run!Spans
<1>5. kind \in Run!FailureKinds \union {"none"}
  BY DEF Run!FailureKinds
<1> QED
  BY <1>1, <1>2, <1>3, <1>4, <1>5, RunBreaksOff

LEMMA AbortKeeps == ASSUME RunInv, Run!Abort PROVE RunInv'
<1>1. s5' = TRUE /\ s2.pc # "ended" /\ UNCHANGED <<s1, s2, s3, s4, s6, s7, s8, s9, s10>>
  BY DEF Run!Abort
<1>2. RunTypes'
  <2>1. /\ RunTypes /\ s2' \in RunRecords /\ s3' \in Invocations /\ s4' \in Budgets
        /\ s6' \in Traces /\ s7' \in Run!StopReasons \union {"none"} /\ s8' \in Nat
        /\ s9' \in Nat /\ s10' \in Run!FailureKinds \union {"none"}
    BY <1>1 DEF RunInv, RunTypes
  <2> QED
    BY <1>1, <2>1, TypesKept
<1>3. Spending'
  BY <1>1 DEF RunInv, Spending, Asking, Run!Cost
<1>4. RequestsByAttempt' /\ TraceIsOpen'
  BY <1>1 DEF RunInv, RequestsByAttempt, TraceIsOpen, Asking, PerCall
<1> QED
  BY <1>1, <1>2, <1>3, <1>4, RunGoesOn

LEMMA RunStep == ASSUME RunInv, Run!Next PROVE RunInv'
<1>1. CASE Run!Loop
  <2>1. CASE Run!CancelTurn \/ Run!CancelAnswer \/ Run!CancelTools
    <3>1. s2.pc # "ended" /\ Run!Cancelled
      BY <2>1 DEF Run!CancelTurn, Run!CancelAnswer, Run!CancelTools
    <3> QED
      BY <3>1, CancelledKeeps
  <2> QED
    BY <1>1, <2>1, BeginTurnKeeps, ChargeKeeps, ToolsKeep DEF Run!Loop
<1>2. CASE Run!Requests
  BY <1>2, AnswerKeeps, AttemptFailsKeeps, RequestAbortedKeeps, RetryKeeps DEF Run!Requests
<1>3. CASE Run!Tools
  <2>1. CASE Run!CancelObservation
    <3>1. s2.pc # "ended" /\ Run!Cancelled
      BY <2>1 DEF Run!CancelObservation
    <3> QED
      BY <3>1, CancelledKeeps
  <2> QED
    BY <1>3, <2>1, ToolsKeep, ToolFailsKeeps DEF Run!Tools
<1> QED
  BY <1>1, <1>2, <1>3, AbortKeeps DEF Run!Next

LEMMA RunBegins == ASSUME Run!Init PROVE RunInv
<1>1. /\ s1 \in Configs /\ Run!Loaded(s1)
      /\ s2 = [pc |-> "turn", step |-> 0, mode |-> "normal", tools |-> 0, usage |-> 0]
      /\ s3 = [provider |-> "primary", attempt |-> 0, last |-> FALSE]
      /\ s4 = [steps |-> 0, calls |-> 0, tokens |-> 0] /\ s5 = FALSE
      /\ s6 = [open |-> {}, failed |-> {}, tools |-> 0, root |-> "open"]
      /\ s7 = "none" /\ s8 = 0 /\ s9 = 0 /\ s10 = "none"
  BY DEF Run!Init
<1>2. /\ {s1.maxSteps, s1.loopSteps, s1.maxModelCalls, s1.maxTokens, s1.price,
          s1.maxCost, s1.guardTokens, s1.maxRetries} \subseteq Nat
      /\ \A n \in {s1.maxSteps, s1.maxModelCalls, s1.maxTokens, s1.maxCost, s1.maxRetries} : n > 0
  BY <1>1, AgentAssumption DEF Run!Loaded
<1>3. /\ s1.maxSteps \in Nat /\ s1.maxModelCalls \in Nat /\ s1.maxTokens \in Nat
      /\ s1.maxCost \in Nat /\ s1.maxRetries \in Nat /\ s1.guardTokens \in Nat /\ s1.price \in Nat
  BY <1>2
<1>4. s1.maxSteps > 0 /\ s1.maxTokens > 0 /\ s1.maxCost > 0
  BY <1>2
<1>5. RunTypes
  <2>1. s2 \in RunRecords
    BY <1>1, Bounds DEF RunRecords
  <2>2. s3 \in Invocations
    BY <1>1, <1>3 DEF Invocations, Run!Providers
  <2>3. s4 \in Budgets
    BY <1>1, <1>3 DEF Budgets
  <2>4. s6 \in Traces
    BY <1>1 DEF Traces
  <2> QED
    BY <1>1, <2>1, <2>2, <2>3, <2>4 DEF RunTypes
<1>6. Spending
  <2>1. s2.pc = "turn" /\ s2.mode = "normal" /\ s4.steps = 0 /\ s4.tokens = 0 /\ s8 = 0
    BY <1>1
  <2> QED
    BY <1>3, <1>4, <2>1 DEF Spending, Asking
<1>7. RequestsByAttempt /\ TraceIsOpen
  <2>1. s2.pc = "turn" /\ s9 = 0 /\ s4.calls = 0 /\ s6.open = {} /\ s6.root = "open"
    BY <1>1
  <2>2. PICK m \in Nat : m = s1.maxRetries
    BY <1>3
  <2>3. 0 <= 0 * (2 * (m + 1))
    OBVIOUS
  <2> QED
    BY <2>1, <2>2, <2>3 DEF RequestsByAttempt, TraceIsOpen, PerCall, Asking
<1>8. Run!SpendIsBounded
  <2>1. PICK big \in Nat : big = Run!BiggestUsage
    BY BiggestIsBiggest, AgentAssumption
  <2>2. PICK c \in Nat : c = Run!Cost(big) /\ Run!Cost(0) = 0
    BY <1>3, <2>1, CostAdds
  <2>3. 0 < s1.maxTokens + big /\ 0 < s1.maxCost + c /\ 0 <= s1.guardTokens + big
    BY <1>3, <1>4
  <2>4. s9 <= (s4.calls + 1) * (2 * (s1.maxRetries + 1)) /\ s4.calls <= s1.maxModelCalls
    <3>1. PICK m \in Nat : m = s1.maxRetries
      BY <1>3
    <3>2. 0 <= (0 + 1) * (2 * (m + 1))
      OBVIOUS
    <3>3. s9 = 0 /\ s4.calls = 0
      BY <1>1
    <3> QED
      BY <1>3, <3>1, <3>2, <3>3
  <2> QED
    BY <1>1, <2>1, <2>2, <2>3, <2>4 DEF Run!SpendIsBounded
<1> QED
  BY <1>1, <1>5, <1>6, <1>7, <1>8 DEF RunInv, Run!StopReasonIsReal

LEMMA RunAlways == Spec => [](part = "run" => RunInv)
<1>1. Init => (part = "run" => RunInv)
  <2> SUFFICES ASSUME Run!Init PROVE RunInv
    BY DEF Init
  <2> QED
    BY RunBegins
<1>2. (part = "run" => RunInv) /\ [Next]_vars => (part = "run" => RunInv)'
  <2> SUFFICES ASSUME part = "run" => RunInv, [Next]_vars, part' = "run"
               PROVE  RunInv'
    OBVIOUS
  <2>1. CASE Next
    <3>1. part = "run" /\ Run!Next
      BY <2>1 DEF Next
    <3> QED
      BY <3>1, RunStep
  <2>2. CASE UNCHANGED vars
    <3>1. part = "run" /\ RunInv /\ UNCHANGED <<s1, s2, s3, s4, s5, s6, s7, s8, s9, s10>>
      BY <2>2 DEF vars
    <3> QED
      BY <3>1 DEF RunInv, RunTypes, Invocations, Budgets, Spending, Asking, RequestsByAttempt,
         PerCall, TraceIsOpen, Run!Loaded, Run!SpendIsBounded, Run!StopReasonIsReal, Run!Cost, Run!Exhausted, Run!Shares
  <2> QED
    BY <2>1, <2>2
<1> QED
  BY <1>1, <1>2, PTL DEF Spec

\* Whatever retries, fallbacks and the closing call add, a run spends less than its limits
\* plus one answer, and begins a bounded number of requests for each call it is
\* charged for and the one it may break off (llm-invoker.ts, budget-policy.ts).
THEOREM RunSpendsWithinLimits == Spec => []SpendIsBounded
<1>1. RunInv => Run!TypeOK /\ Run!SpendIsBounded
  <2> SUFFICES ASSUME RunInv PROVE Run!TypeOK
    BY DEF RunInv
  <2> QED
    BY DEF RunInv, RunTypes, RunRecords, Invocations, Budgets, Traces, Run!TypeOK
<1>2. (part = "run" => RunInv) => SpendIsBounded
  BY <1>1 DEF SpendIsBounded
<1> QED
  BY <1>2, RunAlways, PTL

\* The stop reason that runStructured() answers with agrees with the budget, the signal and
\* the last failure; the trace says "ok" of completed runs only, only a closing call that
\* throws leaves it unfinished, and with an open span only if it was cancelled or refused
\* (agent-loop.ts: the closing call is returned without await).
THEOREM RunSaysWhyItStopped == Spec => []StopReasonIsReal
<1>1. (part = "run" => RunInv) => StopReasonIsReal
  BY DEF RunInv, StopReasonIsReal
<1> QED
  BY <1>1, RunAlways, PTL

\* What a step of the run leaves alone, whatever it is.
LEMMA StopsWithoutWork ==
  ASSUME RunInv, NEW reason, NEW t \in Traces, t.tools = s6.tools,
         Run!Stop(reason), s6' = Run!Thrown(s2.mode, t) \/ s6' = Run!Finished(t, "ok")
  PROVE  s6'.tools = s6.tools /\ s2'.step = s2.step
<1>1. s2 \in RunRecords /\ s2' = [s2 EXCEPT !.pc = "ended"]
  BY DEF RunInv, RunTypes, Run!Stop
<1>2. s2'.step = s2.step /\ s2.mode \in {"normal", "closing"}
  BY <1>1 DEF RunRecords
<1> QED
  BY <1>2, TraceSteps, ThrownTrace

LEMMA RunDoesNoNewWork == ASSUME RunInv, Run!Next PROVE Run!NoNewWork
<1>1. /\ s2 \in RunRecords /\ s6 \in Traces /\ s9 \in Nat
      /\ s2.pc \in {"turn", "tools", "tool"} => s2.mode = "normal"
  BY DEF RunInv, RunTypes, Spending
<1>2. \A reason : Run!LLMThrows(reason) => s6'.tools = s6.tools /\ s2'.step = s2.step
  <2> SUFFICES ASSUME NEW reason, Run!LLMThrows(reason)
               PROVE  s6'.tools = s6.tools /\ s2'.step = s2.step
    OBVIOUS
  <2>1. PICK t \in Traces : t = Run!WithFailed(s6, {"llm"}) /\ t.tools = s6.tools
    BY <1>1, TraceSteps DEF Run!Spans
  <2>2. Run!Stop(reason) /\ s6' = Run!Thrown(s2.mode, t)
    BY <2>1 DEF Run!LLMThrows
  <2> QED
    BY <2>1, <2>2, StopsWithoutWork
<1>3. \A reason :
        /\ Run!Stop(reason)
        /\ s6' = Run!Thrown(s2.mode, s6) \/ s6' = Run!Finished(s6, "ok")
        => s6'.tools = s6.tools /\ s2'.step = s2.step
  BY <1>1, StopsWithoutWork
<1>4. ASSUME Run!Cancelled PROVE Run!NoNewWork
  BY <1>1, <1>3, <1>4 DEF Run!Cancelled, Run!NoNewWork
<1>5. ASSUME Run!BeginTurn PROVE Run!NoNewWork
  <2> SUFFICES ASSUME s5 PROVE s9' = s9 /\ s6'.tools = s6.tools /\ s2'.step = s2.step
    BY <1>1, <1>5 DEF Run!NoNewWork, Run!BeginTurn
  <2> QED
    BY <1>3, <1>5 DEF Run!BeginTurn
<1>6. ASSUME Run!Charge PROVE Run!NoNewWork
  <2> SUFFICES ASSUME s2.mode = "closing" PROVE s6'.tools = s6.tools /\ s2'.step = s2.step
    BY <1>6 DEF Run!NoNewWork, Run!Charge, Run!AnswerTaken
  <2> QED
    BY <1>3, <1>6 DEF Run!Charge
<1>7. ASSUME Run!StartTool \/ Run!ToolReturns PROVE Run!NoNewWork
  BY <1>1, <1>7 DEF Run!StartTool, Run!ToolReturns, Run!NoNewWork
<1>8. ASSUME Run!ToolFails PROVE Run!NoNewWork
  <2>1. PICK kind \in {"denied", "broken"} :
          /\ Run!Stop(Run!StopReason(kind)) /\ UNCHANGED s9
          /\ s6' = Run!Thrown(s2.mode, Run!WithFailed(s6, {"tool"}))
    BY <1>8 DEF Run!ToolFails
  <2>2. PICK t \in Traces : t = Run!WithFailed(s6, {"tool"}) /\ t.tools = s6.tools
    BY <1>1, TraceSteps DEF Run!Spans
  <2>3. s6'.tools = s6.tools /\ s2'.step = s2.step
    BY <2>1, <2>2, StopsWithoutWork
  <2> QED
    BY <1>1, <2>1, <2>3 DEF Run!NoNewWork
<1>9. ASSUME Run!Answer PROVE Run!NoNewWork
  <2>1. PICK u \in Usages, n \in 0..MaxTools :
          s2' = [s2 EXCEPT !.pc = "answered", !.tools = n, !.usage = u]
    BY <1>9 DEF Run!Answer
  <2>2. s2'.step = s2.step
    BY <1>1, <2>1 DEF RunRecords
  <2> QED
    BY <1>1, <1>9, <2>2 DEF Run!Answer, Run!NoNewWork
<1>10. ASSUME Run!AttemptFails PROVE Run!NoNewWork
  <2>1. s2.step = [s2 EXCEPT !.pc = "backoff"].step
    BY <1>1 DEF RunRecords
  <2>2. s5 => s9' = s9
    BY <1>10 DEF Run!AttemptFails, Run!MayRetry, Run!MayFallBack
  <2>3. s6'.tools = s6.tools /\ s2'.step = s2.step
    BY <1>2, <1>10, <2>1 DEF Run!AttemptFails
  <2> QED
    BY <1>1, <2>2, <2>3 DEF Run!NoNewWork
<1>11. ASSUME Run!RequestAborted PROVE Run!NoNewWork
  BY <1>1, <1>2, <1>11 DEF Run!RequestAborted, Run!NoNewWork
<1>12. ASSUME Run!Retry PROVE Run!NoNewWork
  <2>1. s2.step = [s2 EXCEPT !.pc = "calling"].step
    BY <1>1 DEF RunRecords
  <2>2. s6'.tools = s6.tools /\ s2'.step = s2.step
    BY <1>2, <1>12, <2>1 DEF Run!Retry
  <2>3. s5 => s9' = s9
    BY <1>12 DEF Run!Retry
  <2> QED
    BY <1>1, <2>2, <2>3 DEF Run!NoNewWork
<1>13. ASSUME Run!Abort PROVE Run!NoNewWork
  BY <1>1, <1>13 DEF Run!Abort, Run!NoNewWork
<1>14. CASE Run!Loop
  BY <1>4, <1>5, <1>6, <1>7, <1>14
     DEF Run!Loop, Run!CancelTurn, Run!CancelAnswer, Run!CancelTools
<1>15. CASE Run!Requests
  BY <1>9, <1>10, <1>11, <1>12, <1>15 DEF Run!Requests
<1>16. CASE Run!Tools
  BY <1>4, <1>7, <1>8, <1>16 DEF Run!Tools, Run!CancelObservation
<1> QED
  BY <1>13, <1>14, <1>15, <1>16 DEF Run!Next

\* Once the caller has aborted, a run begins no provider request and no tool; once it is
\* closing, no tool and no further step (agent-loop.ts, llm-invoker.ts).
THEOREM AbortedRunsDoNoNewWork == Spec => NoNewWork
<1> DEFINE A == part = "run" => Run!NoNewWork
<1>1. ASSUME part = "run" => RunInv, Next PROVE A
  <2> SUFFICES ASSUME part = "run" PROVE Run!NoNewWork
    OBVIOUS
  <2>1. Run!Next
    BY <1>1 DEF Next
  <2> QED
    BY <1>1, <2>1, RunDoesNoNewWork
<1>2. (part = "run" => RunInv) /\ [Next]_vars => [A]_vars
  BY <1>1
<1> QED
  BY <1>2, RunAlways, PTL DEF Spec, NoNewWork

-----------------------------------------------------------------------------
(* The approvals: s1 is actions, s2 records, s3 exec, s4 effects,          *)
(* s5 overlapped, s6 unsure.                                               *)

Slots == [status : Approval!Statuses, call : Calls]
Executing == [pc : {"idle", "handling", "auditing", "done"}, call : Calls, key : Approval!Keys,
              copy : {"absent", "approved", "executed"}, reply : Approval!Replies]

Handles(x, k) == s3[x].pc = "handling" /\ s3[x].key = k

\* What let the handlers of a key pass: no approval was called for, or it was given and
\* stands; and the call is authorized.
Permitted(k) ==
  \/ k \in Calls /\ ~Approval!NeedsApproval(k) /\ ~Approval!Denied(k)
  \/ /\ k \in Actions /\ s1[k].status \in {"approved", "executed"}
     /\ ~Approval!Denied(s1[k].call)

ApprovalInv ==
  /\ Approval!TypeOK
  /\ \A x \in Actors : s3[x].pc = "handling" => Permitted(s3[x].key)
  /\ \A x \in Actors : s3[x].pc = "handling" /\ s3[x].copy = "approved" => s3[x].key \in Actions
  /\ \A k \in Approval!Keys : s4[k] > 0 => Permitted(k)
\* While no two handlers meet, there is one for a key, and none once its result is saved.
  /\ \A k \in Approval!Keys \ s5, x, y \in Actors :
       Handles(x, k) => k \notin s2 /\ (Handles(y, k) => x = y)
  /\ \A k \in Approval!Keys \ s6 : s4[k] > 0 => k \in s2
  /\ Approval!OnceWithoutOverlap

ApprovalTypes ==
  /\ s1 \in [Actions -> Slots] /\ s2 \subseteq Approval!Keys
  /\ s3 \in [Actors -> Executing] /\ s4 \in [Approval!Keys -> Nat]
  /\ s5 \subseteq Approval!Keys /\ s6 \subseteq Approval!Keys

LEMMA ApprovalTypesHold == Approval!TypeOK <=> ApprovalTypes
BY DEF Approval!TypeOK, ApprovalTypes, Slots, Executing

\* An approval that was given stays: an action changes before its review is decided, or
\* becomes executed.
ActionsMove ==
  \/ UNCHANGED s1
  \/ \E a \in Actions, v \in Slots :
       /\ s1' = [s1 EXCEPT ![a] = v]
       /\ \/ s1[a].status \in {"absent", "pending"}
          \/ v.status = "executed" /\ v.call = s1[a].call

LEMMA ApprovalStays ==
  ASSUME ApprovalTypes, ActionsMove
  PROVE  /\ s1' \in [Actions -> Slots]
         /\ \A k : Permitted(k) => Permitted(k)'
<1>1. CASE UNCHANGED s1
  BY <1>1 DEF ApprovalTypes, Permitted
<1>2. ASSUME NEW a \in Actions, NEW v \in Slots, s1' = [s1 EXCEPT ![a] = v],
             \/ s1[a].status \in {"absent", "pending"}
             \/ v.status = "executed" /\ v.call = s1[a].call
      PROVE  /\ s1' \in [Actions -> Slots]
             /\ \A k : Permitted(k) => Permitted(k)'
  <2>1. s1' \in [Actions -> Slots] /\ \A b \in Actions : s1'[b] = IF b = a THEN v ELSE s1[b]
    BY <1>2 DEF ApprovalTypes
  <2> QED
    BY <1>2, <2>1 DEF Permitted
<1> QED
  BY <1>1, <1>2 DEF ActionsMove

\* A step of one execution that neither calls a handler nor comes from one.
LEMMA ApprovalFrame ==
  ASSUME ApprovalInv, ActionsMove, NEW x \in Actors, NEW v \in Executing,
         s3' = [s3 EXCEPT ![x] = v], v = s3[x] \/ v.pc # "handling",
         UNCHANGED <<s2, s4, s5, s6>>
  PROVE  ApprovalInv'
<1>1. ApprovalTypes
  BY ApprovalTypesHold DEF ApprovalInv
<1>2. s1' \in [Actions -> Slots] /\ \A k : Permitted(k) => Permitted(k)'
  BY <1>1, ApprovalStays
<1>3. /\ s3' \in [Actors -> Executing]
      /\ \A y \in Actors : s3'[y] = IF y = x THEN v ELSE s3[y]
  BY <1>1 DEF ApprovalTypes
<1>4. \A y \in Actors : s3'[y].pc = "handling" => s3'[y] = s3[y]
  BY <1>3
<1>5. Approval!TypeOK'
  BY <1>1, <1>2, <1>3 DEF ApprovalTypes, Approval!TypeOK, Slots, Executing
<1>6. \A y \in Actors : s3'[y].pc = "handling" => Permitted(s3[y].key)'
  BY <1>2, <1>4 DEF ApprovalInv
<1>7. \A y \in Actors : s3'[y].pc = "handling" /\ s3'[y].copy = "approved" => s3'[y].key \in Actions
  BY <1>4 DEF ApprovalInv
<1>8. \A k \in Approval!Keys : s4[k] > 0 => Permitted(k)'
  BY <1>2 DEF ApprovalInv
<1>9. \A k \in Approval!Keys, y \in Actors : Handles(y, k)' => Handles(y, k)
  BY <1>4 DEF Handles
<1>10. \A k \in Approval!Keys \ s5, y, z \in Actors :
         Handles(y, k)' => k \notin s2 /\ (Handles(z, k)' => y = z)
  BY <1>9 DEF ApprovalInv
<1> QED
  BY <1>5, <1>6, <1>7, <1>8, <1>10 DEF ApprovalInv, Approval!OnceWithoutOverlap

\* All checks passed for a key.
LEMMA ProceedKeeps ==
  ASSUME ApprovalInv, NEW x \in Actors, NEW c \in Calls, NEW k \in Approval!Keys,
         NEW copy \in {"absent", "approved", "executed"},
         copy = "approved" => k \in Actions, Permitted(k), Approval!Proceed(x, c, k, copy)
  PROVE  ApprovalInv'
<1>1. ApprovalTypes /\ UNCHANGED <<s1, s2, s4, s6>>
  BY ApprovalTypesHold DEF ApprovalInv, Approval!Proceed
<1>2. CASE Approval!Cached(k)
  <2>1. PICK v \in Executing :
          v = [pc |-> "done", call |-> c, key |-> k, copy |-> copy, reply |-> "cached"]
    BY DEF Executing, Approval!Replies
  <2>2. s3' = [s3 EXCEPT ![x] = v] /\ v.pc # "handling" /\ UNCHANGED s5 /\ ActionsMove
    BY <1>1, <1>2, <2>1 DEF Approval!Proceed, ActionsMove
  <2> QED
    BY <1>1, <2>2, ApprovalFrame
<1>3. CASE ~Approval!Cached(k)
  <2>1. PICK v \in Executing :
          v = [pc |-> "handling", call |-> c, key |-> k, copy |-> copy, reply |-> "none"]
    BY DEF Executing, Approval!Replies
  <2>2. /\ s3' = [s3 EXCEPT ![x] = v] /\ k \notin s2
        /\ s5' = s5 \union {j \in {k} : \E y \in Actors : s3[y].pc = "handling" /\ s3[y].key = j}
    BY <1>3, <2>1 DEF Approval!Proceed, Approval!Cached
  <2>3. s5' \subseteq Approval!Keys /\ s5 \subseteq s5'
        /\ ((\E y \in Actors : Handles(y, k)) => k \in s5')
    BY <1>1, <2>2 DEF ApprovalTypes, Handles
  <2>4. /\ s3' \in [Actors -> Executing]
        /\ \A y \in Actors : s3'[y] = IF y = x THEN v ELSE s3[y]
    BY <1>1, <2>2 DEF ApprovalTypes
  <2>5. Approval!TypeOK'
    BY <1>1, <2>3, <2>4 DEF ApprovalTypes, Approval!TypeOK, Slots, Executing
  <2>6. \A y \in Actors : s3'[y].pc = "handling" => Permitted(s3'[y].key)
    BY <2>1, <2>4 DEF ApprovalInv
  <2>7. \A j : Permitted(j) => Permitted(j)'
    BY <1>1 DEF Permitted
  <2>8. \A y \in Actors : s3'[y].pc = "handling" => Permitted(s3[y].key)'
    BY <2>6, <2>7
  <2>9. \A y \in Actors : s3'[y].pc = "handling" /\ s3'[y].copy = "approved" => s3'[y].key \in Actions
    BY <2>1, <2>4 DEF ApprovalInv
  <2>10. \A j \in Approval!Keys : s4'[j] > 0 => Permitted(j)'
    BY <1>1, <2>7 DEF ApprovalInv
  <2>11. \A j \in Approval!Keys, y \in Actors : Handles(y, j)' => Handles(y, j) \/ (y = x /\ j = k)
    BY <2>1, <2>4 DEF Handles
  <2>12. \A j \in Approval!Keys \ s5', y, z \in Actors :
           Handles(y, j)' => j \notin s2' /\ (Handles(z, j)' => y = z)
    BY <1>1, <2>2, <2>3, <2>11 DEF ApprovalInv
  <2> QED
    BY <1>1, <2>3, <2>5, <2>8, <2>9, <2>10, <2>12 DEF ApprovalInv, Approval!OnceWithoutOverlap
<1> QED
  BY <1>2, <1>3

\* A handler returns and its result is saved, or it throws.
LEMMA HandlerEnds ==
  ASSUME ApprovalInv, ActionsMove, NEW x \in Actors, NEW k \in Approval!Keys, Handles(x, k),
         NEW v \in Executing, v.pc # "handling", s3' = [s3 EXCEPT ![x] = v],
         NEW n \in {0, 1}, s4' = [s4 EXCEPT ![k] = @ + n], UNCHANGED s5,
         \/ s2' = s2 \union {k} /\ UNCHANGED s6
         \/ UNCHANGED s2 /\ s6' = s6 \union {k}
  PROVE  ApprovalInv'
<1>1. ApprovalTypes
  BY ApprovalTypesHold DEF ApprovalInv
<1>2. s1' \in [Actions -> Slots] /\ \A j : Permitted(j) => Permitted(j)'
  BY <1>1, ApprovalStays
<1>3. /\ s3' \in [Actors -> Executing]
      /\ \A y \in Actors : s3'[y] = IF y = x THEN v ELSE s3[y]
  BY <1>1 DEF ApprovalTypes
<1>4. PICK m \in Nat : m = s4[k] + n /\ (s4[k] = 0 => m <= 1)
  BY <1>1 DEF ApprovalTypes
<1>5. /\ s4' \in [Approval!Keys -> Nat]
      /\ \A j \in Approval!Keys : s4'[j] = IF j = k THEN m ELSE s4[j]
  BY <1>1, <1>4 DEF ApprovalTypes
<1>6. \A y \in Actors : s3'[y].pc = "handling" => y # x /\ s3'[y] = s3[y]
  BY <1>3
<1>7. Approval!TypeOK'
  BY <1>1, <1>2, <1>3, <1>5 DEF ApprovalTypes, Approval!TypeOK, Slots, Executing
<1>8. \A y \in Actors : s3'[y].pc = "handling" => Permitted(s3[y].key)'
  BY <1>2, <1>6 DEF ApprovalInv
<1>9. \A y \in Actors : s3'[y].pc = "handling" /\ s3'[y].copy = "approved" => s3'[y].key \in Actions
  BY <1>6 DEF ApprovalInv
<1>10. Permitted(k)
  BY DEF ApprovalInv, Handles
<1>11. \A j \in Approval!Keys : s4'[j] > 0 => Permitted(j)'
  BY <1>2, <1>5, <1>10 DEF ApprovalInv
<1>12. \A j \in Approval!Keys, y \in Actors : Handles(y, j)' => Handles(y, j) /\ y # x
  BY <1>6 DEF Handles
<1>13. \A j \in Approval!Keys \ s5', y, z \in Actors :
         Handles(y, j)' => j \notin s2' /\ (Handles(z, j)' => y = z)
  BY <1>12 DEF ApprovalInv
<1>14. \A j \in Approval!Keys \ s6' : s4'[j] > 0 => j \in s2'
  BY <1>5 DEF ApprovalInv
<1>15. \A j \in Approval!Keys \ (s5' \union s6') : s4'[j] <= 1
  <2> SUFFICES ASSUME NEW j \in Approval!Keys \ (s5' \union s6') PROVE s4'[j] <= 1
    OBVIOUS
  <2>1. CASE j # k
    BY <1>5, <2>1 DEF ApprovalInv, Approval!OnceWithoutOverlap
  <2>2. CASE j = k
    <3>1. k \notin s2 /\ k \notin s6
      BY <2>2 DEF ApprovalInv
    <3>2. s4[k] = 0
      BY <1>1, <3>1 DEF ApprovalInv, ApprovalTypes
    <3> QED
      BY <1>4, <1>5, <2>2, <3>2
  <2> QED
    BY <2>1, <2>2
<1> QED
  BY <1>7, <1>8, <1>9, <1>11, <1>13, <1>14, <1>15 DEF ApprovalInv, Approval!OnceWithoutOverlap

LEMMA HandlersKeep ==
  ASSUME ApprovalInv, NEW x \in Actors, Approval!HandlerReturns(x) \/ Approval!HandlerThrows(x)
  PROVE  ApprovalInv'
<1>1. ApprovalTypes /\ s3[x] \in Executing
  BY ApprovalTypesHold DEF ApprovalInv, ApprovalTypes
<1>2. PICK k \in Approval!Keys : k = s3[x].key
  BY <1>1 DEF Executing
<1>3. Handles(x, k)
  BY <1>2 DEF Handles, Approval!HandlerReturns, Approval!HandlerThrows
<1>4. ASSUME NEW reply \in Approval!Replies,
             s3' = [s3 EXCEPT ![x].pc = "auditing", ![x].reply = reply]
      PROVE  \E v \in Executing : v.pc # "handling" /\ s3' = [s3 EXCEPT ![x] = v]
  <2>1. PICK v : v = [s3[x] EXCEPT !.pc = "auditing", !.reply = reply]
    OBVIOUS
  <2>2. v \in Executing /\ v.pc = "auditing"
    BY <1>1, <2>1 DEF Executing
  <2>3. s3' = [s3 EXCEPT ![x] = v]
    BY <1>1, <1>4, <2>1 DEF ApprovalTypes
  <2> QED
    BY <2>2, <2>3
<1>5. CASE Approval!HandlerReturns(x)
  <2>1. /\ s4' = [s4 EXCEPT ![k] = @ + 1] /\ s2' = s2 \union {k} /\ UNCHANGED <<s5, s6>>
        /\ \E reply \in {"threw", "executed"} :
             s3' = [s3 EXCEPT ![x].pc = "auditing", ![x].reply = reply]
    BY <1>2, <1>5 DEF Approval!HandlerReturns, Approval!Save
  <2>2. PICK v \in Executing : v.pc # "handling" /\ s3' = [s3 EXCEPT ![x] = v]
    <3>1. PICK reply \in {"threw", "executed"} :
            s3' = [s3 EXCEPT ![x].pc = "auditing", ![x].reply = reply]
      BY <2>1
    <3>2. reply \in Approval!Replies
      BY DEF Approval!Replies
    <3> QED
      BY <1>4, <3>1, <3>2
  <2>3. ActionsMove
    <3>1. \/ UNCHANGED s1
          \/ s3[x].copy = "approved" /\ s1' = [s1 EXCEPT ![k].status = "executed"]
      BY <1>2, <1>5 DEF Approval!HandlerReturns, Approval!MarkExecuted
    <3>2. ASSUME s3[x].copy = "approved", s1' = [s1 EXCEPT ![k].status = "executed"]
          PROVE  ActionsMove
      <4>1. k \in Actions
        BY <1>2, <1>3, <3>2 DEF ApprovalInv, Handles
      <4>2. PICK w : w = [s1[k] EXCEPT !.status = "executed"]
        OBVIOUS
      <4>3. w \in Slots /\ w.status = "executed" /\ w.call = s1[k].call
        BY <1>1, <4>1, <4>2 DEF ApprovalTypes, Slots, Approval!Statuses
      <4>4. s1' = [s1 EXCEPT ![k] = w]
        BY <1>1, <3>2, <4>1, <4>2 DEF ApprovalTypes
      <4> QED
        BY <4>1, <4>3, <4>4 DEF ActionsMove
    <3> QED
      BY <3>1, <3>2 DEF ActionsMove
  <2>4. PICK n \in {0, 1} : s4' = [s4 EXCEPT ![k] = @ + n]
    BY <2>1
  <2> QED
    BY <1>3, <2>1, <2>2, <2>3, <2>4, HandlerEnds
<1>6. CASE Approval!HandlerThrows(x)
  <2>1. /\ UNCHANGED <<s1, s2, s5>> /\ s6' = s6 \union {k}
        /\ s3' = [s3 EXCEPT ![x].pc = "auditing", ![x].reply = "threw"]
    BY <1>2, <1>6 DEF Approval!HandlerThrows
  <2>2. PICK n \in {0, 1} : s4' = [s4 EXCEPT ![k] = @ + n]
    BY <1>2, <1>6 DEF Approval!HandlerThrows
  <2>3. PICK v \in Executing : v.pc # "handling" /\ s3' = [s3 EXCEPT ![x] = v]
    BY <1>4, <2>1 DEF Approval!Replies
  <2> QED
    BY <1>3, <2>1, <2>2, <2>3, HandlerEnds DEF ActionsMove
<1> QED
  BY <1>5, <1>6

\* execute() ends with a reply.
LEMMA ReplyKeeps ==
  ASSUME ApprovalInv, ActionsMove, NEW x \in Actors, NEW reply \in Approval!Replies,
         Approval!Reply(x, reply), UNCHANGED <<s2, s4, s5, s6>>
  PROVE  ApprovalInv'
<1>1. ApprovalTypes /\ s3[x] \in Executing
  BY ApprovalTypesHold DEF ApprovalInv, ApprovalTypes
<1>2. PICK v : v = [s3[x] EXCEPT !.pc = "done", !.reply = reply]
  OBVIOUS
<1>3. v \in Executing /\ v.pc = "done"
  BY <1>1, <1>2 DEF Executing
<1>4. s3' = [s3 EXCEPT ![x] = v]
  BY <1>1, <1>2 DEF ApprovalTypes, Approval!Reply
<1> QED
  BY <1>3, <1>4, ApprovalFrame

LEMMA ApprovalStep == ASSUME ApprovalInv, Approval!Next PROVE ApprovalInv'
<1>1. ApprovalTypes
  BY ApprovalTypesHold DEF ApprovalInv
<1>2. ASSUME NEW a \in Actions, Approval!Decide(a) PROVE ApprovalInv'
  <2>1. PICK status \in {"approved", "rejected"} :
          s1[a].status = "pending" /\ s1' = [s1 EXCEPT ![a].status = status]
    BY <1>2 DEF Approval!Decide, Approval!Review
  <2>2. PICK v : v = [s1[a] EXCEPT !.status = status]
    OBVIOUS
  <2>3. v \in Slots /\ s1' = [s1 EXCEPT ![a] = v]
    BY <1>1, <2>1, <2>2 DEF ApprovalTypes, Slots, Approval!Statuses
  <2>4. ActionsMove
    BY <2>1, <2>3 DEF ActionsMove
  <2>5. UNCHANGED <<s2, s3, s4, s5, s6>>
    BY <1>2 DEF Approval!Decide, Approval!history
  <2>6. PICK x \in Actors : s3' = [s3 EXCEPT ![x] = s3[x]] /\ s3[x] \in Executing
    BY <1>1, <2>5, AgentAssumption DEF ApprovalTypes
  <2> QED
    BY <2>4, <2>5, <2>6, ApprovalFrame
<1>3. ASSUME NEW x \in Actors, NEW c \in Calls, Approval!Refuse(x, c) PROVE ApprovalInv'
  <2>1. PICK reply \in {"denied", "threw"} :
          Approval!Reply(x, reply) /\ UNCHANGED <<s1, s2, s4, s5, s6>>
    BY <1>3 DEF Approval!Refuse, Approval!history
  <2>2. reply \in Approval!Replies
    BY DEF Approval!Replies
  <2> QED
    BY <2>1, <2>2, ReplyKeeps DEF ActionsMove
<1>4. ASSUME NEW x \in Actors, NEW c \in Calls, Approval!RequestApproval(x, c) PROVE ApprovalInv'
  <2>1. PICK a \in Actions, reply \in {"pending_approval", "threw"} :
          /\ s1[a].status = "absent"
          /\ s1' = [s1 EXCEPT ![a] = [status |-> "pending", call |-> c]]
          /\ Approval!Reply(x, reply) /\ UNCHANGED <<s2, s4, s5, s6>>
    BY <1>4 DEF Approval!RequestApproval, Approval!Create, Approval!history
  <2>2. [status |-> "pending", call |-> c] \in Slots /\ reply \in Approval!Replies
    BY DEF Slots, Approval!Statuses, Approval!Replies
  <2>3. ActionsMove
    BY <2>1, <2>2 DEF ActionsMove
  <2> QED
    BY <2>1, <2>2, <2>3, ReplyKeeps
<1>5. ASSUME NEW x \in Actors, NEW c \in Calls, Approval!ExecuteAllowed(x, c) PROVE ApprovalInv'
  <2>1. c \in Approval!Keys /\ Permitted(c) /\ Approval!Proceed(x, c, c, "absent")
    BY <1>5 DEF Approval!ExecuteAllowed, Approval!Keys, Permitted
  <2> QED
    BY <2>1, ProceedKeeps
<1>6. ASSUME NEW x \in Actors, NEW c \in Calls, NEW a \in Actions, Approval!ExecuteApproved(x, c, a)
      PROVE  ApprovalInv'
  <2>1. /\ s1[a].status \in {"approved", "executed"} /\ s1[a].call = c /\ Approval!NeedsApproval(c)
        /\ Approval!Proceed(x, c, a, s1[a].status)
    BY <1>6 DEF Approval!ExecuteApproved, Approval!Approved
  <2>2. a \in Approval!Keys /\ Permitted(a)
    BY <2>1 DEF Approval!Keys, Permitted, Approval!NeedsApproval
  <2>3. PICK copy \in {"absent", "approved", "executed"} : copy = s1[a].status
    BY <2>1
  <2> QED
    BY <2>1, <2>2, <2>3, ProceedKeeps
<1>7. ASSUME NEW x \in Actors, NEW c \in Calls, NEW a \in Actions, Approval!HoldBack(x, c, a)
      PROVE  ApprovalInv'
  <2>1. PICK reply \in {"pending_approval", "denied"} :
          Approval!Reply(x, reply) /\ UNCHANGED <<s1, s2, s4, s5, s6>>
    BY <1>7 DEF Approval!HoldBack, Approval!history
  <2>2. reply \in Approval!Replies
    BY DEF Approval!Replies
  <2> QED
    BY <2>1, <2>2, ReplyKeeps DEF ActionsMove
<1>8. ASSUME NEW x \in Actors, Approval!ThrowEarly(x) \/ Approval!Audit(x) PROVE ApprovalInv'
  <2>1. s3[x].reply \in Approval!Replies /\ "threw" \in Approval!Replies
    BY <1>1 DEF ApprovalTypes, Executing, Approval!Replies
  <2>2. PICK reply \in Approval!Replies :
          Approval!Reply(x, reply) /\ UNCHANGED <<s1, s2, s4, s5, s6>>
    BY <1>8, <2>1 DEF Approval!ThrowEarly, Approval!Audit, Approval!history
  <2> QED
    BY <2>2, ReplyKeeps DEF ActionsMove
<1> QED
  BY <1>2, <1>3, <1>4, <1>5, <1>6, <1>7, <1>8, HandlersKeep DEF Approval!Next

LEMMA ApprovalAlways == Spec => [](part = "approval" => ApprovalInv)
<1>1. Init => (part = "approval" => ApprovalInv)
  <2> SUFFICES ASSUME Approval!Init PROVE ApprovalInv
    BY DEF Init
  <2>1. Approval!NoCall \in Calls
    BY AgentAssumption, Zenon DEF Approval!NoCall
  <2>2. /\ s1 = [a \in Actions |-> [status |-> "absent", call |-> Approval!NoCall]]
        /\ s3 = [x \in Actors |-> Approval!Idle(Approval!NoCall)]
        /\ s2 = {} /\ s4 = [k \in Approval!Keys |-> 0] /\ s5 = {} /\ s6 = {}
    BY DEF Approval!Init
  <2>3. /\ Approval!Idle(Approval!NoCall) \in Executing
        /\ Approval!Idle(Approval!NoCall).pc = "idle"
    BY <2>1 DEF Approval!Idle, Executing, Approval!Keys, Approval!Replies
  <2>4. ApprovalTypes
    BY <2>1, <2>2, <2>3 DEF ApprovalTypes, Slots, Approval!Statuses
  <2>5. /\ \A x \in Actors : s3[x].pc = "idle"
        /\ \A k \in Approval!Keys : s4[k] = 0
    BY <2>2, <2>3
  <2> QED
    BY <2>4, <2>5, ApprovalTypesHold DEF ApprovalInv, Approval!OnceWithoutOverlap, Handles
<1>2. (part = "approval" => ApprovalInv) /\ [Next]_vars => (part = "approval" => ApprovalInv)'
  <2> SUFFICES ASSUME part = "approval" => ApprovalInv, [Next]_vars, part' = "approval"
               PROVE  ApprovalInv'
    OBVIOUS
  <2>1. CASE Next
    <3>1. part = "approval" /\ Approval!Next
      BY <2>1 DEF Next
    <3> QED
      BY <3>1, ApprovalStep
  <2>2. CASE UNCHANGED vars
    <3>1. ApprovalInv /\ UNCHANGED <<s1, s2, s3, s4, s5, s6>>
      BY <2>2 DEF vars
    <3> QED
      BY <3>1 DEF ApprovalInv, Approval!TypeOK, Approval!OnceWithoutOverlap, Handles, Permitted
  <2> QED
    BY <2>1, <2>2
<1> QED
  BY <1>1, <1>2, PTL DEF Spec

\* What the permission rules and the authorization let through.
LEMMA PermittedCalls ==
  ASSUME NEW c \in Calls, ~Approval!Denied(c)
  PROVE  /\ Asked[c].tool \notin Disabled
         /\ ~Approval!NeedsApproval(c) =>
              Asked[c].tool \notin {"execute_refund", "send_message", "update_customer"}
         /\ Asked[c].agent # "unchecked" =>
              /\ Asked[c].tool = "execute_refund" =>
                   Asked[c].agent = "finance_agent" /\ "finance" \in Asked[c].roles
              /\ Asked[c].vip => "manager" \in Asked[c].roles
<1> DEFINE ask == Asked[c]
<1>1. /\ Approval!DecideToolPermission(ask.tool) # "denied" /\ Approval!CheckAuthorization(ask)
      /\ ~Approval!NeedsApproval(c) =>
           Approval!DecideToolPermission(ask.tool) # "approval_required"
  BY DEF Approval!Denied, Approval!NeedsApproval
<1>2. /\ ask.tool \notin Disabled
      /\ ~Approval!NeedsApproval(c) => ask.tool \in Approval!Unattended
  BY <1>1 DEF Approval!DecideToolPermission
<1>3. ASSUME ask.agent # "unchecked"
      PROVE  /\ ask.vip => "manager" \in ask.roles
             /\ ask.tool = "execute_refund" =>
                  ask.agent = "finance_agent" /\ "finance" \in ask.roles
  <2>1. /\ Approval!CanAgentPerform(ask.agent, Approval!ActionOf(ask.tool))
        /\ Approval!HasRolePermission(ask, Approval!ActionOf(ask.tool))
        /\ Approval!CanAccessResource(ask, Approval!ActionOf(ask.tool))
    BY <1>1, <1>3 DEF Approval!CheckAuthorization, Approval!Authorize
  <2>2. ask.vip => "manager" \in ask.roles
    BY <2>1 DEF Approval!CanAccessResource
  <2>3. ASSUME ask.tool = "execute_refund"
        PROVE  ask.agent = "finance_agent" /\ "finance" \in ask.roles
    <3>1. Approval!ActionOf(ask.tool) = "refund.execute"
      BY <2>3 DEF Approval!ActionOf
    <3>2. ask.agent = "finance_agent"
      BY <2>1, <3>1 DEF Approval!CanAgentPerform, Approval!AgentPermissions
    <3>3. PICK role \in ask.roles \intersect DOMAIN Approval!RolePermissions :
            "refund.execute" \in Approval!RolePermissions[role]
      BY <2>1, <3>1 DEF Approval!HasRolePermission
    <3>4. role = "finance"
      BY <3>3 DEF Approval!RolePermissions
    <3> QED
      BY <3>2, <3>3, <3>4
  <2> QED
    BY <2>2, <2>3
<1> QED
  BY <1>1, <1>2, <1>3 DEF Approval!Unattended

\* An approval is not withdrawn under a handler or after its effect; an effect happens twice
\* only after two handlers have worked on it at once or one has thrown; and no effect comes
\* about that the rules do not permit (secure-tool-executor.ts, approval-store.ts).
THEOREM EffectsAreApproved == Spec => []ApprovalHolds
<1>1. ASSUME ApprovalInv PROVE Approval!EffectsStayApproved
  <2>1. \A a \in Actions : a \in Approval!Keys /\ a \notin Calls
    BY AgentAssumption DEF Approval!Keys
  <2> QED
    BY <1>1, <2>1 DEF ApprovalInv, Permitted, Approval!EffectsStayApproved
<1>2. ASSUME ApprovalInv PROVE Approval!EffectsArePermitted
  <2>1. \A c \in Calls : s4[c] > 0 => ~Approval!NeedsApproval(c) /\ ~Approval!Denied(c)
    BY <1>2, AgentAssumption DEF ApprovalInv, Permitted, Approval!Keys
  <2>2. \A k \in Approval!Keys \ Calls : s4[k] > 0 => s1[k].call \in Calls /\ ~Approval!Denied(s1[k].call)
    BY <1>2, ApprovalTypesHold DEF ApprovalInv, Permitted, ApprovalTypes, Slots, Approval!Keys
  <2>3. \A c \in Calls : s4[c] > 0 =>
          Asked[c].tool \notin {"execute_refund", "send_message", "update_customer"} \union Disabled
    BY <2>1, PermittedCalls
  <2>4. ASSUME NEW k \in Approval!Keys, s4[k] > 0
        PROVE  LET ask == IF k \in Calls THEN Asked[k] ELSE Asked[s1[k].call]
               IN ask.agent # "unchecked" =>
                    /\ ask.tool = "execute_refund" =>
                         ask.agent = "finance_agent" /\ "finance" \in ask.roles
                    /\ ask.vip => "manager" \in ask.roles
    <3>1. CASE k \in Calls
      BY <2>1, <2>4, <3>1, PermittedCalls
    <3>2. CASE k \notin Calls
      BY <2>2, <2>4, <3>2, PermittedCalls
    <3> QED
      BY <3>1, <3>2
  <2> QED
    BY <2>3, <2>4 DEF Approval!EffectsArePermitted
<1>3. (part = "approval" => ApprovalInv) => ApprovalHolds
  BY <1>1, <1>2 DEF ApprovalHolds, ApprovalInv
<1> QED
  BY <1>3, ApprovalAlways, PTL

-----------------------------------------------------------------------------
(* The assistant: s1 is flow, s2 saved, s3 reminders, s4 logs,             *)
(* s5 overlapped, s6 handling, s7 memory, s8 accepted, s9 concurrent.      *)

Reminders == [key : Messages, customer : Customers]
Before == {"LOAD_CUSTOMER", "CHECK_INTENT", "CHECK_FOLLOWUP"}
After == {"CREATE_FOLLOWUP", "WRITE_LOG", "SEND_NOTIFICATION"}
Steps == Before \union After \union Assistant!Terminal
Flows == [pc : {"unborn", "top", "node", "called", "ended"}, step : Steps,
          attempt : 0..3, customer : Customers \union {"none"},
          intent : {"unknown", "high", "other"}, exists : BOOLEAN, timedOut : BOOLEAN]
Saves == [step : Steps \union {"none"}, status : Assistant!StepStatus]

Live(f) == f.pc \notin {"unborn", "ended"}
Called(f, step) == f.pc = "called" /\ f.step = step
Booked(r) == \E i \in DOMAIN s3 : s3[i].key = r
Logged(r) == \E i \in DOMAIN s4 : s4[i] = r
BookedFor(c) == \E i \in DOMAIN s3 : s3[i].customer = c

\* CHECK_FOLLOWUP found nothing, and what it found is still acted upon.
Unbooked(f) == f.step = "CREATE_FOLLOWUP" \/ (Called(f, "CHECK_FOLLOWUP") /\ ~f.exists)

\* Where the runner of a request is, against what the request has done.
PathIsSound(r, f, saves) ==
  /\ Live(f) => f.step \in Before \union After
  /\ f.pc = "top" => f.attempt < Assistant!MaxAttempts(f.step)
  /\ f.pc = "unborn" => f.step = "LOAD_CUSTOMER" /\ f.attempt = 0
  /\ f.pc = "ended" => f.step \in Assistant!Terminal
  /\ Called(f, "LOAD_CUSTOMER") \/ f.step \in {"CHECK_INTENT", "CHECK_FOLLOWUP"} \union After
       => f.customer \in Customers
  /\ Called(f, "CHECK_INTENT") => f.intent # "unknown"
  /\ Called(f, "CHECK_FOLLOWUP") /\ f.exists => BookedFor(f.customer)
  /\ Booked(r) => f.step \notin Before
  /\ Called(f, "CREATE_FOLLOWUP") \/ f.step \in {"WRITE_LOG", "SEND_NOTIFICATION"} => Booked(r)
  /\ Called(f, "WRITE_LOG") \/ f.step = "SEND_NOTIFICATION" => Logged(r)
  /\ Logged(r) => Booked(r)
  /\ f.step = "DONE" =>
       /\ f.intent = "other" \/ BookedFor(f.customer)
       /\ f.intent = "high" /\ ~f.exists => Logged(r)
  /\ saves.step \in Assistant!Terminal => f.pc = "ended" /\ f.step = saves.step

\* A reminder made after r looked for one was made by a workflow that was under way with r.
LookIsGood(r, f) ==
  Unbooked(f) => \A i \in DOMAIN s3 :
    s3[i].customer = f.customer /\ s3[i].key # r => {s3[i].key, r} \in s5

FlowTypes ==
  /\ s1 \in [Messages -> Flows] /\ s2 \in [Messages -> Saves]
  /\ s3 \in Seq(Reminders) /\ s4 \in Seq(Messages)
  /\ s5 \subseteq {{a, b} : a, b \in Messages}

ServersAreSound ==
  /\ \A i \in DOMAIN s3 : s3[i].customer = s1[s3[i].key].customer
  /\ \A i, j \in DOMAIN s3 : i # j =>
       /\ s3[i].key # s3[j].key
       /\ s3[i].customer = s3[j].customer => {s3[i].key, s3[j].key} \in s5
  /\ \A i, j \in DOMAIN s4 : s4[i] = s4[j] => i = j

Together == \A q, r \in Messages : q # r /\ Live(s1[q]) /\ Live(s1[r]) => {q, r} \in s5

FlowInv ==
  /\ FlowTypes /\ ServersAreSound /\ Together
  /\ \A r \in Messages : PathIsSound(r, s1[r], s2[r]) /\ LookIsGood(r, s1[r])

LEMMA StepsAre == Assistant!WorkflowStep = Steps
<1>1. Assistant!Range(Assistant!Working) = Before \union After
  <2>1. DOMAIN Assistant!Working = 1..6
    BY DEF Assistant!Working
  <2>2. Assistant!Range(Assistant!Working) = {Assistant!Working[i] : i \in 1..6}
    BY <2>1 DEF Assistant!Range
  <2>3. 1..6 = {1, 2, 3, 4, 5, 6}
    OBVIOUS
  <2>4. /\ Assistant!Working[1] = "LOAD_CUSTOMER" /\ Assistant!Working[2] = "CHECK_INTENT"
        /\ Assistant!Working[3] = "CHECK_FOLLOWUP" /\ Assistant!Working[4] = "CREATE_FOLLOWUP"
        /\ Assistant!Working[5] = "WRITE_LOG" /\ Assistant!Working[6] = "SEND_NOTIFICATION"
    BY DEF Assistant!Working
  <2> QED
    BY <2>2, <2>3, <2>4 DEF Before, After
<1> QED
  BY <1>1 DEF Assistant!WorkflowStep, Steps

\* Records of which one field changes.
LEMMA FlowFields ==
  ASSUME NEW f \in Flows
  PROVE  /\ f.attempt \in Nat
         /\ \A pc \in {"unborn", "top", "node", "called", "ended"} : [f EXCEPT !.pc = pc] \in Flows
         /\ \A step \in Steps : [f EXCEPT !.step = step] \in Flows
         /\ \A n \in 0..3 : [f EXCEPT !.attempt = n] \in Flows
         /\ \A c \in Customers : [f EXCEPT !.customer = c] \in Flows
         /\ \A i \in {"high", "other"} : [f EXCEPT !.intent = i] \in Flows
         /\ \A b \in BOOLEAN : [f EXCEPT !.exists = b] \in Flows
         /\ \A b \in BOOLEAN : [f EXCEPT !.timedOut = b] \in Flows
<1>1. f.attempt \in Nat
  BY DEF Flows
<1>2. ASSUME NEW pc \in {"unborn", "top", "node", "called", "ended"} PROVE [f EXCEPT !.pc = pc] \in Flows
  BY DEF Flows
<1>3. ASSUME NEW step \in Steps PROVE [f EXCEPT !.step = step] \in Flows
  BY DEF Flows
<1>4. ASSUME NEW n \in 0..3 PROVE [f EXCEPT !.attempt = n] \in Flows
  BY DEF Flows
<1>5. ASSUME NEW c \in Customers PROVE [f EXCEPT !.customer = c] \in Flows
  BY DEF Flows
<1>6. ASSUME NEW i \in {"high", "other"} PROVE [f EXCEPT !.intent = i] \in Flows
  BY DEF Flows
<1>7. ASSUME NEW b \in BOOLEAN PROVE [f EXCEPT !.exists = b] \in Flows
  BY DEF Flows
<1>8. ASSUME NEW b \in BOOLEAN PROVE [f EXCEPT !.timedOut = b] \in Flows
  BY DEF Flows
<1> QED
  BY <1>1, <1>2, <1>3, <1>4, <1>5, <1>6, <1>7, <1>8

\* A step of one workflow that calls no server.
LEMMA FlowFrame ==
  ASSUME FlowInv, NEW r \in Messages, NEW g \in Flows, NEW v \in Saves,
         s1' = [s1 EXCEPT ![r] = g], s2' = [s2 EXCEPT ![r] = v], UNCHANGED <<s3, s4, s5>>,
         Live(g) => Live(s1[r]), g.customer = s1[r].customer \/ ~Booked(r),
         PathIsSound(r, g, v), LookIsGood(r, g)
  PROVE  FlowInv'
<1>1. FlowTypes
  BY DEF FlowInv
<1>2. /\ s1' \in [Messages -> Flows] /\ s2' \in [Messages -> Saves]
      /\ \A q \in Messages : s1'[q] = (IF q = r THEN g ELSE s1[q])
                             /\ s2'[q] = (IF q = r THEN v ELSE s2[q])
  BY <1>1 DEF FlowTypes
<1>3. FlowTypes'
  BY <1>1, <1>2 DEF FlowTypes
<1>4. \A i \in DOMAIN s3 : s3[i].key \in Messages
  <2>1. \A i \in DOMAIN s3 : s3[i] \in Reminders
    BY <1>1 DEF FlowTypes
  <2> QED
    BY <2>1 DEF Reminders
<1>5. ServersAreSound'
  BY <1>2, <1>4 DEF FlowInv, ServersAreSound, Booked
<1>6. Together'
  BY <1>2 DEF FlowInv, Together
<1>7. ASSUME NEW q \in Messages PROVE (PathIsSound(q, s1[q], s2[q]) /\ LookIsGood(q, s1[q]))'
  <2>1. \E f, w : /\ f = s1'[q] /\ w = s2'[q] /\ PathIsSound(q, f, w) /\ LookIsGood(q, f)
    BY <1>2 DEF FlowInv
  <2> QED
    BY <2>1 DEF PathIsSound, LookIsGood, Booked, BookedFor, Logged
<1> QED
  BY <1>3, <1>5, <1>6, <1>7 DEF FlowInv

\* The servers, as the nodes ask them.
LEMMA ServersAnswer ==
  /\ \A c : Assistant!HasReminder(c) <=> BookedFor(c)
  /\ \A r : (\E reminder \in Assistant!Range(s3) : reminder.key = r) <=> Booked(r)
  /\ \A r : r \in Assistant!Range(s4) <=> Logged(r)
BY DEF Assistant!HasReminder, Assistant!Range, BookedFor, Booked, Logged

LEMMA AttemptsBound ==
  \A step : Assistant!MaxAttempts(step) \in {2, 3}
BY DEF Assistant!MaxAttempts

\* A workflow at one of its nodes; its attempt is saved.
LEMMA BeginAttemptKeeps == ASSUME FlowInv, NEW r \in Messages, Assistant!BeginAttempt(r) PROVE FlowInv'
<1>1. /\ FlowTypes /\ s1[r] \in Flows /\ s1[r].pc = "top" /\ UNCHANGED <<s3, s4, s5>>
      /\ PathIsSound(r, s1[r], s2[r]) /\ LookIsGood(r, s1[r])
  BY DEF FlowInv, FlowTypes, Assistant!BeginAttempt
<1>2. PICK n \in 0..3 : n = s1[r].attempt + 1
  <2>1. s1[r].attempt \in Nat /\ s1[r].attempt < Assistant!MaxAttempts(s1[r].step)
    BY <1>1, FlowFields DEF PathIsSound
  <2> QED
    BY <2>1, AttemptsBound
<1>3. PICK a : a = [s1[r] EXCEPT !.pc = "node"]
  OBVIOUS
<1>4. a \in Flows
  BY <1>1, <1>3, FlowFields
<1>5. PICK g : g = [a EXCEPT !.attempt = n]
  OBVIOUS
<1>6. g \in Flows
  BY <1>4, <1>5, FlowFields
<1>7. /\ g.pc = "node" /\ g.step = s1[r].step /\ g.customer = s1[r].customer
      /\ g.intent = s1[r].intent /\ g.exists = s1[r].exists
  BY <1>1, <1>3, <1>4, <1>5, <1>6 DEF Flows
<1>8. s1' = [s1 EXCEPT ![r] = g]
  BY <1>1, <1>2, <1>3, <1>5 DEF FlowTypes, Assistant!BeginAttempt
<1>9. PICK v : v = [step |-> s1[r].step, status |-> "running"]
  OBVIOUS
<1>10. v \in Saves /\ s2' = [s2 EXCEPT ![r] = v]
  BY <1>1, <1>9 DEF Saves, Flows, Assistant!StepStatus, Assistant!BeginAttempt, Assistant!Save
<1>11. PathIsSound(r, g, v)
  <2>1. v.step \in Before \union After
    BY <1>1, <1>9 DEF PathIsSound, Live
  <2>2. v.step \notin Assistant!Terminal
    BY <2>1 DEF Before, After, Assistant!Terminal
  <2> QED
    BY <1>1, <1>7, <2>2 DEF PathIsSound, Live, Called
<1>12. LookIsGood(r, g) /\ Live(s1[r])
  BY <1>1, <1>7 DEF LookIsGood, Unbooked, Called, Live
<1> QED
  BY <1>1, <1>6, <1>7, <1>8, <1>10, <1>11, <1>12, FlowFrame

\* A node's call has been answered, and no server has anything new.
LEMMA CalledKeeps ==
  ASSUME FlowInv, NEW r \in Messages, s1[r].pc = "node", UNCHANGED <<s2, s3, s4, s5>>,
         NEW g \in Flows, s1' = [s1 EXCEPT ![r] = g], g.pc = "called", g.step = s1[r].step,
         g.customer = s1[r].customer \/ (g.step = "LOAD_CUSTOMER" /\ g.customer \in Customers),
         g.step = "LOAD_CUSTOMER" => g.customer \in Customers,
         g.step = "CHECK_INTENT" => g.intent # "unknown",
         g.step = "CHECK_FOLLOWUP" => (g.exists <=> BookedFor(g.customer)),
         g.step = "CREATE_FOLLOWUP" => Booked(r), g.step = "WRITE_LOG" => Logged(r)
  PROVE  FlowInv'
<1>1. /\ FlowTypes /\ PathIsSound(r, s1[r], s2[r]) /\ LookIsGood(r, s1[r]) /\ s2[r] \in Saves
      /\ s2' = [s2 EXCEPT ![r] = s2[r]]
  BY DEF FlowInv, FlowTypes
<1>2. Live(g) /\ Live(s1[r]) /\ s1[r].step \in Before \union After
  BY <1>1 DEF Live, PathIsSound
<1>3. g.step # "DONE"
  BY <1>2 DEF Before, After
<1>4. PathIsSound(r, g, s2[r])
  BY <1>1, <1>2, <1>3 DEF PathIsSound, Called, Live
<1>5. LookIsGood(r, g)
  BY <1>1 DEF LookIsGood, Unbooked, Called, BookedFor
<1>6. g.customer = s1[r].customer \/ ~Booked(r)
  BY <1>1 DEF PathIsSound, Before
<1> QED
  BY <1>1, <1>2, <1>4, <1>5, <1>6, FlowFrame

\* Answered(f).
LEMMA AnsweredIs ==
  ASSUME NEW f \in Flows
  PROVE  /\ Assistant!Answered(f) \in Flows /\ Assistant!Answered(f).pc = "called"
         /\ Assistant!Answered(f).step = f.step /\ Assistant!Answered(f).customer = f.customer
         /\ Assistant!Answered(f).intent = f.intent /\ Assistant!Answered(f).exists = f.exists
<1>1. Assistant!Answered(f) \in Flows
  BY FlowFields DEF Assistant!Answered
<1> QED
  BY <1>1 DEF Flows, Assistant!Answered

LEMMA AskingNodesKeep ==
  ASSUME FlowInv, NEW r \in Messages,
         \/ Assistant!LoadCustomer(r) \/ Assistant!CheckIntent(r)
         \/ Assistant!CheckFollowup(r) \/ Assistant!SendNotification(r)
  PROVE  FlowInv'
<1>1. FlowTypes /\ s1[r] \in Flows
  BY DEF FlowInv, FlowTypes
<1>2. PICK a \in Flows :
        /\ a = Assistant!Answered(s1[r]) /\ a.pc = "called" /\ a.step = s1[r].step
        /\ a.customer = s1[r].customer
  BY <1>1, AnsweredIs
<1>3. CASE Assistant!LoadCustomer(r)
  <2>1. PICK c \in Customers : s1' = [s1 EXCEPT ![r] = [a EXCEPT !.customer = c]]
    BY <1>2, <1>3 DEF Assistant!LoadCustomer
  <2>2. PICK g : g = [a EXCEPT !.customer = c]
    OBVIOUS
  <2>3. g \in Flows
    BY <2>2, FlowFields
  <2>4. g.pc = "called" /\ g.step = s1[r].step /\ g.customer = c
    BY <1>2, <2>2, <2>3 DEF Flows
  <2>5. /\ s1[r].pc = "node" /\ s1[r].step = "LOAD_CUSTOMER" /\ UNCHANGED <<s2, s3, s4, s5>>
        /\ s1' = [s1 EXCEPT ![r] = g]
    BY <1>3, <2>1, <2>2 DEF Assistant!LoadCustomer, Assistant!At
  <2> QED
    BY <2>3, <2>4, <2>5, CalledKeeps
<1>4. CASE Assistant!CheckIntent(r)
  <2>1. PICK i \in {"high", "other"} : s1' = [s1 EXCEPT ![r] = [a EXCEPT !.intent = i]]
    BY <1>2, <1>4 DEF Assistant!CheckIntent
  <2>2. PICK g : g = [a EXCEPT !.intent = i]
    OBVIOUS
  <2>3. g \in Flows
    BY <2>2, FlowFields
  <2>4. g.pc = "called" /\ g.step = s1[r].step /\ g.customer = s1[r].customer /\ g.intent = i
    BY <1>2, <2>2, <2>3 DEF Flows
  <2>5. /\ s1[r].pc = "node" /\ s1[r].step = "CHECK_INTENT" /\ UNCHANGED <<s2, s3, s4, s5>>
        /\ s1' = [s1 EXCEPT ![r] = g]
    BY <1>4, <2>1, <2>2 DEF Assistant!CheckIntent, Assistant!At
  <2> QED
    BY <2>3, <2>4, <2>5, CalledKeeps
<1>5. CASE Assistant!CheckFollowup(r)
  <2>1. PICK b \in BOOLEAN : b = Assistant!HasReminder(s1[r].customer)
    BY DEF Assistant!HasReminder
  <2>2. PICK g : g = [a EXCEPT !.exists = b]
    OBVIOUS
  <2>3. g \in Flows
    BY <2>2, FlowFields
  <2>4. g.pc = "called" /\ g.step = s1[r].step /\ g.customer = s1[r].customer /\ g.exists = b
    BY <1>2, <2>2, <2>3 DEF Flows
  <2>5. /\ s1[r].pc = "node" /\ s1[r].step = "CHECK_FOLLOWUP" /\ UNCHANGED <<s2, s3, s4, s5>>
        /\ s1' = [s1 EXCEPT ![r] = g]
    BY <1>2, <1>5, <2>1, <2>2 DEF Assistant!CheckFollowup, Assistant!At
  <2>6. g.exists <=> BookedFor(g.customer)
    BY <2>1, <2>4, ServersAnswer
  <2> QED
    BY <2>3, <2>4, <2>5, <2>6, CalledKeeps
<1>6. CASE Assistant!SendNotification(r)
  <2>1. /\ s1[r].pc = "node" /\ s1[r].step = "SEND_NOTIFICATION" /\ UNCHANGED <<s2, s3, s4, s5>>
        /\ s1' = [s1 EXCEPT ![r] = a]
    BY <1>2, <1>6 DEF Assistant!SendNotification, Assistant!At
  <2> QED
    BY <1>2, <2>1, CalledKeeps
<1> QED
  BY <1>3, <1>4, <1>5, <1>6

\* An entry is added to a server: what is there stays, and one place is new.
LEMMA OneMore ==
  ASSUME NEW S, NEW seq \in Seq(S), NEW e \in S
  PROVE  /\ Append(seq, e) \in Seq(S)
         /\ DOMAIN Append(seq, e) = DOMAIN seq \union {Len(seq) + 1}
         /\ Len(seq) + 1 \notin DOMAIN seq
         /\ Append(seq, e)[Len(seq) + 1] = e
         /\ \A i \in DOMAIN seq : Append(seq, e)[i] = seq[i]
<1>1. PICK l \in Nat : l = Len(seq) /\ DOMAIN seq = 1..l
  OBVIOUS
<1>2. /\ Append(seq, e) \in Seq(S) /\ Len(Append(seq, e)) = l + 1
      /\ Append(seq, e)[l + 1] = e /\ \A i \in 1..l : Append(seq, e)[i] = seq[i]
  BY <1>1, AppendProperties
<1>3. DOMAIN Append(seq, e) = 1..(l + 1)
  BY <1>2
<1>4. 1..(l + 1) = (1..l) \union {l + 1} /\ l + 1 \notin 1..l
  BY <1>1
<1> QED
  BY <1>1, <1>2, <1>3, <1>4

\* The reminder of a request that has none.
LEMMA ReminderAdded ==
  ASSUME FlowInv, NEW r \in Messages, s1[r].pc = "node", s1[r].step = "CREATE_FOLLOWUP", ~Booked(r),
         s3' = Append(s3, [key |-> r, customer |-> s1[r].customer]),
         NEW g \in Flows, s1' = [s1 EXCEPT ![r] = g], g.pc = "called", g.step = s1[r].step,
         g.customer = s1[r].customer, UNCHANGED <<s2, s4, s5>>
  PROVE  FlowInv'
<1>1. /\ FlowTypes /\ PathIsSound(r, s1[r], s2[r]) /\ LookIsGood(r, s1[r]) /\ ServersAreSound
      /\ Together
  BY DEF FlowInv
<1>2. PICK e \in Reminders : e = [key |-> r, customer |-> s1[r].customer] /\ e.key = r
                             /\ e.customer = s1[r].customer
  BY <1>1 DEF PathIsSound, Reminders, After
<1>3. PICK l : /\ l \notin DOMAIN s3 /\ DOMAIN s3' = DOMAIN s3 \union {l} /\ s3'[l] = e
               /\ \A i \in DOMAIN s3 : s3'[i] = s3[i]
               /\ s3' \in Seq(Reminders)
  BY <1>1, <1>2, OneMore DEF FlowTypes
<1>4. /\ s1' \in [Messages -> Flows]
      /\ \A q \in Messages : s1'[q] = IF q = r THEN g ELSE s1[q]
  BY <1>1 DEF FlowTypes
<1>5. FlowTypes'
  BY <1>1, <1>3, <1>4 DEF FlowTypes
<1>6. \A i \in DOMAIN s3 : s3[i].key \in Messages /\ s3[i].key # r
  <2>1. \A i \in DOMAIN s3 : s3[i] \in Reminders
    BY <1>1 DEF FlowTypes
  <2> QED
    BY <2>1 DEF Reminders, Booked
<1>7. \A i \in DOMAIN s3 : s3[i].customer = e.customer => {s3[i].key, r} \in s5
  BY <1>1, <1>2, <1>6 DEF LookIsGood, Unbooked
<1>8. ServersAreSound'
  <2>1. \A i \in DOMAIN s3' : s3'[i].customer = s1'[s3'[i].key].customer
    BY <1>1, <1>2, <1>3, <1>4, <1>6 DEF ServersAreSound
  <2>2. ASSUME NEW i \in DOMAIN s3', NEW j \in DOMAIN s3', i # j
        PROVE  /\ s3'[i].key # s3'[j].key
               /\ s3'[i].customer = s3'[j].customer => {s3'[i].key, s3'[j].key} \in s5'
    <3>1. CASE i = l
      <4>1. j \in DOMAIN s3 /\ s3'[j] = s3[j] /\ s3'[i] = e
        BY <1>3, <2>2, <3>1
      <4>2. {s3[j].key, r} = {r, s3[j].key}
        OBVIOUS
      <4> QED
        BY <1>2, <1>6, <1>7, <4>1, <4>2
    <3>2. CASE j = l
      <4>1. i \in DOMAIN s3 /\ s3'[i] = s3[i] /\ s3'[j] = e
        BY <1>3, <2>2, <3>2
      <4> QED
        BY <1>2, <1>6, <1>7, <4>1
    <3>3. CASE i # l /\ j # l
      BY <1>1, <1>3, <2>2, <3>3 DEF ServersAreSound
    <3> QED
      BY <3>1, <3>2, <3>3
  <2>3. \A i, j \in DOMAIN s4' : s4'[i] = s4'[j] => i = j
    BY <1>1 DEF ServersAreSound
  <2> QED
    BY <2>1, <2>2, <2>3 DEF ServersAreSound
<1>9. Together'
  BY <1>1, <1>4 DEF Together, Live
<1>10. /\ \A c : BookedFor(c) => BookedFor(c)'
       /\ \A q : Booked(q)' <=> Booked(q) \/ q = r
       /\ \A q : Logged(q)' <=> Logged(q)
  BY <1>2, <1>3 DEF BookedFor, Booked, Logged
<1>11. ASSUME NEW q \in Messages PROVE (PathIsSound(q, s1[q], s2[q]) /\ LookIsGood(q, s1[q]))'
  <2>1. CASE q = r
    <3>1. s1'[q] = g /\ s2'[q] = s2[q] /\ g.step = "CREATE_FOLLOWUP"
      BY <1>4, <2>1
    <3>2. PathIsSound(q, s1[q], s2[q])'
      <4>1. g.customer \in Customers /\ ~(s2[q].step \in Assistant!Terminal)
        BY <1>1, <2>1 DEF PathIsSound, After
      <4> QED
        BY <1>10, <2>1, <3>1, <4>1 DEF PathIsSound, Live, Called, After, Before
    <3>3. LookIsGood(q, s1[q])'
      BY <1>2, <1>3, <1>7, <2>1, <3>1 DEF LookIsGood
    <3> QED
      BY <3>2, <3>3
  <2>2. CASE q # r
    <3>1. s1'[q] = s1[q] /\ s2'[q] = s2[q]
      BY <1>4, <2>2
    <3>2. PathIsSound(q, s1[q], s2[q])'
      <4>1. PathIsSound(q, s1[q], s2[q])
        BY DEF FlowInv
      <4> QED
        BY <1>10, <2>2, <3>1, <4>1 DEF PathIsSound
    <3>3. LookIsGood(q, s1[q])'
      <4>1. Unbooked(s1[q]) => {r, q} \in s5
        <5>1. Unbooked(s1[q]) => Live(s1[q])
          <6>1. PathIsSound(q, s1[q], s2[q]) /\ s1[q] \in Flows
            BY <1>1 DEF FlowInv, FlowTypes
          <6> QED
            BY <6>1 DEF Unbooked, Called, Live, PathIsSound, Assistant!Terminal, Flows
        <5>2. Live(s1[r])
          BY DEF Live
        <5> QED
          BY <1>1, <2>2, <5>1, <5>2 DEF Together
      <4>2. LookIsGood(q, s1[q])
        BY DEF FlowInv
      <4> QED
        BY <1>2, <1>3, <3>1, <4>1, <4>2 DEF LookIsGood, Unbooked, Called
    <3> QED
      BY <3>2, <3>3
  <2> QED
    BY <2>1, <2>2
<1> QED
  BY <1>5, <1>8, <1>9, <1>11 DEF FlowInv

\* The log of a request that has none.
LEMMA LogAdded ==
  ASSUME FlowInv, NEW r \in Messages, s1[r].pc = "node", s1[r].step = "WRITE_LOG", ~Logged(r),
         s4' = Append(s4, r),
         NEW g \in Flows, s1' = [s1 EXCEPT ![r] = g], g.pc = "called", g.step = s1[r].step,
         g.customer = s1[r].customer, UNCHANGED <<s2, s3, s5>>
  PROVE  FlowInv'
<1>1. /\ FlowTypes /\ PathIsSound(r, s1[r], s2[r]) /\ LookIsGood(r, s1[r]) /\ ServersAreSound
      /\ Together
  BY DEF FlowInv
<1>2. PICK l : /\ l \notin DOMAIN s4 /\ DOMAIN s4' = DOMAIN s4 \union {l} /\ s4'[l] = r
               /\ \A i \in DOMAIN s4 : s4'[i] = s4[i]
               /\ s4' \in Seq(Messages)
  BY <1>1, OneMore DEF FlowTypes
<1>3. /\ s1' \in [Messages -> Flows]
      /\ \A q \in Messages : s1'[q] = IF q = r THEN g ELSE s1[q]
  BY <1>1 DEF FlowTypes
<1>4. FlowTypes'
  BY <1>1, <1>2, <1>3 DEF FlowTypes
<1>5. \A i \in DOMAIN s3 : s3[i].key \in Messages
  <2>1. \A i \in DOMAIN s3 : s3[i] \in Reminders
    BY <1>1 DEF FlowTypes
  <2> QED
    BY <2>1 DEF Reminders
<1>6. ServersAreSound'
  <2>1. \A i \in DOMAIN s4 : s4[i] # r
    BY DEF Logged
  <2>2. \A i \in DOMAIN s3' : s3'[i].customer = s1'[s3'[i].key].customer
    BY <1>1, <1>3, <1>5 DEF ServersAreSound
  <2>3. ASSUME NEW i \in DOMAIN s3', NEW j \in DOMAIN s3', i # j
        PROVE  /\ s3'[i].key # s3'[j].key
               /\ s3'[i].customer = s3'[j].customer => {s3'[i].key, s3'[j].key} \in s5'
    BY <1>1, <2>3 DEF ServersAreSound
  <2>4. \A i, j \in DOMAIN s4' : s4'[i] = s4'[j] => i = j
    BY <1>1, <1>2, <2>1 DEF ServersAreSound
  <2> QED
    BY <2>2, <2>3, <2>4 DEF ServersAreSound
<1>7. Together'
  BY <1>1, <1>3 DEF Together, Live
<1>8. /\ \A c : BookedFor(c)' <=> BookedFor(c)
      /\ \A q : Booked(q)' <=> Booked(q)
      /\ \A q : Logged(q)' <=> Logged(q) \/ q = r
  BY <1>2 DEF BookedFor, Booked, Logged
<1>9. ASSUME NEW q \in Messages PROVE (PathIsSound(q, s1[q], s2[q]) /\ LookIsGood(q, s1[q]))'
  <2>1. PathIsSound(q, s1[q], s2[q]) /\ LookIsGood(q, s1[q])
    BY DEF FlowInv
  <2>2. CASE q = r
    <3>1. s1'[q] = g /\ s2'[q] = s2[q] /\ g.step = "WRITE_LOG"
      BY <1>3, <2>2
    <3>2. PathIsSound(q, s1[q], s2[q])'
      <4>1. g.customer \in Customers /\ Booked(r) /\ ~(s2[q].step \in Assistant!Terminal)
        BY <1>1, <2>2 DEF PathIsSound, After
      <4> QED
        BY <1>8, <2>2, <3>1, <4>1 DEF PathIsSound, Live, Called, After, Before
    <3>3. LookIsGood(q, s1[q])'
      BY <3>1 DEF LookIsGood, Unbooked, Called
    <3> QED
      BY <3>2, <3>3
  <2>3. CASE q # r
    <3>1. s1'[q] = s1[q] /\ s2'[q] = s2[q]
      BY <1>3, <2>3
    <3>2. PathIsSound(q, s1[q], s2[q])'
      BY <1>8, <2>1, <2>3, <3>1 DEF PathIsSound
    <3>3. LookIsGood(q, s1[q])'
      BY <2>1, <3>1 DEF LookIsGood, Unbooked, Called
    <3> QED
      BY <3>2, <3>3
  <2> QED
    BY <2>2, <2>3
<1> QED
  BY <1>4, <1>6, <1>7, <1>9 DEF FlowInv

LEMMA MakingNodesKeep ==
  ASSUME FlowInv, NEW r \in Messages, Assistant!CreateFollowup(r) \/ Assistant!WriteLog(r)
  PROVE  FlowInv'
<1>1. FlowTypes /\ s1[r] \in Flows /\ s1[r].pc = "node"
  <2>1. FlowTypes /\ s1[r] \in Flows
    BY DEF FlowInv, FlowTypes
  <2>2. s1[r].pc = "node"
    BY DEF Assistant!CreateFollowup, Assistant!WriteLog, Assistant!At
  <2> QED
    BY <2>1, <2>2
<1>2. PICK g \in Flows :
        /\ g = Assistant!Answered(s1[r]) /\ g.pc = "called" /\ g.step = s1[r].step
        /\ g.customer = s1[r].customer
  BY <1>1, AnsweredIs
<1>3. CASE Assistant!CreateFollowup(r)
  <2>1. /\ s1[r].step = "CREATE_FOLLOWUP" /\ s1' = [s1 EXCEPT ![r] = g]
        /\ UNCHANGED <<s2, s4, s5>>
        /\ Booked(r) => UNCHANGED s3
        /\ ~Booked(r) => s3' = Append(s3, [key |-> r, customer |-> s1[r].customer])
    BY <1>2, <1>3, ServersAnswer DEF Assistant!CreateFollowup, Assistant!At, Assistant!Add
  <2>2. CASE Booked(r)
    BY <1>1, <1>2, <2>1, <2>2, CalledKeeps
  <2>3. CASE ~Booked(r)
    BY <1>1, <1>2, <2>1, <2>3, ReminderAdded
  <2> QED
    BY <2>2, <2>3
<1>4. CASE Assistant!WriteLog(r)
  <2>1. /\ s1[r].step = "WRITE_LOG" /\ s1' = [s1 EXCEPT ![r] = g]
        /\ UNCHANGED <<s2, s3, s5>>
        /\ Logged(r) => UNCHANGED s4
        /\ ~Logged(r) => s4' = Append(s4, r)
    BY <1>2, <1>4, ServersAnswer DEF Assistant!WriteLog, Assistant!At, Assistant!AddLog
  <2>2. CASE Logged(r)
    BY <1>1, <1>2, <2>1, <2>2, CalledKeeps
  <2>3. CASE ~Logged(r)
    BY <1>1, <1>2, <2>1, <2>3, LogAdded
  <2> QED
    BY <2>2, <2>3
<1> QED
  BY <1>3, <1>4

LEMMA FinishStepKeeps == ASSUME FlowInv, NEW r \in Messages, Assistant!FinishStep(r) PROVE FlowInv'
<1> DEFINE f == s1[r]
<1>1. /\ FlowTypes /\ f \in Flows /\ f.pc = "called" /\ UNCHANGED <<s3, s4, s5>>
      /\ PathIsSound(r, f, s2[r]) /\ LookIsGood(r, f) /\ f.step \in Before \union After
      /\ ServersAreSound /\ Live(f)
  BY DEF FlowInv, FlowTypes, Assistant!FinishStep, PathIsSound, Live
<1>2. PICK next \in (Steps \ {"LOAD_CUSTOMER", "FAILED", "WAITING_APPROVAL"}) :
        /\ next = Assistant!NextStep(f)
        /\ \/ f.step = "LOAD_CUSTOMER" /\ next = "CHECK_INTENT"
           \/ f.step = "CHECK_INTENT" /\ f.intent = "high" /\ next = "CHECK_FOLLOWUP"
           \/ f.step = "CHECK_INTENT" /\ f.intent # "high" /\ next = "DONE"
           \/ f.step = "CHECK_FOLLOWUP" /\ f.exists /\ next = "DONE"
           \/ f.step = "CHECK_FOLLOWUP" /\ ~f.exists /\ next = "CREATE_FOLLOWUP"
           \/ f.step = "CREATE_FOLLOWUP" /\ next = "WRITE_LOG"
           \/ f.step = "WRITE_LOG" /\ next = "SEND_NOTIFICATION"
           \/ f.step = "SEND_NOTIFICATION" /\ next = "DONE"
  BY <1>1 DEF Assistant!NextStep, Before, After, Steps, Assistant!Terminal
<1>3. PICK pc \in {"top", "ended"} :
        pc = Assistant!PcAt(next) /\ (pc = "ended" <=> next = "DONE")
  BY DEF Assistant!PcAt, Assistant!Terminal
<1>4. PICK a : a = [f EXCEPT !.pc = pc]
  OBVIOUS
<1>5. a \in Flows
  BY <1>1, <1>4, FlowFields
<1>6. PICK b : b = [a EXCEPT !.step = next]
  OBVIOUS
<1>7. b \in Flows
  BY <1>5, <1>6, FlowFields
<1>8. PICK g : g = [b EXCEPT !.attempt = 0]
  OBVIOUS
<1>9. g \in Flows
  <2>1. 0 \in 0..3
    OBVIOUS
  <2> QED
    BY <1>7, <1>8, <2>1, FlowFields
<1>10. /\ g.pc = pc /\ g.step = next /\ g.attempt = 0 /\ g.customer = f.customer
       /\ g.intent = f.intent /\ g.exists = f.exists
  <2>1. a.pc = pc /\ a.customer = f.customer /\ a.intent = f.intent /\ a.exists = f.exists
    BY <1>1, <1>4, <1>5 DEF Flows
  <2>2. b.pc = pc /\ b.step = next /\ b.customer = f.customer /\ b.intent = f.intent
        /\ b.exists = f.exists
    BY <1>5, <1>6, <1>7, <2>1 DEF Flows
  <2> QED
    BY <1>7, <1>8, <1>9, <2>2 DEF Flows
<1>11. s1' = [s1 EXCEPT ![r] = g]
  BY <1>1, <1>2, <1>3, <1>4, <1>6, <1>8 DEF FlowTypes, Assistant!FinishStep
<1>12. PICK v : v = [step |-> next, status |-> "success"]
  OBVIOUS
<1>13. v \in Saves /\ v.step = next /\ s2' = [s2 EXCEPT ![r] = v]
  BY <1>1, <1>2, <1>12 DEF Saves, Assistant!StepStatus, Assistant!FinishStep, Assistant!Save
<1>14. f.customer \in Customers /\ f.intent \in {"unknown", "high", "other"}
  BY <1>1 DEF PathIsSound, Called, Before, After, Flows
<1>15. Booked(r) => BookedFor(f.customer)
  BY <1>1 DEF Booked, BookedFor, ServersAreSound
<1>16. g.attempt < Assistant!MaxAttempts(g.step)
  BY <1>10, AttemptsBound
<1>17. PathIsSound(r, g, v)
  <2>1. CASE next = "DONE"
    <3>1. /\ f.intent = "other" \/ BookedFor(f.customer)
          /\ f.intent = "high" /\ ~f.exists => Logged(r)
          /\ Logged(r) => Booked(r)
      BY <1>1, <1>2, <1>14, <1>15, <2>1 DEF PathIsSound, Called
    <3> QED
      BY <1>3, <1>10, <1>13, <2>1, <3>1
         DEF PathIsSound, Live, Called, Before, After, Assistant!Terminal
  <2>2. CASE next # "DONE"
    <3>1. /\ Booked(r) => next \notin Before
          /\ next \in {"WRITE_LOG", "SEND_NOTIFICATION"} => Booked(r)
          /\ next = "SEND_NOTIFICATION" => Logged(r)
          /\ Logged(r) => Booked(r)
      BY <1>1, <1>2, <2>2 DEF PathIsSound, Called, Before
    <3>2. next \in Before \union After /\ next \notin Assistant!Terminal /\ g.pc = "top"
      BY <1>2, <1>3, <1>10, <2>2 DEF Steps, Before, After, Assistant!Terminal
    <3> QED
      BY <1>10, <1>13, <1>14, <1>16, <2>2, <3>1, <3>2 DEF PathIsSound, Live, Called
  <2> QED
    BY <2>1, <2>2
<1>18. LookIsGood(r, g)
  BY <1>1, <1>2, <1>3, <1>10 DEF LookIsGood, Unbooked, Called
<1> QED
  BY <1>1, <1>9, <1>10, <1>11, <1>13, <1>17, <1>18, FlowFrame

\* A node throws: its step is tried again, or the workflow ends without being done.
LEMMA FailNodeKeeps == ASSUME FlowInv, NEW r \in Messages, Assistant!FailNode(r) PROVE FlowInv'
<1> DEFINE f == s1[r]
<1>1. /\ FlowTypes /\ f \in Flows /\ f.pc \in {"node", "called"} /\ UNCHANGED <<s3, s4, s5>>
      /\ PathIsSound(r, f, s2[r]) /\ LookIsGood(r, f) /\ s2[r] \in Saves
      /\ Live(f)
  BY DEF FlowInv, FlowTypes, Assistant!FailNode, Live
<1>2. f.step \in Before \union After /\ s2[r].step \notin Assistant!Terminal
  BY <1>1 DEF PathIsSound, Live
<1>3. PICK error \in Assistant!ErrorType :
        \/ /\ Assistant!Retries(error, f)
           /\ s1' = [s1 EXCEPT ![r].pc = "top", ![r].timedOut = @ \/ f.step = "WRITE_LOG"]
           /\ UNCHANGED s2
        \/ /\ s1' = [s1 EXCEPT ![r].pc = "ended", ![r].attempt = 0,
                               ![r].step = Assistant!StepAfter(error)]
           /\ Assistant!Save(r, Assistant!StepAfter(error), "failed")
  BY DEF Assistant!FailNode
<1>4. CASE /\ Assistant!Retries(error, f)
           /\ s1' = [s1 EXCEPT ![r].pc = "top", ![r].timedOut = @ \/ f.step = "WRITE_LOG"]
           /\ UNCHANGED s2
  <2>1. PICK b \in BOOLEAN : b = (f.timedOut \/ f.step = "WRITE_LOG")
    OBVIOUS
  <2>2. PICK a : a = [f EXCEPT !.pc = "top"]
    OBVIOUS
  <2>3. a \in Flows
    BY <1>1, <2>2, FlowFields
  <2>4. PICK g : g = [a EXCEPT !.timedOut = b]
    OBVIOUS
  <2>5. g \in Flows
    BY <2>3, <2>4, FlowFields
  <2>6. /\ g.pc = "top" /\ g.step = f.step /\ g.attempt = f.attempt /\ g.customer = f.customer
        /\ g.intent = f.intent /\ g.exists = f.exists
    BY <1>1, <2>2, <2>3, <2>4, <2>5 DEF Flows
  <2>7. s1' = [s1 EXCEPT ![r] = g]
    BY <1>1, <1>4, <2>1, <2>2, <2>4 DEF FlowTypes
  <2>8. s2' = [s2 EXCEPT ![r] = s2[r]]
    BY <1>1, <1>4 DEF FlowTypes
  <2>9. f.attempt < Assistant!MaxAttempts(f.step)
    BY <1>4 DEF Assistant!Retries
  <2>10. PathIsSound(r, g, s2[r])
    BY <1>1, <1>2, <2>6, <2>9 DEF PathIsSound, Live, Called
  <2>11. LookIsGood(r, g)
    BY <1>1, <2>6 DEF LookIsGood, Unbooked, Called
  <2> QED
    BY <1>1, <2>5, <2>6, <2>7, <2>8, <2>10, <2>11, FlowFrame
<1>5. CASE /\ s1' = [s1 EXCEPT ![r].pc = "ended", ![r].attempt = 0,
                               ![r].step = Assistant!StepAfter(error)]
           /\ Assistant!Save(r, Assistant!StepAfter(error), "failed")
  <2>1. PICK step \in {"FAILED", "WAITING_APPROVAL"} : step = Assistant!StepAfter(error)
    BY DEF Assistant!StepAfter
  <2>2. PICK a : a = [f EXCEPT !.pc = "ended"]
    OBVIOUS
  <2>3. a \in Flows
    BY <1>1, <2>2, FlowFields
  <2>4. PICK b : b = [a EXCEPT !.attempt = 0]
    OBVIOUS
  <2>5. b \in Flows
    <3>1. 0 \in 0..3
      OBVIOUS
    <3> QED
      BY <2>3, <2>4, <3>1, FlowFields
  <2>6. PICK g : g = [b EXCEPT !.step = step]
    OBVIOUS
  <2>7. g \in Flows
    BY <2>1, <2>5, <2>6, FlowFields DEF Steps, Assistant!Terminal
  <2>8. g.pc = "ended" /\ g.step = step /\ g.customer = f.customer
    <3>1. b.pc = "ended" /\ b.customer = f.customer
      BY <1>1, <2>2, <2>3, <2>4, <2>5 DEF Flows
    <3> QED
      BY <2>5, <2>6, <2>7, <3>1 DEF Flows
  <2>9. s1' = [s1 EXCEPT ![r] = g]
    BY <1>1, <1>5, <2>1, <2>2, <2>4, <2>6 DEF FlowTypes
  <2>10. PICK v : v = [step |-> step, status |-> "failed"]
    OBVIOUS
  <2>11. v \in Saves /\ v.step = step /\ s2' = [s2 EXCEPT ![r] = v]
    BY <1>5, <2>1, <2>10 DEF Saves, Steps, Assistant!Terminal, Assistant!StepStatus, Assistant!Save
  <2>12. PathIsSound(r, g, v)
    <3>1. Logged(r) => Booked(r)
      BY <1>1 DEF PathIsSound
    <3> QED
      BY <2>8, <2>11, <3>1 DEF PathIsSound, Live, Called, Before, After, Assistant!Terminal
  <2>13. LookIsGood(r, g) /\ ~Live(g)
    BY <2>8 DEF LookIsGood, Unbooked, Called, Live
  <2> QED
    BY <1>1, <2>7, <2>8, <2>9, <2>11, <2>12, <2>13, FlowFrame
<1> QED
  BY <1>3, <1>4, <1>5

LEMMA StartFlowKeeps == ASSUME FlowInv, NEW r \in Messages, Assistant!StartFlow(r) PROVE FlowInv'
<1>1. /\ FlowTypes /\ s1[r] \in Flows /\ s1[r].pc = "unborn" /\ UNCHANGED <<s3, s4>>
      /\ PathIsSound(r, s1[r], s2[r]) /\ ServersAreSound /\ Together
  BY DEF FlowInv, FlowTypes, Assistant!StartFlow
<1>2. PICK g : g = [s1[r] EXCEPT !.pc = "top"]
  OBVIOUS
<1>3. g \in Flows
  BY <1>1, <1>2, FlowFields
<1>4. /\ g.pc = "top" /\ g.step = "LOAD_CUSTOMER" /\ g.attempt = 0 /\ g.customer = s1[r].customer
      /\ s1[r].step = "LOAD_CUSTOMER"
  BY <1>1, <1>2, <1>3 DEF Flows, PathIsSound
<1>5. s1' = [s1 EXCEPT ![r] = g]
  BY <1>1, <1>2 DEF FlowTypes, Assistant!StartFlow, Assistant!Goto
<1>6. PICK v : v = [step |-> "LOAD_CUSTOMER", status |-> "none"]
  OBVIOUS
<1>7. v \in Saves /\ v.step = "LOAD_CUSTOMER" /\ s2' = [s2 EXCEPT ![r] = v]
  BY <1>6 DEF Saves, Steps, Before, Assistant!StepStatus, Assistant!StartFlow, Assistant!Save
<1>8. s5' = s5 \union {{r, o} : o \in {q \in Messages : Live(s1[q])}}
  BY DEF Assistant!StartFlow, Assistant!UnderWay, Live
<1>9. /\ s1' \in [Messages -> Flows] /\ s2' \in [Messages -> Saves]
      /\ \A q \in Messages : s1'[q] = (IF q = r THEN g ELSE s1[q])
                             /\ s2'[q] = (IF q = r THEN v ELSE s2[q])
  BY <1>1, <1>3, <1>5, <1>7 DEF FlowTypes
<1>10. FlowTypes'
  BY <1>1, <1>8, <1>9 DEF FlowTypes
<1>11. \A i \in DOMAIN s3 : s3[i].key \in Messages
  <2>1. \A i \in DOMAIN s3 : s3[i] \in Reminders
    BY <1>1 DEF FlowTypes
  <2> QED
    BY <2>1 DEF Reminders
<1>12. ServersAreSound'
  <2>1. \A i \in DOMAIN s3' : s3'[i].customer = s1'[s3'[i].key].customer
    BY <1>1, <1>4, <1>9, <1>11 DEF ServersAreSound
  <2>2. s5 \subseteq s5'
    BY <1>8
  <2> QED
    BY <1>1, <2>1, <2>2 DEF ServersAreSound
<1>13. Together'
  <2> SUFFICES ASSUME NEW q \in Messages, NEW o \in Messages, q # o, Live(s1'[q]), Live(s1'[o])
               PROVE  {q, o} \in s5'
    BY DEF Together
  <2>1. CASE q # r /\ o # r
    BY <1>1, <1>8, <1>9, <2>1 DEF Together
  <2>2. CASE q = r
    BY <1>8, <1>9, <2>2
  <2>3. CASE o = r
    <3>1. {r, q} \in s5'
      BY <1>8, <1>9, <2>3
    <3>2. {r, q} = {q, o}
      BY <2>3
    <3> QED
      BY <3>1, <3>2
  <2> QED
    BY <2>1, <2>2, <2>3
<1>14. ASSUME NEW q \in Messages PROVE (PathIsSound(q, s1[q], s2[q]) /\ LookIsGood(q, s1[q]))'
  <2>1. /\ PathIsSound(q, s1[q], s2[q]) /\ LookIsGood(q, s1[q])
        /\ \A p : Booked(p)' <=> Booked(p)
        /\ \A p : Logged(p)' <=> Logged(p)
        /\ \A c : BookedFor(c)' <=> BookedFor(c)
    BY <1>1 DEF FlowInv, Booked, Logged, BookedFor
  <2>2. CASE q = r
    <3>1. ~Booked(r) /\ ~Logged(r)
      BY <1>1, <1>4 DEF PathIsSound, Before
    <3>2. s1'[q] = g /\ s2'[q] = v
      BY <1>9, <2>2
    <3>3. PathIsSound(q, s1[q], s2[q])'
      <4>1. 0 < Assistant!MaxAttempts("LOAD_CUSTOMER")
        BY AttemptsBound
      <4> QED
        BY <1>4, <1>7, <2>1, <2>2, <3>1, <3>2, <4>1
           DEF PathIsSound, Live, Called, Before, After, Assistant!Terminal
    <3>4. LookIsGood(q, s1[q])'
      BY <1>4, <3>2 DEF LookIsGood, Unbooked, Called
    <3> QED
      BY <3>3, <3>4
  <2>3. CASE q # r
    <3>1. s1'[q] = s1[q] /\ s2'[q] = s2[q] /\ s5 \subseteq s5'
      BY <1>8, <1>9, <2>3
    <3>2. PathIsSound(q, s1[q], s2[q])'
      BY <2>1, <3>1 DEF PathIsSound
    <3>3. LookIsGood(q, s1[q])'
      BY <1>1, <2>1, <3>1 DEF LookIsGood, Unbooked, Called
    <3> QED
      BY <3>2, <3>3
  <2> QED
    BY <2>2, <2>3
<1> QED
  BY <1>10, <1>12, <1>13, <1>14 DEF FlowInv

LEMMA FlowStepKeeps == ASSUME FlowInv, NEW r \in Messages, Assistant!FlowStep(r) PROVE FlowInv'
BY BeginAttemptKeeps, AskingNodesKeep, MakingNodesKeep, FinishStepKeeps, FailNodeKeeps
   DEF Assistant!FlowStep, Assistant!CallNode

LEMMA FlowUnchanged == ASSUME FlowInv, UNCHANGED <<s1, s2, s3, s4, s5>> PROVE FlowInv'
BY DEF FlowInv, FlowTypes, ServersAreSound, Together, PathIsSound, LookIsGood,
   Booked, Logged, BookedFor

Pairs == {{a, b} : a, b \in Messages}

\* Which messages are in hand, and whose fact is remembered.
HandlingInv ==
  /\ s6 \in [Messages -> Assistant!Handling] /\ s7 \in Messages \union {0} /\ s8 \subseteq Messages
  /\ s9 \subseteq Pairs
  /\ \A m, n \in Messages : m < n /\ s6[n] # "new" => s6[m] # "new"
  /\ \A m, n \in Messages : m < n /\ s6[n] # "new" /\ Assistant!InHand(m) => {m, n} \in s9
  /\ \A m \in s8 : s6[m] # "new"
  /\ s7 = 0 => s8 = {}
  /\ \A m \in s8 : m > s7 => {m, s7} \in s9

\* A message goes on; it may have a fact to remember.
LEMMA HandlingKeeps ==
  ASSUME HandlingInv, NEW m \in Messages, s6[m] # "new", Assistant!InHand(m),
         NEW h \in Assistant!Handling \ {"new"}, s6' = [s6 EXCEPT ![m] = h], UNCHANGED s9,
         UNCHANGED <<s7, s8>> \/ (s7' = m /\ s8' = s8 \union {m})
  PROVE  HandlingInv'
<1>1. Messages \subseteq Nat \ {0}
  BY AgentAssumption
<1>2. /\ s6' \in [Messages -> Assistant!Handling]
      /\ \A n \in Messages : s6'[n] = IF n = m THEN h ELSE s6[n]
  BY DEF HandlingInv
<1>3. \A n \in Messages : Assistant!InHand(n)' => Assistant!InHand(n)
  BY <1>2 DEF Assistant!InHand
<1>4. \A n \in Messages : s6'[n] # "new" <=> s6[n] # "new"
  BY <1>2
<1>5. \A o, n \in Messages : o < n /\ s6'[n] # "new" => s6'[o] # "new"
  BY <1>4 DEF HandlingInv
<1>6. \A o, n \in Messages : o < n /\ s6'[n] # "new" /\ Assistant!InHand(o)' => {o, n} \in s9
  BY <1>3, <1>4 DEF HandlingInv
<1>7. CASE UNCHANGED <<s7, s8>>
  <2>1. \A n \in s8 : n \in Messages
    BY DEF HandlingInv
  <2> QED
    BY <1>2, <1>4, <1>5, <1>6, <1>7, <2>1 DEF HandlingInv
<1>8. CASE s7' = m /\ s8' = s8 \union {m}
  <2>1. \A n \in s8' : n \in Messages /\ s6'[n] # "new"
    BY <1>4, <1>8 DEF HandlingInv
  <2>2. ASSUME NEW n \in s8', n > m PROVE {n, m} \in s9
    <3>1. n \in s8 /\ n \in Messages /\ m < n /\ s6[n] # "new"
      BY <1>1, <1>8, <2>1, <2>2 DEF HandlingInv
    <3>2. {m, n} \in s9
      BY <3>1 DEF HandlingInv
    <3>3. {m, n} = {n, m}
      OBVIOUS
    <3> QED
      BY <3>2, <3>3
  <2>3. m # 0 /\ s7' \in Messages \union {0} /\ s8' \subseteq Messages
    BY <1>1, <1>8, <2>1
  <2>4. \A n \in s8' : n > s7' => {n, s7'} \in s9'
    BY <1>8, <2>2
  <2>5. s9' \subseteq Pairs
    BY DEF HandlingInv
  <2>6. \A o, n \in Messages : o < n /\ s6'[n] # "new" /\ Assistant!InHand(o)' => {o, n} \in s9'
    BY <1>6
  <2>7. s7' = 0 => s8' = {}
    BY <1>8, <2>3
  <2> QED
    BY <1>2, <1>5, <2>1, <2>3, <2>4, <2>5, <2>6, <2>7 DEF HandlingInv
<1> QED
  BY <1>7, <1>8

LEMMA ReceiveKeeps == ASSUME HandlingInv, NEW m \in Messages, Assistant!Receive(m) PROVE HandlingInv'
<1>1. /\ Messages \subseteq Nat \ {0} /\ s6[m] = "new" /\ UNCHANGED <<s7, s8>>
      /\ \A n \in Messages : n < m => s6[n] # "new"
      /\ s6' = [s6 EXCEPT ![m] = "extracting"]
      /\ s9' = s9 \union {{m, n} : n \in {o \in Messages : Assistant!InHand(o)}}
  BY AgentAssumption DEF Assistant!Receive
<1>2. /\ s6' \in [Messages -> Assistant!Handling]
      /\ \A n \in Messages : s6'[n] = IF n = m THEN "extracting" ELSE s6[n]
  BY <1>1 DEF HandlingInv, Assistant!Handling
<1>3. \A n \in Messages : n > m => s6[n] = "new"
  BY <1>1 DEF HandlingInv
<1>4. s9 \subseteq s9' /\ s9' \subseteq Pairs
  <2>1. {{m, n} : n \in {o \in Messages : Assistant!InHand(o)}} \subseteq Pairs
    BY DEF Pairs
  <2> QED
    BY <1>1, <2>1 DEF HandlingInv
<1>5. \A o, n \in Messages : o < n /\ s6'[n] # "new" => s6'[o] # "new"
  BY <1>1, <1>2 DEF HandlingInv
<1>6. ASSUME NEW o \in Messages, NEW n \in Messages, o < n, s6'[n] # "new", Assistant!InHand(o)'
      PROVE  {o, n} \in s9'
  <2>1. o # m
    <3> SUFFICES ASSUME o = m PROVE FALSE
      OBVIOUS
    <3>1. n # m /\ n > m
      BY <1>1, <1>6
    <3> QED
      BY <1>2, <1>3, <1>6, <3>1
  <2>2. Assistant!InHand(o)
    BY <1>2, <1>6, <2>1 DEF Assistant!InHand
  <2>3. CASE n = m
    <3>1. {m, o} \in s9'
      BY <1>1, <2>2
    <3>2. {m, o} = {o, n}
      BY <2>3
    <3> QED
      BY <3>1, <3>2
  <2>4. CASE n # m
    <3>1. {o, n} \in s9
      BY <1>2, <1>6, <2>2, <2>4 DEF HandlingInv
    <3> QED
      BY <1>4, <3>1
  <2> QED
    BY <2>3, <2>4
<1>7. \A n \in s8' : s6'[n] # "new"
  BY <1>1, <1>2 DEF HandlingInv
<1>8. \A n \in s8' : n > s7' => {n, s7'} \in s9'
  BY <1>1, <1>4 DEF HandlingInv
<1>9. s7' \in Messages \union {0} /\ s8' \subseteq Messages /\ (s7' = 0 => s8' = {})
  BY <1>1 DEF HandlingInv
<1> QED
  BY <1>2, <1>4, <1>5, <1>6, <1>7, <1>8, <1>9 DEF HandlingInv

AssistantInv == FlowInv /\ HandlingInv

LEMMA AssistantStep == ASSUME AssistantInv, Assistant!Next PROVE AssistantInv'
<1>1. PICK m \in Messages : Assistant!Receive(m) \/ Assistant!Handle(m)
  BY DEF Assistant!Next
<1>2. FlowInv /\ HandlingInv
  BY DEF AssistantInv
<1>3. CASE Assistant!Receive(m)
  <2>1. UNCHANGED <<s1, s2, s3, s4, s5>>
    BY <1>3 DEF Assistant!Receive, Assistant!flowVars
  <2> QED
    BY <1>2, <1>3, <2>1, ReceiveKeeps, FlowUnchanged DEF AssistantInv
<1>4. CASE Assistant!Extracted(m)
  <2>1. /\ s6[m] = "extracting" /\ s6' = [s6 EXCEPT ![m] = "retrieving"]
        /\ UNCHANGED <<s1, s2, s3, s4, s5, s9>>
        /\ UNCHANGED <<s7, s8>> \/ (s7' = m /\ s8' = s8 \union {m})
    BY <1>4 DEF Assistant!Extracted, Assistant!flowVars, Assistant!Remember
  <2>2. Assistant!InHand(m) /\ "retrieving" \in Assistant!Handling \ {"new"}
    BY <2>1 DEF Assistant!InHand, Assistant!Handling
  <2>3. HandlingInv'
    BY <1>2, <2>1, <2>2, HandlingKeeps
  <2> QED
    BY <1>2, <2>1, <2>3, FlowUnchanged DEF AssistantInv
<1>5. CASE Assistant!Route(m)
  <2>1. PICK h \in {"workflow", "answering"} :
          /\ s6[m] = "retrieving" /\ s6' = [s6 EXCEPT ![m] = h] /\ UNCHANGED <<s7, s8, s9>>
          /\ Assistant!StartFlow(m) \/ UNCHANGED <<s1, s2, s3, s4, s5>>
    BY <1>5 DEF Assistant!Route, Assistant!flowVars
  <2>2. Assistant!InHand(m) /\ h \in Assistant!Handling \ {"new"}
    BY <2>1 DEF Assistant!InHand, Assistant!Handling
  <2>3. HandlingInv'
    BY <1>2, <2>1, <2>2, HandlingKeeps
  <2>4. FlowInv'
    BY <1>2, <2>1, StartFlowKeeps, FlowUnchanged
  <2> QED
    BY <2>3, <2>4 DEF AssistantInv
<1>6. CASE Assistant!Reply(m) \/ Assistant!Fail(m)
  <2>1. PICK h \in {"replied", "failed"} :
          /\ s6[m] \in {"extracting", "answering", "workflow"} /\ s6' = [s6 EXCEPT ![m] = h]
          /\ UNCHANGED <<s1, s2, s3, s4, s5, s7, s8, s9>>
    BY <1>6 DEF Assistant!Reply, Assistant!Fail, Assistant!flowVars
  <2>2. Assistant!InHand(m) /\ h \in Assistant!Handling \ {"new"}
    BY <2>1 DEF Assistant!InHand, Assistant!Handling
  <2>3. HandlingInv'
    BY <1>2, <2>1, <2>2, HandlingKeeps
  <2> QED
    BY <1>2, <2>1, <2>3, FlowUnchanged DEF AssistantInv
<1>7. CASE Assistant!Work(m)
  <2>1. Assistant!FlowStep(m) /\ UNCHANGED <<s6, s7, s8, s9>>
    BY <1>7 DEF Assistant!Work
  <2>2. HandlingInv'
    BY <1>2, <2>1 DEF HandlingInv, Assistant!InHand
  <2> QED
    BY <1>2, <2>1, <2>2, FlowStepKeeps DEF AssistantInv
<1> QED
  BY <1>1, <1>3, <1>4, <1>5, <1>6, <1>7 DEF Assistant!Handle

LEMMA AssistantAlways == Spec => [](part = "assistant" => AssistantInv)
<1>1. Init => (part = "assistant" => AssistantInv)
  <2> SUFFICES ASSUME Assistant!Init PROVE AssistantInv
    BY DEF Init
  <2> DEFINE f0 == [pc |-> "unborn", step |-> "LOAD_CUSTOMER", attempt |-> 0, customer |-> "none",
                    intent |-> "unknown", exists |-> FALSE, timedOut |-> FALSE]
  <2>1. /\ s1 = [r \in Messages |-> f0]
        /\ s2 = [r \in Messages |-> [step |-> "none", status |-> "none"]]
        /\ s3 = << >> /\ s4 = << >> /\ s5 = {}
        /\ s6 = [m \in Messages |-> "new"] /\ s7 = 0 /\ s8 = {} /\ s9 = {}
    BY DEF Assistant!Init, Assistant!FlowInit, Assistant!NoCustomer
  <2>2. f0 \in Flows /\ [step |-> "none", status |-> "none"] \in Saves
    BY DEF Flows, Saves, Steps, Before, Assistant!StepStatus
  <2>3. FlowTypes
    BY <2>1, <2>2 DEF FlowTypes
  <2>4. ServersAreSound /\ Together
    BY <2>1 DEF ServersAreSound, Together, Live
  <2>5. ~(\E r : Booked(r)) /\ ~(\E r : Logged(r))
    BY <2>1 DEF Booked, Logged
  <2>6. \A r \in Messages : PathIsSound(r, s1[r], s2[r]) /\ LookIsGood(r, s1[r])
    <3> SUFFICES ASSUME NEW r \in Messages
                 PROVE  PathIsSound(r, s1[r], s2[r]) /\ LookIsGood(r, s1[r])
      OBVIOUS
    <3>1. /\ s1[r].pc = "unborn" /\ s1[r].step = "LOAD_CUSTOMER" /\ s1[r].attempt = 0
          /\ s2[r].step = "none"
      BY <2>1
    <3> QED
      BY <2>5, <3>1 DEF PathIsSound, LookIsGood, Live, Called, Unbooked, After, Assistant!Terminal
  <2>7. FlowInv
    BY <2>3, <2>4, <2>6 DEF FlowInv
  <2>8. HandlingInv
    BY <2>1 DEF HandlingInv, Assistant!Handling, Assistant!InHand
  <2> QED
    BY <2>7, <2>8 DEF AssistantInv
<1>2. (part = "assistant" => AssistantInv) /\ [Next]_vars => (part = "assistant" => AssistantInv)'
  <2> SUFFICES ASSUME part = "assistant" => AssistantInv, [Next]_vars, part' = "assistant"
               PROVE  AssistantInv'
    OBVIOUS
  <2>1. CASE Next
    <3>1. part = "assistant" /\ Assistant!Next
      BY <2>1 DEF Next
    <3> QED
      BY <3>1, AssistantStep
  <2>2. CASE UNCHANGED vars
    <3>1. FlowInv /\ HandlingInv /\ UNCHANGED <<s1, s2, s3, s4, s5, s6, s7, s8, s9>>
      BY <2>2 DEF vars, AssistantInv
    <3>2. HandlingInv'
      BY <3>1 DEF HandlingInv, Assistant!InHand
    <3> QED
      BY <3>1, <3>2, FlowUnchanged DEF AssistantInv
  <2> QED
    BY <2>1, <2>2
<1> QED
  BY <1>1, <1>2, PTL DEF Spec

\* However often nodes are retried and messages overlap, a request makes at most one reminder
\* and one log, a workflow that says DONE has done its work, and memory holds the newest fact
\* unless an older message was still being mined (workflow/runner.ts, production-agent.ts).
THEOREM WorkflowsAreWhole == Spec => []WorkIsWhole
<1>1. ASSUME FlowInv PROVE Assistant!FlowTypeOK
  <2>1. FlowTypes
    BY <1>1 DEF FlowInv
  <2>2. \A reminder \in Assistant!Range(s3) : reminder \in [key : Messages, customer : Customers]
    <3>1. \A i \in DOMAIN s3 : s3[i] \in Reminders
      BY <2>1 DEF FlowTypes
    <3> QED
      BY <3>1 DEF Reminders, Assistant!Range
  <2>3. \A log \in Assistant!Range(s4) : log \in Messages
    BY <2>1 DEF FlowTypes, Assistant!Range
  <2> QED
    BY <2>1, <2>2, <2>3, StepsAre
       DEF FlowTypes, Flows, Saves, Assistant!FlowTypeOK, Assistant!NoCustomer
<1>2. ASSUME FlowInv PROVE Assistant!OneReminder
  BY <1>2 DEF FlowInv, ServersAreSound, Assistant!OneReminder, Assistant!IsInjective
<1>3. ASSUME FlowInv PROVE Assistant!DoneIsWhole
  <2> SUFFICES ASSUME NEW r \in Messages
               PROVE  /\ s1[r].step = "DONE" =>
                           s1[r].intent = "other" \/ Assistant!HasReminder(s1[r].customer)
                      /\ Assistant!Completed(r) =>
                           /\ r \in Assistant!Range(s4)
                           /\ \E x \in Assistant!Range(s3) : x.key = r
                      /\ r \in Assistant!Range(s4) => \E x \in Assistant!Range(s3) : x.key = r
                      /\ s2[r].step \in Assistant!Terminal =>
                           s1[r].pc = "ended" /\ s1[r].step = s2[r].step
    BY DEF Assistant!DoneIsWhole
  <2>1. PathIsSound(r, s1[r], s2[r])
    BY <1>3 DEF FlowInv
  <2> QED
    BY <2>1, ServersAnswer DEF PathIsSound, Assistant!Completed
<1>4. ASSUME HandlingInv PROVE Assistant!NewestFact
  BY <1>4 DEF HandlingInv, Assistant!NewestFact
<1>5. ASSUME AssistantInv
      PROVE  /\ Assistant!TypeOK /\ Assistant!OneReminder /\ Assistant!DoneIsWhole
             /\ Assistant!NewestFact
  BY <1>1, <1>2, <1>3, <1>4, <1>5 DEF AssistantInv, HandlingInv, Pairs, Assistant!TypeOK
<1>6. (part = "assistant" => AssistantInv) => WorkIsWhole
  BY <1>5 DEF WorkIsWhole
<1> QED
  BY <1>6, AssistantAlways, PTL
=============================================================================
