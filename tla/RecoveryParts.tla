----------------------------- MODULE RecoveryParts -----------------------------
(***************************************************************************)
(* The recovery side of the runtime that shares no state with the modules  *)
(* DurableExecution, OutboxDelivery, RecoveryCommands and                  *)
(* RecoveryFinalization, side by side: a behaviour is a behaviour of one   *)
(* part, and s1 to s7 are the variables of that one, in the order of its   *)
(* module.                                                                 *)
(***************************************************************************)
EXTENDS Naturals, FiniteSets

CONSTANTS
  Actors,          \* callers, dispatchers, workers, attempts and HTTP calls
  Things,          \* runs or outbox events
  MaxVersion,      \* bound on versions
  MaxAttempts,     \* bound on counted attempts
  MaxConflicts,    \* maxConflicts of the recovery coordinator
  Facts, MaxRotations, MaxWithdrawals,                  \* of DeliveryCutover
  Requests, MaxChanges,                                 \* of RecoveryIngress
  Declarations, Behaviours,                             \* of ProviderGates
  MaxRevision, MaxEpoch, MaxTime, MaxAge

ASSUME PartsAssumption ==
  /\ IsFiniteSet(Actors) /\ Actors # {} /\ "nobody" \notin Actors
  /\ Things # {}
  /\ {MaxVersion, MaxAttempts, MaxRotations, MaxRevision, MaxEpoch, MaxTime} \subseteq Nat \ {0}
  /\ {MaxConflicts, MaxWithdrawals, MaxChanges, MaxAge} \subseteq Nat

VARIABLES part, s1, s2, s3, s4, s5, s6, s7

vars == <<part, s1, s2, s3, s4, s5, s6, s7>>

Files == INSTANCE FileCheckpointStore WITH
  Runs <- Things, Callers <- Actors,
  file <- s1, tmp <- s2, chain <- s3, call <- s4, snapshot <- s5, loaded <- s6

Table == INSTANCE SqlCheckpointStore WITH
  Runs <- Things, Callers <- Actors,
  stored <- s1, call <- s2, loaded <- s3, actual <- s4

Outbox == INSTANCE OutboxDispatcher WITH
  Events <- Things, Dispatchers <- Actors,
  record <- s1, pass <- s2, called <- s3, received <- s4, overlapped <- s5

Cutover == INSTANCE DeliveryCutover WITH
  Workers <- Actors, MaxEpoch <- MaxRotations,
  evidence <- s1, fence <- s2, worker <- s3, done <- s4

Recovery == INSTANCE RecoveryAttempts WITH
  Attempts <- Actors, committer <- s1, store <- s2, attempt <- s3, metrics <- s4,
  suspendedRun <- s5, decided <- s6, crossed <- s7

Ingress == INSTANCE RecoveryIngress WITH
  Calls <- Actors, authority <- s1, command <- s2, call <- s3

Gates == INSTANCE ProviderGates WITH
  provider <- s1, registry <- s2, effect <- s3, seen <- s4, clock <- s5

Executor == INSTANCE CommandExecutor WITH
  Commands <- Things, Calls <- Actors,
  records <- s1, call <- s2, handled <- s3, settled <- s4, widowed <- s5

ASSUME GuaranteesAssumption == Behaviours \subseteq SUBSET Gates!Guarantees

\* The value of the variables the part has no use for.
Unused == "unused"

Init ==
  \/ /\ part = "files" /\ Files!Init
     /\ s7 = Unused
  \/ /\ part = "table" /\ Table!Init
     /\ s5 = Unused /\ s6 = Unused /\ s7 = Unused
  \/ /\ part = "outbox" /\ Outbox!Init
     /\ s6 = Unused /\ s7 = Unused
  \/ /\ part = "cutover" /\ Cutover!Init
     /\ s5 = Unused /\ s6 = Unused /\ s7 = Unused
  \/ part = "recovery" /\ Recovery!Init
  \/ /\ part = "ingress" /\ Ingress!Init
     /\ s4 = Unused /\ s5 = Unused /\ s6 = Unused /\ s7 = Unused
  \/ /\ part = "gates" /\ Gates!Init
     /\ s6 = Unused /\ s7 = Unused
  \/ /\ part = "executor" /\ Executor!Init
     /\ s6 = Unused /\ s7 = Unused

Next ==
  \/ part = "files" /\ Files!Next /\ UNCHANGED <<part, s7>>
  \/ part = "table" /\ Table!Next /\ UNCHANGED <<part, s5, s6, s7>>
  \/ part = "outbox" /\ Outbox!Next /\ UNCHANGED <<part, s6, s7>>
  \/ part = "cutover" /\ Cutover!Next /\ UNCHANGED <<part, s5, s6, s7>>
  \/ part = "recovery" /\ Recovery!Next /\ UNCHANGED part
  \/ part = "ingress" /\ Ingress!Next /\ UNCHANGED <<part, s4, s5, s6, s7>>
  \/ part = "gates" /\ Gates!Next /\ UNCHANGED <<part, s6, s7>>
  \/ part = "executor" /\ Executor!Next /\ UNCHANGED <<part, s6, s7>>

\* Steps that take place once they can: promises settle and their continuations run.
Continue(c) ==
  \/ part = "files" /\ Files!Step(c) /\ UNCHANGED <<part, s7>>
  \/ part = "recovery" /\ Recovery!Step(c) /\ UNCHANGED part
  \/ part = "executor" /\ Executor!Step(c) /\ UNCHANGED <<part, s6, s7>>

Fairness == \A c \in Actors : WF_vars(Continue(c))

Spec == Init /\ [][Next]_vars /\ Fairness

-----------------------------------------------------------------------------
(* Properties.                                                             *)

\* The store both implementations refine; the other parts stand for a store nobody uses.
Store == INSTANCE VersionedStore WITH
  Runs <- Things, Callers <- Actors,
  stored <- CASE part = "files" -> Files!Stored
              [] part = "table" -> s1
              [] OTHER -> Files!Empty,
  loaded <- CASE part = "files" -> s6
              [] part = "table" -> s3
              [] OTHER -> [c \in Actors |-> [run |-> CHOOSE r \in Things : TRUE, version |-> 0]],
  answer <- CASE part = "files" -> Files!Answer
              [] part = "table" -> Table!Answer
              [] OTHER -> [c \in Actors |-> "none"]

\* A checkpoint store is an atomic compare-and-swap per run: the file store within one
\* process, although every save rewrites the checkpoints of all runs and a crash or a full
\* disk may interrupt it ("this store survives process restart"); the SQL store between
\* processes.
StoreSpec ==
  /\ Store!Spec
  /\ [](part = "files" => Files!TypeOK) /\ [](part = "table" => Table!TypeOK)

\* Whatever passes and workers overlap: the legacy dispatcher marks nothing dispatched that
\* was not received, and miscounts only under overlap; no gateway operation takes place
\* beside it unless a fact was withdrawn after the check; no write goes back an epoch.
DeliveryIsAccounted ==
  /\ [](part = "outbox" =>
          Outbox!TypeOK /\ Outbox!DispatchedWasReceived /\ Outbox!CountedWithoutOverlap)
  /\ [](part = "cutover" => Cutover!TypeOK /\ Cutover!NoMixedWriters)
  /\ [][part = "cutover" => Cutover!EpochsGrow]_vars

\* Metrics, conflicts included, add up to what attempts have done, and the registry of
\* suspended runs shows their last decision unless reports have crossed; a conflict of the
\* SQL store names a later version than was expected; a recovery commits whole, over the
\* checkpoint and the control it had read, and no two commands succeed on one version.
RecoveryIsTold ==
  /\ [](part = "recovery" =>
          Recovery!TypeOK /\ Recovery!OperatorSeesTruth /\ Recovery!OneSuccessPerVersion)
  /\ [](part = "table" => Table!ConflictTellsWhy)
  /\ [][part = "recovery" => Recovery!WholeCommit]_vars

\* The answers of the recovery ingress and of the command executor tell the truth, whatever
\* calls race, repeat or die; a command starts only for an actor the authority has let pass,
\* and the executor runs none twice.
AnswersAreTrue ==
  /\ [](part = "ingress" => Ingress!TypeOK /\ Ingress!AnswersAreTrue)
  /\ [][part = "ingress" => Ingress!StartsWithAuthority]_vars
  /\ [](part = "executor" => Executor!TypeOK /\ Executor!HandledOnce)

\* A caller that follows the provider reviews never applies an effect twice and never
\* confirms one that did not happen, unless the provider changed after its probe.
ReviewsProtect == part = "gates" => Gates!TypeOK /\ Gates!ReviewsProtect

Busy(c) ==
  \/ part = "files" /\ s4[c] # "idle"
  \/ part = "recovery" /\ Recovery!UnderWay(c)
  \/ part = "executor" /\ s2[c].pc # "idle"

\* Every call gets its turn and ends: a call of the file store also behind calls that
\* throw, a recovery or a command although it loses every compare-and-swap.
EveryCallReturns == \A c \in Actors : Busy(c) ~> ~Busy(c)
=============================================================================
