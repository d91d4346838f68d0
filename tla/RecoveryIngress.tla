--------------------------- MODULE RecoveryIngress ---------------------------
(***************************************************************************)
(* HTTP calls that ask for one recovery command (recovery-ingress-gate.ts, *)
(* recovery-ingress-response.ts): authentication, the body, the tenant of  *)
(* the run, the permission, then the entry dispatcher, which claims the    *)
(* command for its owner before the owner's handler executes it, and the   *)
(* answer that is made of whatever comes back.                             *)
(*                                                                         *)
(* Tenant, permission and claim are three awaits: the authority may change *)
(* and other calls may run between them.  Two dispatchers with different   *)
(* flags may serve calls at once, as during a cutover.  What a handler     *)
(* does is modelled in RecoveryCommands and RecoveryFinalization; here it  *)
(* ends a command in any way these can, or throws.                         *)
(***************************************************************************)
EXTENDS Naturals, FiniteSets

CONSTANTS
  Calls,       \* HTTP calls
  Requests,    \* what they may ask: [command, actor, operation, authenticated, wellFormed]
  MaxChanges   \* bound on the changes of the authority

VARIABLES
  authority,   \* run directory and permission policy: tenant of the run, permitted actors
  command,     \* the command store, per command id
  call         \* per call: where it is, its request, its dispatcher's owner, its answer

vars == <<authority, command, call>>

Owners == {"legacy", "atomic_control_only"}
Tenants == {"own", "foreign"}
Principals == {request.actor : request \in Requests}
Commands == {request.command : request \in Requests}
Nobody == "nobody"
NoRequest == [command |-> "none", actor |-> Nobody, operation |-> "none",
              authenticated |-> FALSE, wellFormed |-> FALSE]
Absent == [status |-> "absent", owner |-> "none", request |-> NoRequest,
           snapshot |-> FALSE, author |-> Nobody]
TerminalStatuses == {"succeeded", "rejected", "failed"}

\* Answers, by HTTP status and code.
Answers == {"none", "401", "400", "404", "403", "400 unsupported", "409", "200 new", "200 replay",
            "202", "503", "500"}
Denials == {"401", "400", "404", "403", "400 unsupported"}

TypeOK ==
  /\ authority \in [tenant : Tenants, permitted : SUBSET Principals, version : 0..MaxChanges]
  /\ command \in [Commands ->
       [status : {"absent", "executing"} \union TerminalStatuses, owner : Owners \union {"none"},
        request : Requests \union {NoRequest}, snapshot : BOOLEAN,
        author : Calls \union {Nobody}]]
  /\ call \in [Calls ->
       [pc : {"idle", "tenant", "permission", "entry", "handler", "answered", "dead"},
        request : Requests \union {NoRequest}, owner : Owners, answer : Answers,
        since : 0..MaxChanges]]

Init ==
  /\ authority \in [tenant : Tenants, permitted : SUBSET Principals, version : {0}]
  /\ command = [id \in Commands |-> Absent]
  /\ call = [c \in Calls |-> [pc |-> "idle", request |-> NoRequest, owner |-> "legacy",
                              answer |-> "none", since |-> 0]]

-----------------------------------------------------------------------------
(* The gate.                                                               *)

Goto(c, pc) == call' = [call EXCEPT ![c].pc = pc]

\* handleRecoveryIngressResponse maps what it catches to a status and a code.
Answer(c, answer) == call' = [call EXCEPT ![c].pc = "answered", ![c].answer = answer]

\* A call arrives at a dispatcher with some flag; the principal and the body are checked
\* before anything is awaited.
Arrive(c) ==
  /\ call[c].pc = "idle"
  /\ \E request \in Requests, owner \in Owners :
       LET arrived == [call[c] EXCEPT !.request = request, !.owner = owner,
                                      !.since = authority.version]
           denied(answer) == [arrived EXCEPT !.pc = "answered", !.answer = answer]
       IN call' = [call EXCEPT ![c] =
            IF ~request.authenticated THEN denied("401")
            ELSE IF ~request.wellFormed THEN denied("400")
            ELSE [arrived EXCEPT !.pc = "tenant"]]
  /\ UNCHANGED <<authority, command>>

\* findTenantId: a missing run and a foreign one look alike.
FindTenant(c) ==
  /\ call[c].pc = "tenant"
  /\ IF authority.tenant = "own" THEN Goto(c, "permission") ELSE Answer(c, "404")
  /\ UNCHANGED <<authority, command>>

\* canOperate.
Permitted(actor) == actor \in authority.permitted

CanOperate(c) ==
  /\ call[c].pc = "permission"
  /\ IF Permitted(call[c].request.actor) THEN Goto(c, "entry") ELSE Answer(c, "403")
  /\ UNCHANGED <<authority, command>>

-----------------------------------------------------------------------------
(* The dispatcher and the shared claim.                                    *)

\* isAtomicControlOnly.
ControlOnly(operation) == operation \in {"quarantine", "release_quarantine", "dead_letter"}

\* The dispatcher of the atomic route refuses every other operation before the claim.
Unsupported(c) ==
  /\ call[c].pc = "entry"
  /\ call[c].owner = "atomic_control_only" /\ ~ControlOnly(call[c].request.operation)
  /\ Answer(c, "400 unsupported")
  /\ UNCHANGED <<authority, command>>

Supported(c) ==
  /\ call[c].pc = "entry"
  /\ call[c].owner = "legacy" \/ ControlOnly(call[c].request.operation)

\* The request a record was made for is this one, and so is its owner.
SameRequest(record, c) == record.request = call[c].request
SameOwner(record, c) == record.owner = call[c].owner

\* The claim may insert its record.
Free(record) == record.status = "absent"

\* The claim inserts the command and moves it to executing, in one transaction.
ClaimNew(c) ==
  LET id == call[c].request.command
  IN /\ Supported(c) /\ Free(command[id])
     /\ command' = [command EXCEPT ![id] =
          [status |-> "executing", owner |-> call[c].owner, request |-> call[c].request,
           snapshot |-> FALSE, author |-> c]]
     /\ Goto(c, "handler")
     /\ UNCHANGED authority

\* Another request or another owner under the id: a conflict, in this order of checks.
ClaimConflict(c) ==
  LET record == command[call[c].request.command]
  IN /\ Supported(c) /\ ~Free(record)
     /\ ~SameRequest(record, c) \/ ~SameOwner(record, c)
     /\ Answer(c, "409")
     /\ UNCHANGED <<authority, command>>

\* The same command again.  In flight: the handler of the legacy route loads facts and may
\* throw; ended: its snapshot is replayed, if there is one.
ClaimAgain(c) ==
  LET record == command[call[c].request.command]
  IN /\ Supported(c) /\ ~Free(record) /\ SameRequest(record, c) /\ SameOwner(record, c)
     /\ \/ record.status = "executing" /\ Answer(c, "202")
        \/ /\ record.status = "executing" /\ call[c].owner = "legacy"
           /\ Answer(c, "500")
        \/ /\ record.status \in TerminalStatuses
           /\ Answer(c, IF record.snapshot THEN "200 replay" ELSE "503")
     /\ UNCHANGED <<authority, command>>

-----------------------------------------------------------------------------
(* The handlers.                                                           *)

End(c, status, snapshot) ==
  command' = [command EXCEPT ![call[c].request.command].status = status,
                             ![call[c].request.command].snapshot = snapshot]

\* The handler ends the command with its result, and the reply comes back or is lost.
HandlerEnds(c) ==
  /\ call[c].pc = "handler"
  /\ \E status \in {"succeeded", "rejected"} : End(c, status, TRUE)
  /\ \E answer \in {"200 new", "500"} : Answer(c, answer)
  /\ UNCHANGED authority

\* The legacy executor throws: the command is recorded as failed, without a result
\* snapshot, and the answer has no terminal result to show.
LegacyFails(c) ==
  /\ call[c].pc = "handler" /\ call[c].owner = "legacy"
  /\ End(c, "failed", FALSE)
  /\ Answer(c, "503")
  /\ UNCHANGED authority

\* The handler throws before its commit: the atomic route for a version that has changed
\* or a checkpoint that is missing, the legacy route when its last save fails.
HandlerThrows(c) ==
  /\ call[c].pc = "handler"
  /\ Answer(c, "500") \/ (call[c].owner = "atomic_control_only" /\ Answer(c, "409"))
  /\ UNCHANGED <<authority, command>>

-----------------------------------------------------------------------------

\* External: the run moves to another tenant, or an actor gains or loses the permission.
ChangeAuthority ==
  /\ authority.version < MaxChanges
  /\ \E tenant \in Tenants, permitted \in SUBSET Principals :
       authority' = [tenant |-> tenant, permitted |-> permitted,
                     version |-> authority.version + 1]
  /\ UNCHANGED <<command, call>>

\* External: the process of a call dies; the command store survives.
Crash(c) ==
  /\ call[c].pc \notin {"idle", "answered", "dead"}
  /\ Goto(c, "dead")
  /\ UNCHANGED <<authority, command>>

Step(c) ==
  \/ FindTenant(c) \/ CanOperate(c) \/ Unsupported(c) \/ ClaimNew(c) \/ ClaimConflict(c)
  \/ ClaimAgain(c) \/ HandlerEnds(c) \/ LegacyFails(c) \/ HandlerThrows(c)

Next == (\E c \in Calls : Arrive(c) \/ Step(c) \/ Crash(c)) \/ ChangeAuthority

Spec == Init /\ [][Next]_vars

-----------------------------------------------------------------------------
(* Properties.                                                             *)

\* Whatever calls race, repeat or die: a command is executed by one call at most, and the
\* answers tell the truth.  200 shows the stored end of the very command that was asked
\* for, 202 a command that was in flight, 503 an end without result; a denied call has
\* claimed nothing.
AnswersAreTrue ==
  \A c \in {d \in Calls : call[d].pc # "idle"} :
    LET record == command[call[c].request.command]
    IN /\ call[c].answer \in {"200 new", "200 replay"} =>
            /\ record.status \in TerminalStatuses /\ record.snapshot
            /\ SameRequest(record, c) /\ SameOwner(record, c)
       /\ call[c].answer = "200 new" => record.author = c
       /\ call[c].answer = "202" => record.author \notin {c, Nobody} /\ SameRequest(record, c)
       /\ call[c].answer = "503" => record.status = "failed" /\ ~record.snapshot
       /\ call[c].answer \in Denials => \A id \in Commands : command[id].author # c
       /\ call[c].pc = "handler" => record.author = c /\ record.status = "executing"

\* A command is started for an actor who may operate the run: unless the authority has
\* changed since the call arrived, it still says so when the claim commits.
StartsWithAuthority ==
  \A c \in Calls :
    call[c].pc = "entry" /\ call'[c].pc = "handler" /\ call[c].since = authority.version =>
      authority.tenant = "own" /\ call[c].request.actor \in authority.permitted
=============================================================================
