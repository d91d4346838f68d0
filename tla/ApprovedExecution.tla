------------------------- MODULE ApprovedExecution --------------------------
(***************************************************************************)
(* SecureToolExecutor.execute with the stores that all runs of a runtime   *)
(* share: the approval store and the in-memory idempotency store           *)
(* (secure-tool-executor.ts, approval-store.ts, idempotency.ts).           *)
(*                                                                         *)
(* execute() runs without a break from its checks to the call of the tool  *)
(* handler, and again from the handler's return to the audit write; other  *)
(* executions and the reviewer act while those two are awaited.            *)
(*                                                                         *)
(* An idempotency key is named by what distinguishes it: the approved      *)
(* action, or the call itself when no approval is needed.  (The code's key *)
(* is a 32-bit hash of that; collisions are not modelled.)                 *)
(***************************************************************************)
EXTENDS Naturals, FiniteSets, ToolAccess

CONSTANTS
  Calls,          \* tool calls a model may ask for
  Asked,          \* what each of them asks for, in the terms of ToolAccess
  Actions,        \* ids of pending actions
  Executions      \* invocations of execute(), one per element

VARIABLES
  actions,     \* ApprovalStore: status and frozen call of each pending action
  records,     \* IdempotencyStore: the keys with a saved result
  exec,        \* per execution: pc, tool call, idempotency key, the status in its
               \* copy of the action, and its reply
  effects,     \* history: side effects per key
  overlapped,  \* history: keys that two handlers have worked on at once
  unsure       \* history: keys a handler threw on

vars == <<actions, records, exec, effects, overlapped, unsure>>
history == <<effects, overlapped, unsure>>

Statuses == {"absent", "pending", "approved", "rejected", "executed"}
Keys == Calls \union Actions
Replies == {"none", "denied", "pending_approval", "executed", "cached", "threw"}

\* The order of execute(): a disabled tool, then authorization, then the approval.
Denied(c) ==
  DecideToolPermission(Asked[c].tool) = "denied" \/ ~CheckAuthorization(Asked[c])
NeedsApproval(c) ==
  DecideToolPermission(Asked[c].tool) = "approval_required" /\ ~Denied(c)

NoCall == CHOOSE c \in Calls : TRUE
Idle(c) == [pc |-> "idle", call |-> c, key |-> c, copy |-> "absent", reply |-> "none"]

TypeOK ==
  /\ actions \in [Actions -> [status : Statuses, call : Calls]]
  /\ records \subseteq Keys
  /\ exec \in [Executions -> [pc : {"idle", "handling", "auditing", "done"},
                              call : Calls, key : Keys,
                              copy : {"absent", "approved", "executed"},
                              reply : Replies]]
  /\ effects \in [Keys -> Nat]
  /\ overlapped \subseteq Keys /\ unsure \subseteq Keys

Init ==
  /\ actions = [a \in Actions |-> [status |-> "absent", call |-> NoCall]]
  /\ exec = [x \in Executions |-> Idle(NoCall)]
  /\ records = {}
  /\ effects = [k \in Keys |-> 0]
  /\ overlapped = {} /\ unsure = {}

-----------------------------------------------------------------------------
(* ApprovalStore.                                                          *)

\* create(): a pending action with a frozen copy of the call.
Create(a, c) ==
  /\ actions[a].status = "absent"
  /\ actions' = [actions EXCEPT ![a] = [status |-> "pending", call |-> c]]

\* markExecuted(), which throws for an action that is not approved.
MarkExecuted(a) == [actions EXCEPT ![a].status = "executed"]

\* Mutant: a decision can be revised.
ReviewAgain(a, status) ==
  /\ actions[a].status \in {"pending", "approved", "rejected"}
  /\ actions' = [actions EXCEPT ![a].status = status]

\* review(): only a pending action can be decided.
Review(a, status) ==
  /\ actions[a].status = "pending"
  /\ actions' = [actions EXCEPT ![a].status = status]

\* External: a reviewer approves or rejects.
Decide(a) ==
  /\ \E status \in {"approved", "rejected"} : Review(a, status)
  /\ UNCHANGED <<records, exec, history>>

-----------------------------------------------------------------------------
(* execute(), up to the first await that lets others run.                  *)

Reply(x, reply) == exec' = [exec EXCEPT ![x].pc = "done", ![x].reply = reply]

\* Permission or authorization refuses (its audit write may fail instead).
Refuse(x, c) ==
  /\ exec[x].pc = "idle" /\ Denied(c)
  /\ \E reply \in {"denied", "threw"} : Reply(x, reply)
  /\ UNCHANGED <<actions, records, history>>

\* Aborted, or a tool the registry does not know: execute() throws before the handler.
ThrowEarly(x) ==
  /\ exec[x].pc = "idle"
  /\ Reply(x, "threw")
  /\ UNCHANGED <<actions, records, history>>

\* The call needs an approval and brings none: create() freezes it as an action.
RequestApproval(x, c) ==
  /\ exec[x].pc = "idle" /\ NeedsApproval(c)
  /\ \E a \in Actions : Create(a, c)
  /\ \E reply \in {"pending_approval", "threw"} : Reply(x, reply)
  /\ UNCHANGED <<records, history>>

\* The action is not rejected or pending, and it is this very call.
Approved(c, a) ==
  /\ actions[a].status \in {"approved", "executed"}
  /\ actions[a].call = c

\* The call brings an action id that does not let it pass.
HoldBack(x, c, a) ==
  /\ exec[x].pc = "idle" /\ NeedsApproval(c)
  /\ ~Approved(c, a)
  /\ Reply(x, IF actions[a] = [status |-> "pending", call |-> c]
              THEN "pending_approval" ELSE "denied")
  /\ UNCHANGED <<actions, records, history>>

Cached(k) == k \in records

\* All checks passed: the cached result, or the handler is called.
Proceed(x, c, k, copy) ==
  /\ IF Cached(k)
     THEN /\ exec' = [exec EXCEPT ![x] = [pc |-> "done", call |-> c, key |-> k,
                                          copy |-> copy, reply |-> "cached"]]
          /\ UNCHANGED overlapped
     ELSE /\ exec' = [exec EXCEPT ![x] = [pc |-> "handling", call |-> c, key |-> k,
                                          copy |-> copy, reply |-> "none"]]
          /\ overlapped' = overlapped \union
               {j \in {k} : \E y \in Executions : exec[y].pc = "handling" /\ exec[y].key = j}
  /\ UNCHANGED <<actions, records, effects, unsure>>

ExecuteAllowed(x, c) ==
  /\ exec[x].pc = "idle" /\ ~NeedsApproval(c) /\ ~Denied(c)
  /\ Proceed(x, c, c, "absent")

ExecuteApproved(x, c, a) ==
  /\ exec[x].pc = "idle" /\ NeedsApproval(c)
  /\ Approved(c, a)
  /\ Proceed(x, c, a, actions[a].status)

-----------------------------------------------------------------------------
(* The rest of execute().                                                  *)

\* save(): the first result of a key stays.
Save(k) == records' = records \union {k}

\* The handler returns: save the result, and markExecuted when the copy of the
\* action taken before the handler ran says "approved".  markExecuted throws when
\* the action itself is not approved any more; that ends in the catch block.
HandlerReturns(x) ==
  LET k == exec[x].key
      marks == exec[x].copy = "approved"
      settled == exec[x].copy = "approved" /\ actions[k].status # "approved"
  IN /\ exec[x].pc = "handling"
     /\ effects' = [effects EXCEPT ![k] = @ + 1]
     /\ Save(k)
     /\ actions' = IF marks /\ ~settled THEN MarkExecuted(k) ELSE actions
     /\ exec' = [exec EXCEPT ![x].pc = "auditing",
                             ![x].reply = IF settled THEN "threw" ELSE "executed"]
     /\ UNCHANGED <<overlapped, unsure>>

\* The handler throws, before or after its side effect (a lost answer, an abort).
HandlerThrows(x) ==
  /\ exec[x].pc = "handling"
  /\ \E n \in {0, 1} : effects' = [effects EXCEPT ![exec[x].key] = @ + n]
  /\ unsure' = unsure \union {exec[x].key}
  /\ exec' = [exec EXCEPT ![x].pc = "auditing", ![x].reply = "threw"]
  /\ UNCHANGED <<actions, records, overlapped>>

\* The audit write succeeds, or its failure replaces the reply.
Audit(x) ==
  /\ exec[x].pc = "auditing"
  /\ \E reply \in {exec[x].reply, "threw"} : Reply(x, reply)
  /\ UNCHANGED <<actions, records, history>>

Next ==
  \/ \E a \in Actions : Decide(a)
  \/ \E x \in Executions, c \in Calls :
       \/ Refuse(x, c) \/ RequestApproval(x, c) \/ ExecuteAllowed(x, c)
       \/ \E a \in Actions : HoldBack(x, c, a) \/ ExecuteApproved(x, c, a)
  \/ \E x \in Executions : ThrowEarly(x) \/ HandlerReturns(x) \/ HandlerThrows(x) \/ Audit(x)

Spec == Init /\ [][Next]_vars

-----------------------------------------------------------------------------
(* Properties.                                                             *)

\* Human approval cannot be withdrawn under a running handler: as long as a handler
\* works for an action, and for ever after its side effect, that action stands
\* approved (or executed) -- it is never rejected meanwhile.
EffectsStayApproved ==
  \A a \in Actions :
    (effects[a] > 0 \/ \E x \in Executions : exec[x].pc = "handling" /\ exec[x].key = a)
      => actions[a].status \in {"approved", "executed"}

\* The side effect of a key happens at most once as long as no two handlers have
\* worked on it at the same time and none has thrown: retries after the result was
\* saved, or after its audit write failed, answer from the store.
OnceWithoutOverlap ==
  \A k \in Keys \ (overlapped \union unsure) : effects[k] <= 1

\* A call takes effect without an approval only when its tool reads or makes a reminder,
\* and an approval does not stand in for authorization: a refund that takes effect was
\* asked by the finance agent for somebody of finance, and what concerns a vip by a manager.
EffectsArePermitted ==
  /\ \A c \in Calls : effects[c] > 0 =>
       Asked[c].tool \notin {"execute_refund", "send_message", "update_customer"} \union Disabled
  /\ \A k \in Keys : effects[k] > 0 =>
       LET ask == IF k \in Calls THEN Asked[k] ELSE Asked[actions[k].call]
       IN ask.agent # "unchecked" =>
            /\ ask.tool = "execute_refund" => ask.agent = "finance_agent" /\ "finance" \in ask.roles
            /\ ask.vip => "manager" \in ask.roles

\* day15-permission-approval-idempotency.md: "Idempotency guarantees that the
\* side effect after approval happens only once", for handlers that do not throw.
ApprovedEffectOnce ==
  \A a \in Actions : a \notin unsure => effects[a] <= 1
=============================================================================
