------------------------------ MODULE ToolAccess ------------------------------
(***************************************************************************)
(* Which tool calls may run: the permission rule of the tool               *)
(* (tool-permission.ts) and, when the executor was built with an           *)
(* authorization context, the agent's capabilities, the actor's roles and  *)
(* the scope of the resource (authorization-service.ts), with the default  *)
(* resolvers of secure-tool-executor.ts.                                   *)
(*                                                                         *)
(* An ask is a call with what the decision reads of its context: tool,     *)
(* agent ("unchecked" without a context), the actor's roles, whether       *)
(* department and region are the resource's, and whether it is a vip.      *)
(***************************************************************************)

CONSTANT Disabled  \* tools whose rule says enabled: false

\* The tools with a rule of their own that asks for no approval; every other rule,
\* and the fallback rule of a tool that has none, asks for one.
Unattended == {"search_customer", "search_chat_history", "search_knowledge", "create_reminder"}

DecideToolPermission(tool) ==
  CASE tool \in Disabled                             -> "denied"
    [] tool \notin Disabled /\ tool \in Unattended    -> "allowed"
    [] tool \notin Disabled /\ tool \notin Unattended -> "approval_required"

RolePermissions ==
  [sales            |-> {"customer.read"},
   manager          |-> {"customer.read", "customer.update"},
   regional_manager |-> {"customer.read", "customer.update", "customer.read.cross_department"},
   finance          |-> {"refund.read", "refund.execute"}]

AgentPermissions ==
  [sales_agent   |-> {"customer.read", "customer.update"},
   finance_agent |-> {"refund.read", "refund.execute"}]

\* A tool the mapping does not name is an action by its own name.
ActionOf(tool) ==
  CASE tool \in {"search_customer", "search_chat_history"} -> "customer.read"
    [] tool \in {"update_customer", "send_message"}        -> "customer.update"
    [] tool = "execute_refund"                             -> "refund.execute"
    [] OTHER                                               -> tool

OnCustomer(action) == action \in RolePermissions.regional_manager

HasRolePermission(ask, action) ==
  \E role \in ask.roles \intersect DOMAIN RolePermissions : action \in RolePermissions[role]

CanAgentPerform(agent, action) ==
  agent \in DOMAIN AgentPermissions /\ action \in AgentPermissions[agent]

\* A regional manager is held to the region, whatever other role the actor has.
CanAccessResource(ask, action) ==
  /\ ask.vip => "manager" \in ask.roles
  /\ OnCustomer(action) =>
       IF "regional_manager" \in ask.roles THEN ask.sameRegion
       ELSE {"manager", "sales"} \intersect ask.roles # {} /\ ask.sameDepartment

Authorize(ask) ==
  LET action == ActionOf(ask.tool)
  IN /\ CanAgentPerform(ask.agent, action)
     /\ HasRolePermission(ask, action)
     /\ CanAccessResource(ask, action)

CheckAuthorization(ask) == ask.agent = "unchecked" \/ Authorize(ask)
=============================================================================
