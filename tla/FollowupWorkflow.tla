--------------------------- MODULE FollowupWorkflow ---------------------------
(***************************************************************************)
(* The sales follow-up workflow: its runner (workflow/runner.ts, retry.ts, *)
(* transitions.ts), its nodes (nodes.ts) and the two in-process MCP        *)
(* servers they call.  Several workflows of one process run at once and    *)
(* share the servers; every state dies with the process.                   *)
(*                                                                         *)
(* A step that awaits is split where another workflow may run: a node      *)
(* starts, its tool call takes effect, and it returns or throws.  Nodes    *)
(* are a parameter of the runner, which retries, fails or parks a workflow *)
(* by the class of the error; here a node may throw an error of any class  *)
(* before its call takes effect or after.                                  *)
(***************************************************************************)
EXTENDS Naturals, Sequences, FiniteSets, SequencesExt

CONSTANTS
  Requests,    \* request ids of workflows
  Customers    \* customers of the CRM

VARIABLES
  flow,        \* per request: where the runner is, and the WorkflowState it works on
  saved,       \* MemoryWorkflowStateStore: step and status last saved per request
  reminders,   \* the calendar server's reminders, in order
  logs,        \* the CRM server's log entries, in order
  overlapped   \* history: pairs of workflows that were under way together

flowVars == <<flow, saved, reminders, logs, overlapped>>

Working == <<"LOAD_CUSTOMER", "CHECK_INTENT", "CHECK_FOLLOWUP", "CREATE_FOLLOWUP",
             "WRITE_LOG", "SEND_NOTIFICATION">>
Terminal == {"DONE", "FAILED", "WAITING_APPROVAL"}
WorkflowStep == Range(Working) \union Terminal
StepStatus == {"none", "running", "success", "failed"}
ErrorType == {"TRANSIENT", "PERMANENT", "NEEDS_HUMAN"}
NoCustomer == "none"

\* retryPolicies.
MaxAttempts(step) == IF step \in {"CREATE_FOLLOWUP", "WRITE_LOG"} THEN 3 ELSE 2

FlowTypeOK ==
  /\ flow \in [Requests ->
       [pc : {"unborn", "top", "node", "called", "ended"}, step : WorkflowStep,
        attempt : 0..3, customer : Customers \union {NoCustomer},
        intent : {"unknown", "high", "other"}, exists : BOOLEAN, timedOut : BOOLEAN]]
  /\ saved \in [Requests -> [step : WorkflowStep \union {"none"}, status : StepStatus]]
  /\ \A reminder \in Range(reminders) : reminder \in [key : Requests, customer : Customers]
  /\ \A log \in Range(logs) : log \in Requests
  /\ overlapped \subseteq {{a, b} : a, b \in Requests}

FlowInit ==
  /\ flow = [r \in Requests |->
       [pc |-> "unborn", step |-> "LOAD_CUSTOMER", attempt |-> 0, customer |-> NoCustomer,
        intent |-> "unknown", exists |-> FALSE, timedOut |-> FALSE]]
  /\ saved = [r \in Requests |-> [step |-> "none", status |-> "none"]]
  /\ reminders = << >> /\ logs = << >>
  /\ overlapped = {}

-----------------------------------------------------------------------------
(* The MCP servers.                                                        *)

\* Mutant: create_reminder ignores the idempotency key.
AddUnkeyed(entries, entry, present) == Append(entries, entry)

\* create_reminder: the reminder of a known key is not added again.
Add(entries, entry, present) == IF present THEN entries ELSE Append(entries, entry)

\* write_crm_log, likewise.
AddLog(entries, key) == IF key \in Range(entries) THEN entries ELSE Append(entries, key)

\* check_followup.
HasReminder(customer) == \E reminder \in Range(reminders) : reminder.customer = customer

-----------------------------------------------------------------------------
(* The runner.                                                             *)

Save(r, step, status) == saved' = [saved EXCEPT ![r] = [step |-> step, status |-> status]]

\* The state a node gets to see is that of its own request.
Goto(r, pc) == flow' = [flow EXCEPT ![r].pc = pc]

UnderWay(r) == flow[r].pc \notin {"unborn", "ended"}

\* runWorkflow is called with a fresh state.
StartFlow(r) ==
  /\ flow[r].pc = "unborn"
  /\ Goto(r, "top")
  /\ Save(r, "LOAD_CUSTOMER", "none")
  /\ overlapped' = overlapped \union {{r, o} : o \in {q \in Requests : UnderWay(q)}}
  /\ UNCHANGED <<reminders, logs>>

\* An attempt of the current step: recorded as running, saved, and the node called.
BeginAttempt(r) ==
  /\ flow[r].pc = "top"
  /\ flow' = [flow EXCEPT ![r].pc = "node", ![r].attempt = @ + 1]
  /\ Save(r, flow[r].step, "running")
  /\ UNCHANGED <<reminders, logs, overlapped>>

\* McpToolExecutor.call: the answer comes back to the node.  The catalog has every tool the
\* nodes name, and the clients are connected.
Answered(f) == [f EXCEPT !.pc = "called"]

At(r, step) == flow[r].pc = "node" /\ flow[r].step = step

LoadCustomer(r) ==
  /\ At(r, "LOAD_CUSTOMER")
  /\ \E c \in Customers :
       flow' = [flow EXCEPT ![r] = [Answered(flow[r]) EXCEPT !.customer = c]]
  /\ UNCHANGED <<saved, reminders, logs, overlapped>>

CheckIntent(r) ==
  /\ At(r, "CHECK_INTENT")
  /\ \E i \in {"high", "other"} :
       flow' = [flow EXCEPT ![r] = [Answered(flow[r]) EXCEPT !.intent = i]]
  /\ UNCHANGED <<saved, reminders, logs, overlapped>>

CheckFollowup(r) ==
  /\ At(r, "CHECK_FOLLOWUP")
  /\ flow' = [flow EXCEPT ![r] =
       [Answered(flow[r]) EXCEPT !.exists = HasReminder(flow[r].customer)]]
  /\ UNCHANGED <<saved, reminders, logs, overlapped>>

\* The idempotency key is the request with the step.
CreateFollowup(r) ==
  /\ At(r, "CREATE_FOLLOWUP")
  /\ reminders' = Add(reminders, [key |-> r, customer |-> flow[r].customer],
                      \E reminder \in Range(reminders) : reminder.key = r)
  /\ flow' = [flow EXCEPT ![r] = Answered(flow[r])]
  /\ UNCHANGED <<saved, logs, overlapped>>

\* Once per workflow the node throws instead, before its call (FailNode).
WriteLog(r) ==
  /\ At(r, "WRITE_LOG") /\ flow[r].timedOut
  /\ logs' = AddLog(logs, r)
  /\ flow' = [flow EXCEPT ![r] = Answered(flow[r])]
  /\ UNCHANGED <<saved, reminders, overlapped>>

SendNotification(r) ==
  /\ At(r, "SEND_NOTIFICATION")
  /\ flow' = [flow EXCEPT ![r] = Answered(flow[r])]
  /\ UNCHANGED <<saved, reminders, logs, overlapped>>

CallNode(r) ==
  \/ LoadCustomer(r) \/ CheckIntent(r) \/ CheckFollowup(r)
  \/ CreateFollowup(r) \/ WriteLog(r) \/ SendNotification(r)

\* getNextStep.
NextStep(f) ==
  CASE f.step = "LOAD_CUSTOMER" -> "CHECK_INTENT"
    [] f.step = "CHECK_INTENT" -> IF f.intent = "high" THEN "CHECK_FOLLOWUP" ELSE "DONE"
    [] f.step = "CHECK_FOLLOWUP" -> IF f.exists THEN "DONE" ELSE "CREATE_FOLLOWUP"
    [] f.step = "CREATE_FOLLOWUP" -> "WRITE_LOG"
    [] f.step = "WRITE_LOG" -> "SEND_NOTIFICATION"
    [] f.step = "SEND_NOTIFICATION" -> "DONE"

PcAt(step) == IF step \in Terminal THEN "ended" ELSE "top"

\* The node returns: the step is a success, and the next one is saved.
FinishStep(r) ==
  LET f == flow[r] next == NextStep(f)
  IN /\ f.pc = "called"
     /\ flow' = [flow EXCEPT ![r].pc = PcAt(next), ![r].step = next, ![r].attempt = 0]
     /\ Save(r, next, "success")
     /\ UNCHANGED <<reminders, logs, overlapped>>

\* executeWithRetry tries again.
Retries(error, f) == error = "TRANSIENT" /\ f.attempt < MaxAttempts(f.step)

\* The step a workflow goes to when its retries are over.
StepAfter(error) == IF error = "NEEDS_HUMAN" THEN "WAITING_APPROVAL" ELSE "FAILED"

\* The node throws, perhaps after its work was done.  The delay before the next attempt
\* is part of the wait at the top of the step.
FailNode(r) ==
  LET f == flow[r]
  IN /\ f.pc \in {"node", "called"}
     /\ \E error \in ErrorType :
          /\ f.step = "WRITE_LOG" /\ ~f.timedOut => error = "TRANSIENT"
          /\ \/ /\ Retries(error, f)
                /\ flow' = [flow EXCEPT ![r].pc = "top",
                                        ![r].timedOut = @ \/ f.step = "WRITE_LOG"]
                /\ UNCHANGED saved
             \/ /\ ~Retries(error, f)
                /\ flow' = [flow EXCEPT ![r].pc = "ended", ![r].attempt = 0,
                                        ![r].step = StepAfter(error)]
                /\ Save(r, StepAfter(error), "failed")
     /\ UNCHANGED <<reminders, logs, overlapped>>

FlowStep(r) == BeginAttempt(r) \/ CallNode(r) \/ FinishStep(r) \/ FailNode(r)

-----------------------------------------------------------------------------
(* Properties.                                                             *)

Completed(r) == flow[r].step = "DONE" /\ flow[r].intent = "high" /\ ~flow[r].exists

\* However often a node is retried after its call took effect, a request makes at most
\* one reminder and one log, and a customer has two reminders only if two workflows for
\* it were under way together: CHECK_FOLLOWUP is a check before an act.
OneReminder ==
  /\ IsInjective(logs)
  /\ \A i, j \in DOMAIN reminders :
       i # j => /\ reminders[i].key # reminders[j].key
                /\ reminders[i].customer = reminders[j].customer =>
                     {reminders[i].key, reminders[j].key} \in overlapped

\* A workflow that says DONE has a reminder for its customer unless none was called for,
\* and if it went the whole path, its log; one without its log has failed or is parked.
\* And the saved state never says more than that: it is terminal only when the run is.
DoneIsWhole ==
  \A r \in Requests :
    /\ flow[r].step = "DONE" =>
         \/ flow[r].intent = "other"
         \/ HasReminder(flow[r].customer)
    /\ Completed(r) => r \in Range(logs) /\ \E x \in Range(reminders) : x.key = r
    /\ r \in Range(logs) => \E x \in Range(reminders) : x.key = r
    /\ saved[r].step \in Terminal => flow[r].pc = "ended" /\ flow[r].step = saved[r].step
=============================================================================
