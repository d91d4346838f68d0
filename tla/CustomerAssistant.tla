-------------------------- MODULE CustomerAssistant --------------------------
(***************************************************************************)
(* ProductionAgent.handle (app/production-agent.ts): a message is mined    *)
(* for facts about the user, which go to the memory store if its policy    *)
(* lets them; the message is then routed to the follow-up workflow or to   *)
(* an answer from memory and knowledge.  Messages of one user may be       *)
(* handled concurrently.                                                   *)
(***************************************************************************)
EXTENDS FollowupWorkflow

CONSTANTS
  Messages,    \* messages of one user, numbered in order of arrival
  Candidates   \* facts the extraction may report

VARIABLES
  handling,    \* per message: the await its handle() is at
  memory,      \* MemoryStore: the message whose value is stored under the key, 0 if none
  accepted,    \* history: messages whose fact was saved
  concurrent   \* history: pairs of messages that were handled together

vars == <<flowVars, handling, memory, accepted, concurrent>>

Handling == {"new", "extracting", "retrieving", "workflow", "answering", "replied", "failed"}
InHand(m) == handling[m] \notin {"new", "replied", "failed"}

TypeOK ==
  /\ FlowTypeOK
  /\ handling \in [Messages -> Handling]
  /\ memory \in Messages \union {0}
  /\ accepted \subseteq Messages
  /\ concurrent \subseteq {{a, b} : a, b \in Messages}

Init ==
  /\ FlowInit
  /\ handling = [m \in Messages |-> "new"]
  /\ memory = 0
  /\ accepted = {} /\ concurrent = {}

\* shouldSaveMemory; confidence in tenths.
ShouldSave(candidate) ==
  /\ candidate.confidence >= 8
  /\ candidate.source = "user_inferred" => candidate.confidence >= 9
  /\ candidate.type \in {"identity", "preference", "interest", "objection"}

\* The saves of handle(): the last candidate the policy accepts is the one that stays.
Remember(m, candidates) ==
  IF \E c \in candidates : ShouldSave(c)
  THEN memory' = m /\ accepted' = accepted \union {m}
  ELSE UNCHANGED <<memory, accepted>>

\* Messages come in order; each is handled at once, whatever the others are doing.
Receive(m) ==
  /\ handling[m] = "new" /\ \A n \in Messages : n < m => handling[n] # "new"
  /\ handling' = [handling EXCEPT ![m] = "extracting"]
  /\ concurrent' = concurrent \union {{m, n} : n \in {o \in Messages : InHand(o)}}
  /\ UNCHANGED <<flowVars, memory, accepted>>

\* The extraction answers: its facts are saved, and the context is built.
Extracted(m) ==
  /\ handling[m] = "extracting"
  /\ handling' = [handling EXCEPT ![m] = "retrieving"]
  /\ \E candidates \in SUBSET Candidates : Remember(m, candidates)
  /\ UNCHANGED <<flowVars, concurrent>>

\* The knowledge is there: the route decides between the workflow and an answer.
Route(m) ==
  /\ handling[m] = "retrieving"
  /\ \/ /\ handling' = [handling EXCEPT ![m] = "workflow"]
        /\ StartFlow(m)
     \/ /\ handling' = [handling EXCEPT ![m] = "answering"]
        /\ UNCHANGED flowVars
  /\ UNCHANGED <<memory, accepted, concurrent>>

\* The workflow has ended, however; or the LLM has answered.
Reply(m) ==
  /\ \/ handling[m] = "answering"
     \/ handling[m] = "workflow" /\ flow[m].pc = "ended"
  /\ handling' = [handling EXCEPT ![m] = "replied"]
  /\ UNCHANGED <<flowVars, memory, accepted, concurrent>>

\* An LLM call throws, or the extraction's reply does not parse.
Fail(m) ==
  /\ handling[m] \in {"extracting", "answering"}
  /\ handling' = [handling EXCEPT ![m] = "failed"]
  /\ UNCHANGED <<flowVars, memory, accepted, concurrent>>

Work(m) ==
  /\ handling[m] = "workflow"
  /\ FlowStep(m)
  /\ UNCHANGED <<handling, memory, accepted, concurrent>>

Handle(m) == Extracted(m) \/ Route(m) \/ Reply(m) \/ Fail(m) \/ Work(m)

Next == \E m \in Messages : Receive(m) \/ Handle(m)

Spec == Init /\ [][Next]_vars

-----------------------------------------------------------------------------
(* Properties.                                                             *)

\* Memory holds the newest fact, unless an older message that was still being mined
\* when the newer one arrived has overwritten it.
NewestFact ==
  \A m \in accepted :
    m > memory => {m, memory} \in concurrent
=============================================================================
