---------------------- MODULE RecoveryCommandsProofs ----------------------
(***************************************************************************)
(* What RecoveryCommands promises for any number of commands, deliveries   *)
(* and checkpoint versions: an operation is started once, a terminal       *)
(* command tells the truth, and no control update is lost or repeated.     *)
(*                                                                         *)
(* All three rest on one fact: between claiming a command and finishing it *)
(* a delivery is alone with it (Exclusive), so what it has written is      *)
(* known from its pc (WrittenByPc).                                        *)
(***************************************************************************)
EXTENDS RecoveryCommands, TLAPS

\* A delivery that has claimed its command and not yet finished it.
Working(d) == dlv[d].pc \in {"read", "control", "decide", "recover", "audit", "finish"}

\* The command has changed neither the control state nor a checkpoint.
Clean(c) ==
  /\ \A i \in DOMAIN authors : authors[i] # c
  /\ \A r \in recovered : r.cmd # c

\* The command has written control version v.
Wrote(c, v) == v \in DOMAIN authors /\ authors[v] = c

\* The version of a record tells how far it has come.
VersionIsStage ==
  \A c \in Commands :
    /\ commands[c].status = "absent" <=> commands[c].version = 0
    /\ commands[c].status = "accepted" <=> commands[c].version = 1
    /\ commands[c].status = "executing" <=> commands[c].version = 2

\* A command is with at most one delivery at a time, and executing while it is.
Exclusive ==
  \A d \in Deliveries : Working(d) =>
    /\ commands[dlv[d].cmd].version = 2
    /\ \A e \in Deliveries : Working(e) /\ dlv[e].cmd = dlv[d].cmd => e = d

\* Nothing has happened to a command before it is claimed, and it has no result
\* before it is finished.
NothingBefore ==
  \A c \in Commands :
    /\ commands[c].version < 2 => runs[c] = 0 /\ Clean(c)
    /\ commands[c].version < 3 => commands[c].result = "none"

\* What a working delivery has written, by its pc and its result.
WrittenByPc ==
  \A d \in Deliveries :
    /\ dlv[d].pc \in {"read", "control", "decide"} => Clean(dlv[d].cmd)
    /\ dlv[d].pc = "recover" => dlv[d].result = "executed"
    /\ dlv[d].pc \in {"audit", "finish"} =>
         /\ dlv[d].result \in {"rejected", "no_op"} => Clean(dlv[d].cmd)
         /\ dlv[d].result \in {"quarantined", "released", "dead_lettered"} =>
              Wrote(dlv[d].cmd, dlv[d].ctl.version)

\* The control state a delivery decides by is an earlier one, or the current one.
SnapshotsAreReal ==
  \A d \in Deliveries : dlv[d].pc = "decide" =>
    /\ dlv[d].ctl.version <= control.version
    /\ dlv[d].ctl.version = control.version => dlv[d].ctl = control

\* The state part of OneAuthorPerVersion.
VersionsAreAuthored ==
  /\ Len(authors) = control.version
  /\ \A i, j \in DOMAIN authors : authors[i] = authors[j] => i = j

\* The inductive invariant.
IInv ==
  /\ TypeOK /\ VersionIsStage /\ Exclusive /\ NothingBefore
  /\ WrittenByPc /\ SnapshotsAreReal /\ VersionsAreAuthored
  /\ StartedOnce /\ TerminalTellsTruth

-----------------------------------------------------------------------------
(* Types.                                                                  *)

DeliveryStates ==
  [pc : {"idle", "insert", "claim", "read", "control", "decide", "recover",
         "audit", "finish", "done"},
   cmd : Commands, request : Requests, cp : [version : Nat, completed : BOOLEAN],
   ctl : ControlStates, result : Outcomes]

Records ==
  [status : {"absent", "accepted", "executing"} \union Terminal, version : 0..3,
   request : Requests, result : Outcomes, ctl : Nat]

\* A blank delivery is a delivery: there is a command, whichever CHOOSE takes.
LEMMA BlankIsDelivery ==
  ASSUME NEW pc \in {"idle", "done"}
  PROVE  Blank(pc) \in DeliveryStates /\ Blank(pc).pc = pc
<1>1. (CHOOSE c \in Commands : TRUE) \in Commands
  BY CommandAssumption
<1>2. NoRequest \in Requests
  BY DEF NoRequest, Requests, AllOperations
<1> QED
  BY <1>1, <1>2 DEF Blank, DeliveryStates, ControlStates, Outcomes

\* Changing one delivery leaves the others as they are.
LEMMA OneMoves ==
  ASSUME TypeOK, NEW d \in Deliveries, NEW r \in DeliveryStates,
         dlv' = [dlv EXCEPT ![d] = r]
  PROVE  /\ dlv' \in [Deliveries -> DeliveryStates]
         /\ dlv'[d] = r
         /\ \A e \in Deliveries : e # d => dlv'[e] = dlv[e]
BY DEF TypeOK, DeliveryStates

\* Changing one record leaves the others as they are.
LEMMA OneRecordMoves ==
  ASSUME TypeOK, NEW c \in Commands, NEW r \in Records,
         commands' = [commands EXCEPT ![c] = r]
  PROVE  /\ commands' \in [Commands -> Records]
         /\ commands'[c] = r
         /\ \A b \in Commands : b # c => commands'[b] = commands[b]
BY DEF TypeOK, Records

\* What an update makes of a record.
LEMMA UpdateEffect ==
  ASSUME TypeOK, NEW c \in Commands,
         NEW status \in {"executing"} \union Terminal, NEW result \in Outcomes, NEW ctl \in Nat,
         commands[c].version < 3, Update(c, status, result, ctl)
  PROVE  /\ commands' \in [Commands -> Records]
         /\ commands'[c] \in Records
         /\ commands'[c].status = status
         /\ commands'[c].version = commands[c].version + 1
         /\ commands'[c].result = result
         /\ commands'[c].ctl = ctl
         /\ \A b \in Commands : b # c => commands'[b] = commands[b]
<1>1. commands[c] \in Records
  BY DEF TypeOK, Records
<1>2. PICK n \in 0..3 : n = commands[c].version
  BY <1>1 DEF Records
<1>3. n + 1 \in 0..3
  BY <1>2
<1>4. PICK r : r = [commands[c] EXCEPT !.status = status, !.version = n + 1,
                                       !.result = result, !.ctl = ctl]
  OBVIOUS
<1>5. /\ r \in Records
      /\ r.status = status /\ r.version = n + 1 /\ r.result = result /\ r.ctl = ctl
  BY <1>1, <1>3, <1>4 DEF Records
<1>6. commands' = [commands EXCEPT ![c] = r]
  BY <1>2, <1>4 DEF Update
<1> QED
  BY <1>2, <1>5, <1>6, OneRecordMoves

\* What Goto and Result make of a delivery.
LEMMA GotoEffect ==
  ASSUME TypeOK, NEW d \in Deliveries,
         NEW pc \in {"claim", "read", "audit"}, Goto(d, pc)
  PROVE  /\ dlv' \in [Deliveries -> DeliveryStates]
         /\ dlv'[d].pc = pc /\ dlv'[d].cmd = dlv[d].cmd
         /\ dlv'[d].ctl = dlv[d].ctl /\ dlv'[d].result = dlv[d].result
         /\ \A e \in Deliveries : e # d => dlv'[e] = dlv[e]
<1>1. dlv[d] \in DeliveryStates
  BY DEF TypeOK, DeliveryStates
<1>2. PICK r : r = [dlv[d] EXCEPT !.pc = pc]
  OBVIOUS
<1>3. /\ r \in DeliveryStates /\ r.pc = pc /\ r.cmd = dlv[d].cmd
      /\ r.ctl = dlv[d].ctl /\ r.result = dlv[d].result
  BY <1>1, <1>2 DEF DeliveryStates
<1>4. dlv' = [dlv EXCEPT ![d] = r]
  BY <1>2 DEF Goto
<1> QED
  BY <1>3, <1>4, OneMoves

LEMMA ResultEffect ==
  ASSUME TypeOK, NEW d \in Deliveries,
         NEW pc \in {"recover", "audit", "finish"}, NEW result \in Outcomes,
         Result(d, pc, result)
  PROVE  /\ dlv' \in [Deliveries -> DeliveryStates]
         /\ dlv'[d].pc = pc /\ dlv'[d].cmd = dlv[d].cmd
         /\ dlv'[d].ctl = dlv[d].ctl /\ dlv'[d].result = result
         /\ \A e \in Deliveries : e # d => dlv'[e] = dlv[e]
<1>1. dlv[d] \in DeliveryStates
  BY DEF TypeOK, DeliveryStates
<1>2. PICK r : r = [dlv[d] EXCEPT !.pc = pc, !.result = result]
  OBVIOUS
<1>3. /\ r \in DeliveryStates /\ r.pc = pc /\ r.cmd = dlv[d].cmd
      /\ r.ctl = dlv[d].ctl /\ r.result = result
  BY <1>1, <1>2 DEF DeliveryStates
<1>4. dlv' = [dlv EXCEPT ![d] = r]
  BY <1>2 DEF Result
<1> QED
  BY <1>3, <1>4, OneMoves

\* A delivery that returns is done and no longer works on a command.
LEMMA ReturnEffect ==
  ASSUME TypeOK, NEW d \in Deliveries, Return(d)
  PROVE  /\ dlv' \in [Deliveries -> DeliveryStates]
         /\ dlv'[d].pc = "done"
         /\ \A e \in Deliveries : e # d => dlv'[e] = dlv[e]
BY BlankIsDelivery, OneMoves DEF Return

-----------------------------------------------------------------------------
(* Steps that move deliveries only.                                        *)

\* What the invariant says of the pc and the result of one delivery.
Written(d) ==
  /\ dlv[d].pc \in {"read", "control", "decide"} => Clean(dlv[d].cmd)
  /\ dlv[d].pc = "recover" => dlv[d].result = "executed"
  /\ dlv[d].pc \in {"audit", "finish"} =>
       /\ dlv[d].result \in {"rejected", "no_op"} => Clean(dlv[d].cmd)
       /\ dlv[d].result \in {"quarantined", "released", "dead_lettered"} =>
            Wrote(dlv[d].cmd, dlv[d].ctl.version)
  /\ dlv[d].pc = "decide" =>
       /\ dlv[d].ctl.version <= control.version
       /\ dlv[d].ctl.version = control.version => dlv[d].ctl = control

\* The invariant, with its delivery part for one delivery at a time.
LEMMA Split == IInv =>
  /\ TypeOK /\ VersionIsStage /\ Exclusive /\ NothingBefore
  /\ VersionsAreAuthored /\ StartedOnce /\ TerminalTellsTruth
  /\ \A d \in Deliveries : Written(d)
BY DEF IInv, Written, WrittenByPc, SnapshotsAreReal

\* A step of one delivery that leaves the stores and what commands have done
\* preserves the invariant when the delivery's own facts hold afterwards and it
\* does not begin to work on a command.
LEMMA DeliveryMoves ==
  ASSUME IInv, TypeOK', NEW d \in Deliveries,
         \A e \in Deliveries : e # d => dlv'[e] = dlv[e],
         UNCHANGED <<control, commands, runs, authors, recovered>>,
         Working(d)' => Working(d) /\ dlv'[d].cmd = dlv[d].cmd,
         Written(d)'
  PROVE  IInv'
<1>1. VersionIsStage' /\ NothingBefore' /\ VersionsAreAuthored' /\ StartedOnce'
  BY DEF IInv, VersionIsStage, NothingBefore, Clean, VersionsAreAuthored, StartedOnce
<1>2. TerminalTellsTruth'
  BY DEF IInv, TerminalTellsTruth
<1>3. Exclusive'
  BY DEF IInv, Exclusive, Working
<1>4. ASSUME NEW e \in Deliveries PROVE Written(e)'
  <2>1. CASE e = d
    BY <2>1
  <2>2. CASE e # d
    BY <2>2, Split DEF Written, Clean, Wrote
  <2> QED
    BY <2>1, <2>2
<1> QED
  BY <1>1, <1>2, <1>3, <1>4 DEF IInv, Written, WrittenByPc, SnapshotsAreReal

\* A delivery that returns and changes no store preserves the invariant.
LEMMA ReturnKeeps ==
  ASSUME IInv, NEW d \in Deliveries, Return(d),
         UNCHANGED <<checkpoint, control, commands, runs, authors, recovered>>,
         abandoned' \subseteq Commands
  PROVE  IInv'
<1>0. TypeOK
  BY DEF IInv
<1>1. /\ dlv' \in [Deliveries -> DeliveryStates]
      /\ dlv'[d].pc = "done"
      /\ \A e \in Deliveries : e # d => dlv'[e] = dlv[e]
  BY <1>0, ReturnEffect
<1>2. TypeOK'
  BY <1>0, <1>1 DEF TypeOK, DeliveryStates
<1> QED
  BY <1>1, <1>2, DeliveryMoves DEF Working, Written

LEMMA SubmitKeeps ==
  ASSUME IInv, NEW d \in Deliveries, NEW c \in Commands, Submit(d, c)
  PROVE  IInv'
<1>0. TypeOK
  BY DEF IInv
<1>1. CASE AcceptsNew(c)
  <2>1. PICK op \in Operations, cp \in 1..checkpoint.version, ctl \in 0..control.version :
          dlv' = [dlv EXCEPT ![d] =
            [@ EXCEPT !.pc = "insert", !.cmd = c,
                      !.request = [op |-> op, cp |-> cp, ctl |-> ctl]]]
    BY <1>1 DEF Submit
  <2>2. [op |-> op, cp |-> cp, ctl |-> ctl] \in Requests
    BY <1>0, <2>1, CommandAssumption DEF Requests, TypeOK
  <2>3. PICK r : r = [dlv[d] EXCEPT !.pc = "insert", !.cmd = c,
                        !.request = [op |-> op, cp |-> cp, ctl |-> ctl]]
    OBVIOUS
  <2>4. dlv[d] \in DeliveryStates
    BY <1>0 DEF TypeOK, DeliveryStates
  <2>5. r \in DeliveryStates /\ r.pc = "insert"
    BY <2>2, <2>3, <2>4 DEF DeliveryStates
  <2>6. dlv' = [dlv EXCEPT ![d] = r]
    BY <2>1, <2>3
  <2>7. /\ dlv' \in [Deliveries -> DeliveryStates]
        /\ dlv'[d].pc = "insert"
        /\ \A e \in Deliveries : e # d => dlv'[e] = dlv[e]
    BY <1>0, <2>5, <2>6, OneMoves
  <2>8. UNCHANGED <<checkpoint, control, commands, runs, authors, recovered, abandoned>>
    BY DEF Submit, stores, history
  <2>9. TypeOK'
    BY <1>0, <2>7, <2>8 DEF TypeOK, DeliveryStates
  <2> QED
    BY <2>7, <2>8, <2>9, DeliveryMoves DEF Working, Written
<1>2. CASE ~AcceptsNew(c)
  BY <1>0, <1>2, ReturnKeeps DEF Submit, stores, history, TypeOK
<1> QED
  BY <1>1, <1>2

-----------------------------------------------------------------------------
(* Steps of the orchestrator.                                              *)

LEMMA InsertKeeps ==
  ASSUME IInv, NEW d \in Deliveries, Insert(d)
  PROVE  IInv'
<1>0. TypeOK
  BY DEF IInv
<1>d. dlv[d].cmd \in Commands /\ dlv[d].request \in Requests
  BY <1>0 DEF TypeOK
<1>1. CASE ~AcceptsNew(dlv[d].cmd)
  BY <1>0, <1>1, ReturnKeeps DEF Insert, history, TypeOK
<1>2. CASE AcceptsNew(dlv[d].cmd)
  <2>1. PICK c \in Commands : c = dlv[d].cmd
    BY <1>d
  <2>2. PICK r : r = [status |-> "accepted", version |-> 1, request |-> dlv[d].request,
                      result |-> "none", ctl |-> 0]
    OBVIOUS
  <2>3. r \in Records /\ r.version = 1 /\ r.status = "accepted" /\ r.result = "none"
    BY <1>d, <2>2 DEF Records, Outcomes
  <2>4. /\ commands' = [commands EXCEPT ![c] = r]
        /\ Goto(d, "claim")
        /\ UNCHANGED <<checkpoint, control, runs, authors, recovered, abandoned>>
    BY <1>2, <2>1, <2>2 DEF Insert, history
  <2>5. /\ commands' \in [Commands -> Records]
        /\ commands'[c] = r
        /\ \A b \in Commands : b # c => commands'[b] = commands[b]
    BY <1>0, <2>3, <2>4, OneRecordMoves
  <2>6. /\ dlv' \in [Deliveries -> DeliveryStates]
        /\ dlv'[d].pc = "claim"
        /\ \A e \in Deliveries : e # d => dlv'[e] = dlv[e]
    BY <1>0, <2>4, GotoEffect
  <2>7. TypeOK'
    BY <1>0, <2>4, <2>5, <2>6 DEF TypeOK, DeliveryStates, Records
  <2>8. commands[c].version = 0
    BY <1>2, <2>1 DEF AcceptsNew, IInv, VersionIsStage
  <2>9. VersionIsStage'
    BY <2>3, <2>5 DEF IInv, VersionIsStage
  <2>10. NothingBefore'
    BY <2>3, <2>4, <2>5, <2>8 DEF IInv, NothingBefore, Clean
  <2>11. VersionsAreAuthored' /\ StartedOnce'
    BY <2>4 DEF IInv, VersionsAreAuthored, StartedOnce
  <2>12. TerminalTellsTruth'
    BY <2>3, <2>4, <2>5, <2>7 DEF IInv, TerminalTellsTruth
  <2>13. Exclusive'
    <3>1. ASSUME NEW e \in Deliveries, Working(e)'
          PROVE  e # d /\ Working(e) /\ dlv'[e] = dlv[e] /\ dlv[e].cmd \in Commands
      BY <3>1, <2>6, <1>0 DEF Working, TypeOK
    <3> QED
      BY <3>1, <2>1, <2>5, <2>8 DEF IInv, Exclusive
  <2>14. ASSUME NEW e \in Deliveries PROVE Written(e)'
    <3>1. CASE e = d
      BY <3>1, <2>6 DEF Written
    <3>2. CASE e # d
      BY <3>2, <2>4, <2>6, Split DEF Written, Clean, Wrote
    <3> QED
      BY <3>1, <3>2
  <2> QED
    BY <2>7, <2>9, <2>10, <2>11, <2>12, <2>13, <2>14
       DEF IInv, Written, WrittenByPc, SnapshotsAreReal
<1> QED
  BY <1>1, <1>2

LEMMA ClaimKeeps ==
  ASSUME IInv, NEW d \in Deliveries, Claim(d)
  PROVE  IInv'
<1>0. TypeOK
  BY DEF IInv
<1>1. CASE ~Updates(dlv[d].cmd, 1)
  BY <1>0, <1>1, ReturnKeeps DEF Claim, TypeOK
<1>2. CASE Updates(dlv[d].cmd, 1)
  <2>1. PICK c \in Commands : c = dlv[d].cmd
    BY <1>0 DEF TypeOK
  <2>2. commands[c].version = 1 /\ runs[c] = 0 /\ Clean(c)
    BY <1>2, <2>1 DEF Updates, IInv, NothingBefore
  <2>3. /\ Update(c, "executing", "none", 0)
        /\ Goto(d, "read")
        /\ runs' = [runs EXCEPT ![c] = @ + 1]
        /\ UNCHANGED <<checkpoint, control, authors, recovered, abandoned>>
    BY <1>2, <2>1 DEF Claim
  <2>4. /\ commands' \in [Commands -> Records]
        /\ commands'[c].status = "executing" /\ commands'[c].version = 2
        /\ commands'[c].result = "none"
        /\ \A b \in Commands : b # c => commands'[b] = commands[b]
    <3>1. /\ "executing" \in {"executing"} \union Terminal
          /\ "none" \in Outcomes /\ 0 \in Nat
      BY DEF Outcomes
    <3>2. Update(c, "executing", "none", 0) /\ commands[c].version < 3
      BY <2>2, <2>3
    <3>3. /\ commands' \in [Commands -> Records]
          /\ commands'[c].status = "executing"
          /\ commands'[c].version = commands[c].version + 1
          /\ commands'[c].result = "none"
          /\ \A b \in Commands : b # c => commands'[b] = commands[b]
      BY <1>0, <3>1, <3>2, UpdateEffect
    <3> QED
      BY <2>2, <3>3
  <2>5. /\ dlv' \in [Deliveries -> DeliveryStates]
        /\ dlv'[d].pc = "read" /\ dlv'[d].cmd = c
        /\ \A e \in Deliveries : e # d => dlv'[e] = dlv[e]
    BY <1>0, <2>1, <2>3, GotoEffect
  <2>6. /\ runs' \in [Commands -> Nat] /\ runs'[c] = 1
        /\ \A b \in Commands : b # c => runs'[b] = runs[b]
    BY <1>0, <2>2, <2>3 DEF TypeOK
  <2>7. TypeOK'
    BY <1>0, <2>3, <2>4, <2>5, <2>6 DEF TypeOK, DeliveryStates, Records
  <2>9. VersionIsStage'
    BY <2>4 DEF IInv, VersionIsStage
  <2>10. NothingBefore'
    BY <2>3, <2>4, <2>6 DEF IInv, NothingBefore, Clean
  <2>11. VersionsAreAuthored' /\ StartedOnce'
    BY <2>3, <2>6 DEF IInv, VersionsAreAuthored, StartedOnce
  <2>12. TerminalTellsTruth'
    BY <2>3, <2>4, <2>7 DEF IInv, TerminalTellsTruth
  <2>13. Exclusive'
    <3>1. ASSUME NEW e \in Deliveries, Working(e)', e # d
          PROVE  Working(e) /\ dlv'[e] = dlv[e] /\ dlv[e].cmd \in Commands
                 /\ dlv[e].cmd # c /\ commands'[dlv[e].cmd] = commands[dlv[e].cmd]
      <4>1. Working(e) /\ dlv'[e] = dlv[e] /\ dlv[e].cmd \in Commands
        BY <3>1, <2>5, <1>0 DEF Working, TypeOK
      <4>2. dlv[e].cmd # c
        BY <4>1, <2>2 DEF IInv, Exclusive
      <4> QED
        BY <4>1, <4>2, <2>4
    <3> QED
      BY <3>1, <2>4, <2>5 DEF IInv, Exclusive
  <2>14. ASSUME NEW e \in Deliveries PROVE Written(e)'
    <3>1. CASE e = d
      BY <3>1, <2>2, <2>3, <2>5 DEF Written, Clean
    <3>2. CASE e # d
      BY <3>2, <2>3, <2>5, Split DEF Written, Clean, Wrote
    <3> QED
      BY <3>1, <3>2
  <2> QED
    BY <2>7, <2>9, <2>10, <2>11, <2>12, <2>13, <2>14
       DEF IInv, Written, WrittenByPc, SnapshotsAreReal
<1> QED
  BY <1>1, <1>2

LEMMA FinishKeeps ==
  ASSUME IInv, NEW d \in Deliveries, Finish(d)
  PROVE  IInv'
<1>0. TypeOK
  BY DEF IInv
<1>1. PICK c \in Commands : c = dlv[d].cmd
  BY <1>0 DEF TypeOK
<1>2. /\ Working(d) /\ commands[c].version = 2
      /\ dlv[d].pc = "finish" /\ dlv[d].result \in Outcomes /\ dlv[d].ctl.version \in Nat
  BY <1>0, <1>1 DEF Finish, Working, IInv, Exclusive, TypeOK, ControlStates
<1>3. PICK status \in Terminal :
        /\ Update(c, status, dlv[d].result, dlv[d].ctl.version)
        /\ Return(d)
        /\ UNCHANGED <<checkpoint, control, runs, authors, recovered, abandoned>>
  BY <1>1, <1>2 DEF Finish, Updates, Terminal, history
<1>4. /\ commands' \in [Commands -> Records]
      /\ commands'[c].status = status /\ commands'[c].version = 3
      /\ commands'[c].result = dlv[d].result /\ commands'[c].ctl = dlv[d].ctl.version
      /\ \A b \in Commands : b # c => commands'[b] = commands[b]
  BY <1>0, <1>2, <1>3, UpdateEffect
<1>5. /\ dlv' \in [Deliveries -> DeliveryStates]
      /\ dlv'[d].pc = "done"
      /\ \A e \in Deliveries : e # d => dlv'[e] = dlv[e]
  BY <1>0, <1>3, ReturnEffect
<1>7. TypeOK'
  BY <1>0, <1>3, <1>4, <1>5 DEF TypeOK, DeliveryStates, Records
<1>9. VersionIsStage'
  BY <1>3, <1>4 DEF IInv, VersionIsStage, Terminal
<1>10. NothingBefore'
  BY <1>3, <1>4 DEF IInv, NothingBefore, Clean
<1>11. VersionsAreAuthored' /\ StartedOnce'
  BY <1>3 DEF IInv, VersionsAreAuthored, StartedOnce
<1>12. TerminalTellsTruth'
  <2>1. Written(d)
    BY Split
  <2> QED
    BY <2>1, <1>1, <1>2, <1>3, <1>4, <1>7 DEF IInv, TerminalTellsTruth, Written, Clean, Wrote
<1>13. Exclusive'
  <2>1. ASSUME NEW e \in Deliveries, Working(e)'
        PROVE  Working(e) /\ dlv'[e] = dlv[e] /\ dlv[e].cmd \in Commands
               /\ dlv[e].cmd # c /\ commands'[dlv[e].cmd] = commands[dlv[e].cmd]
    <3>1. Working(e) /\ e # d /\ dlv'[e] = dlv[e] /\ dlv[e].cmd \in Commands
      BY <2>1, <1>5, <1>0 DEF Working, TypeOK
    <3>2. dlv[e].cmd # c
      BY <3>1, <1>1, <1>2 DEF IInv, Exclusive
    <3> QED
      BY <3>1, <3>2, <1>4
  <2> QED
    BY <2>1 DEF IInv, Exclusive
<1>14. ASSUME NEW e \in Deliveries PROVE Written(e)'
  <2>1. CASE e = d
    BY <2>1, <1>5 DEF Written
  <2>2. CASE e # d
    BY <2>2, <1>3, <1>5, Split DEF Written, Clean, Wrote
  <2> QED
    BY <2>1, <2>2
<1> QED
  BY <1>7, <1>9, <1>10, <1>11, <1>12, <1>13, <1>14
     DEF IInv, Written, WrittenByPc, SnapshotsAreReal

-----------------------------------------------------------------------------
(* Steps of the operation service.                                         *)

LEMMA ReadCheckpointKeeps ==
  ASSUME IInv, NEW d \in Deliveries, ReadCheckpoint(d)
  PROVE  IInv'
<1>0. TypeOK
  BY DEF IInv
<1>1. dlv[d] \in DeliveryStates
  BY <1>0 DEF TypeOK, DeliveryStates
<1>2. PICK r : r = [dlv[d] EXCEPT !.pc = "control", !.cp = checkpoint]
  OBVIOUS
<1>3. r \in DeliveryStates /\ r.pc = "control" /\ r.cmd = dlv[d].cmd
  <2>1. checkpoint \in [version : Nat, completed : BOOLEAN]
    BY <1>0, CommandAssumption DEF TypeOK
  <2> QED
    BY <1>1, <1>2, <2>1 DEF DeliveryStates
<1>4. dlv' = [dlv EXCEPT ![d] = r]
  BY <1>2 DEF ReadCheckpoint
<1>5. /\ dlv' \in [Deliveries -> DeliveryStates] /\ dlv'[d] = r
      /\ \A e \in Deliveries : e # d => dlv'[e] = dlv[e]
  BY <1>0, <1>3, <1>4, OneMoves
<1>6. /\ dlv[d].pc = "read"
      /\ UNCHANGED <<checkpoint, control, commands, runs, authors, recovered, abandoned>>
  BY DEF ReadCheckpoint, stores, history
<1>7. TypeOK'
  BY <1>0, <1>5, <1>6 DEF TypeOK, DeliveryStates
<1>8. Clean(dlv[d].cmd) /\ Working(d)
  BY <1>6, Split DEF Written, Working
<1>9. Written(d)'
  BY <1>3, <1>5, <1>6, <1>8 DEF Written, Clean
<1> QED
  BY <1>3, <1>5, <1>6, <1>7, <1>8, <1>9, DeliveryMoves

LEMMA ReadControlKeeps ==
  ASSUME IInv, NEW d \in Deliveries, ReadControl(d)
  PROVE  IInv'
<1>0. TypeOK
  BY DEF IInv
<1>1. dlv[d] \in DeliveryStates
  BY <1>0 DEF TypeOK, DeliveryStates
<1>2. PICK r : r = [dlv[d] EXCEPT !.pc = "decide", !.ctl = control]
  OBVIOUS
<1>3. r \in DeliveryStates /\ r.pc = "decide" /\ r.cmd = dlv[d].cmd /\ r.ctl = control
  BY <1>0, <1>1, <1>2 DEF TypeOK, DeliveryStates
<1>4. dlv' = [dlv EXCEPT ![d] = r]
  BY <1>2 DEF ReadControl
<1>5. /\ dlv' \in [Deliveries -> DeliveryStates] /\ dlv'[d] = r
      /\ \A e \in Deliveries : e # d => dlv'[e] = dlv[e]
  BY <1>0, <1>3, <1>4, OneMoves
<1>6. /\ dlv[d].pc = "control"
      /\ UNCHANGED <<checkpoint, control, commands, runs, authors, recovered, abandoned>>
  BY DEF ReadControl, stores, history
<1>7. TypeOK'
  BY <1>0, <1>5, <1>6 DEF TypeOK, DeliveryStates
<1>8. Clean(dlv[d].cmd) /\ Working(d) /\ control.version \in Nat
  BY <1>0, <1>6, Split DEF Written, Working, TypeOK, ControlStates
<1>9. Written(d)'
  BY <1>3, <1>5, <1>6, <1>8 DEF Written, Clean
<1> QED
  BY <1>3, <1>5, <1>6, <1>7, <1>8, <1>9, DeliveryMoves

\* A step that ends with a result and writes no store preserves the invariant when
\* the result says nothing that the command has not done.
LEMMA ResultKeeps ==
  ASSUME IInv, NEW d \in Deliveries, Working(d),
         NEW pc \in {"recover", "audit", "finish"}, NEW result \in Outcomes,
         Result(d, pc, result),
         UNCHANGED <<checkpoint, control, commands, runs, authors, recovered, abandoned>>,
         pc = "recover" => result = "executed",
         pc # "recover" /\ result \in {"rejected", "no_op"} => Clean(dlv[d].cmd),
         pc # "recover" /\ result \in {"quarantined", "released", "dead_lettered"} =>
           Wrote(dlv[d].cmd, dlv[d].ctl.version)
  PROVE  IInv'
<1>0. TypeOK
  BY DEF IInv
<1>1. /\ dlv' \in [Deliveries -> DeliveryStates]
      /\ dlv'[d].pc = pc /\ dlv'[d].cmd = dlv[d].cmd
      /\ dlv'[d].ctl = dlv[d].ctl /\ dlv'[d].result = result
      /\ \A e \in Deliveries : e # d => dlv'[e] = dlv[e]
  BY <1>0, ResultEffect
<1>2. TypeOK'
  BY <1>0, <1>1 DEF TypeOK, DeliveryStates
<1>3. Written(d)'
  BY <1>1 DEF Written, Clean, Wrote
<1> QED
  BY <1>1, <1>2, <1>3, DeliveryMoves

LEMMA AuditKeeps ==
  ASSUME IInv, NEW d \in Deliveries, Audit(d)
  PROVE  IInv'
<1>1. PICK result \in {dlv[d].result, "failed"} : Result(d, "finish", result)
  BY DEF Audit
<1>2. /\ dlv[d].pc = "audit"
      /\ UNCHANGED <<checkpoint, control, commands, runs, authors, recovered, abandoned>>
  BY DEF Audit, stores, history
<1>3. Working(d) /\ Written(d) /\ result \in Outcomes
  BY <1>1, <1>2, Split DEF Working, TypeOK, Outcomes
<1>4. /\ result \in {"rejected", "no_op"} => Clean(dlv[d].cmd)
      /\ result \in {"quarantined", "released", "dead_lettered"} =>
           Wrote(dlv[d].cmd, dlv[d].ctl.version)
  BY <1>1, <1>2, <1>3 DEF Written
<1> QED
  BY <1>1, <1>2, <1>3, <1>4, ResultKeeps

\* The verdicts, and what follows from an operation that proceeds.
LEMMA VerdictFacts ==
  ASSUME NEW request, NEW cp, NEW ctl
  PROVE  /\ Verdict(request, cp, ctl) \in {"rejected", "no_op", "proceed"}
         /\ Verdict(request, cp, ctl) = "proceed" => ctl.status # "dead_lettered"
BY DEF Verdict

\* What happens when an operation writes the control state: it is the next version
\* and the command's first.
LEMMA SaveKeeps ==
  ASSUME IInv, NEW d \in Deliveries, dlv[d].pc = "decide",
         NEW status \in {"active", "quarantined", "dead_lettered"},
         NEW r \in DeliveryStates,
         dlv' = [dlv EXCEPT ![d] = r],
         r.cmd = dlv[d].cmd, r.ctl = control', r.pc \in {"recover", "audit"},
         r.pc = "recover" => r.result = "executed",
         r.result \notin {"rejected", "no_op"},
         SaveControl(status),
         authors' = Append(authors, dlv[d].cmd),
         UNCHANGED <<checkpoint, commands, runs, recovered, abandoned>>
  PROVE  IInv'
<1>0. TypeOK
  BY DEF IInv
<1>1. PICK c \in Commands : c = dlv[d].cmd
  BY <1>0 DEF TypeOK
<1>2. PICK n \in Nat : n = control.version
  BY <1>0 DEF TypeOK, ControlStates
<1>3. control' = [version |-> n + 1, status |-> status]
  BY <1>2 DEF SaveControl
<1>4. authors \in Seq(Commands) /\ Len(authors) = n
  BY <1>0, <1>2 DEF TypeOK, IInv, VersionsAreAuthored
<1>5. /\ authors' \in Seq(Commands) /\ Len(authors') = n + 1
      /\ DOMAIN authors = 1..n /\ DOMAIN authors' = 1..(n + 1)
      /\ authors'[n + 1] = c
      /\ \A i \in 1..n : authors'[i] = authors[i]
  BY <1>1, <1>4
<1>6. /\ dlv' \in [Deliveries -> DeliveryStates] /\ dlv'[d] = r
      /\ \A e \in Deliveries : e # d => dlv'[e] = dlv[e]
  BY <1>0, OneMoves
<1>7. TypeOK'
  BY <1>0, <1>3, <1>5, <1>6 DEF TypeOK, DeliveryStates, ControlStates
<1>8. Working(d) /\ Working(d)' /\ Clean(c)
  BY <1>1, <1>6, Split DEF Working, Written
<1>9. commands[c].version = 2
  BY <1>1, <1>8 DEF IInv, Exclusive
<1>10. \A b \in Commands : b # c =>
         /\ Clean(b) => Clean(b)'
         /\ \A v : Wrote(b, v) => Wrote(b, v)'
  BY <1>5 DEF Clean, Wrote
<1>11. VersionIsStage' /\ StartedOnce'
  BY DEF IInv, VersionIsStage, StartedOnce
<1>12. NothingBefore'
  BY <1>9, <1>10 DEF IInv, NothingBefore
<1>13. VersionsAreAuthored'
  <2>1. Len(authors') = control'.version
    BY <1>3, <1>5
  <2>2. ASSUME NEW i \in 1..(n + 1), NEW j \in 1..(n + 1), authors'[i] = authors'[j]
        PROVE  i = j
    <3>1. \A k \in 1..n : authors'[k] # c
      BY <1>5, <1>8 DEF Clean
    <3>2. CASE i \in 1..n /\ j \in 1..n
      BY <2>2, <3>2, <1>5 DEF IInv, VersionsAreAuthored
    <3>3. CASE i = n + 1 \/ j = n + 1
      BY <2>2, <3>1, <3>3, <1>5
    <3> QED
      BY <2>2, <3>2, <3>3
  <2> QED
    BY <2>1, <2>2, <1>5 DEF VersionsAreAuthored
<1>14. Exclusive'
  BY <1>1, <1>6, <1>8 DEF IInv, Exclusive, Working
<1>15. TerminalTellsTruth'
  <2>1. ASSUME NEW b \in Commands, commands[b].result # "none"
        PROVE  b # c
    BY <2>1, <1>9 DEF IInv, NothingBefore
  <2>2. ASSUME NEW b \in Commands,
               commands[b].result \in {"quarantined", "released", "dead_lettered"}
        PROVE  Wrote(b, commands[b].ctl)'
    <3>1. Wrote(b, commands[b].ctl) /\ b # c
      BY <2>1, <2>2 DEF IInv, TerminalTellsTruth, Wrote
    <3> QED
      BY <3>1, <1>5 DEF Wrote
  <2>3. ASSUME NEW b \in Commands, commands[b].result \in {"rejected", "no_op"}
        PROVE  Clean(b)'
    <3>1. Clean(b) /\ b # c
      BY <2>1, <2>3 DEF IInv, TerminalTellsTruth, Clean
    <3> QED
      BY <3>1, <1>10
  <2> QED
    BY <1>7, <2>2, <2>3 DEF TerminalTellsTruth, Wrote, Clean
<1>16. ASSUME NEW e \in Deliveries PROVE Written(e)'
  <2>1. CASE e = d
    <3>1. Wrote(c, n + 1)'
      BY <1>4, <1>5 DEF Wrote
    <3> QED
      BY <2>1, <3>1, <1>1, <1>3, <1>6 DEF Written
  <2>2. CASE e # d
    <3>1. dlv'[e] = dlv[e] /\ Written(e) /\ dlv[e] \in DeliveryStates
      BY <2>2, <1>0, <1>6, Split DEF TypeOK, DeliveryStates
    <3>2. CASE Working(e)
      <4>1. dlv[e].cmd # c /\ dlv[e].cmd \in Commands
        BY <2>2, <3>1, <3>2, <1>1, <1>8 DEF IInv, Exclusive, DeliveryStates
      <4>2. /\ Clean(dlv[e].cmd) => Clean(dlv[e].cmd)'
            /\ Wrote(dlv[e].cmd, dlv[e].ctl.version) => Wrote(dlv[e].cmd, dlv[e].ctl.version)'
        BY <3>1, <4>1, <1>5 DEF Clean, Wrote
      <4>3. dlv[e].pc = "decide" =>
              /\ dlv[e].ctl.version <= n + 1
              /\ dlv[e].ctl.version # n + 1
        BY <3>1, <1>2 DEF Written, DeliveryStates, ControlStates
      <4> QED
        BY <3>1, <4>2, <4>3, <1>3 DEF Written
    <3>3. CASE ~Working(e)
      BY <3>1, <3>3 DEF Written, Working
    <3> QED
      BY <3>2, <3>3
  <2> QED
    BY <2>1, <2>2
<1> QED
  BY <1>7, <1>11, <1>12, <1>13, <1>14, <1>15, <1>16
     DEF IInv, Written, WrittenByPc, SnapshotsAreReal

LEMMA DecideKeeps ==
  ASSUME IInv, NEW d \in Deliveries, Decide(d)
  PROVE  IInv'
<1>0. TypeOK
  BY DEF IInv
<1>1. PICK verdict \in {"rejected", "no_op", "proceed"} :
        /\ verdict = Verdict(dlv[d].request, dlv[d].cp, dlv[d].ctl)
        /\ verdict = "proceed" => dlv[d].ctl.status # "dead_lettered"
  BY VerdictFacts
<1>2. PICK op \in AllOperations : op = dlv[d].request.op
  BY <1>0 DEF TypeOK, Requests
<1>3. /\ dlv[d].pc = "decide" /\ Working(d) /\ Written(d) /\ Clean(dlv[d].cmd)
      /\ UNCHANGED <<checkpoint, commands, runs, recovered, abandoned>>
  BY Split DEF Decide, Working, Written
<1>4. CASE verdict # "proceed"
  <2>1. Result(d, "audit", verdict) /\ UNCHANGED <<control, authors>> /\ verdict \in Outcomes
    BY <1>1, <1>4 DEF Decide, Outcomes
  <2> QED
    BY <1>1, <1>3, <1>4, <2>1, ResultKeeps
<1>5. CASE verdict = "proceed" /\ op = "recover"
  <2>1. Result(d, "recover", "executed") /\ UNCHANGED <<control, authors>> /\ "executed" \in Outcomes
    BY <1>1, <1>2, <1>5 DEF Decide, Outcomes
  <2> QED
    BY <1>3, <2>1, ResultKeeps
<1>6. CASE verdict = "proceed" /\ op # "recover" /\ ~ControlUnchanged(dlv[d].ctl)
  <2>1. Result(d, "finish", "failed") /\ UNCHANGED <<control, authors>> /\ "failed" \in Outcomes
    BY <1>1, <1>2, <1>6 DEF Decide, Outcomes
  <2> QED
    BY <1>3, <2>1, ResultKeeps
<1>7. CASE verdict = "proceed" /\ op # "recover" /\ ControlUnchanged(dlv[d].ctl)
  <2>1. /\ SaveControl(NextStatus(op))
        /\ authors' = Append(authors, dlv[d].cmd)
        /\ dlv' = [dlv EXCEPT ![d] =
             [@ EXCEPT !.pc = IF op = "resume" THEN "recover" ELSE "audit",
                       !.ctl = control', !.result = Outcome(op)]]
    BY <1>1, <1>2, <1>7 DEF Decide
  <2>2. /\ NextStatus(op) \in {"active", "quarantined", "dead_lettered"}
        /\ Outcome(op) \in {"released", "executed", "quarantined", "dead_lettered"}
        /\ op = "resume" => Outcome(op) = "executed"
    BY <1>2, <1>7 DEF NextStatus, Outcome, AllOperations
  <2>3. PICK r : r = [dlv[d] EXCEPT !.pc = IF op = "resume" THEN "recover" ELSE "audit",
                                    !.ctl = control', !.result = Outcome(op)]
    OBVIOUS
  <2>4. control' \in ControlStates
    BY <1>0, <2>1, <2>2 DEF SaveControl, TypeOK, ControlStates
  <2>5. dlv[d] \in DeliveryStates
    BY <1>0 DEF TypeOK, DeliveryStates
  <2>6. /\ r \in DeliveryStates /\ r.cmd = dlv[d].cmd /\ r.ctl = control'
        /\ r.pc = (IF op = "resume" THEN "recover" ELSE "audit")
        /\ r.result = Outcome(op)
    <3>1. Outcome(op) \in Outcomes
      BY <2>2 DEF Outcomes
    <3> QED
      BY <2>3, <2>4, <2>5, <3>1 DEF DeliveryStates
  <2>7. dlv' = [dlv EXCEPT ![d] = r]
    BY <2>1, <2>3
  <2>8. /\ r.pc \in {"recover", "audit"}
        /\ r.pc = "recover" => r.result = "executed"
        /\ r.result \notin {"rejected", "no_op"}
    BY <2>2, <2>6
  <2> QED
    BY <1>3, <2>1, <2>2, <2>6, <2>7, <2>8, SaveKeeps
<1> QED
  BY <1>1, <1>4, <1>5, <1>6, <1>7

\* recover() may replace the checkpoint in the name of the command; the command's
\* result then says so.
LEMMA RecoverKeeps ==
  ASSUME IInv, NEW d \in Deliveries, Recover(d)
  PROVE  IInv'
<1>0. TypeOK
  BY DEF IInv
<1>1. PICK c \in Commands : c = dlv[d].cmd
  BY <1>0 DEF TypeOK
<1>2. /\ dlv[d].pc = "recover" /\ Working(d) /\ dlv[d].result = "executed"
      /\ UNCHANGED <<control, commands, runs, authors, abandoned>>
  BY Split DEF Recover, Working, Written
<1>3. CASE Result(d, "audit", "failed") /\ UNCHANGED <<checkpoint, recovered>>
  <2>1. "failed" \in Outcomes
    BY DEF Outcomes
  <2> QED
    BY <1>2, <1>3, <2>1, ResultKeeps
<1>4. CASE /\ Goto(d, "audit")
           /\ checkpoint' \in [version : 0..MaxCheckpoint, completed : BOOLEAN]
           /\ recovered' \subseteq [cmd : Commands, version : Nat]
           /\ \A r \in recovered' : r \in recovered \/ r.cmd = c
  <2>1. /\ dlv' \in [Deliveries -> DeliveryStates]
        /\ dlv'[d].pc = "audit" /\ dlv'[d].cmd = dlv[d].cmd
        /\ dlv'[d].ctl = dlv[d].ctl /\ dlv'[d].result = dlv[d].result
        /\ \A e \in Deliveries : e # d => dlv'[e] = dlv[e]
    BY <1>0, <1>4, GotoEffect
  <2>2. TypeOK'
    BY <1>0, <1>2, <1>4, <2>1 DEF TypeOK, DeliveryStates
  <2>3. \A b \in Commands : b # c /\ Clean(b) => Clean(b)'
    BY <1>2, <1>4 DEF Clean
  <2>4. commands[c].version = 2
    BY <1>1, <1>2 DEF IInv, Exclusive
  <2>5. VersionIsStage' /\ VersionsAreAuthored' /\ StartedOnce'
    BY <1>2 DEF IInv, VersionIsStage, VersionsAreAuthored, StartedOnce
  <2>6. NothingBefore'
    BY <1>2, <2>3, <2>4 DEF IInv, NothingBefore
  <2>7. Exclusive'
    BY <1>2, <2>1 DEF IInv, Exclusive, Working
  <2>8. TerminalTellsTruth'
    <3>1. ASSUME NEW b \in Commands, commands[b].result \in {"rejected", "no_op"}
          PROVE  Clean(b)'
      <4>1. Clean(b) /\ b # c
        BY <3>1, <2>4 DEF IInv, NothingBefore, TerminalTellsTruth, Clean
      <4> QED
        BY <4>1, <2>3
    <3> QED
      BY <1>2, <2>2, <3>1 DEF IInv, TerminalTellsTruth, Clean
  <2>9. ASSUME NEW e \in Deliveries PROVE Written(e)'
    <3>1. CASE e = d
      BY <1>2, <2>1, <3>1 DEF Written
    <3>2. CASE e # d
      <4>1. dlv'[e] = dlv[e] /\ Written(e) /\ dlv[e].cmd \in Commands
        BY <1>0, <2>1, <3>2, Split DEF TypeOK
      <4>2. Working(e) => dlv[e].cmd # c
        BY <1>1, <1>2, <3>2 DEF IInv, Exclusive
      <4> QED
        BY <1>2, <2>3, <4>1, <4>2 DEF Written, Working, Wrote
    <3> QED
      BY <3>1, <3>2
  <2> QED
    BY <2>2, <2>5, <2>6, <2>7, <2>8, <2>9 DEF IInv, Written, WrittenByPc, SnapshotsAreReal
<1>5. CASE Goto(d, "audit") /\ UNCHANGED <<checkpoint, recovered>>
  <2>1. /\ checkpoint' \in [version : 0..MaxCheckpoint, completed : BOOLEAN]
        /\ recovered' \subseteq [cmd : Commands, version : Nat]
        /\ \A r \in recovered' : r \in recovered \/ r.cmd = c
    BY <1>0, <1>5 DEF TypeOK
  <2> QED
    BY <1>4, <1>5, <2>1
<1>6. CASE /\ ~checkpoint.completed /\ checkpoint.version < MaxCheckpoint
           /\ checkpoint' = [checkpoint EXCEPT !.version = @ + 1]
           /\ recovered' = recovered \union {[cmd |-> dlv[d].cmd, version |-> checkpoint.version]}
           /\ Goto(d, "audit")
  <2>1. PICK n \in Nat : n = checkpoint.version
    BY <1>0, CommandAssumption DEF TypeOK
  <2>2. checkpoint' \in [version : 0..MaxCheckpoint, completed : BOOLEAN]
    <3>1. n + 1 \in 0..MaxCheckpoint
      BY <1>6, <2>1, CommandAssumption
    <3>2. checkpoint' = [checkpoint EXCEPT !.version = n + 1]
      BY <1>6, <2>1
    <3> QED
      BY <1>0, <3>1, <3>2 DEF TypeOK
  <2>3. /\ recovered' \subseteq [cmd : Commands, version : Nat]
        /\ \A r \in recovered' : r \in recovered \/ r.cmd = c
    BY <1>0, <1>1, <1>6, <2>1 DEF TypeOK
  <2> QED
    BY <1>4, <1>6, <2>2, <2>3
<1> QED
  BY <1>3, <1>5, <1>6 DEF Recover

-----------------------------------------------------------------------------
(* The environment, and the whole.                                         *)

LEMMA WorkerKeeps == IInv /\ WorkerSaves => IInv'
<1> SUFFICES ASSUME IInv, WorkerSaves PROVE IInv'
  OBVIOUS
<1>1. UNCHANGED <<control, commands, dlv, runs, authors, recovered, abandoned>>
  BY DEF WorkerSaves, history
<1>2. TypeOK'
  <2>1. PICK n \in Nat : n = checkpoint.version
    BY CommandAssumption DEF IInv, TypeOK
  <2>2. checkpoint' \in [version : 0..MaxCheckpoint, completed : BOOLEAN]
    BY <2>1, CommandAssumption DEF WorkerSaves
  <2> QED
    BY <1>1, <2>2 DEF IInv, TypeOK
<1>3. VersionIsStage' /\ Exclusive' /\ NothingBefore' /\ VersionsAreAuthored' /\ StartedOnce'
  BY <1>1 DEF IInv, VersionIsStage, Exclusive, Working, NothingBefore, Clean,
              VersionsAreAuthored, StartedOnce
<1>4. WrittenByPc' /\ SnapshotsAreReal'
  BY <1>1 DEF IInv, WrittenByPc, SnapshotsAreReal, Clean, Wrote
<1>5. TerminalTellsTruth'
  BY <1>1, <1>2 DEF IInv, TerminalTellsTruth
<1> QED
  BY <1>2, <1>3, <1>4, <1>5 DEF IInv

LEMMA CrashKeeps ==
  ASSUME IInv, NEW d \in Deliveries, Crash(d)
  PROVE  IInv'
<1>1. /\ Return(d)
      /\ UNCHANGED <<checkpoint, control, commands, runs, authors, recovered>>
  BY DEF Crash, stores
<1>2. abandoned' \subseteq Commands
  BY DEF Crash, IInv, TypeOK
<1> QED
  BY <1>1, <1>2, ReturnKeeps

LEMMA StutterKeeps == IInv /\ UNCHANGED vars => IInv'
<1> SUFFICES ASSUME IInv, UNCHANGED vars PROVE IInv'
  OBVIOUS
<1>1. UNCHANGED <<checkpoint, control, commands, dlv, runs, authors, recovered, abandoned>>
  BY DEF vars
<1>2. TypeOK'
  BY <1>1 DEF IInv, TypeOK
<1>3. VersionIsStage' /\ Exclusive' /\ NothingBefore' /\ VersionsAreAuthored' /\ StartedOnce'
  BY <1>1 DEF IInv, VersionIsStage, Exclusive, Working, NothingBefore, Clean,
              VersionsAreAuthored, StartedOnce
<1>4. WrittenByPc' /\ SnapshotsAreReal'
  BY <1>1 DEF IInv, WrittenByPc, SnapshotsAreReal, Clean, Wrote
<1>5. TerminalTellsTruth'
  BY <1>1, <1>2 DEF IInv, TerminalTellsTruth
<1> QED
  BY <1>2, <1>3, <1>4, <1>5 DEF IInv

LEMMA InitHolds == Init => IInv
<1> SUFFICES ASSUME Init PROVE IInv
  OBVIOUS
<1>1. \A d \in Deliveries : dlv[d] \in DeliveryStates /\ dlv[d].pc = "idle"
  BY BlankIsDelivery DEF Init
<1>2. NoRecord \in Records
  BY DEF NoRecord, Records, NoRequest, Requests, AllOperations, Outcomes
<1>3. authors = << >> /\ Len(authors) = 0 /\ DOMAIN authors = {} /\ recovered = {}
  BY DEF Init
<1>4. TypeOK
  <2>1. dlv \in [Deliveries -> DeliveryStates] /\ commands \in [Commands -> Records]
    BY <1>1, <1>2 DEF Init
  <2>2. checkpoint \in [version : 0..MaxCheckpoint, completed : BOOLEAN] /\ control \in ControlStates
    BY CommandAssumption DEF Init, ControlStates
  <2>3. authors \in Seq(Commands)
    BY <1>3
  <2>4. runs \in [Commands -> Nat] /\ recovered = {} /\ abandoned = {}
    BY DEF Init
  <2> QED
    BY <2>1, <2>2, <2>3, <2>4 DEF TypeOK, DeliveryStates, Records
<1>5. \A c \in Commands : commands[c].status = "absent" /\ commands[c].version = 0
                          /\ commands[c].result = "none" /\ runs[c] = 0
  BY DEF Init, NoRecord
<1>6. VersionIsStage /\ NothingBefore /\ VersionsAreAuthored /\ StartedOnce
  BY <1>3, <1>5 DEF VersionIsStage, NothingBefore, Clean, VersionsAreAuthored, StartedOnce, Init
<1>7. Exclusive /\ WrittenByPc /\ SnapshotsAreReal
  BY <1>1 DEF Exclusive, Working, WrittenByPc, SnapshotsAreReal
<1>8. TerminalTellsTruth
  BY <1>4, <1>5 DEF TerminalTellsTruth
<1> QED
  BY <1>4, <1>6, <1>7, <1>8 DEF IInv

LEMMA Inductive == IInv /\ [Next]_vars => IInv'
<1> SUFFICES ASSUME IInv, [Next]_vars PROVE IInv'
  OBVIOUS
<1>1. ASSUME NEW d \in Deliveries, NEW c \in Commands, Submit(d, c) PROVE IInv'
  BY <1>1, SubmitKeeps
<1>2. ASSUME NEW d \in Deliveries, Step(d) PROVE IInv'
  BY <1>2, InsertKeeps, ClaimKeeps, ReadCheckpointKeeps, ReadControlKeeps, DecideKeeps,
     RecoverKeeps, AuditKeeps, FinishKeeps DEF Step
<1>3. ASSUME NEW d \in Deliveries, Crash(d) PROVE IInv'
  BY <1>3, CrashKeeps
<1> QED
  BY <1>1, <1>2, <1>3, WorkerKeeps, StutterKeeps DEF Next

-----------------------------------------------------------------------------
(* The theorems.                                                           *)

\* Every state of every behaviour satisfies the inductive invariant.
THEOREM CommandInvariant == Spec => []IInv
BY InitHolds, Inductive, PTL DEF Spec

\* However often a commandId is submitted, concurrently or again after a crash,
\* DurableRecoveryOperationOrchestrator starts its operation at most once.
THEOREM OperationStartsOnce == Spec => []StartedOnce
<1>1. IInv => StartedOnce
  BY DEF IInv
<1> QED
  BY <1>1, CommandInvariant, PTL

\* What a terminal command record says was done to the control state and to the
\* checkpoint is what was done.
THEOREM RecordsTellTruth == Spec => []TerminalTellsTruth
<1>1. IInv => TerminalTellsTruth
  BY DEF IInv
<1> QED
  BY <1>1, CommandInvariant, PTL

\* RecoveryOperationService loses no control update and repeats none, and nothing
\* leads out of dead_lettered.
THEOREM OneAuthor == Spec => OneAuthorPerVersion
<1>1. IInv => /\ Len(authors) = control.version
              /\ \A i, j \in DOMAIN authors : authors[i] = authors[j] => i = j
  BY DEF IInv, VersionsAreAuthored
<1>2. IInv /\ [Next]_vars => [control.status = "dead_lettered" => control' = control]_vars
  <2> SUFFICES ASSUME IInv, Next, control.status = "dead_lettered" PROVE control' = control
    BY DEF vars
  <2>1. ASSUME NEW d \in Deliveries, Decide(d) PROVE control' = control
    <3>1. /\ dlv[d].pc = "decide"
          /\ Verdict(dlv[d].request, dlv[d].cp, dlv[d].ctl) = "proceed" =>
               dlv[d].ctl.status # "dead_lettered"
      BY <2>1, VerdictFacts DEF Decide
    <3>2. ControlUnchanged(dlv[d].ctl) => dlv[d].ctl = control
      BY <3>1 DEF ControlUnchanged, IInv, SnapshotsAreReal
    <3> QED
      BY <2>1, <3>1, <3>2 DEF Decide
  <2>2. ASSUME NEW d \in Deliveries, Step(d) \/ Crash(d) PROVE control' = control
    BY <2>1, <2>2 DEF Step, Insert, Claim, ReadCheckpoint, ReadControl, Recover, Audit,
                      Finish, Crash, stores
  <2>3. ASSUME NEW d \in Deliveries, NEW c \in Commands, Submit(d, c) PROVE control' = control
    BY <2>3 DEF Submit, stores
  <2> QED
    BY <2>2, <2>3 DEF Next, WorkerSaves
<1> QED
  BY <1>1, <1>2, CommandInvariant, PTL DEF Spec, OneAuthorPerVersion
=============================================================================
