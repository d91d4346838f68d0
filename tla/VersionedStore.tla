--------------------------- MODULE VersionedStore ---------------------------
(***************************************************************************)
(* What a checkpoint store promises (checkpoint-store.ts, the interface    *)
(* CheckpointStore): save() is one atomic compare-and-swap on the version  *)
(* of its run.  A save that is answered "saved" has replaced exactly the   *)
(* version its caller had loaded and nothing else; any other answer has    *)
(* changed nothing.                                                        *)
(***************************************************************************)
EXTENDS Naturals

CONSTANTS Runs, Callers

VARIABLES
  stored,   \* per run: the version and the caller that wrote it
  loaded,   \* per caller: the run it works on and the version it has loaded
  answer    \* per caller: none, saved or conflict

vars == <<stored, loaded, answer>>

Init ==
  /\ \E nobody \in Callers, run \in Runs :
       /\ stored = [r \in Runs |-> [version |-> 0, author |-> nobody]]
       /\ loaded = [c \in Callers |-> [run |-> run, version |-> 0]]
  /\ answer = [c \in Callers |-> "none"]

Load(c, r) ==
  /\ answer[c] = "none"
  /\ loaded' = [loaded EXCEPT ![c] = [run |-> r, version |-> stored[r].version]]
  /\ UNCHANGED <<stored, answer>>

Save(c) ==
  LET run == loaded[c].run
  IN /\ answer[c] = "none"
     /\ \/ /\ stored[run].version = loaded[c].version
           /\ stored' = [stored EXCEPT ![run] = [version |-> @.version + 1, author |-> c]]
           /\ answer' = [answer EXCEPT ![c] = "saved"]
        \/ /\ stored[run].version # loaded[c].version
           /\ answer' = [answer EXCEPT ![c] = "conflict"]
           /\ UNCHANGED stored
     /\ UNCHANGED loaded

\* A caller takes its answer.
Take(c) == answer' = [answer EXCEPT ![c] = "none"] /\ UNCHANGED <<stored, loaded>>

\* Some callers die, perhaps before they get their answers.
Die(dead) ==
  /\ answer' = [c \in Callers |-> IF c \in dead THEN "none" ELSE answer[c]]
  /\ loaded' = [c \in Callers |->
       IF c \in dead THEN [loaded[c] EXCEPT !.version = 0] ELSE loaded[c]]
  /\ UNCHANGED stored

Next ==
  \/ \E c \in Callers : Save(c) \/ Take(c) \/ \E r \in Runs : Load(c, r)
  \/ \E dead \in SUBSET Callers : Die(dead)

Spec == Init /\ [][Next]_vars
=============================================================================
