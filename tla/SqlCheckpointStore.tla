-------------------------- MODULE SqlCheckpointStore --------------------------
(***************************************************************************)
(* transactional-checkpoint-store.ts over sqlite-checkpoint-database.ts:   *)
(* the checkpoints of all runs in one table that several processes share.  *)
(* save() is one INSERT ... ON CONFLICT DO NOTHING or one UPDATE ... WHERE *)
(* version = ?, which the database executes atomically; when no row has    *)
(* changed, a second statement reads the version the error will report.    *)
(***************************************************************************)
EXTENDS Naturals

CONSTANTS
  Runs,         \* runs whose checkpoints share the table
  Callers,      \* processes
  MaxVersion    \* bound on versions

VARIABLES
  stored,   \* agent_checkpoints: per run the version, 0 if absent, and its author
  call,     \* per caller: where its call is
  loaded,   \* per caller: run and version of the checkpoint it works on
  actual    \* per caller: the version its CheckpointConflictError reports

vars == <<stored, call, loaded, actual>>

Empty == [r \in Runs |-> [version |-> 0, author |-> CHOOSE c \in Callers : TRUE]]

TypeOK ==
  /\ stored \in [Runs -> [version : 0..MaxVersion, author : Callers]]
  /\ call \in [Callers -> {"idle", "refused", "saved", "conflict"}]
  /\ loaded \in [Callers -> [run : Runs, version : 0..MaxVersion]]
  /\ actual \in [Callers -> 0..MaxVersion]

Init ==
  /\ stored = Empty
  /\ call = [c \in Callers |-> "idle"]
  /\ loaded = [c \in Callers |-> [run |-> CHOOSE r \in Runs : TRUE, version |-> 0]]
  /\ actual = [c \in Callers |-> 0]

\* load(runId).
Load(c) ==
  /\ call[c] = "idle"
  /\ \E r \in Runs : loaded' = [loaded EXCEPT ![c] = [run |-> r, version |-> stored[r].version]]
  /\ UNCHANGED <<stored, call, actual>>

\* insertIfAbsent for an expected version of 0, updateIfVersion for any other.
RowMatches(c) == stored[loaded[c].run].version = loaded[c].version

\* The statement of save(checkpoint, expectedVersion).
Save(c) ==
  /\ call[c] = "idle" /\ loaded[c].version < MaxVersion
  /\ \/ /\ RowMatches(c)
        /\ stored' = [stored EXCEPT ![loaded[c].run] =
                        [version |-> loaded[c].version + 1, author |-> c]]
        /\ call' = [call EXCEPT ![c] = "saved"]
     \/ /\ ~RowMatches(c)
        /\ call' = [call EXCEPT ![c] = "refused"]
        /\ UNCHANGED stored
  /\ UNCHANGED <<loaded, actual>>

\* Nothing was written: the latest version is read for the error.
LoadLatest(c) ==
  /\ call[c] = "refused"
  /\ actual' = [actual EXCEPT ![c] = stored[loaded[c].run].version]
  /\ call' = [call EXCEPT ![c] = "conflict"]
  /\ UNCHANGED <<stored, loaded>>

\* The caller goes on with the answer.
TakeAnswer(c) ==
  /\ call[c] \in {"saved", "conflict"}
  /\ call' = [call EXCEPT ![c] = "idle"]
  /\ actual' = [actual EXCEPT ![c] = 0]
  /\ UNCHANGED <<stored, loaded>>

\* The process dies, or the database is busy for longer than its timeout.
Die(c) ==
  /\ call' = [call EXCEPT ![c] = "idle"]
  /\ loaded' = [loaded EXCEPT ![c].version = 0]
  /\ actual' = [actual EXCEPT ![c] = 0]
  /\ UNCHANGED stored

Step(c) == Load(c) \/ Save(c) \/ LoadLatest(c) \/ TakeAnswer(c) \/ Die(c)

Next == \E c \in Callers : Step(c)

Spec == Init /\ [][Next]_vars

-----------------------------------------------------------------------------
(* Properties.                                                             *)

\* A conflict reports a version later than the one that was expected, although it is
\* read after the statement that failed: a caller is never told that the version it
\* expected is the one that is stored.
ConflictTellsWhy ==
  \A c \in Callers : call[c] = "conflict" => actual[c] > loaded[c].version

\* What the answers stand for in VersionedStore.
Answer == [c \in Callers |-> IF call[c] \in {"saved", "conflict"} THEN call[c] ELSE "none"]
=============================================================================
