------------------------- MODULE FileCheckpointStore -------------------------
(***************************************************************************)
(* file-checkpoint-store.ts: the checkpoints of all runs in one JSON file, *)
(* used by any number of callers of one Node.js process, the scope its     *)
(* comment claims.  Calls for one path form a chain of promises; the call  *)
(* at its head reads the file, compares the version of its run, writes the *)
(* whole state to a temporary file and renames that over the file.         *)
(*                                                                         *)
(* Each await is a step.  writeFile truncates the temporary file and then  *)
(* fills it, so that a crash or a full disk leaves a torn one; rename is   *)
(* atomic.  The file and the temporary file survive a crash, the chain and *)
(* the callers do not.  A missing file reads as one without checkpoints.   *)
(***************************************************************************)
EXTENDS Naturals, Sequences, SequencesExt

CONSTANTS
  Runs,         \* runs whose checkpoints share the file
  Callers,      \* concurrent users of the store, through any of its instances
  MaxVersion    \* bound on versions

VARIABLES
  file,     \* the published state: whether it parses, and per run an entry
  tmp,      \* the temporary file, likewise
  chain,    \* calls in the order of withFileLock; the head holds the lock
  call,     \* per caller: where its call is
  snapshot, \* per caller: the state readState() gave it
  loaded    \* per caller: run and version of the checkpoint it works on

vars == <<file, tmp, chain, call, snapshot, loaded>>

Entries == [version : 0..MaxVersion, author : Callers]
Files == [whole : BOOLEAN, checkpoints : [Runs -> Entries]]
Phases == {"idle", "load", "save", "write", "truncated", "written", "saved", "conflict"}

Empty == [r \in Runs |-> [version |-> 0, author |-> CHOOSE c \in Callers : TRUE]]

TypeOK ==
  /\ file \in Files /\ tmp \in Files
  /\ chain \in Seq(Callers)
  /\ call \in [Callers -> Phases]
  /\ snapshot \in [Callers -> [Runs -> Entries]]
  /\ loaded \in [Callers -> [run : Runs, version : 0..MaxVersion]]

Init ==
  /\ file = [whole |-> TRUE, checkpoints |-> Empty]
  /\ tmp = [whole |-> FALSE, checkpoints |-> Empty]
  /\ chain = << >>
  /\ call = [c \in Callers |-> "idle"]
  /\ snapshot = [c \in Callers |-> Empty]
  /\ loaded = [c \in Callers |-> [run |-> CHOOSE r \in Runs : TRUE, version |-> 0]]

-----------------------------------------------------------------------------
(* withFileLock.                                                           *)

\* Mutant: a call for another run does not wait for the ones before it.
HoldsRunLock(c) ==
  \A i \in 1..Len(chain) :
    (\A j \in 1..i : chain[j] # c) => loaded[chain[i]].run # loaded[c].run

\* The promise chain has come to this call.
HoldsLock(c) == chain # << >> /\ Head(chain) = c

\* The call takes its place at the end of the chain.
Enter(c, phase) ==
  /\ call' = [call EXCEPT ![c] = phase]
  /\ chain' = Append(chain, c)

\* Mutant: the lock is released by a call that succeeds only.
LeaveSaved(c, phase) ==
  /\ call' = [call EXCEPT ![c] = phase]
  /\ chain' = IF phase = "conflict" THEN chain ELSE RemoveFirst(chain, c)

\* The finally block: whatever the task's outcome, the next call gets its turn.
Leave(c, phase) ==
  /\ call' = [call EXCEPT ![c] = phase]
  /\ chain' = RemoveFirst(chain, c)

-----------------------------------------------------------------------------
(* load() and save().                                                      *)

\* load() is called.
BeginLoad(c) ==
  /\ call[c] = "idle"
  /\ Enter(c, "load")
  /\ UNCHANGED <<file, tmp, snapshot, loaded>>

\* load(runId) has its turn: readState() and the entry of the run.
Load(c) ==
  /\ call[c] = "load" /\ HoldsLock(c) /\ file.whole
  /\ \E r \in Runs :
       loaded' = [loaded EXCEPT ![c] = [run |-> r, version |-> file.checkpoints[r].version]]
  /\ Leave(c, "idle")
  /\ UNCHANGED <<file, tmp, snapshot>>

\* save(checkpoint, expectedVersion) of what the caller has loaded.
BeginSave(c) ==
  /\ call[c] = "idle" /\ loaded[c].version < MaxVersion
  /\ Enter(c, "save")
  /\ UNCHANGED <<file, tmp, snapshot, loaded>>

\* The stored version is the expected one.
Matches(c) == file.checkpoints[loaded[c].run].version = loaded[c].version

\* save() has its turn: readState(), and a conflict unless the versions agree.
Compare(c) ==
  /\ call[c] = "save" /\ HoldsLock(c) /\ file.whole
  /\ \/ /\ ~Matches(c)
        /\ Leave(c, "conflict")
        /\ UNCHANGED snapshot
     \/ /\ Matches(c)
        /\ call' = [call EXCEPT ![c] = "write"]
        /\ snapshot' = [snapshot EXCEPT ![c] =
             [file.checkpoints EXCEPT ![loaded[c].run] =
                [version |-> loaded[c].version + 1, author |-> c]]]
        /\ UNCHANGED chain
  /\ UNCHANGED <<file, tmp, loaded>>

\* writeFile opens the temporary file and truncates it.
Truncate(c) ==
  /\ call[c] = "write"
  /\ tmp' = [whole |-> FALSE, checkpoints |-> Empty]
  /\ call' = [call EXCEPT ![c] = "truncated"]
  /\ UNCHANGED <<file, chain, snapshot, loaded>>

\* writeFile has written the state.
Fill(c) ==
  /\ call[c] = "truncated"
  /\ tmp' = [whole |-> TRUE, checkpoints |-> snapshot[c]]
  /\ call' = [call EXCEPT ![c] = "written"]
  /\ UNCHANGED <<file, chain, snapshot, loaded>>

\* The disk refuses: mkdir, writeFile or rename throws, and so does save().
DiskFails(c) ==
  /\ call[c] \in {"write", "truncated", "written"}
  /\ Leave(c, "idle")
  /\ snapshot' = [snapshot EXCEPT ![c] = Empty]
  /\ UNCHANGED <<file, tmp, loaded>>

\* rename; save() resolves, and the finally block runs.
Rename(c) ==
  /\ call[c] = "written"
  /\ file' = tmp
  /\ tmp' = [whole |-> FALSE, checkpoints |-> Empty]
  /\ Leave(c, "saved")
  /\ snapshot' = [snapshot EXCEPT ![c] = Empty]
  /\ UNCHANGED loaded

\* The caller goes on with the answer: the saved checkpoint, or the conflict.
TakeAnswer(c) ==
  /\ call[c] \in {"saved", "conflict"}
  /\ call' = [call EXCEPT ![c] = "idle"]
  /\ UNCHANGED <<file, tmp, chain, snapshot, loaded>>

\* The process dies and starts again: the disk survives.
Restart ==
  /\ chain' = << >>
  /\ call' = [c \in Callers |-> "idle"]
  /\ snapshot' = [c \in Callers |-> Empty]
  /\ loaded' = [c \in Callers |-> [loaded[c] EXCEPT !.version = 0]]
  /\ UNCHANGED <<file, tmp>>

Step(c) ==
  \/ Load(c) \/ Compare(c) \/ Truncate(c) \/ Fill(c) \/ Rename(c) \/ DiskFails(c)
  \/ TakeAnswer(c)

Next ==
  \/ \E c \in Callers : Step(c) \/ BeginLoad(c) \/ BeginSave(c)
  \/ Restart

Spec == Init /\ [][Next]_vars

-----------------------------------------------------------------------------
(* What the file and the answers stand for in VersionedStore.              *)

\* A torn file would be one without checkpoints.
Stored == IF file.whole THEN file.checkpoints ELSE Empty

Answer == [c \in Callers |-> IF call[c] \in {"saved", "conflict"} THEN call[c] ELSE "none"]
=============================================================================
