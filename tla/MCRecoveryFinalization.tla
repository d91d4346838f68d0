----------------------- MODULE MCRecoveryFinalization ------------------------
(***************************************************************************)
(* A small instance of RecoveryFinalization: two commands, and an effect   *)
(* of the first one.                                                       *)
(***************************************************************************)
EXTENDS RecoveryFinalization

CONSTANTS c1, c2, e1

\* Each operation once: two that compete for the first control version, one of
\* them for a later checkpoint, and one that expects what another leaves behind.
OneOfEach == {[op |-> "quarantine", cp |-> 1, ctl |-> 0],
              [op |-> "dead_letter", cp |-> 2, ctl |-> 0],
              [op |-> "release_quarantine", cp |-> 1, ctl |-> 1]}

EffectsOfOne == [e \in Effects |-> c1]
=============================================================================
