------------------------- MODULE MCRecoveryCommands -------------------------
(***************************************************************************)
(* Small instances of RecoveryCommands: two commands and two deliveries.   *)
(***************************************************************************)
EXTENDS RecoveryCommands

CONSTANTS c1, c2, d1, d2
=============================================================================
