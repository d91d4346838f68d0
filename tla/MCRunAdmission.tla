--------------------------- MODULE MCRunAdmission ---------------------------
(***************************************************************************)
(* Small instances of RunAdmission: two patient runs and two that may be   *)
(* aborted or time out in the queue, over one slot and a queue of two: one *)
(* runs, two wait and the last is turned away.                             *)
(***************************************************************************)
EXTENDS RunAdmission

CONSTANTS a1, a2, b1, b2
=============================================================================
