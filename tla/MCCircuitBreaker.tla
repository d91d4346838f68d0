-------------------------- MODULE MCCircuitBreaker --------------------------
(***************************************************************************)
(* Small instances of CircuitBreaker: three runs that share one provider.  *)
(***************************************************************************)
EXTENDS CircuitBreaker, TLC

CONSTANTS a, b, c
=============================================================================
