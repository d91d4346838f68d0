---------------------------- MODULE MCRecoveryParts ----------------------------
(***************************************************************************)
(* A small instance of RecoveryParts: two of everything that competes.     *)
(***************************************************************************)
EXTENDS RecoveryParts

Ask(command, actor, operation, authenticated, wellFormed) ==
  [command |-> command, actor |-> actor, operation |-> operation,
   authenticated |-> authenticated, wellFormed |-> wellFormed]

\* Two actors under one command id, an operation the atomic route refuses, and two calls
\* that get no further than the gate.
MCRequests ==
  {Ask("k1", "ann", "quarantine", TRUE, TRUE), Ask("k1", "bob", "quarantine", TRUE, TRUE),
   Ask("k2", "ann", "resume", TRUE, TRUE),
   Ask("k2", "ann", "resume", FALSE, TRUE), Ask("k2", "ann", "resume", TRUE, FALSE)}

\* Everything, or everything but what the other guarantees rest on.
MCGuarantees ==
  LET all == {"atomic", "effectKey", "retention", "fencing", "final", "receipt", "noLate"}
  IN {all, all \ {"atomic", "receipt"}}

MCFacts == {"legacyDispatcherDisabled", "noMixedVersionWorkers"}
=============================================================================
