----------------------------- MODULE MCEventBus -----------------------------
(* EventBus on small instances.                                            *)
EXTENDS EventBus, TLC

CONSTANTS p1, p2

SymmetricProcesses == Permutations({p1, p2})
=============================================================================
