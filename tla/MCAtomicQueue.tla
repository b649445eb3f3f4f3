---------------------------- MODULE MCAtomicQueue ----------------------------
(***************************************************************************)
(* AtomicQueue on small rings, and the mutants of its operations.          *)
(***************************************************************************)
EXTENDS AtomicQueue, TLC

ThreadSymmetry == Permutations(Producers) \cup Permutations(Consumers)
==============================================================================
