-------------------------- MODULE MCProcessRuntime --------------------------
(* Model checking ProcessRuntime on two or three threads.                  *)
EXTENDS ProcessRuntime, TLC

Symmetry == Permutations(Instance) \cup Permutations(Context)
=============================================================================
