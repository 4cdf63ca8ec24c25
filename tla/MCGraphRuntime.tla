--------------------------- MODULE MCGraphRuntime ---------------------------
(* Model checking GraphRuntime on one or two graphs.                       *)
EXTENDS GraphRuntime, TLC

Symmetry == Permutations(Graph) \cup Permutations(Backend) \cup Permutations(Tensor)
=============================================================================
