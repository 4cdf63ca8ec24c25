--------------------------- MODULE MCCompileCache ---------------------------
(* Model checking CompileCache on two graphs and two directories.          *)
EXTENDS CompileCache, TLC

Symmetry == Permutations(Graph) \cup Permutations(Dir)
              \cup Permutations(Asm) \cup Permutations(Backend)
=============================================================================
