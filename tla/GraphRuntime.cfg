\* Two graphs that are loaded for two backends, and moved from and to; the
\* inductive invariant and the abstract specification.
CONSTANTS
  Graph = {g1, g2}
  Backend = {b1, b2}
  Tensor = {t1}
  MaxSize = 1
  MaxKept = 2
  Edits = FALSE
  Moves = TRUE
  Dynamic = Dynamic
  None = None
  Bare = Bare
SPECIFICATION Spec
SYMMETRY Symmetry
INVARIANTS
  Inv
  ExecuteSound
  RemainsExecutable
PROPERTY ImplementsService
