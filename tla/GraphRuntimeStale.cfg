\* A graph is edited and validated after it was loaded.
CONSTANTS
  Graph = {g1}
  Backend = {b1}
  Tensor = {t1, t2}
  MaxSize = 1
  MaxKept = 2
  Edits = TRUE
  Moves = FALSE
  Dynamic = Dynamic
  None = None
  Bare = Bare
SPECIFICATION Spec
SYMMETRY Symmetry
INVARIANT RemainsExecutable
