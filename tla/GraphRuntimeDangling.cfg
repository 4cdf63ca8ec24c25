\* A loaded graph is moved onto another loaded graph.
CONSTANTS
  Graph = {g1, g2}
  Backend = {b1}
  Tensor = {t1}
  MaxSize = 1
  MaxKept = 2
  Edits = FALSE
  Moves = TRUE
  Dynamic = Dynamic
  None = None
  Bare = Bare
SPECIFICATION Spec
SYMMETRY Symmetry
INVARIANT BytesOutliveContext
