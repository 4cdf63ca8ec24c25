\* The compiler library lacks a symbol.
CONSTANTS
  Thread = {t1, t2}
  Instance = {i1}
  Context = {c1, c2}
  None = None
  MaxCalls = 1
  MaxBuilds = 1
  PoolFails = TRUE
  TypesFail = TRUE
  SymbolsMissing = TRUE
SPECIFICATION Spec
INVARIANT ContextReady
CHECK_DEADLOCK FALSE
