\* Two threads that make handles, let go of them and compile, again and again.
CONSTANTS
  Thread = {t1, t2}
  Instance = {i1, i2}
  Context = {c1, c2}
  None = None
  MaxCalls = 2
  MaxBuilds = 1
  PoolFails = TRUE
  TypesFail = TRUE
  SymbolsMissing = TRUE
SPECIFICATION FairSpec
INVARIANTS
  Inv
  OneInstance
  HeldIsLive
  ReleasedWithLastHandle
  NothingStranded
  OneContext
  NothingLeaks
PROPERTY EveryCallReturns
CHECK_DEADLOCK FALSE
