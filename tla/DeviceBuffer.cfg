\* Three Buffers of two views, one call at a time, and one lost reference.
CONSTANTS
  Slot = {s1, s2, s3}
  View = {v1, v2}
  Storage = {b1, b2}
  Requests <- MCRequests
  Sizes = {0, 3}
  Graphs <- MCGraphs
  Width = 5
  Capacity = 8
  MaxLost = 1
  None = None
SPECIFICATION Spec
SYMMETRY Symmetry
INVARIANTS
  TypeOK
  HeldIsAlive
  NothingElseLost
  CapacityExact
  ReadExact
