\* Every caller passes remove = true; calls overlap in any way, in two directories.
CONSTANTS
  Graph = {g1, g2}
  Dir = {d1, d2}
  Asm = {a1, a2}
  Backend = {b1}
  Removes = {TRUE}
  Serialised = FALSE
  Absent = Absent
  Empty = Empty
  Partial = Partial
  NoCache = NoCache
  NoDir = NoDir
  NoRequest = NoRequest
SPECIFICATION Spec
SYMMETRY Symmetry
INVARIANTS
  TypeOK
  NoOrphanFiles
