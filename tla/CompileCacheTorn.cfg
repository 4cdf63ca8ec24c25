\* One graph: a call after a failed one.
CONSTANTS
  Graph = {g1}
  Dir = {d1, d2}
  Asm = {a1, a2}
  Backend = {b1}
  Removes = {FALSE}
  Serialised = TRUE
  Absent = Absent
  Empty = Empty
  Partial = Partial
  NoCache = NoCache
  NoDir = NoDir
  NoRequest = NoRequest
SPECIFICATION Spec
SYMMETRY Symmetry
INVARIANT ResultExact
