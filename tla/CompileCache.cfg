\* Two graphs that share a directory, and two backends; any mix of failures, moves,
\* removals and destructions, one call at a time.
CONSTANTS
  Graph = {g1, g2}
  Dir = {d1}
  Asm = {a1, a2}
  Backend = {b1, b2}
  Removes = {TRUE, FALSE}
  Serialised = TRUE
  Absent = Absent
  Empty = Empty
  Partial = Partial
  NoCache = NoCache
  NoDir = NoDir
  NoRequest = NoRequest
SPECIFICATION Spec
SYMMETRY Symmetry
INVARIANTS
  Inv
  DiskConsistent
  NeverAnotherArtifact
  FreshExact
PROPERTY ImplementsService
