\* Every kind of node on small shapes, with any edits between calls of validate, and the
\* programs of samples/.
CONSTANT
  Cases <- MCCases
SPECIFICATION Spec
INVARIANTS
  TypeOK
  LayoutFaithful
  RuntimeSizesFaithful
  ShapesFollow
  MixedProductsBatched
  SampleBuffersFit
PROPERTIES
  Revalidates
  SamplesAccepted
