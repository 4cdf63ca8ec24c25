SPECIFICATION Spec
CONSTANTS
  Plans <- MCPlans
  Inputs <- MCInputs
  MaxNodes = 2
  Names <- MCNames
  Numeral <- MCNumeral
  Repeats = FALSE
INVARIANTS
  TypeOK
  SingleAssignment
  DefinedBeforeUse
  ResultsWritten
  DefaultNamesUnique
CHECK_DEADLOCK FALSE
