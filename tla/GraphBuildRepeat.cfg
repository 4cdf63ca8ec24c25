SPECIFICATION Spec
CONSTANTS
  Plans <- RepeatPlans
  Inputs <- RepeatInputs
  MaxNodes = 2
  Names <- MCNames
  Numeral <- MCNumeral
  Repeats = TRUE
INVARIANTS
  SingleAssignment
CHECK_DEADLOCK FALSE
