SPECIFICATION MCSpec
CONSTANTS
  Words <- MCWords
INVARIANTS
  TypeOK
  ArgumentsInStep
PROPERTIES
  NumbersReadBack
  FieldsFilled
CHECK_DEADLOCK FALSE
