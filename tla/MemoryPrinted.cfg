SPECIFICATION Spec
CONSTANTS
  Words <- MCWords
INVARIANT MapInStep
CHECK_DEADLOCK FALSE
