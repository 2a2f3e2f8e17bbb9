SPECIFICATION Spec
CONSTANTS
  MaxArgs = 3
INVARIANTS
  StopbitsSet
CHECK_DEADLOCK FALSE
