SPECIFICATION Spec
CONSTANTS
  MaxPosition = 1
  MaxLag = 1
  Careful = TRUE
CHECK_DEADLOCK FALSE
INVARIANT NeverAway
