SPECIFICATION Spec
CONSTANTS
  MaxTurns = 3
  FreeShaft = TRUE
INVARIANTS CounterIsPosition
