SPECIFICATION DevicesSpec
CONSTANTS
  MaxPosition = 1
  MaxLag = 1
  Careful = TRUE
  MaxTurns = 3
  FreeShaft = FALSE
  MaxCalls = 3
CHECK_DEADLOCK FALSE
INVARIANTS TypeOK GotoIsObeyed TurnIsObeyed NeverAstray EncoderTypeOK
  CounterIsPosition BufferAlternates
PROPERTIES GotoEnds StopEnds
