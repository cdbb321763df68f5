CONSTANT MaxImages = 5
SPECIFICATION FairSpec
PROPERTY StopWakesSleepers
CHECK_DEADLOCK FALSE
