SPECIFICATION FairSpec
CONSTANTS
  Devices <- MCDevices
  Readings <- MCReadings
  Sizes <- MCSizes
  CommandLines <- MCCommandLines
  ResponseFiles <- MCResponseFiles
CHECK_DEADLOCK FALSE
INVARIANTS TypeOK ExplicitWins CardsAreGroups LeavesNothingRunning MovesAsTold
  SavedAsSent PreviewOutlivesReader
PROPERTY QuitEnds
