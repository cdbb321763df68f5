SPECIFICATION Spec
CONSTANTS
  Devices <- MCDevices
  Readings <- MCReadings
  Sizes <- MCSizes
  CommandLines <- MCCommandLines
  ResponseFiles <- MCResponseFiles
CHECK_DEADLOCK FALSE
INVARIANT DutyIsPercentage
