SPECIFICATION Spec
CONSTANTS
  ImageSizes <- UnlikeImages
  MaxPayload = 2
  HeaderPayload = 1
  IdModulus = 4
  InOrder = FALSE
  Duplicates = TRUE
INVARIANTS TypeOK DeliveredWhole ReceiveFits RemainingIsPositive
CHECK_DEADLOCK FALSE
