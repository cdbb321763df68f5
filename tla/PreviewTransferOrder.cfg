SPECIFICATION FairSpec
CONSTANTS
  ImageSizes <- SpoiltImages
  MaxPayload = 2
  HeaderPayload = 1
  IdModulus = 4
  InOrder = TRUE
  Duplicates = FALSE
PROPERTY ImplementsChannel SentArrives
CHECK_DEADLOCK FALSE
