SPECIFICATION Spec
CONSTANTS
  ImageSizes <- CollidingImages
  MaxPayload = 2
  HeaderPayload = 1
  IdModulus = 3
  InOrder = TRUE
  Duplicates = FALSE
INVARIANT LostIsDiscarded
CHECK_DEADLOCK FALSE
