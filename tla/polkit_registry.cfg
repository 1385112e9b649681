SPECIFICATION FairSpec
CONSTANTS
  i1 = i1
  i2 = i2
  i3 = i3
  Ids <- ThreeIds
  MaxCancelledIds = 2
INVARIANTS
  OnlyOldestForgotten
PROPERTIES
  CancelEndsCheck
CHECK_DEADLOCK FALSE
