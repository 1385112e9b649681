SPECIFICATION FairSpec
CONSTANT MaxAttempts = 2
INVARIANTS
  CheckFollowsReview
  CancelledStaysOut
  ErrorMeansNoDocument
PROPERTIES
  ChangesLetGo
CHECK_DEADLOCK FALSE
