SPECIFICATION FairSpec
CONSTANTS
  ResponseMayBeLost = TRUE
  Doubtful = {}
CHECK_DEADLOCK FALSE
INVARIANTS
  CancelledNeverSucceeds
