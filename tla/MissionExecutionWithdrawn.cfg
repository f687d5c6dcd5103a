SPECIFICATION FairSpec
CONSTANTS
  ResponseMayBeLost = TRUE
  Doubtful = {"unlock"}
CHECK_DEADLOCK FALSE
INVARIANTS
  DispatchedIsReconciled
