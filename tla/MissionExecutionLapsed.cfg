SPECIFICATION FairSpec
CONSTANTS
  ResponseMayBeLost = FALSE
  Doubtful = {}
CHECK_DEADLOCK FALSE
PROPERTIES
  LapsedApprovalIsRevised
