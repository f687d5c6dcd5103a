SPECIFICATION FairSpec
CONSTANTS
  MaximumAttempts = 2
  ProgressStatuses <- MCNoProgress
  MaxRedeliveries = 1
  MaxRestarts = 0
CHECK_DEADLOCK FALSE
PROPERTIES
  LostResponseIsResolved
