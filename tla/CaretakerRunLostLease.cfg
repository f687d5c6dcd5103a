SPECIFICATION FairSpec
CONSTANTS
  MaxToolCalls = 1
  MaxPlanRevisions = 1
  MaxClarifications = 1
  MaxPolls = 1
  MaxRuntime = 1
  MaxFaults = 1
CHECK_DEADLOCK FALSE
PROPERTIES
  LostLeaseIsResumed
