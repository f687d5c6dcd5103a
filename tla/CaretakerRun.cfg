SPECIFICATION FairSpec
CONSTANTS
  MaxToolCalls = 4
  MaxPlanRevisions = 2
  MaxClarifications = 1
  MaxPolls = 1
  MaxRuntime = 2
  MaxFaults = 1
CHECK_DEADLOCK FALSE
INVARIANTS
  TypeOK
  AnswerIsHeard
PROPERTIES
  ImplementsRun
  CallIsRetained
  TerminalMissionIsFinalized
