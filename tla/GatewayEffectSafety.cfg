SPECIFICATION FairSpec
CONSTANTS
  MaximumAttempts = 2
  ProgressStatuses <- MCProgress
  MaxRedeliveries = 1
  MaxRestarts = 1
CHECK_DEADLOCK FALSE
INVARIANTS
  TypeOK
  OneCallPerGeneration
  BudgetHolds
  DoubtIsFollowedUp
  EffectFollowsCallbacks
PROPERTIES
  OutcomeIsFinal
  ImplementsCommand
  ImplementsDevice
  DoubtIsSettled
