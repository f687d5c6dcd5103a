SPECIFICATION FairSpec
CONSTANTS
  ResponseMayBeLost = TRUE
  Doubtful = {"unlock", "relock"}
CHECK_DEADLOCK FALSE
INVARIANTS
  TypeOK
  VerifiedWhenOver
  CancelledIsSettled
  MissionIsDriven
  CancelledIsNotResumed
PROPERTIES
  ImplementsDevices
  ImplementsPromise
  ObservationIsVerified
