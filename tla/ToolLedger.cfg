SPECIFICATION FairSpec
CONSTANTS
  c1 = c1
  c2 = c2
  Caller <- MCCaller
  MaxDisturbances = 3
CHECK_DEADLOCK FALSE
INVARIANTS
  TypeOK
  AnswersAgree
  EvidenceIsTrue
  OwnerIsHeard
PROPERTIES
  ImplementsToolCall
  CallIsAnswered
