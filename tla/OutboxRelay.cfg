SPECIFICATION FairSpec
CONSTANTS
  m1 = m1
  m2 = m2
  s1 = s1
  s2 = s2
  s3 = s3
  w1 = w1
  w2 = w2
  NoMessage = NoMessage
  NoSweep = NoSweep
  Message <- MCMessage
  Withdrawable <- MCWithdrawable
  Sweep <- MCSweep
  OwnerOf <- MCOwnerOf
  BatchLimit = 2
  MaxFaults = 2
CHECK_DEADLOCK FALSE
INVARIANTS
  TypeOK
  OneJobUnlessFault
PROPERTIES
  ClaimStaysWithWorker
  ImplementsRelay
  MessageIsRelayed
