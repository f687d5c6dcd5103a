SPECIFICATION FairSpec
CONSTANTS
  r1 = r1
  r2 = r2
  w1 = w1
  w2 = w2
  NoRun = NoRun
  NoWorker = NoWorker
  Run <- MCRun
  Worker <- MCWorker
  OwnerOf <- MCSameWorker
  Ttl = 2
  MaxTx = 2
CHECK_DEADLOCK FALSE
INVARIANTS
  TypeOK
  WritesFollowLeases
  OneWriterPerLease
PROPERTIES
  LeaseNeverRevives
  ReleaseByHolder
  WritesByNewestLease
  LeaseEventuallyFree
