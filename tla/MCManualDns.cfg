SPECIFICATION FairSpec
CHECK_DEADLOCK FALSE
CONSTANTS
  t1 = t1
  t2 = t2
  d1 = d1
  d2 = d2
  Threads <- TwoThreads
  Domains <- TwoDomains
  MaxAttempts = 3
CONSTRAINT Bounded
INVARIANTS
  TypeOK
  WaitingMeansAtWork
  ShownIsAskedFor
  ReleasedWhenPublished
PROPERTY
  AttemptsEnd
