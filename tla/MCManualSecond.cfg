\* Two domains against what README.md says of their records.
SPECIFICATION Spec
CHECK_DEADLOCK FALSE
CONSTANTS
  t1 = t1
  t2 = t2
  d1 = d1
  d2 = d2
  Threads <- TwoThreads
  Domains <- TwoDomains
  MaxAttempts = 1
INVARIANT
  EachRecordConfirmed
