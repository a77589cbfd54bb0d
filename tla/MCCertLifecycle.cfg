\* A request thread and the renewal loop, everything going wrong that can.
\* The system stops when the certificate is deleted.
SPECIFICATION FairSpec
CHECK_DEADLOCK FALSE
CONSTANTS
  t1 = t1
  s1 = s1
  Threads <- OneThread
  Loop = Loop
  Trouble = {"settings", "lego", "database", "delivery"}
  Slots = {s1}
  MaxGen = 2
  MaxRestarts = 1
CONSTRAINT LateBesideOne
INVARIANTS
  TypeOK
  ActiveHasFiles
  IssuingMeansAtWork
  NodeHasPair
PROPERTIES
  PemStaysPair
  RenewalTakenUp
