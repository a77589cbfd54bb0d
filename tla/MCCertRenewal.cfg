\* The promise of automatic renewal, when lego may fail now and then.
\* The system stops when the certificate is deleted.
SPECIFICATION FairSpec
CHECK_DEADLOCK FALSE
CONSTANTS
  t1 = t1
  s1 = s1
  Threads <- OneThread
  Loop = Loop
  Trouble = {"lego"}
  Slots = {}
  MaxGen = 2
  MaxRestarts = 0
PROPERTIES
  AutoRenewRenews
