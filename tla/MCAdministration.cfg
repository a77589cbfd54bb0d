SPECIFICATION FairSpec
CHECK_DEADLOCK FALSE
CONSTANTS
  w1 = w1
  w2 = w2
  p1 = p1
  p2 = p2
  a = a
  b = b
  n1 = n1
  n2 = n2
  x = x
  y = y
  Workers <- TwoWorkers
  Pool <- TwoThreads
  NoOne = NoOne
  Accounts <- TwoAccounts
  First = a
  Names <- TwoNames
  FirstName = n1
  Nodes <- TwoNodes
  MaxRestarts = 1
CONSTRAINT Bounded
INVARIANTS
  AdministrationTypeOK
  EnabledFactorIsProved
  ToldIsStored
PROPERTIES
  OneAdminRemains
  DownIsTold
