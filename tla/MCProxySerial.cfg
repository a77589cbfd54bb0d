\* One request after the other; three certificates against a limit of two.
SPECIFICATION Spec
CONSTANTS
  f1 = f1
  b1 = b1
  b2 = b2
  c1 = c1
  c2 = c2
  c3 = c3
  n1 = n1
  n2 = n2
  j1 = j1
  Frontends = {f1}
  Backends = {b1, b2}
  Certs = {c1, c2, c3}
  Names = {n1, n2}
  RuleNames = {n1}
  Jobs = {j1}
  None = None
  Unused = Unused
  Gone = Gone
  Limit = 2
SYMMETRY SerialSymmetry
INVARIANTS
  LimitKept
  LastCertOnlyLostByDeletion
  MirrorAgrees
CHECK_DEADLOCK FALSE
