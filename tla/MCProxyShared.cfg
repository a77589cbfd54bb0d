\* Two requests at a time on a smaller instance.
SPECIFICATION Spec
CONSTANTS
  f1 = f1
  b1 = b1
  c1 = c1
  c2 = c2
  n1 = n1
  n2 = n2
  j1 = j1
  j2 = j2
  Frontends = {f1}
  Backends = {b1}
  Certs = {c1, c2}
  Names = {n1, n2}
  RuleNames = {n1}
  Jobs = {j1, j2}
  None = None
  Unused = Unused
  Gone = Gone
  Limit = 1
SYMMETRY SharedSymmetry
INVARIANTS
  TypeOK
  NoDanglingReference
  OwnListsWithinLimit
CHECK_DEADLOCK FALSE
