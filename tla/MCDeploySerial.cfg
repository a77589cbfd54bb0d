\* One request after the other (which thread takes it makes no difference then),
\* each one when nothing is left of the one before; a sound text may be refused.
SPECIFICATION SerialSpec
CONSTANTS
  j1 = j1
  c1 = c1
  c2 = c2
  d1 = d1
  Jobs <- OneThread
  Configs = {c1, c2}
  Valid = {c1, c2}
  Bundles = {d1}
  NoFile = NoFile
  Partial = Partial
  s1 = s1
  Slots = {s1}
  Keep = 2
  MaxRows = 3
PROPERTIES
  ImplementsAtomicDeploy
  Answered
