\* Two overlapping requests against the order of steps that README.md promises.
SPECIFICATION Spec
CONSTANTS
  j1 = j1
  j2 = j2
  good = good
  bad = bad
  d1 = d1
  Jobs <- TwoThreads
  Configs = {good, bad}
  Valid = {good}
  Bundles = {d1}
  NoFile = NoFile
  Partial = Partial
  Slots = {}
  Keep = 1
  MaxRows = 2
INVARIANT
  ActivatedWasValidated
