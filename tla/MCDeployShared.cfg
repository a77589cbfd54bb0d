\* Two worker threads that may work on the same node at the same time,
\* or one that goes on while a process of an earlier request is still at work there.
SPECIFICATION Spec
CONSTANTS
  j1 = j1
  j2 = j2
  good = good
  bad = bad
  d1 = d1
  Jobs <- TwoThreads
  Configs = {good, bad}
  Valid = {good}
  Bundles = {d1}
  NoFile = NoFile
  Partial = Partial
  s1 = s1
  Slots = {s1}
  Keep = 1
  MaxRows = 2
CONSTRAINT AtMostTwo
VIEW ReadLater
SYMMETRY ThreadSymmetry
INVARIANTS
  TypeOK
  OnlyValidatedIsLive
  UntouchedBeforeActivation
  FailureLeavesOldOrNew
  SuccessIsLive
  HistoryTracksLive
PROPERTIES
  ConfigNeverLost
  ValidationIsReadOnly
