\* Host keys against what the wiki says of a key that changes.
SPECIFICATION TransportSpec
CHECK_DEADLOCK FALSE
CONSTANTS
  u1 = u1
  c1 = c1
  h1 = h1
  h2 = h2
  t1 = t1
  t2 = t2
  k1 = k1
  k2 = k2
  Uploads <- OneUpload
  Commands <- OneCommand
  Visitors <- OneOfEach
  Hosts <- TwoHosts
  Types <- TwoTypes
  Entries <- ThreeEntries
  Keys <- TwoKeys
  NoKey = NoKey
  Before = Before
  Torn = Torn
  Size = 1
CONSTRAINT Apart
INVARIANT
  OneKeyPerHost
