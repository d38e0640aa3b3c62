SPECIFICATION Spec
CONSTANTS
  NalUnits <- MCNalUnits
  MaxNals = 3
  kMaxNals = 2
  Mtu = 4
  Fps = 30
  FirstSequences = {0, 65534}
  Timestamps = {0, 2145000000}
  Ssrcs = {305419896}
  None = None
INVARIANTS TypeOK ReceiverRebuildsNal SpropIsFirstSets SpropFromFirstDescribe
