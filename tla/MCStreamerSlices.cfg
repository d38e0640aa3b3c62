SPECIFICATION Spec
CONSTANTS
  Mtu = 4
  MaxNal = 8
  MaxSlices = 2
  SeqMod = 4
  TsMod = 5
  TsIncrement = 3
  MaxBurst = 3
  None = None
PROPERTY
  SameFrameSameTimestamp
