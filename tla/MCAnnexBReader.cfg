SPECIFICATION Spec
CONSTANTS
  MaxLen = 9
  ChunkSize = 4
INVARIANTS
  TypeOK
  EveryNalUnit
