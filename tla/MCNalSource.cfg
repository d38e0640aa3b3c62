SPECIFICATION Spec
CONSTANTS
  MaxNals = 4
  MaxLate = 2
  MaxAhead = 2
INVARIANTS TypeOK LoopNeverEnds NeverFasterThanRealTime
PROPERTIES NalsInOrder
