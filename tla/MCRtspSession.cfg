SPECIFICATION FairSpec
CONSTANTS
  Clients = {c1}
  id1 = id1
  id2 = id2
  None = None
  Requests <- MCRequests
  SessionIds <- IssuedIds
  MaxRx = 3
  MaxChunk = 2
  HasHub = TRUE
INVARIANTS
  TypeOK
  OneAnswerPerRequest
  StreamerMatchesState
  SetUpBeforePlay
PROPERTIES
  ImplementsStateMachine
  NothingAfterTeardown
  LoopReturns
