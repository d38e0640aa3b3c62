SPECIFICATION Spec
CONSTANTS
  Clients = {c1}
  id1 = id1
  id2 = id2
  None = None
  Requests <- MCRequests
  SessionIds <- IssuedIds
  MaxRx = 2
  MaxChunk = 1
  HasHub = TRUE
INVARIANT
  ReadyPortIsNegotiated
