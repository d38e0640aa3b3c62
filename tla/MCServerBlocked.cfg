SPECIFICATION AcceptSpec
CONSTANTS
  Conns = {c1, c2}
  Fds = {1, 2}
  Backlog = 2
  MaxRequests = 1
  SndBuf = 1
  AnswerLen = 2
  None = None
PROPERTY
  AcceptNeverStalls
