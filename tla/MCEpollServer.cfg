SPECIFICATION FairSpec
CONSTANTS
  Conns = {c1, c2}
  Fds = {1, 2}
  Backlog = 2
  MaxRequests = 2
  SndBuf = 1
  AnswerLen = 2
  None = None
INVARIANTS
  TypeOK
  EventsReachTheirClient
  NoDescriptorLeak
  SubscribersAreClients
  AnswersWhole
  KilledOnlyByRace
PROPERTIES
  PlayAnsweredFirst
  ClientsAreAttended
  SigintEndsServer
