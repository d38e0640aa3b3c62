SPECIFICATION FairSpec
CONSTANTS
  Streamers = {s1, s2, s3}
  None = None
  MaxCallbacks = 2
INVARIANTS
  TypeOK
  NoDataRace
  SourceOwnedByPump
  NoStdTerminate
  JoinNeverBlocksPump
  ReleasedStreamerUntouched
  IdleHubIsOff
PROPERTIES
  ImplementsBroadcast
  EveryCallReturns
