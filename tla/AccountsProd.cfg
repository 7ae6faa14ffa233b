SPECIFICATION FairSpec
CONSTANTS
  c1 = c1
  c2 = c2
  c3 = c3
  Clients = {c1, c2, c3}
  Callback <- OneSilent
  Credentials <- OwnCredentials
  Presents <- OwnOne
  Threads = 2
  PoolSize = 2
  MaxRegistrations = 2
  MaxSessions = 2
  MaxRestarts = 0
INVARIANTS
  TypeOK
  LeaseNeverBlocks
  SessionsAuthenticated
  NoLoginAfterDelete
PROPERTIES
  DeletesOwnName
  DeletesOwnToo
  DuplicatesNeedRace
  CallsReturn
CHECK_DEADLOCK FALSE
