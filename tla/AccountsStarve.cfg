SPECIFICATION FairSpec
CONSTANTS
  c1 = c1
  c2 = c2
  c3 = c3
  Clients = {c1, c2, c3}
  Callback <- AllInvalid
  Credentials <- FullCredential
  Presents <- Any
  Threads = 3
  PoolSize = 10
  MaxRegistrations = 1
  MaxSessions = 3
  MaxRestarts = 0
PROPERTY
  InvalidCallbackRejected
CHECK_DEADLOCK FALSE
