SPECIFICATION Spec
CONSTANTS
  c1 = c1
  c2 = c2
  c3 = c3
  Clients = {c1}
  Callback <- AllValid
  Credentials <- BareCredential
  Presents <- Any
  Threads = 3
  PoolSize = 10
  MaxRegistrations = 1
  MaxSessions = 1
  MaxRestarts = 0
PROPERTY
  ThrowsAfterLogout
