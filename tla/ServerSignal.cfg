SPECIFICATION Spec
CHECK_DEADLOCK FALSE
CONSTANTS
  Contexts <- MCContexts
  Sinks <- MCSinks
  Level <- MCLevel
  Workers <- MCWorkers
  MaxRequests = 1
  MaxReaped = 0
  MaxSignals = 1
INVARIANTS
  UsesLiveObjects
