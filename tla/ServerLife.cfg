SPECIFICATION Spec
CHECK_DEADLOCK FALSE
CONSTANTS
  Contexts <- MCContexts
  Sinks <- MCSinks
  Level <- MCLevel
  Workers <- MCWorkers
  MaxRequests = 1
  MaxReaped = 1
  MaxSignals = 1
INVARIANTS
  TypeOK
  PoolOutlivesRequests
  LinesNamed
  StuckInside
  CrashNeedsSignal
PROPERTIES
  SinksStable
  ImplementsLogService
  
