SPECIFICATION Spec
CHECK_DEADLOCK FALSE
CONSTANTS
  Watchers <- MCWatchers
  Unwatchable <- MCUnwatchable
  QueueLimit = 2
  Names <- MCNames
  Cores <- MCCores
  MaxVersion = 3
  MaxSignals = 1
INVARIANTS
  TypeOK
  UnloadsAlone
  NoLibraryLost
  UpToDate
PROPERTIES
  ClientEnds
  CrashNeedsReload
