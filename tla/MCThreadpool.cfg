CONSTANTS
  Workers = 3
  Futures = 2
  MaxTasks = 4
  MaxAsks = 3
SPECIFICATION FairSpec
INVARIANTS
  WorkConserving
  ShutdownDrains
PROPERTIES
  WaitReturns
  ShutdownReturns
CHECK_DEADLOCK FALSE
