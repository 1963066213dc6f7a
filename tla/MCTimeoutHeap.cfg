CONSTANTS
  Event = {t1, t2, t3, t4, t5, t6}
  Duration = 1
  MaxTime = 1
  MaxThaws = 1
  ThawInCallback = FALSE
SPECIFICATION TimerSpec
INVARIANTS
  SatellitesInvert
  HeapOrdered
PROPERTY
  QueueSpec
SYMMETRY Timers
CHECK_DEADLOCK FALSE
