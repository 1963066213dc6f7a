CONSTANTS
  r = r
  w = w
  t = t
  Event = {r, w, t}
  Kind <- MCKind
  Threshold = 0
  MaxCalls = 2
SPECIFICATION FairSpec
INVARIANTS
  PolledAlive
  OneCallback
  NeverForgotten
PROPERTIES
  TimeoutLeaves
CHECK_DEADLOCK FALSE
