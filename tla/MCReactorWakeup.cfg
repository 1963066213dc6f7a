CONSTANTS
  p1 = p1
  p2 = p2
  p3 = p3
  Worker = {w1, w2, w3}
  Promise = {p1, p2, p3}
  Breaking = {p2}
  Awaited = {p1, p3}
  NoPromise = NoPromise
SPECIFICATION FairSpec
INVARIANTS
  NoLostWakeup
PROPERTIES
  PromiseKept
CHECK_DEADLOCK FALSE
