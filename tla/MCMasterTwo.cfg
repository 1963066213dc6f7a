CONSTANTS
  a1 = a1
  a2 = a2
  g1 = g1
  g2 = g2
  g3 = g3
  t1 = t1
  t2 = t2
  t3 = t3
  t4 = t4
  Agent = {a1, a2}
  Graph = {g1, g2}
  Task = {t1, t2, t3, t4}
  GraphOf <- TwoGraphOf
  Demand <- TwoDemand
  Capacity <- TwoCapacity
  Load <- MCLoad
  NoKey = NoKey
SPECIFICATION FairSpec
INVARIANT
  WaitsBehindWork
PROPERTY
  Answered
CHECK_DEADLOCK FALSE
