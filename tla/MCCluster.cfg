CONSTANTS
  a1 = a1
  a2 = a2
  g1 = g1
  t1 = t1
  t2 = t2
  v1 = v1
  v2 = v2
  v3 = v3
  s1 = s1
  s2 = s2
  s3 = s3
  Agent = {a1, a2}
  Graph = {g1}
  Task = {t1, t2}
  Vertex = {v1, v2, v3}
  Stream = {s1, s2, s3}
  NoKey = NoKey
  GraphOf <- MCGraphOf
  Demand <- MCDemand
  Capacity <- MCCapacity
  Load <- MCLoad
  ContainerOf <- MCContainerOf
  TailOf <- MCTailOf
  HeadOf <- MCHeadOf
SPECIFICATION FairSpec
INVARIANTS
  FrontierFindsHatchery
  DeployedConnected
  ReportedOnce
PROPERTIES
  MasterSpec
  Rendezvous
  AllReleased
CHECK_DEADLOCK FALSE
