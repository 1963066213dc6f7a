CONSTANTS
  x1 = x1
  x2 = x2
  a = a
  b = b
  s1 = s1
  s2 = s2
  Executor = {x1, x2}
  Vertex = {a, b}
  Stream = {s1, s2}
  Tail <- From
  Head <- To
  Graphs <- MCGraphs
SPECIFICATION FairSpec
INVARIANTS
  EndsComplete
  CriticalNotDone
PROPERTIES
  OtherEndCloses
  Ends
CHECK_DEADLOCK FALSE
