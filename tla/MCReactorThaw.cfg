CONSTANTS
  r = r
  w = w
  t = t
  Event = {r, w, t}
  Kind <- MCKind
  Threshold = 0
  MaxCalls = 2
SPECIFICATION Spec
INVARIANT
  UnpolledInCallback
CHECK_DEADLOCK FALSE
