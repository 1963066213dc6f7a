CONSTANTS
  C = 4
  Item = {a, b, c}
  Junk = Junk
SPECIFICATION RingSpec
INVARIANT NoRace
PROPERTY QueueSpec
