CONSTANT MaxBytes = 6
SPECIFICATION FairSpec
INVARIANTS
  UserExclusive
  NoStall
  FlushedBeforeRemoval
PROPERTIES
  Drained
  Leaves
CHECK_DEADLOCK FALSE
