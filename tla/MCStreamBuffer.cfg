CONSTANTS
  Local = 4
  Overlap = 2
  Header = 2
  Payload = {0, 1, 3}
  PipeSize = 3
  MaxPackages = 4
SPECIFICATION FairSpec
INVARIANTS
  ReceivedInOrder
  BrokenIsLast
PROPERTY
  Delivered
CHECK_DEADLOCK FALSE
