CONSTANTS
  MaxFd = 3
  ByteBits = 2
  MaskBytes = 1
  Notifier = 1
SPECIFICATION SelectSpec
INVARIANTS
  InBounds
  ReadyActivated
