CONSTANTS
  Cap = 7
  HeaderSize = 2
  PayloadSizes <- SignedSizes
  SizeT = 16
  MaxPackets = 3
SPECIFICATION Spec
INVARIANT
  RemovesAsRead
CHECK_DEADLOCK FALSE
