CONSTANTS
  Cap = 7
  HeaderSize = 2
  PayloadSizes = {0, 1, 2}
  SizeT = 16
  MaxPackets = 4
SPECIFICATION Spec
INVARIANT
  CompletePacketsAreHandled
CHECK_DEADLOCK FALSE
