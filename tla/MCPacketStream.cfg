CONSTANTS
  Cap = 7
  HeaderSize = 2
  PayloadSizes <- SignedSizes
  SizeT = 16
  MaxPackets = 3
SPECIFICATION Spec
INVARIANTS
  TypeOK
  HandledInOrder
  UnhandledBytesAreStored
  RemovesAsReadInStep
  OnlySplitPacketsWait
CHECK_DEADLOCK FALSE
