CONSTANTS
  t1 = t1
  t2 = t2
  t3 = t3
  Threads <- MCThreads
  MaskSize = 4
  AllocCount = 2
  MaxInUse = 4
SPECIFICATION FairSpec
INVARIANTS
  TypeOK
  MutualExclusion
  FreeListIsTheRest
PROPERTIES
  ImplementsBlockAllocator
  SomebodyEnters
CHECK_DEADLOCK FALSE
