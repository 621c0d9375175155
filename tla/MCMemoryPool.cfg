CONSTANTS
  t1 = t1
  t2 = t2
  t3 = t3
  Threads <- MCThreads
  Sizes <- MCSizes
  MaxBlocks = 3
SYMMETRY Symmetry
SPECIFICATION Spec
INVARIANTS
  TypeOK
  NeverCrashes
  BlocksFit
  BlocksAreSomewhere
PROPERTY
  ImplementsBlockAllocator
CHECK_DEADLOCK FALSE
