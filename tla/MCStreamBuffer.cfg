CONSTANTS
  Cap = 5
  Byte = {1, 2}
SPECIFICATION Spec
INVARIANTS
  TypeOK
  RegionsDisjoint
  NoOrphanB
PROPERTY
  IsByteQueue
