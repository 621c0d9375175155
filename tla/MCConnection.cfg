CONSTANTS
  s1 = s1
  w1 = w1
  w2 = w2
  Main = Main
  Nobody = Nobody
  Sessions <- OneSession
  Workers <- MCWorkers
  Faults <- AllFaults
  Cap = 2
  MaxIssue = 2
  MaxBytes = 4
SYMMETRY WorkerSymmetry
SPECIFICATION Spec
INVARIANTS
  TypeOK
  RefCountIsReferences
  OnlyRevivalCrashes
  FreeSessionsAreClean
  ContextsAreCurrent
  OneReceiver
  InFlightRegionsStable
  EchoesInOrder
  EchoesComplete
  OneSend
  UnsentBytesHaveFlusher
CHECK_DEADLOCK FALSE
PROPERTY
  ImplementsSessionPool
