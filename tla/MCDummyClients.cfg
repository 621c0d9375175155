CONSTANTS
  s1 = s1
  w1 = w1
  w2 = w2
  Main = Main
  Sessions <- OneSession
  Workers <- MCWorkers
  Faults <- AllFaults
  LoginSize = 2
SPECIFICATION FairSpec
INVARIANTS
  TypeOK
  RefCountIsReferences
  ReturnsAreCounted
  NeverCrashes
  OneReceiver
PROPERTIES
  Terminates
  ClosedSessionsAreReleased
CHECK_DEADLOCK FALSE
