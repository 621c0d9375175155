CONSTANTS
  s1 = s1
  w1 = w1
  w2 = w2
  Main = Main
  Nobody = Nobody
  Sessions <- OneSession
  Workers <- MCWorkers
  Faults <- PeerCloses
  Cap = 1
  MaxIssue = 1
  MaxBytes = 1
SYMMETRY WorkerSymmetry
SPECIFICATION Spec
INVARIANTS
  ReturnAssertionHolds
CHECK_DEADLOCK FALSE
