CONSTANTS
  s1 = s1
  w1 = w1
  w2 = w2
  Main = Main
  Nobody = Nobody
  Sessions <- OneSession
  Workers <- MCWorkers
  Faults <- NoFaults
  Cap = 3
  MaxIssue = 1
  MaxBytes = 3
SPECIFICATION FairSpec
CHECK_DEADLOCK FALSE
PROPERTY
  WorkersNeverBlock
