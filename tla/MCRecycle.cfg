CONSTANTS
  s1 = s1
  w1 = w1
  w2 = w2
  Main = Main
  Nobody = Nobody
  Sessions <- OneSession
  Workers <- MCWorkers
  Faults <- QuietFaults
  Cap = 1
  MaxIssue = 3
  MaxBytes = 1
SPECIFICATION FairSpec
INVARIANTS
  NeverPopsEmptyList
CHECK_DEADLOCK FALSE
PROPERTY
  ClosedSessionsReturn
