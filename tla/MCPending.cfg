CONSTANTS
  s1 = s1
  w1 = w1
  w2 = w2
  Main = Main
  Nobody = Nobody
  Sessions <- OneSession
  Workers <- OneWorker
  Faults <- PeerCloses
  Cap = 1
  MaxIssue = 2
  MaxBytes = 1

SPECIFICATION Spec
INVARIANTS
  PendingSendExists
CHECK_DEADLOCK FALSE
