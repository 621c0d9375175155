---------------------------- MODULE MCIocpServer ----------------------------
(* Instances of IocpServer for TLC.                                          *)
EXTENDS IocpServer, TLC

CONSTANTS s1, w1, w2

OneSession  == {s1}
OneWorker   == {w1}
MCWorkers   == {w1, w2}

AllFaults == FaultKinds
NoFaults  == {}
PeerCloses == {"PeerClose"}
QuietFaults == FaultKinds \ {"DisconnectEx", "AcceptEx"}

WorkerSymmetry == Permutations(MCWorkers)
=============================================================================
