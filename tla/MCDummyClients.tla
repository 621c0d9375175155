--------------------------- MODULE MCDummyClients ---------------------------
(* Instances of DummyClients for TLC.                                        *)
EXTENDS DummyClients

CONSTANTS s1, w1, w2

OneSession == {s1}
MCWorkers  == {w1, w2}

AllFaults  == FaultKinds
=============================================================================
