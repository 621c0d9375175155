---------------------------- MODULE MCObjectPool ----------------------------
(* Instances of ObjectPool for TLC.                                          *)
EXTENDS ObjectPool

CONSTANTS t1, t2, t3

MCThreads == {t1, t2, t3}
=============================================================================
