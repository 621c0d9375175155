---------------------------- MODULE MCMemoryPool ----------------------------
(* Instances of MemoryPool for TLC.                                          *)
EXTENDS MemoryPool, TLC

CONSTANTS t1, t2, t3

MCThreads == {t1, t2, t3}
Symmetry  == Permutations(MCThreads)

\* Around the edges of the size classes, header included: 32 | 33, 1024 | 1025,
\* 2048 | 2049, 4096 | 4097.
MCSizes == {16, 17, 1008, 1009, 2032, 2033, 4080, 4081}
=============================================================================
