--------------------------- MODULE BlockAllocator ---------------------------
(***************************************************************************)
(* What an allocator promises: a block that is handed out belongs to one   *)
(* holder until it is given back.                                          *)
(***************************************************************************)
EXTENDS Naturals

CONSTANT Blocks

VARIABLE holders        \* how many holders each block has

AllocatorInit == holders = [b \in Blocks |-> 0]

Allocate(b) ==
  /\ holders[b] = 0
  /\ holders' = [holders EXCEPT ![b] = 1]

Free(b) ==
  /\ holders[b] = 1
  /\ holders' = [holders EXCEPT ![b] = 0]

AllocatorNext == \E b \in Blocks : Allocate(b) \/ Free(b)

AllocatorSpec == AllocatorInit /\ [][AllocatorNext]_holders
=============================================================================
