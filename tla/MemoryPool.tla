----------------------------- MODULE MemoryPool -----------------------------
(***************************************************************************)
(* MemoryPool and SmallSizeMemoryPool of Homework4/EduServer_IOCP, behind  *)
(* xnew, xdelete and STLAllocator: blocks of up to 4096 bytes come from    *)
(* pools of fixed sizes, lock-free lists to which they return, larger ones *)
(* from the heap.  A header in front of each block holds the size it was   *)
(* asked with; zero marks a block that was given back.                     *)
(*                                                                         *)
(* A step is one interlocked operation, with what precedes it on a block   *)
(* that no other thread can reach.                                         *)
(***************************************************************************)
EXTENDS Integers, Sequences, FiniteSets, FiniteSetsExt

CONSTANTS
  Threads,
  Sizes,         \* the sizes the program asks for
  MaxBlocks      \* bound: how many blocks the program and its pools have in all

ASSUME SizesAssumption == Sizes \subseteq Nat /\ MaxBlocks \in Nat \ {0}

Blocks == 1..MaxBlocks

MAX_ALLOC_SIZE == 4096
HeaderSize     == 16           \* sizeof(MemAllocInfo), of the 32-bit build (x64: 32)

\* The sizes of the pools the constructor makes, in its three loops.
PoolSizes ==
  {32 * i : i \in 1..31} \cup {1024 + 128 * i : i \in 0..7} \cup {2048 + 256 * i : i \in 0..8}

\* The pool made before the one of this size ("recent").
Recent == [size \in PoolSizes |-> Max({p \in PoolSizes : p < size} \cup {0})]

TableOneOff ==                                                       \* mutant
  [r \in 1..MAX_ALLOC_SIZE |-> CHOOSE p \in PoolSizes : r \in (Recent[p] + 2)..(p + 1) \/ r = 1]

\* The table from sizes to pools: each pool is entered for recent + 1 up to its size.
mSmallSizeMemoryPoolTable ==
  [r \in 1..MAX_ALLOC_SIZE |-> CHOOSE p \in PoolSizes : r \in (Recent[p] + 1)..p]

NoBlock == [cap |-> 0, size |-> 0]

VARIABLES
  status,        \* "running", or "crashed" by a CRASH_ASSERT
  mFreeList,     \* per pool in use: its blocks, the first one on top
  mAllocCount,   \* per pool in use
  block,         \* heap: the capacity of each block, and the mAllocSize in its header
  pc, hand,      \* per thread: what it does next, and with which block
  real,          \* per thread: realAllocSize
  (* history *)
  holders,       \* how many holders each block has
  asked          \* the size each block was asked for with

vars == <<status, mFreeList, mAllocCount, block, pc, hand, real, holders, asked>>

\* The object and its header.
RealSize(size) == size + HeaderSize

PoolFor(r) == mSmallSizeMemoryPoolTable[r]

Pools == {PoolFor(r) : r \in {RealSize(s) : s \in Sizes} \cap (1..MAX_ALLOC_SIZE)}

Goto(t, label) == pc' = [pc EXCEPT ![t] = label]

\* The heap's next block (an external malloc).
Unallocated == {b \in Blocks : block[b] = NoBlock}
NextBlock   == CHOOSE b \in Blocks : b \in Unallocated

\* A call returns; its locals are gone.
Return(t) ==
  /\ Goto(t, "idle")
  /\ hand' = [hand EXCEPT ![t] = 0]
  /\ real' = [real EXCEPT ![t] = 0]

\* InterlockedPopEntrySList.
PopKeepsEntry(list) == list                                          \* mutant

PopEntry(list) == Tail(list)

-----------------------------------------------------------------------------
\* Allocate of more than a pool has: _aligned_malloc, and AttachMemAllocInfo.
AllocateLarge(t, size) ==
  LET b == NextBlock
  IN  /\ pc[t] = "idle"
      /\ Unallocated # {}
      /\ RealSize(size) > MAX_ALLOC_SIZE
      /\ block' = [block EXCEPT ![b] = [cap |-> RealSize(size), size |-> RealSize(size)]]
      /\ holders' = [holders EXCEPT ![b] = @ + 1]
      /\ asked' = [asked EXCEPT ![b] = size]
      /\ UNCHANGED <<status, mFreeList, mAllocCount, pc, hand, real>>

\* Allocate up to the result of SmallSizeMemoryPool::Pop's interlocked pop: a block
\* of the pool, on which the assertion is made, or a fresh one of the heap.
Allocate(t, size) ==
  LET r    == RealSize(size)
      list == mFreeList[PoolFor(r)]
  IN  /\ pc[t] = "idle"
      /\ r <= MAX_ALLOC_SIZE
      /\ real' = [real EXCEPT ![t] = r]
      /\ Goto(t, "popped")
      /\ \/ /\ list # << >>
            /\ hand' = [hand EXCEPT ![t] = Head(list)]
            /\ mFreeList' = [mFreeList EXCEPT ![PoolFor(r)] = PopEntry(@)]
            /\ status' = IF block[Head(list)].size = 0 THEN status ELSE "crashed"
            /\ UNCHANGED block
         \/ /\ list = << >> /\ Unallocated # {}
            /\ hand' = [hand EXCEPT ![t] = NextBlock]
            /\ block' = [block EXCEPT ![NextBlock] = [cap |-> PoolFor(r), size |-> 0]]
            /\ UNCHANGED <<status, mFreeList>>
      /\ asked' = [asked EXCEPT ![hand'[t]] = size]
      /\ UNCHANGED <<mAllocCount, holders>>

AttachUncounted(t) ==                                                \* mutant
  /\ pc[t] = "popped"
  /\ block' = [block EXCEPT ![hand[t]].size = real[t]]
  /\ holders' = [holders EXCEPT ![hand[t]] = @ + 1]
  /\ Return(t)
  /\ UNCHANGED <<status, mFreeList, mAllocCount, asked>>

\* The rest: the count, AttachMemAllocInfo, and the block is the caller's.
Attach(t) ==
  /\ pc[t] = "popped"
  /\ mAllocCount' = [mAllocCount EXCEPT ![PoolFor(real[t])] = @ + 1]
  /\ block' = [block EXCEPT ![hand[t]].size = real[t]]
  /\ holders' = [holders EXCEPT ![hand[t]] = @ + 1]
  /\ Return(t)
  /\ UNCHANGED <<status, mFreeList, asked>>

DeallocateKeepsSize(t, b) ==                                         \* mutant
  /\ pc[t] = "idle"
  /\ holders[b] > 0
  /\ holders' = [holders EXCEPT ![b] = @ - 1]
  /\ asked' = [asked EXCEPT ![b] = 0]
  /\ hand' = [hand EXCEPT ![t] = b]
  /\ real' = [real EXCEPT ![t] = block[b].size]
  /\ Goto(t, "release")
  /\ UNCHANGED <<status, mFreeList, mAllocCount, block>>

\* Deallocate: the exchange of mAllocSize, and the assertion on what was there.
Deallocate(t, b) ==
  /\ pc[t] = "idle"
  /\ holders[b] > 0
  /\ holders' = [holders EXCEPT ![b] = @ - 1]
  /\ asked' = [asked EXCEPT ![b] = 0]
  /\ hand' = [hand EXCEPT ![t] = b]
  /\ real' = [real EXCEPT ![t] = block[b].size]
  /\ block' = [block EXCEPT ![b].size = 0]
  /\ status' = IF block[b].size > 0 THEN status ELSE "crashed"
  /\ Goto(t, "release")
  /\ UNCHANGED <<mFreeList, mAllocCount>>

FreeLargeLeaks(t) ==                                                 \* mutant
  /\ pc[t] = "release"
  /\ real[t] > MAX_ALLOC_SIZE
  /\ Return(t)
  /\ UNCHANGED <<status, mFreeList, mAllocCount, block, holders, asked>>

\* A large block returns to the heap ...
FreeLarge(t) ==
  /\ pc[t] = "release"
  /\ real[t] > MAX_ALLOC_SIZE
  /\ block' = [block EXCEPT ![hand[t]] = NoBlock]
  /\ Return(t)
  /\ UNCHANGED <<status, mFreeList, mAllocCount, holders, asked>>

\* ... another one to the pool of its size, SmallSizeMemoryPool::Push ...
Push(t) ==
  LET p == PoolFor(real[t])
  IN  /\ pc[t] = "release"
      /\ real[t] <= MAX_ALLOC_SIZE
      /\ mFreeList' = [mFreeList EXCEPT ![p] = <<hand[t]>> \o @]
      /\ Goto(t, "pushed")
      /\ UNCHANGED <<status, mAllocCount, block, hand, real, holders, asked>>

\* ... which counts it a step later.
Pushed(t) ==
  /\ pc[t] = "pushed"
  /\ mAllocCount' = [mAllocCount EXCEPT ![PoolFor(real[t])] = @ - 1]
  /\ Return(t)
  /\ UNCHANGED <<status, mFreeList, block, holders, asked>>

-----------------------------------------------------------------------------
Init ==
  /\ status = "running"
  /\ mFreeList   = [p \in Pools |-> << >>]
  /\ mAllocCount = [p \in Pools |-> 0]
  /\ block = [b \in Blocks |-> NoBlock]
  /\ pc   = [t \in Threads |-> "idle"]
  /\ hand = [t \in Threads |-> 0]
  /\ real = [t \in Threads |-> 0]
  /\ holders = [b \in Blocks |-> 0]
  /\ asked   = [b \in Blocks |-> 0]

\* What a thread does by itself once it is in a call.
Step(t) == Attach(t) \/ FreeLarge(t) \/ Push(t) \/ Pushed(t)

\* Any thread asks for any size, and gives back any block that is held.
Next ==
  /\ status = "running"
  /\ \E t \in Threads :
       \/ \E size \in Sizes : AllocateLarge(t, size) \/ Allocate(t, size)
       \/ \E b \in Blocks : Deallocate(t, b)
       \/ Step(t)

Spec == Init /\ [][Next]_vars

-----------------------------------------------------------------------------
\* Type invariant.
TypeOK ==
  /\ status \in {"running", "crashed"}
  /\ mFreeList \in [Pools -> Seq(Blocks)]
  /\ mAllocCount \in [Pools -> Nat]
  /\ block \in [Blocks -> [cap : Nat, size : Nat]]
  /\ pc \in [Threads -> {"idle", "popped", "release", "pushed"}]
  /\ hand \in [Threads -> Blocks \cup {0}]
  /\ real \in [Threads -> Nat]
  /\ holders \in [Blocks -> Nat]
  /\ asked \in [Blocks -> Nat]

\* Whatever the interleaving, a popped block carries the mark of a free one and a
\* block given back does not: the two assertions (MemoryPool.cpp:31, 118) never
\* fail in a program that frees each block once.
NeverCrashes == status # "crashed"

Held       == {b \in Blocks : holders[b] > 0}
Carrying   == {t \in Threads : pc[t] \in {"popped", "release"}}
InHand     == {hand[t] : t \in Carrying}
InPool(p)  == {mFreeList[p][i] : i \in DOMAIN mFreeList[p]}

\* A block has room for its header and for the object it was asked for, and from
\* no smaller pool would it have; the blocks a pool keeps are of its own size,
\* although Push finds the pool by the size in the header and Pop by the size
\* asked for (MemoryPool.cpp:47-128).
BlocksFit ==
  /\ \A b \in Held :
       LET need == asked[b] + HeaderSize
       IN  /\ block[b].cap >= need
           /\ block[b].cap = need \/ \A p \in PoolSizes : p < block[b].cap => p < need
  /\ \A p \in Pools : \A b \in InPool(p) : block[b] = [cap |-> p, size |-> 0]

\* Every block of the heap is in one place: with its holder, in one thread's hand,
\* or once in the list of one pool.  None is lost between two threads.
BlocksAreSomewhere ==
  LET kept == UNION {InPool(p) : p \in Pools}
  IN  /\ Blocks \ Unallocated = Held \cup InHand \cup kept
      /\ Held \cap InHand = {} /\ (Held \cup InHand) \cap kept = {}
      /\ \A t, u \in Carrying : hand[t] = hand[u] => t = u
      /\ \A p, q \in Pools : p # q => InPool(p) \cap InPool(q) = {}
      /\ \A p \in Pools : IsInjective(mFreeList[p])

\* The pools hand a block to one holder at a time.
Allocator == INSTANCE BlockAllocator

ImplementsBlockAllocator == Allocator!AllocatorSpec
=============================================================================
