-------------------------- MODULE MemoryPoolProofs --------------------------
(***************************************************************************)
(* The memory pool, for any number of threads, any sizes and any amount of *)
(* memory: no assertion fails, every block is large enough and of the pool *)
(* it came from, is in one place, and has one holder at a time.            *)
(***************************************************************************)
EXTENDS MemoryPool, ListLemmas, FiniteSetTheorems, TLAPS

-----------------------------------------------------------------------------
\* The table.  The loops of the constructor leave no gap: the pool made before the
\* one of size p is smaller by the step of p's loop.
Step32(p) == IF p <= 1024 THEN p - 32 ELSE IF p <= 2048 THEN p - 128 ELSE p - 256

LEMMA PoolSizeCases ==
  ASSUME NEW p \in PoolSizes
  PROVE  \/ \E i \in 1..31 : p = 32 * i
         \/ \E i \in 0..7 : p = 1024 + 128 * i
         \/ \E i \in 0..8 : p = 2048 + 256 * i
BY DEF PoolSizes

LEMMA PoolSizesAreSmall == \A p \in PoolSizes : p \in 1..MAX_ALLOC_SIZE
BY PoolSizeCases DEF MAX_ALLOC_SIZE

LEMMA RecentIsTheStepBefore ==
  ASSUME NEW p \in PoolSizes
  PROVE  Recent[p] = Step32(p)
<1> DEFINE S == {q \in PoolSizes : q < p} \cup {0}
<1>1. Step32(p) \in S
  BY PoolSizeCases DEF Step32, PoolSizes
<1>2. \A q \in S : Step32(p) >= q
  BY PoolSizeCases DEF Step32
<1>3. \A x \in S : (\A y \in S : x >= y) => x = Step32(p)
  <2>1. \A x \in S : x \in Int
    BY PoolSizesAreSmall
  <2> HIDE DEF S
  <2>2. QED
    BY <2>1, <1>1, <1>2
<1>4. Max(S) = Step32(p)
  BY <1>1, <1>2, <1>3 DEF Max
<1>5. QED
  BY <1>4 DEF Recent
\* Every real size has a pool, the smallest one that is large enough.
LEMMA TableCovers ==
  ASSUME NEW r \in 1..MAX_ALLOC_SIZE
  PROVE  /\ PoolFor(r) \in PoolSizes
         /\ r <= PoolFor(r)
         /\ \A p \in PoolSizes : p < PoolFor(r) => p < r
<1>1. \E p \in PoolSizes : r \in (Recent[p] + 1)..p
  <2>1. \E p \in PoolSizes : r \in (Step32(p) + 1)..p
    <3>1. CASE r <= 1024
      <4>1. PICK i \in 1..32 : r \in (32 * i - 31)..(32 * i)
        BY <3>1
      <4>2. 32 * i \in PoolSizes
        BY 1024 + 128 * 0 = 32 * 32 DEF PoolSizes
      <4>3. Step32(32 * i) = 32 * i - 32
        BY DEF Step32
      <4>4. QED
        BY <4>1, <4>2, <4>3
    <3>2. CASE r \in 1025..2048
      <4>1. PICK i \in 1..8 : r \in (1024 + 128 * i - 127)..(1024 + 128 * i)
        BY <3>2
      <4>2. 1024 + 128 * i \in PoolSizes
        BY 1024 + 128 * 8 = 2048 + 256 * 0 DEF PoolSizes
      <4>3. Step32(1024 + 128 * i) = 1024 + 128 * i - 128
        BY DEF Step32
      <4>4. QED
        BY <4>1, <4>2, <4>3
    <3>3. CASE r > 2048
      <4>1. PICK i \in 1..8 : r \in (2048 + 256 * i - 255)..(2048 + 256 * i)
        BY <3>3 DEF MAX_ALLOC_SIZE
      <4>2. 2048 + 256 * i \in PoolSizes
        BY DEF PoolSizes
      <4>3. Step32(2048 + 256 * i) = 2048 + 256 * i - 256
        BY DEF Step32
      <4>4. QED
        BY <4>1, <4>2, <4>3
    <3>4. QED
      BY <3>1, <3>2, <3>3
  <2>2. QED
    BY <2>1, RecentIsTheStepBefore
<1>2. PoolFor(r) \in PoolSizes /\ r \in (Recent[PoolFor(r)] + 1)..PoolFor(r)
  BY <1>1 DEF PoolFor, mSmallSizeMemoryPoolTable
<1>3. \A p \in PoolSizes : p < PoolFor(r) => p <= Step32(PoolFor(r))
  <2>1. \A q \in PoolSizes, p \in PoolSizes : p < q => p <= Step32(q)
    BY PoolSizeCases DEF Step32
  <2>2. QED
    BY <2>1, <1>2
<1>4. QED
  <2>1. PoolFor(r) \in Int /\ Step32(PoolFor(r)) \in Int /\ Step32(PoolFor(r)) < r /\ r <= PoolFor(r)
    BY <1>2, RecentIsTheStepBefore, PoolSizesAreSmall DEF Step32
  <2>2. \A p \in PoolSizes : p \in Int
    BY PoolSizesAreSmall
  <2>3. QED
    BY <2>1, <2>2, <1>2, <1>3
-----------------------------------------------------------------------------
\* The sizes of blocks, and what a block of such a size takes of the heap.
Wanted == {RealSize(s) : s \in Sizes}
Room(r) == IF r <= MAX_ALLOC_SIZE THEN PoolFor(r) ELSE r

\* Types, but for the counts.
Types ==
  /\ status = "running"
  /\ mFreeList \in [Pools -> Seq(Blocks)]
  /\ mAllocCount \in [Pools -> Int]
  /\ block \in [Blocks -> [cap : Nat, size : Nat]]
  /\ pc \in [Threads -> {"idle", "popped", "release", "pushed"}]
  /\ hand \in [Threads -> Blocks \cup {0}]
  /\ real \in [Threads -> Nat]
  /\ holders \in [Blocks -> {0, 1}]
  /\ asked \in [Blocks -> Nat]

\* What the header of a block says, wherever the block is, and its room.
HeldFit ==
  \A b \in Blocks : holders[b] = 1 =>
    /\ asked[b] \in Sizes
    /\ block[b] = [cap |-> Room(RealSize(asked[b])), size |-> RealSize(asked[b])]
HandsFit ==
  \A t \in Threads : pc[t] \in {"popped", "release"} =>
    /\ hand[t] \in Blocks /\ real[t] \in Wanted
    /\ block[hand[t]] = [cap |-> Room(real[t]), size |-> 0]
PoppedFit ==
  \A t \in Threads : pc[t] = "popped" =>
    /\ real[t] <= MAX_ALLOC_SIZE
    /\ asked[hand[t]] \in Sizes /\ real[t] = RealSize(asked[hand[t]])
PushedFit ==
  \A t \in Threads : pc[t] = "pushed" => real[t] \in Wanted /\ real[t] <= MAX_ALLOC_SIZE
ListsFit ==
  \A p \in Pools : \A b \in Entries(mFreeList[p]) : block[b] = [cap |-> p, size |-> 0]

Headers == HeldFit /\ HandsFit /\ PoppedFit /\ PushedFit /\ ListsFit

\* A block is in one place.
SomePlace ==
  \A b \in Blocks :
    \/ block[b] = NoBlock \/ holders[b] = 1
    \/ \E t \in Threads : pc[t] \in {"popped", "release"} /\ hand[t] = b
    \/ \E p \in Pools : b \in Entries(mFreeList[p])
HandsApart ==
  /\ \A t \in Threads : pc[t] \in {"popped", "release"} =>
       holders[hand[t]] = 0 /\ \A p \in Pools : hand[t] \notin Entries(mFreeList[p])
  /\ \A t, u \in Threads :
       pc[t] \in {"popped", "release"} /\ pc[u] \in {"popped", "release"} /\ hand[t] = hand[u] => t = u
ListsApart ==
  /\ \A p \in Pools : IsInjective(mFreeList[p]) /\ \A b \in Entries(mFreeList[p]) : holders[b] = 0
  /\ \A p, q \in Pools : p # q => Entries(mFreeList[p]) \cap Entries(mFreeList[q]) = {}

Places == SomePlace /\ HandsApart /\ ListsApart

\* The inductive invariant.
IInv == Types /\ Headers /\ Places

LEMMA WantedFacts ==
  ASSUME NEW r \in Wanted
  PROVE  /\ r \in Nat \ {0} /\ Room(r) \in Nat \ {0} /\ Room(r) >= r
         /\ r <= MAX_ALLOC_SIZE => PoolFor(r) \in Pools /\ Room(r) = PoolFor(r)
<1>1. r \in Nat \ {0}
  BY SizesAssumption DEF Wanted, RealSize, HeaderSize
<1>2. CASE r <= MAX_ALLOC_SIZE
  <2>1. r \in 1..MAX_ALLOC_SIZE
    BY <1>1, <1>2 DEF MAX_ALLOC_SIZE
  <2>2. PoolFor(r) \in Pools
    BY <2>1 DEF Pools, Wanted
  <2>3. PoolFor(r) \in Nat \ {0} /\ r <= PoolFor(r)
    BY <2>1, TableCovers, PoolSizesAreSmall
  <2>4. QED
    BY <1>1, <1>2, <2>2, <2>3 DEF Room
<1>3. QED
  BY <1>1, <1>2 DEF Room

\* At the start nothing is allocated.
LEMMA InitIInv == Init => IInv
<1> SUFFICES ASSUME Init PROVE IInv
  OBVIOUS
<1>1. << >> \in Seq(Blocks)
  OBVIOUS
<1>2. Types
  BY <1>1 DEF Init, Types, NoBlock
<1>3. Headers
  BY EmptyLists DEF Init, Headers, HeldFit, HandsFit, PoppedFit, PushedFit, ListsFit
<1>4. Places
  BY EmptyLists DEF Init, Places, SomePlace, HandsApart, ListsApart
<1>5. QED
  BY <1>2, <1>3, <1>4 DEF IInv

\* A block that is not allocated is nowhere.
LEMMA UnallocatedIsNowhere ==
  ASSUME IInv, NEW b \in Unallocated
  PROVE  /\ b \in Blocks /\ block[b] = NoBlock /\ holders[b] = 0
         /\ \A t \in Threads : pc[t] \in {"popped", "release"} => hand[t] # b
         /\ \A p \in Pools : b \notin Entries(mFreeList[p])
<1>1. b \in Blocks /\ block[b] = NoBlock
  BY DEF Unallocated
<1>2. holders[b] = 0
  <2>1. ASSUME holders[b] = 1 PROVE FALSE
    <3>1. PICK r \in Wanted : block[b] = [cap |-> Room(r), size |-> r]
      BY <2>1, <1>1 DEF IInv, Headers, HeldFit, Wanted
    <3>2. r = 0
      BY <3>1, <1>1 DEF NoBlock
    <3>3. QED
      BY <3>2, WantedFacts
  <2>2. QED
    BY <2>1, <1>1 DEF IInv, Types
<1>3. ASSUME NEW t \in Threads, pc[t] \in {"popped", "release"} PROVE hand[t] # b
  <2>1. PICK r \in Wanted : block[hand[t]] = [cap |-> Room(r), size |-> 0]
    BY <1>3 DEF IInv, Headers, HandsFit
  <2>2. block[hand[t]].cap # 0
    BY <2>1, WantedFacts
  <2>3. QED
    BY <2>2, <1>1 DEF NoBlock
<1>4. ASSUME NEW p \in Pools PROVE b \notin Entries(mFreeList[p])
  <2>1. p \in Nat \ {0}
    BY TableCovers, PoolSizesAreSmall DEF Pools
  <2>2. b \in Entries(mFreeList[p]) => block[b] = [cap |-> p, size |-> 0]
    BY DEF IInv, Headers, ListsFit
  <2>3. QED
    BY <2>1, <2>2, <1>1 DEF NoBlock
<1>5. QED
  BY <1>1, <1>2, <1>3, <1>4

LEMMA NextBlockIsNowhere ==
  ASSUME IInv, Unallocated # {}
  PROVE  /\ NextBlock \in Blocks /\ block[NextBlock] = NoBlock /\ holders[NextBlock] = 0
         /\ \A t \in Threads : pc[t] \in {"popped", "release"} => hand[t] # NextBlock
         /\ \A p \in Pools : NextBlock \notin Entries(mFreeList[p])
<1>1. NextBlock \in Unallocated
  BY DEF NextBlock, Unallocated
<1>2. QED
  BY <1>1, UnallocatedIsNowhere

\* Blocks are what the lists and the hands are made of.
LEMMA ListsAndHands ==
  ASSUME IInv
  PROVE  /\ \A p \in Pools : \A c \in Entries(mFreeList[p]) : c \in Blocks
         /\ \A u \in Threads : pc[u] \in {"popped", "release"} => hand[u] \in Blocks
<1>1. \A p \in Pools : mFreeList[p] \in Seq(Blocks)
  BY DEF IInv, Types
<1>2. \A p \in Pools : \A i \in DOMAIN mFreeList[p] : mFreeList[p][i] \in Blocks
  BY <1>1
<1>3. QED
  BY <1>2 DEF Entries, IInv, Headers, HandsFit

-----------------------------------------------------------------------------
\* One lemma per action.
LEMMA AllocateLargeKeepsIInv ==
  ASSUME IInv, NEW t \in Threads, NEW size \in Sizes, AllocateLarge(t, size)
  PROVE  IInv'
<1> DEFINE b == NextBlock
           r == RealSize(size)
<1>1. /\ b \in Blocks /\ block[b] = NoBlock /\ holders[b] = 0
      /\ \A u \in Threads : pc[u] \in {"popped", "release"} => hand[u] # b
      /\ \A p \in Pools : b \notin Entries(mFreeList[p])
  BY NextBlockIsNowhere DEF AllocateLarge
<1>2. r \in Nat /\ r > MAX_ALLOC_SIZE /\ Room(r) = r /\ size \in Nat
  BY SizesAssumption DEF AllocateLarge, RealSize, HeaderSize, MAX_ALLOC_SIZE, Room
<1>3. /\ block' = [block EXCEPT ![b] = [cap |-> r, size |-> r]]
      /\ holders' = [holders EXCEPT ![b] = 1]
      /\ asked' = [asked EXCEPT ![b] = size]
      /\ UNCHANGED <<status, mFreeList, mAllocCount, pc, hand, real>>
  BY <1>1 DEF AllocateLarge, IInv, Types
<1> HIDE DEF b
<1>4. Types'
  BY <1>1, <1>2, <1>3 DEF IInv, Types
<1> HIDE DEF r
<1>5. \A c \in Blocks : /\ block'[c] = IF c = b THEN [cap |-> r, size |-> r] ELSE block[c]
                        /\ holders'[c] = IF c = b THEN 1 ELSE holders[c]
                        /\ asked'[c] = IF c = b THEN size ELSE asked[c]
  BY <1>1, <1>3 DEF IInv, Types
<1>6. Headers'
  <2>1. HeldFit' /\ PushedFit'
    BY <1>2, <1>3, <1>5 DEF IInv, Headers, HeldFit, PushedFit, r
  <2>2. HandsFit'
    BY <1>1, <1>2, <1>3, <1>5, ListsAndHands DEF IInv, Headers, HandsFit
  <2>3. PoppedFit'
    BY <1>1, <1>2, <1>3, <1>5, ListsAndHands DEF IInv, Headers, PoppedFit, r
  <2>4. ListsFit'
    BY <1>1, <1>2, <1>3, <1>5, ListsAndHands DEF IInv, Headers, ListsFit
  <2>5. QED
    BY <2>1, <2>2, <2>3, <2>4 DEF Headers
<1>7. Places'
  <2>1. SomePlace'
    BY <1>1, <1>3, <1>5, ListsAndHands DEF IInv, Places, SomePlace
  <2>2. HandsApart'
    BY <1>1, <1>3, <1>5, ListsAndHands DEF IInv, Places, HandsApart
  <2>3. ListsApart'
    BY <1>1, <1>3, <1>5, ListsAndHands DEF IInv, Places, ListsApart
  <2>4. QED
    BY <2>1, <2>2, <2>3 DEF Places
<1>8. QED
  BY <1>4, <1>6, <1>7 DEF IInv

\* The size asked for is of a pool in use.
LEMMA SmallSize ==
  ASSUME NEW size \in Sizes, RealSize(size) <= MAX_ALLOC_SIZE
  PROVE  /\ size \in Nat /\ RealSize(size) \in Wanted /\ RealSize(size) \in Nat
         /\ PoolFor(RealSize(size)) \in Pools /\ PoolFor(RealSize(size)) \in Nat \ {0}
         /\ Room(RealSize(size)) = PoolFor(RealSize(size))
<1>1. RealSize(size) \in Wanted /\ size \in Nat
  BY SizesAssumption DEF Wanted
<1>2. QED
  BY <1>1, WantedFacts

LEMMA AllocateFromPoolKeepsIInv ==
  ASSUME IInv, NEW t \in Threads, NEW size \in Sizes, Allocate(t, size),
         mFreeList[PoolFor(RealSize(size))] # << >>
  PROVE  IInv'
<1> DEFINE r == RealSize(size)
           p == PoolFor(r)
           b == Head(mFreeList[p])
<1>1. /\ size \in Nat /\ r \in Wanted /\ r \in Nat /\ p \in Pools /\ Room(r) = p
      /\ r <= MAX_ALLOC_SIZE /\ pc[t] = "idle"
  BY SmallSize DEF Allocate
<1>2. mFreeList[p] \in Seq(Blocks) /\ mFreeList[p] # << >> /\ IsInjective(mFreeList[p])
  BY <1>1 DEF IInv, Types, Places, ListsApart
<1>3. /\ PopEntry(mFreeList[p]) \in Seq(Blocks) /\ IsInjective(PopEntry(mFreeList[p]))
      /\ b \in Entries(mFreeList[p]) /\ b \in Blocks
      /\ Entries(PopEntry(mFreeList[p])) = Entries(mFreeList[p]) \ {b}
  BY <1>2, PopLemma DEF PopEntry
<1>4. block[b] = [cap |-> p, size |-> 0] /\ holders[b] = 0
  BY <1>1, <1>3 DEF IInv, Headers, ListsFit, Places, ListsApart
<1>5. /\ real' = [real EXCEPT ![t] = r] /\ pc' = [pc EXCEPT ![t] = "popped"]
      /\ hand' = [hand EXCEPT ![t] = b]
      /\ mFreeList' = [mFreeList EXCEPT ![p] = PopEntry(@)]
      /\ asked' = [asked EXCEPT ![b] = size]
      /\ UNCHANGED <<status, block, mAllocCount, holders>>
  <2>1. hand' = [hand EXCEPT ![t] = b] /\ asked' = [asked EXCEPT ![hand'[t]] = size]
    BY DEF Allocate
  <2>2. hand'[t] = b
    BY <2>1 DEF IInv, Types
  <2>3. block[b].size = 0
    BY <1>4
  <2>4. QED
    BY <2>1, <2>2, <2>3 DEF Allocate, Goto
<1> HIDE DEF r, p, b
<1>6. Types'
  BY <1>1, <1>3, <1>5 DEF IInv, Types
<1>7. /\ \A u \in Threads : /\ real'[u] = IF u = t THEN r ELSE real[u]
                            /\ pc'[u] = IF u = t THEN "popped" ELSE pc[u]
                            /\ hand'[u] = IF u = t THEN b ELSE hand[u]
      /\ \A c \in Blocks : asked'[c] = IF c = b THEN size ELSE asked[c]
      /\ \A q \in Pools : mFreeList'[q] = IF q = p THEN PopEntry(mFreeList[p]) ELSE mFreeList[q]
  BY <1>1, <1>5 DEF IInv, Types
<1>8. \A q \in Pools : Entries(mFreeList'[q]) = Entries(mFreeList[q]) \ {b}
  <2>1. \A q \in Pools : q # p => b \notin Entries(mFreeList[q])
    BY <1>1, <1>3 DEF IInv, Places, ListsApart
  <2>2. QED
    BY <2>1, <1>3, <1>7
<1>9. \A u \in Threads : pc[u] \in {"popped", "release"} => hand[u] # b
  BY <1>1, <1>3 DEF IInv, Places, HandsApart
<1>10. Headers'
  <2>1. HeldFit' /\ PushedFit'
    BY <1>1, <1>3, <1>4, <1>5, <1>7, <1>8, <1>9, ListsAndHands DEF IInv, Headers, HeldFit, PushedFit
  <2>2. HandsFit'
    <3>1. \A u \in Threads : pc[u] \in {"popped", "release"} =>
             hand[u] \in Blocks /\ real[u] \in Wanted /\ block[hand[u]] = [cap |-> Room(real[u]), size |-> 0]
      BY DEF IInv, Headers, HandsFit
    <3>2. block' = block
      BY <1>5
    <3>3. ASSUME NEW u \in Threads, pc'[u] \in {"popped", "release"}
          PROVE  hand'[u] \in Blocks /\ real'[u] \in Wanted /\ block'[hand'[u]] = [cap |-> Room(real'[u]), size |-> 0]
      BY <1>1, <1>3, <1>4, <1>7, <3>1, <3>2, <3>3
    <3>4. QED
      BY <3>3 DEF HandsFit
  <2>3. PoppedFit'
    BY <1>1, <1>3, <1>4, <1>5, <1>7, <1>8, <1>9, ListsAndHands DEF IInv, Headers, PoppedFit, r
  <2>4. ListsFit'
    BY <1>1, <1>3, <1>4, <1>5, <1>7, <1>8, <1>9, ListsAndHands DEF IInv, Headers, ListsFit
  <2>5. QED
    BY <2>1, <2>2, <2>3, <2>4 DEF Headers
<1>11. Places'
  <2>1. \A q \in Pools : IsInjective(mFreeList'[q])
    BY <1>3, <1>7 DEF IInv, Places, ListsApart
  <2>2. SomePlace'
    BY <1>1, <1>3, <1>4, <1>5, <1>7, <1>8, <1>9, ListsAndHands DEF IInv, Places, SomePlace
  <2>3. HandsApart'
    <3>1. UNCHANGED holders
      BY <1>5
    <3>2. \A u \in Threads : pc'[u] \in {"popped", "release"} =>
             hand'[u] = b \/ (pc[u] \in {"popped", "release"} /\ hand'[u] = hand[u])
      BY <1>7
    <3>3. \A u \in Threads : pc'[u] \in {"popped", "release"} =>
             holders'[hand'[u]] = 0 /\ \A q \in Pools : hand'[u] \notin Entries(mFreeList'[q])
      BY <1>4, <1>8, <3>1, <3>2 DEF IInv, Places, HandsApart
    <3>4. \A u, v \in Threads :
            pc'[u] \in {"popped", "release"} /\ pc'[v] \in {"popped", "release"} /\ hand'[u] = hand'[v] => u = v
      BY <1>7, <1>9 DEF IInv, Places, HandsApart
    <3>5. QED
      BY <3>3, <3>4 DEF HandsApart
  <2>4. ListsApart'
    BY <2>1, <1>5, <1>8 DEF IInv, Places, ListsApart
  <2>5. QED
    BY <2>2, <2>3, <2>4 DEF Places
<1>12. QED
  BY <1>6, <1>10, <1>11 DEF IInv

LEMMA AllocateFromHeapKeepsIInv ==
  ASSUME IInv, NEW t \in Threads, NEW size \in Sizes, Allocate(t, size),
         mFreeList[PoolFor(RealSize(size))] = << >>
  PROVE  IInv'
<1> DEFINE r == RealSize(size)
           p == PoolFor(r)
           b == NextBlock
<1>1. /\ size \in Nat /\ r \in Wanted /\ r \in Nat /\ p \in Pools /\ p \in Nat \ {0} /\ Room(r) = p
      /\ r <= MAX_ALLOC_SIZE /\ pc[t] = "idle"
  BY SmallSize DEF Allocate
<1>2. /\ b \in Blocks /\ block[b] = NoBlock /\ holders[b] = 0
      /\ \A u \in Threads : pc[u] \in {"popped", "release"} => hand[u] # b
      /\ \A q \in Pools : b \notin Entries(mFreeList[q])
  BY NextBlockIsNowhere DEF Allocate
<1>3. /\ real' = [real EXCEPT ![t] = r] /\ pc' = [pc EXCEPT ![t] = "popped"]
      /\ hand' = [hand EXCEPT ![t] = b]
      /\ block' = [block EXCEPT ![b] = [cap |-> p, size |-> 0]]
      /\ asked' = [asked EXCEPT ![b] = size]
      /\ UNCHANGED <<status, mFreeList, mAllocCount, holders>>
  <2>1. hand' = [hand EXCEPT ![t] = b] /\ asked' = [asked EXCEPT ![hand'[t]] = size]
    BY DEF Allocate
  <2>2. hand'[t] = b
    BY <2>1 DEF IInv, Types
  <2>3. QED
    BY <2>1, <2>2 DEF Allocate, Goto
<1> HIDE DEF r, p, b
<1>4. Types'
  BY <1>1, <1>2, <1>3 DEF IInv, Types
<1>5. /\ \A u \in Threads : /\ real'[u] = IF u = t THEN r ELSE real[u]
                            /\ pc'[u] = IF u = t THEN "popped" ELSE pc[u]
                            /\ hand'[u] = IF u = t THEN b ELSE hand[u]
      /\ \A c \in Blocks : /\ asked'[c] = IF c = b THEN size ELSE asked[c]
                           /\ block'[c] = IF c = b THEN [cap |-> p, size |-> 0] ELSE block[c]
  BY <1>2, <1>3 DEF IInv, Types
<1>6. Headers'
  <2>1. HeldFit' /\ PushedFit'
    BY <1>1, <1>2, <1>3, <1>5, ListsAndHands DEF IInv, Headers, HeldFit, PushedFit
  <2>2. HandsFit'
    BY <1>1, <1>2, <1>3, <1>5, ListsAndHands DEF IInv, Headers, HandsFit
  <2>3. PoppedFit'
    BY <1>1, <1>2, <1>3, <1>5, ListsAndHands DEF IInv, Headers, PoppedFit, r
  <2>4. ListsFit'
    <3>1. mFreeList' = mFreeList
      BY <1>3
    <3>2. QED
      BY <1>2, <1>5, <3>1, ListsAndHands DEF IInv, Headers, ListsFit
  <2>5. QED
    BY <2>1, <2>2, <2>3, <2>4 DEF Headers
<1>7. Places'
  <2>1. SomePlace'
    BY <1>1, <1>2, <1>3, <1>5, ListsAndHands DEF IInv, Places, SomePlace
  <2>2. HandsApart'
    BY <1>1, <1>2, <1>3, <1>5, ListsAndHands DEF IInv, Places, HandsApart
  <2>3. ListsApart'
    BY <1>3 DEF IInv, Places, ListsApart
  <2>4. QED
    BY <2>1, <2>2, <2>3 DEF Places
<1>8. QED
  BY <1>4, <1>6, <1>7 DEF IInv

LEMMA AttachKeepsIInv ==
  ASSUME IInv, NEW t \in Threads, Attach(t)
  PROVE  IInv'
<1> DEFINE b == hand[t]
           r == real[t]
<1>1. /\ pc[t] = "popped" /\ b \in Blocks /\ r \in Wanted /\ r <= MAX_ALLOC_SIZE
      /\ block[b] = [cap |-> Room(r), size |-> 0]
      /\ asked[b] \in Sizes /\ r = RealSize(asked[b]) /\ holders[b] = 0
      /\ \A p \in Pools : b \notin Entries(mFreeList[p])
      /\ \A u \in Threads : u # t /\ pc[u] \in {"popped", "release"} => hand[u] # b
  BY DEF Attach, IInv, Headers, HandsFit, PoppedFit, Places, HandsApart
<1>2. PoolFor(r) \in Pools /\ r \in Nat
  BY <1>1, WantedFacts
<1>3. /\ pc' = [pc EXCEPT ![t] = "idle"] /\ hand' = [hand EXCEPT ![t] = 0]
      /\ real' = [real EXCEPT ![t] = 0]
      /\ mAllocCount' = [mAllocCount EXCEPT ![PoolFor(r)] = @ + 1]
      /\ block' = [block EXCEPT ![b].size = r]
      /\ holders' = [holders EXCEPT ![b] = 1]
      /\ UNCHANGED <<status, mFreeList, asked>>
  BY <1>1 DEF Attach, Return, Goto, IInv, Types
<1> HIDE DEF b, r
<1>4. Types'
  BY <1>1, <1>2, <1>3 DEF IInv, Types
<1>5. /\ \A u \in Threads : /\ pc'[u] = IF u = t THEN "idle" ELSE pc[u]
                            /\ u # t => hand'[u] = hand[u] /\ real'[u] = real[u]
      /\ \A c \in Blocks : /\ block'[c] = IF c = b THEN [cap |-> Room(r), size |-> r] ELSE block[c]
                           /\ holders'[c] = IF c = b THEN 1 ELSE holders[c]
  BY <1>1, <1>3 DEF IInv, Types
<1>6. Headers'
  <2>1. HeldFit'
    BY <1>1, <1>3, <1>5 DEF IInv, Headers, HeldFit
  <2>2. HandsFit'
    BY <1>1, <1>5 DEF IInv, Headers, HandsFit
  <2>3. PoppedFit' /\ PushedFit'
    BY <1>1, <1>3, <1>5 DEF IInv, Headers, PoppedFit, PushedFit
  <2>4. ListsFit'
    <3>1. mFreeList' = mFreeList /\ \A p \in Pools : b \notin Entries(mFreeList[p])
      BY <1>1, <1>3
    <3>2. QED
      BY <1>5, <3>1, ListsAndHands DEF IInv, Headers, ListsFit
  <2>5. QED
    BY <2>1, <2>2, <2>3, <2>4 DEF Headers
<1>7. Places'
  <2>1. SomePlace'
    <3>1. \A u \in Threads : pc[u] \in {"popped", "release"} /\ hand[u] # b =>
             pc'[u] \in {"popped", "release"} /\ hand'[u] = hand[u]
      BY <1>5 DEF b
    <3>2. QED
      BY <1>3, <1>5, <3>1 DEF IInv, Places, SomePlace
  <2>2. HandsApart'
    BY <1>1, <1>3, <1>5, ListsAndHands DEF IInv, Places, HandsApart
  <2>3. ListsApart'
    <3>1. mFreeList' = mFreeList /\ \A p \in Pools : b \notin Entries(mFreeList[p])
      BY <1>1, <1>3
    <3>2. \A p \in Pools : \A c \in Entries(mFreeList[p]) : holders'[c] = holders[c]
      BY <1>5, <3>1, ListsAndHands
    <3>3. ListsApart
      BY DEF IInv, Places
    <3>4. QED
      BY <3>1, <3>2, <3>3 DEF ListsApart
  <2>4. QED
    BY <2>1, <2>2, <2>3 DEF Places
<1>8. QED
  BY <1>4, <1>6, <1>7 DEF IInv

LEMMA DeallocateKeepsIInv ==
  ASSUME IInv, NEW t \in Threads, NEW b \in Blocks, Deallocate(t, b)
  PROVE  IInv'
<1> DEFINE r == block[b].size
<1>1. holders[b] = 1 /\ pc[t] = "idle"
  BY DEF Deallocate, IInv, Types
<1>2. block[b] = [cap |-> Room(r), size |-> r] /\ r \in Wanted
  <2>1. PICK q \in Wanted : block[b] = [cap |-> Room(q), size |-> q]
    BY <1>1 DEF IInv, Headers, HeldFit, Wanted
  <2>2. QED
    BY <2>1
<1>3. r \in Nat \ {0}
  BY <1>2, WantedFacts
<1>4. /\ \A u \in Threads : pc[u] \in {"popped", "release"} => hand[u] # b
      /\ \A p \in Pools : b \notin Entries(mFreeList[p])
  BY <1>1 DEF IInv, Places, HandsApart, ListsApart
<1>5. /\ pc' = [pc EXCEPT ![t] = "release"] /\ hand' = [hand EXCEPT ![t] = b]
      /\ real' = [real EXCEPT ![t] = r]
      /\ block' = [block EXCEPT ![b].size = 0]
      /\ holders' = [holders EXCEPT ![b] = 0] /\ asked' = [asked EXCEPT ![b] = 0]
      /\ UNCHANGED <<status, mFreeList, mAllocCount>>
  BY <1>1, <1>3 DEF Deallocate, Goto, IInv, Types
<1> HIDE DEF r
<1>6. Types'
  BY <1>1, <1>3, <1>5 DEF IInv, Types
<1>7. /\ \A u \in Threads : /\ pc'[u] = IF u = t THEN "release" ELSE pc[u]
                            /\ hand'[u] = IF u = t THEN b ELSE hand[u]
                            /\ real'[u] = IF u = t THEN r ELSE real[u]
      /\ \A c \in Blocks : /\ block'[c] = IF c = b THEN [cap |-> Room(r), size |-> 0] ELSE block[c]
                           /\ holders'[c] = IF c = b THEN 0 ELSE holders[c]
                           /\ asked'[c] = IF c = b THEN 0 ELSE asked[c]
  BY <1>1, <1>2, <1>5 DEF IInv, Types
<1>8. Headers'
  <2>1. HeldFit'
    BY <1>7 DEF IInv, Headers, HeldFit
  <2>2. HandsFit'
    BY <1>2, <1>4, <1>7 DEF IInv, Headers, HandsFit
  <2>3. PoppedFit' /\ PushedFit'
    BY <1>4, <1>7, ListsAndHands DEF IInv, Headers, PoppedFit, PushedFit
  <2>4. ListsFit'
    BY <1>4, <1>5, <1>7, ListsAndHands DEF IInv, Headers, ListsFit
  <2>5. QED
    BY <2>1, <2>2, <2>3, <2>4 DEF Headers
<1>9. Places'
  <2>1. SomePlace'
    <3>1. \A u \in Threads : pc[u] \in {"popped", "release"} =>
             pc'[u] \in {"popped", "release"} /\ hand'[u] = hand[u]
      BY <1>1, <1>7
    <3>2. pc'[t] \in {"popped", "release"} /\ hand'[t] = b
      BY <1>7
    <3>3. QED
      BY <1>5, <1>7, <3>1, <3>2 DEF IInv, Places, SomePlace
  <2>2. HandsApart'
    BY <1>4, <1>5, <1>7, ListsAndHands DEF IInv, Places, HandsApart
  <2>3. ListsApart'
    <3>1. mFreeList' = mFreeList
      BY <1>5
    <3>2. QED
      BY <1>4, <1>7, <3>1, ListsAndHands DEF IInv, Places, ListsApart
  <2>4. QED
    BY <2>1, <2>2, <2>3 DEF Places
<1>10. QED
  BY <1>6, <1>8, <1>9 DEF IInv

LEMMA FreeLargeKeepsIInv ==
  ASSUME IInv, NEW t \in Threads, FreeLarge(t)
  PROVE  IInv'
<1> DEFINE b == hand[t]
<1>1. /\ b \in Blocks /\ holders[b] = 0
      /\ \A p \in Pools : b \notin Entries(mFreeList[p])
      /\ \A u \in Threads : u # t /\ pc[u] \in {"popped", "release"} => hand[u] # b
  BY DEF FreeLarge, IInv, Headers, HandsFit, Places, HandsApart
<1>2. /\ pc' = [pc EXCEPT ![t] = "idle"] /\ hand' = [hand EXCEPT ![t] = 0]
      /\ real' = [real EXCEPT ![t] = 0]
      /\ block' = [block EXCEPT ![b] = NoBlock]
      /\ UNCHANGED <<status, mFreeList, mAllocCount, holders, asked>>
  BY DEF FreeLarge, Return, Goto
<1> HIDE DEF b
<1>3. Types'
  BY <1>1, <1>2 DEF IInv, Types, NoBlock
<1>4. /\ \A u \in Threads : /\ pc'[u] = IF u = t THEN "idle" ELSE pc[u]
                            /\ u # t => hand'[u] = hand[u] /\ real'[u] = real[u]
      /\ \A c \in Blocks : block'[c] = IF c = b THEN NoBlock ELSE block[c]
  BY <1>1, <1>2 DEF IInv, Types
<1>5. mFreeList' = mFreeList /\ holders' = holders /\ asked' = asked
  BY <1>2
<1>6. Headers'
  <2>1. HeldFit'
    BY <1>1, <1>4, <1>5 DEF IInv, Headers, HeldFit
  <2>2. HandsFit'
    BY <1>1, <1>4 DEF IInv, Headers, HandsFit
  <2>3. PoppedFit' /\ PushedFit'
    BY <1>4, <1>5 DEF IInv, Headers, PoppedFit, PushedFit
  <2>4. ListsFit'
    BY <1>1, <1>4, <1>5, ListsAndHands DEF IInv, Headers, ListsFit
  <2>5. QED
    BY <2>1, <2>2, <2>3, <2>4 DEF Headers
<1>7. Places'
  <2>1. SomePlace'
    <3>1. \A u \in Threads : pc[u] \in {"popped", "release"} /\ hand[u] # b =>
             pc'[u] \in {"popped", "release"} /\ hand'[u] = hand[u]
      BY <1>4 DEF b
    <3>2. QED
      BY <1>4, <1>5, <3>1 DEF IInv, Places, SomePlace
  <2>2. HandsApart'
    BY <1>4, <1>5 DEF IInv, Places, HandsApart
  <2>3. ListsApart'
    BY <1>5 DEF IInv, Places, ListsApart
  <2>4. QED
    BY <2>1, <2>2, <2>3 DEF Places
<1>8. QED
  BY <1>3, <1>6, <1>7 DEF IInv

LEMMA PushKeepsIInv ==
  ASSUME IInv, NEW t \in Threads, Push(t)
  PROVE  IInv'
<1> DEFINE b == hand[t]
           p == PoolFor(real[t])
<1>1. /\ pc[t] = "release" /\ real[t] <= MAX_ALLOC_SIZE /\ real[t] \in Wanted
      /\ b \in Blocks /\ holders[b] = 0 /\ block[b] = [cap |-> Room(real[t]), size |-> 0]
      /\ \A q \in Pools : b \notin Entries(mFreeList[q])
      /\ \A u \in Threads : u # t /\ pc[u] \in {"popped", "release"} => hand[u] # b
  BY DEF Push, IInv, Headers, HandsFit, Places, HandsApart
<1>2. p \in Pools /\ block[b] = [cap |-> p, size |-> 0]
  BY <1>1, WantedFacts
<1>3. mFreeList[p] \in Seq(Blocks) /\ IsInjective(mFreeList[p]) /\ b \notin Entries(mFreeList[p])
  BY <1>1, <1>2 DEF IInv, Types, Places, ListsApart
<1>4. /\ <<b>> \o mFreeList[p] \in Seq(Blocks) /\ IsInjective(<<b>> \o mFreeList[p])
      /\ Entries(<<b>> \o mFreeList[p]) = Entries(mFreeList[p]) \cup {b}
  BY <1>1, <1>3, PushLemma
<1>5. /\ pc' = [pc EXCEPT ![t] = "pushed"]
      /\ mFreeList' = [mFreeList EXCEPT ![p] = <<b>> \o mFreeList[p]]
      /\ UNCHANGED <<status, mAllocCount, block, hand, real, holders, asked>>
  BY DEF Push, Goto
<1> HIDE DEF b, p
<1>6. Types'
  BY <1>1, <1>4, <1>5 DEF IInv, Types
<1>7. /\ \A u \in Threads : pc'[u] = IF u = t THEN "pushed" ELSE pc[u]
      /\ \A q \in Pools : mFreeList'[q] = IF q = p THEN <<b>> \o mFreeList[p] ELSE mFreeList[q]
  BY <1>2, <1>5 DEF IInv, Types
<1>8. \A q \in Pools : Entries(mFreeList'[q]) = Entries(mFreeList[q]) \cup (IF q = p THEN {b} ELSE {})
  BY <1>4, <1>7
<1>9. hand' = hand /\ real' = real /\ block' = block /\ holders' = holders /\ asked' = asked
  BY <1>5
<1>10. Headers'
  <2>1. HeldFit' /\ HandsFit' /\ PoppedFit'
    BY <1>7, <1>9 DEF IInv, Headers, HeldFit, HandsFit, PoppedFit
  <2>2. PushedFit'
    BY <1>1, <1>7, <1>9 DEF IInv, Headers, PushedFit
  <2>3. ListsFit'
    BY <1>2, <1>8, <1>9 DEF IInv, Headers, ListsFit
  <2>4. QED
    BY <2>1, <2>2, <2>3 DEF Headers
<1>11. Places'
  <2>1. SomePlace'
    <3>1. \A u \in Threads : pc[u] \in {"popped", "release"} /\ hand[u] # b => pc'[u] \in {"popped", "release"}
      BY <1>7 DEF b
    <3>2. b \in Entries(mFreeList'[p]) /\ \A q \in Pools : Entries(mFreeList[q]) \subseteq Entries(mFreeList'[q])
      BY <1>2, <1>8
    <3>3. QED
      BY <1>2, <1>9, <3>1, <3>2 DEF IInv, Places, SomePlace
  <2>2. HandsApart'
    BY <1>1, <1>7, <1>8, <1>9 DEF IInv, Places, HandsApart
  <2>3. ListsApart'
    <3>1. \A q \in Pools : IsInjective(mFreeList'[q])
      BY <1>4, <1>7 DEF IInv, Places, ListsApart
    <3>2. \A q \in Pools : \A c \in Entries(mFreeList'[q]) : holders'[c] = 0
      BY <1>1, <1>8, <1>9 DEF IInv, Places, ListsApart
    <3>3. \A q, s \in Pools : q # s => Entries(mFreeList'[q]) \cap Entries(mFreeList'[s]) = {}
      BY <1>1, <1>8 DEF IInv, Places, ListsApart
    <3>4. QED
      BY <3>1, <3>2, <3>3 DEF ListsApart
  <2>4. QED
    BY <2>1, <2>2, <2>3 DEF Places
<1>12. QED
  BY <1>6, <1>10, <1>11 DEF IInv

LEMMA PushedKeepsIInv ==
  ASSUME IInv, NEW t \in Threads, Pushed(t)
  PROVE  IInv'
<1>1. /\ pc' = [pc EXCEPT ![t] = "idle"] /\ hand' = [hand EXCEPT ![t] = 0]
      /\ real' = [real EXCEPT ![t] = 0]
      /\ mAllocCount' = [mAllocCount EXCEPT ![PoolFor(real[t])] = @ - 1]
      /\ UNCHANGED <<status, mFreeList, block, holders, asked>>
  BY DEF Pushed, Return, Goto
<1>2. Types'
  <2>1. PoolFor(real[t]) \in Pools
    BY WantedFacts DEF Pushed, IInv, Headers, PushedFit
  <2>2. QED
    BY <1>1, <2>1 DEF IInv, Types
<1>3. \A u \in Threads :
        pc'[u] # "idle" => pc'[u] = pc[u] /\ hand'[u] = hand[u] /\ real'[u] = real[u]
  BY <1>1 DEF IInv, Types
<1>4. \A u \in Threads : pc[u] \in {"popped", "release"} => pc'[u] = pc[u] /\ hand'[u] = hand[u]
  BY <1>1 DEF IInv, Types, Pushed
<1>5. mFreeList' = mFreeList /\ block' = block /\ holders' = holders /\ asked' = asked
  BY <1>1
<1>6. Headers'
  BY <1>3, <1>5 DEF IInv, Headers, HeldFit, HandsFit, PoppedFit, PushedFit, ListsFit
<1>7. Places'
  <2>1. SomePlace'
    BY <1>4, <1>5 DEF IInv, Places, SomePlace
  <2>2. HandsApart' /\ ListsApart'
    BY <1>3, <1>5 DEF IInv, Places, HandsApart, ListsApart
  <2>3. QED
    BY <2>1, <2>2 DEF Places
<1>8. QED
  BY <1>2, <1>6, <1>7 DEF IInv

LEMMA NextKeepsIInv == IInv /\ [Next]_vars => IInv'
<1> SUFFICES ASSUME IInv, [Next]_vars PROVE IInv'
  OBVIOUS
<1>1. CASE UNCHANGED vars
  BY <1>1 DEF vars, IInv, Types, Headers, HeldFit, HandsFit, PoppedFit, PushedFit, ListsFit,
     Places, SomePlace, HandsApart, ListsApart
<1>2. CASE Next
  <2>1. PICK t \in Threads :
          \/ \E size \in Sizes : AllocateLarge(t, size) \/ Allocate(t, size)
          \/ \E b \in Blocks : Deallocate(t, b)
          \/ Step(t)
    BY <1>2 DEF Next
  <2>2. ASSUME NEW size \in Sizes, Allocate(t, size) PROVE IInv'
    BY <2>2, AllocateFromPoolKeepsIInv, AllocateFromHeapKeepsIInv
  <2>3. QED
    BY <2>1, <2>2, AllocateLargeKeepsIInv, DeallocateKeepsIInv, AttachKeepsIInv,
       FreeLargeKeepsIInv, PushKeepsIInv, PushedKeepsIInv DEF Step
<1>3. QED
  BY <1>1, <1>2

-----------------------------------------------------------------------------
LEMMA InvariantHolds == Spec => []IInv
BY InitIInv, NextKeepsIInv, PTL DEF Spec

\* Neither assertion fails: a popped block carries the mark of a free one, a block
\* given back does not (MemoryPool.cpp:31, 118).
THEOREM AssertionsHold == Spec => []NeverCrashes
<1>1. IInv => NeverCrashes
  BY DEF IInv, Types, NeverCrashes
<1>2. QED
  BY <1>1, InvariantHolds, PTL

\* A block has room for its header and its object, and none of a smaller pool
\* would; the pool found by the size in the header is the pool the block came from
\* (MemoryPool.cpp:47-128).
THEOREM RoomForTheObject == Spec => []BlocksFit
<1>1. IInv => BlocksFit
  <2> SUFFICES ASSUME IInv PROVE BlocksFit
    OBVIOUS
  <2>1. ASSUME NEW b \in Held
        PROVE  /\ block[b].cap >= asked[b] + HeaderSize
               /\ \/ block[b].cap = asked[b] + HeaderSize
                  \/ \A p \in PoolSizes : p < block[b].cap => p < asked[b] + HeaderSize
    <3> DEFINE r == RealSize(asked[b])
    <3>1. block[b].cap = Room(r) /\ r \in Wanted
      <4>1. b \in Blocks /\ holders[b] = 1
        BY DEF Held, IInv, Types
      <4>2. asked[b] \in Sizes /\ block[b] = [cap |-> Room(r), size |-> r]
        BY <4>1 DEF IInv, Headers, HeldFit
      <4>3. QED
        BY <4>2 DEF Wanted
    <3>2. r = asked[b] + HeaderSize
      BY DEF RealSize
    <3> HIDE DEF r
    <3>3. Room(r) >= r /\ (r > MAX_ALLOC_SIZE => Room(r) = r) /\ r \in Nat \ {0}
      BY <3>1, WantedFacts DEF Room, MAX_ALLOC_SIZE
    <3>4. CASE r <= MAX_ALLOC_SIZE
      <4>1. r \in 1..MAX_ALLOC_SIZE
        BY <3>3, <3>4 DEF MAX_ALLOC_SIZE
      <4>2. Room(r) = PoolFor(r) /\ \A p \in PoolSizes : p < PoolFor(r) => p < r
        BY <3>4, <4>1, TableCovers DEF Room
      <4>3. QED
        BY <3>1, <3>2, <3>3, <4>2
    <3>5. CASE r > MAX_ALLOC_SIZE
      BY <3>1, <3>2, <3>3, <3>5
    <3>6. QED
      BY <3>3, <3>4, <3>5 DEF MAX_ALLOC_SIZE
  <2>2. \A p \in Pools : \A b \in InPool(p) : block[b] = [cap |-> p, size |-> 0]
    BY DEF InPool, Entries, IInv, Headers, ListsFit
  <2>3. QED
    BY <2>1, <2>2 DEF BlocksFit
<1>2. QED
  BY <1>1, InvariantHolds, PTL

\* A block is never in two places, and never in none: it is with its holder, in
\* the hand of one thread, or once in the list of one pool.
THEOREM NoBlockIsLost == Spec => []BlocksAreSomewhere
<1>1. IInv => BlocksAreSomewhere
  <2> SUFFICES ASSUME IInv PROVE BlocksAreSomewhere
    OBVIOUS
  <2> DEFINE kept == UNION {InPool(p) : p \in Pools}
  <2>1. \A p \in Pools : InPool(p) = Entries(mFreeList[p])
    BY DEF InPool, Entries
  <2>2. \A b : b \in kept <=> \E p \in Pools : b \in Entries(mFreeList[p])
    BY <2>1
  <2>3. \A b : b \in InHand <=> \E t \in Threads : pc[t] \in {"popped", "release"} /\ hand[t] = b
    BY DEF InHand, Carrying
  <2>4. \A b : b \in Held <=> b \in Blocks /\ holders[b] = 1
    BY DEF Held, IInv, Types
  <2> HIDE DEF kept
  <2>5. \A b \in Blocks \ Unallocated : b \in Held \cup InHand \cup kept
    BY <2>2, <2>3, <2>4 DEF IInv, Places, SomePlace, Unallocated
  <2>6. ASSUME NEW b \in Held \cup InHand \cup kept PROVE b \in Blocks /\ b \notin Unallocated
    <3>1. b \in Blocks
      BY <2>2, <2>3, <2>4, <2>6, ListsAndHands
    <3>2. b \notin Unallocated
      BY <2>2, <2>3, <2>4, <2>6, UnallocatedIsNowhere
    <3>3. QED
      BY <3>1, <3>2
  <2>7. Held \cap InHand = {} /\ (Held \cup InHand) \cap kept = {}
    BY <2>2, <2>3, <2>4 DEF IInv, Places, HandsApart, ListsApart
  <2>8. \A t, u \in Carrying : hand[t] = hand[u] => t = u
    BY DEF Carrying, IInv, Places, HandsApart
  <2>9. /\ \A p, q \in Pools : p # q => InPool(p) \cap InPool(q) = {}
        /\ \A p \in Pools : IsInjective(mFreeList[p])
    BY <2>1 DEF IInv, Places, ListsApart
  <2>10. QED
    BY <2>5, <2>6, <2>7, <2>8, <2>9 DEF BlocksAreSomewhere, kept, Unallocated
<1>2. QED
  BY <1>1, InvariantHolds, PTL

-----------------------------------------------------------------------------
\* Attach and a large allocation hand a block out, Deallocate takes it back; no other
\* step shows.
LEMMA StepIsAllocatorStep ==
  ASSUME IInv, [Next]_vars
  PROVE  [Allocator!AllocatorNext]_holders
<1>1. ASSUME NEW b \in Blocks, holders[b] = 0, holders' = [holders EXCEPT ![b] = @ + 1]
      PROVE  Allocator!AllocatorNext
  <2>1. holders[b] + 1 = 1
    BY <1>1
  <2>2. holders' = [holders EXCEPT ![b] = 1]
    BY <1>1, <2>1
  <2>3. QED
    BY <1>1, <2>2 DEF Allocator!AllocatorNext, Allocator!Allocate
<1>2. CASE UNCHANGED vars
  BY <1>2 DEF vars
<1>3. ASSUME NEW t \in Threads, NEW size \in Sizes, AllocateLarge(t, size)
      PROVE  Allocator!AllocatorNext
  <2>1. NextBlock \in Blocks /\ holders[NextBlock] = 0
    BY <1>3, NextBlockIsNowhere DEF AllocateLarge
  <2>2. QED
    BY <1>1, <1>3, <2>1 DEF AllocateLarge
<1>4. ASSUME NEW t \in Threads, Attach(t)
      PROVE  Allocator!AllocatorNext
  <2>1. hand[t] \in Blocks /\ holders[hand[t]] = 0
    BY <1>4 DEF Attach, IInv, Headers, HandsFit, Places, HandsApart
  <2>2. QED
    BY <1>1, <1>4, <2>1 DEF Attach
<1>5. ASSUME NEW t \in Threads, NEW b \in Blocks, Deallocate(t, b)
      PROVE  Allocator!AllocatorNext
  <2>1. holders[b] = 1 /\ holders' = [holders EXCEPT ![b] = @ - 1]
    BY <1>5 DEF Deallocate, IInv, Types
  <2>2. holders[b] - 1 = 0
    BY <2>1
  <2>3. QED
    BY <2>1, <2>2 DEF Allocator!AllocatorNext, Allocator!Free
<1>6. ASSUME NEW t \in Threads
      PROVE  /\ \A size \in Sizes : Allocate(t, size) => UNCHANGED holders
             /\ FreeLarge(t) \/ Push(t) \/ Pushed(t) => UNCHANGED holders
  BY DEF Allocate, FreeLarge, Push, Pushed
<1>7. QED
  BY <1>2, <1>3, <1>4, <1>5, <1>6 DEF Next, Step

\* The pools implement an allocator: who gets a block is its only holder until it
\* gives it back (MemoryPool.cpp:91-128).
THEOREM PoolsAllocate == Spec => ImplementsBlockAllocator
<1>1. Init => Allocator!AllocatorInit
  BY DEF Init, Allocator!AllocatorInit
<1>2. IInv /\ [Next]_vars => [Allocator!AllocatorNext]_holders
  BY StepIsAllocatorStep
<1>3. QED
  BY <1>1, <1>2, InvariantHolds, PTL DEF Spec, ImplementsBlockAllocator, Allocator!AllocatorSpec

-----------------------------------------------------------------------------
\* What mAllocCount counts: a pool's blocks with a holder, and those on their way
\* back until Push has counted them.
Counted(p) == {b \in Blocks : holders[b] = 1 /\ block[b].size <= MAX_ALLOC_SIZE /\ PoolFor(block[b].size) = p}
Leaving(p) == {t \in Threads : pc[t] \in {"release", "pushed"} /\ real[t] <= MAX_ALLOC_SIZE /\ PoolFor(real[t]) = p}

CountInv ==
  \A p \in Pools :
    IsFiniteSet(Leaving(p)) /\ mAllocCount[p] = Cardinality(Counted(p)) + Cardinality(Leaving(p))

LEMMA CountedIsFinite == \A p : IsFiniteSet(Counted(p)) /\ Cardinality(Counted(p)) \in Nat
<1>1. IsFiniteSet(Blocks)
  BY SizesAssumption, FS_Interval DEF Blocks
<1>2. QED
  BY <1>1, FS_Subset, FS_CardinalityType DEF Counted

LEMMA NextKeepsCountInv ==
  ASSUME IInv, CountInv, [Next]_vars
  PROVE  CountInv'
<1>1. ASSUME UNCHANGED mAllocCount, \A p \in Pools : Counted(p)' = Counted(p) /\ Leaving(p)' = Leaving(p)
      PROVE  CountInv'
  BY <1>1 DEF CountInv
<1>2. CASE UNCHANGED vars
  BY <1>1, <1>2 DEF vars, Counted, Leaving
<1>3. ASSUME NEW t \in Threads, NEW size \in Sizes, AllocateLarge(t, size)
      PROVE  CountInv'
  <2>1. /\ NextBlock \in Blocks /\ holders[NextBlock] = 0
    BY <1>3, NextBlockIsNowhere DEF AllocateLarge
  <2>2. RealSize(size) \in Nat /\ ~(RealSize(size) <= MAX_ALLOC_SIZE)
    BY <1>3, SizesAssumption DEF AllocateLarge, RealSize, HeaderSize, MAX_ALLOC_SIZE
  <2>3. \A b \in Blocks : /\ b # NextBlock => holders'[b] = holders[b] /\ block'[b] = block[b]
                          /\ b = NextBlock => block'[b].size = RealSize(size)
    BY <1>3, <2>1 DEF AllocateLarge, IInv, Types
  <2>4. \A p \in Pools : Counted(p)' = Counted(p)
    BY <2>1, <2>2, <2>3 DEF Counted
  <2>5. QED
    BY <1>1, <1>3, <2>4 DEF AllocateLarge, Leaving
<1>4. ASSUME NEW t \in Threads, NEW size \in Sizes, Allocate(t, size)
      PROVE  CountInv'
  <2>1. \A b \in Blocks : holders[b] = 1 => block'[b] = block[b]
    <3>1. CASE UNCHANGED block
      BY <3>1
    <3>2. CASE /\ Unallocated # {}
               /\ block' = [block EXCEPT ![NextBlock] = [cap |-> PoolFor(RealSize(size)), size |-> 0]]
      BY <3>2, NextBlockIsNowhere DEF IInv, Types
    <3>3. QED
      BY <1>4, <3>1, <3>2 DEF Allocate
  <2>2. \A p \in Pools : Counted(p)' = Counted(p)
    BY <1>4, <2>1 DEF Allocate, Counted
  <2>3. \A u \in Threads : /\ u # t => pc'[u] = pc[u] /\ real'[u] = real[u]
                           /\ u = t => pc[u] = "idle" /\ pc'[u] = "popped"
    BY <1>4 DEF Allocate, Goto, IInv, Types
  <2>4. \A p \in Pools : Leaving(p)' = Leaving(p)
    BY <2>3 DEF Leaving
  <2>5. QED
    BY <1>1, <1>4, <2>2, <2>4 DEF Allocate
<1>5. ASSUME NEW t \in Threads, Attach(t)
      PROVE  CountInv'
  <2> DEFINE b == hand[t]
             r == real[t]
  <2>1. /\ b \in Blocks /\ holders[b] = 0 /\ r \in Wanted /\ r \in Nat /\ r <= MAX_ALLOC_SIZE
        /\ PoolFor(r) \in Pools
    BY <1>5, WantedFacts DEF Attach, IInv, Types, Headers, HandsFit, PoppedFit, Places, HandsApart
  <2>2. \A c \in Blocks : /\ c # b => holders'[c] = holders[c] /\ block'[c] = block[c]
                          /\ c = b => holders'[c] = 1 /\ block'[c].size = r
    BY <1>5, <2>1 DEF Attach, IInv, Types
  <2>3. \A p \in Pools : Counted(p)' = Counted(p) \cup (IF p = PoolFor(r) THEN {b} ELSE {})
    BY <2>1, <2>2 DEF Counted
  <2>4. \A p \in Pools : Leaving(p)' = Leaving(p)
    <3>1. \A u \in Threads : /\ u # t => pc'[u] = pc[u] /\ real'[u] = real[u]
                             /\ u = t => pc[u] = "popped" /\ pc'[u] = "idle"
      BY <1>5 DEF Attach, Return, Goto, IInv, Types
    <3>2. QED
      BY <3>1 DEF Leaving
  <2>5. \A p \in Pools : mAllocCount'[p] = IF p = PoolFor(r) THEN mAllocCount[p] + 1 ELSE mAllocCount[p]
    BY <1>5 DEF Attach, IInv, Types
  <2> HIDE DEF b, r
  <2>6. \A p \in Pools : b \notin Counted(p)
    BY <2>1 DEF Counted
  <2>7. ASSUME NEW p \in Pools
        PROVE  Cardinality(Counted(p)') = IF p = PoolFor(r) THEN Cardinality(Counted(p)) + 1
                                          ELSE Cardinality(Counted(p))
    <3>1. CASE p = PoolFor(r)
      BY <2>3, <2>6, <3>1, CountedIsFinite, FS_AddElement
    <3>2. CASE p # PoolFor(r)
      BY <2>3, <3>2
    <3>3. QED
      BY <3>1, <3>2
  <2>8. ASSUME NEW p \in Pools
        PROVE  IsFiniteSet(Leaving(p)') /\ mAllocCount'[p] = Cardinality(Counted(p)') + Cardinality(Leaving(p)')
    <3>1. IsFiniteSet(Leaving(p)) /\ mAllocCount[p] = Cardinality(Counted(p)) + Cardinality(Leaving(p))
      BY DEF CountInv
    <3>2. Cardinality(Leaving(p)) \in Nat /\ Cardinality(Counted(p)) \in Nat
      BY <3>1, FS_CardinalityType, CountedIsFinite
    <3>3. QED
      BY <2>4, <2>5, <2>7, <3>1, <3>2
  <2>9. QED
    BY <2>8 DEF CountInv
<1>6. ASSUME NEW t \in Threads, NEW b \in Blocks, Deallocate(t, b)
      PROVE  CountInv'
  <2> DEFINE r == block[b].size
             Small(p) == r <= MAX_ALLOC_SIZE /\ p = PoolFor(r)
  <2>1. holders[b] = 1 /\ pc[t] = "idle"
    BY <1>6 DEF Deallocate, IInv, Types
  <2>2. \A c \in Blocks : /\ c # b => holders'[c] = holders[c] /\ block'[c] = block[c]
                          /\ c = b => holders'[c] = 0
    BY <1>6, <2>1 DEF Deallocate, IInv, Types
  <2>3. \A u \in Threads : /\ u # t => pc'[u] = pc[u] /\ real'[u] = real[u]
                           /\ u = t => pc'[u] = "release" /\ real'[u] = r
    BY <1>6 DEF Deallocate, Goto, IInv, Types
  <2>4. \A p \in Pools : /\ Counted(p)' = Counted(p) \ (IF Small(p) THEN {b} ELSE {})
                         /\ Small(p) => b \in Counted(p)
    BY <2>1, <2>2 DEF Counted
  <2>5. \A p \in Pools : /\ Leaving(p)' = Leaving(p) \cup (IF Small(p) THEN {t} ELSE {})
                         /\ t \notin Leaving(p)
    BY <2>1, <2>3 DEF Leaving
  <2> HIDE DEF Small, r
  <2>6. ASSUME NEW p \in Pools
        PROVE  IsFiniteSet(Leaving(p)') /\ mAllocCount'[p] = Cardinality(Counted(p)') + Cardinality(Leaving(p)')
    <3>1. /\ IsFiniteSet(Leaving(p)) /\ mAllocCount[p] = Cardinality(Counted(p)) + Cardinality(Leaving(p))
          /\ mAllocCount' = mAllocCount
      BY <1>6 DEF CountInv, Deallocate
    <3>2. Cardinality(Leaving(p)) \in Nat /\ Cardinality(Counted(p)) \in Nat /\ IsFiniteSet(Counted(p))
      BY <3>1, FS_CardinalityType, CountedIsFinite
    <3>3. CASE ~Small(p)
      BY <2>4, <2>5, <3>1, <3>3
    <3>4. CASE Small(p)
      <4>1. Cardinality(Counted(p)') = Cardinality(Counted(p)) - 1
        BY <2>4, <3>2, <3>4, FS_RemoveElement
      <4>2. IsFiniteSet(Leaving(p)') /\ Cardinality(Leaving(p)') = Cardinality(Leaving(p)) + 1
        BY <2>5, <3>1, <3>4, FS_AddElement
      <4>3. QED
        BY <3>1, <3>2, <4>1, <4>2
    <3>5. QED
      BY <3>3, <3>4
  <2>7. QED
    BY <2>6 DEF CountInv
<1>7. ASSUME NEW t \in Threads, FreeLarge(t)
      PROVE  CountInv'
  <2>1. hand[t] \in Blocks /\ holders[hand[t]] = 0 /\ real[t] \in Nat
    BY <1>7 DEF FreeLarge, IInv, Types, Headers, HandsFit, Places, HandsApart
  <2>2. \A c \in Blocks : holders'[c] = holders[c] /\ (c # hand[t] => block'[c] = block[c])
    BY <1>7 DEF FreeLarge, IInv, Types
  <2>3. \A p \in Pools : Counted(p)' = Counted(p)
    BY <2>1, <2>2 DEF Counted
  <2>4. ~(real[t] <= MAX_ALLOC_SIZE) /\ pc'[t] = "idle"
    BY <1>7, <2>1 DEF FreeLarge, Return, Goto, MAX_ALLOC_SIZE, IInv, Types
  <2>5. \A u \in Threads : u # t => pc'[u] = pc[u] /\ real'[u] = real[u]
    BY <1>7 DEF FreeLarge, Return, Goto, IInv, Types
  <2>6. \A p \in Pools : Leaving(p)' = Leaving(p)
    BY <2>4, <2>5 DEF Leaving
  <2>7. QED
    BY <1>1, <1>7, <2>3, <2>6 DEF FreeLarge
<1>8. ASSUME NEW t \in Threads, Push(t)
      PROVE  CountInv'
  <2>1. \A u \in Threads : pc[u] \in {"release", "pushed"} <=> pc'[u] \in {"release", "pushed"}
    BY <1>8 DEF Push, Goto, IInv, Types
  <2>2. \A p \in Pools : Leaving(p)' = Leaving(p)
    BY <1>8, <2>1 DEF Push, Leaving
  <2>3. QED
    BY <1>1, <1>8, <2>2 DEF Push, Counted
<1>9. ASSUME NEW t \in Threads, Pushed(t)
      PROVE  CountInv'
  <2> DEFINE q == PoolFor(real[t])
  <2>1. q \in Pools /\ real[t] <= MAX_ALLOC_SIZE /\ pc[t] = "pushed"
    BY <1>9, WantedFacts DEF Pushed, IInv, Headers, PushedFit
  <2>2. /\ pc'[t] = "idle"
        /\ \A u \in Threads : u # t => pc'[u] = pc[u] /\ real'[u] = real[u]
    BY <1>9 DEF Pushed, Return, Goto, IInv, Types
  <2>3. \A p \in Pools : /\ Leaving(p)' = Leaving(p) \ (IF p = q THEN {t} ELSE {})
                         /\ p = q => t \in Leaving(p)
    BY <2>1, <2>2 DEF Leaving
  <2>4. \A p \in Pools : Counted(p)' = Counted(p)
    BY <1>9 DEF Pushed, Counted
  <2>5. \A p \in Pools : mAllocCount'[p] = IF p = q THEN mAllocCount[p] - 1 ELSE mAllocCount[p]
    BY <1>9 DEF Pushed, IInv, Types
  <2> HIDE DEF q
  <2>6. ASSUME NEW p \in Pools
        PROVE  IsFiniteSet(Leaving(p)') /\ mAllocCount'[p] = Cardinality(Counted(p)') + Cardinality(Leaving(p)')
    <3>1. IsFiniteSet(Leaving(p)) /\ mAllocCount[p] = Cardinality(Counted(p)) + Cardinality(Leaving(p))
      BY DEF CountInv
    <3>2. Cardinality(Leaving(p)) \in Nat /\ Cardinality(Counted(p)) \in Nat
      BY <3>1, FS_CardinalityType, CountedIsFinite
    <3>3. CASE p # q
      BY <2>3, <2>4, <2>5, <3>1, <3>3
    <3>4. CASE p = q
      <4>1. IsFiniteSet(Leaving(p)') /\ Cardinality(Leaving(p)') = Cardinality(Leaving(p)) - 1
        BY <2>3, <3>1, <3>4, FS_RemoveElement
      <4>2. QED
        BY <2>4, <2>5, <3>1, <3>2, <3>4, <4>1
    <3>5. QED
      BY <3>3, <3>4
  <2>7. QED
    BY <2>6 DEF CountInv
<1>10. QED
  BY <1>2, <1>3, <1>4, <1>5, <1>6, <1>7, <1>8, <1>9 DEF Next, Step

\* The types; above all, no pool ever counts fewer than no blocks in use, although
\* Pop and Push count after the list has changed (MemoryPool.cpp:34, 42).
THEOREM TypesAndCounts == Spec => []TypeOK
<1>1. Init => CountInv
  <2> SUFFICES ASSUME Init, NEW p \in Pools
               PROVE  IsFiniteSet(Leaving(p)) /\ mAllocCount[p] = Cardinality(Counted(p)) + Cardinality(Leaving(p))
    BY DEF CountInv
  <2>1. Counted(p) = {} /\ Leaving(p) = {} /\ mAllocCount[p] = 0
    BY DEF Init, Counted, Leaving
  <2>2. QED
    BY <2>1, FS_EmptySet
<1>2. IInv /\ CountInv /\ [Next]_vars => CountInv'
  BY NextKeepsCountInv
<1>3. IInv /\ CountInv => TypeOK
  <2> SUFFICES ASSUME IInv, CountInv PROVE TypeOK
    OBVIOUS
  <2>1. \A p \in Pools : mAllocCount[p] \in Nat
    BY CountedIsFinite, FS_CardinalityType DEF CountInv
  <2>2. mAllocCount \in [Pools -> Nat]
    BY <2>1 DEF IInv, Types
  <2>3. holders \in [Blocks -> Nat]
    <3>1. holders \in [Blocks -> {0, 1}]
      BY DEF IInv, Types
    <3>2. QED
      BY <3>1
  <2>4. QED
    BY <2>2, <2>3 DEF IInv, Types, TypeOK
<1>4. QED
  BY <1>1, <1>2, <1>3, InvariantHolds, PTL DEF Spec
=============================================================================
