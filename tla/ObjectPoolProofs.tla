-------------------------- MODULE ObjectPoolProofs --------------------------
(***************************************************************************)
(* The write lock of Homework4 excludes, in the object pool that uses it,  *)
(* for any number of threads that fits under LF_WRITE_MASK.  Under it the  *)
(* free list is a chain of exactly the blocks that nobody has, so that no  *)
(* block is handed out twice.                                              *)
(***************************************************************************)
EXTENDS ObjectPool, ListLemmas, FiniteSetTheorems, TLAPS

\* The threads whose flag is in mLockFlag: those in a critical section, and those
\* that have added theirs in vain and not yet taken it away.
Flagged == {t \in Threads : pc[t] \notin {"idle", "spin", "add"}}

\* mLockFlag counts them, and never comes near the end of the mask.
LockInv ==
  /\ pc = [t \in Threads |-> pc[t]]
  /\ mLockFlag = Cardinality(Flagged)
  /\ MutualExclusion

LEMMA FlaggedIsFinite ==
  IsFiniteSet(Flagged) /\ Cardinality(Flagged) \in Nat /\ Cardinality(Flagged) < MaskSize
<1>1. IsFiniteSet(Flagged) /\ Cardinality(Flagged) <= Cardinality(Threads)
  BY LockAssumption, FS_Subset DEF Flagged
<1>2. QED
  BY <1>1, LockAssumption, FS_CardinalityType

\* On small numbers the arithmetic of the lock word is that of numbers.
LEMMA SmallFlag ==
  ASSUME NEW a \in Nat, a < MaskSize
  PROVE  a % (2 * MaskSize) = a /\ Masked(a) = a
  BY LockAssumption DEF Masked

\* A thread that stays flagged, or stays unflagged, leaves the count alone.
LEMMA MoveKeepsLockInv ==
  ASSUME LockInv, NEW t \in Threads, NEW label,
         pc' = [pc EXCEPT ![t] = label], UNCHANGED mLockFlag,
         (pc[t] \in {"idle", "spin", "add"}) <=> (label \in {"idle", "spin", "add"}),
         InCriticalSection(t)' => InCriticalSection(t)
  PROVE  LockInv'
<1>1. pc' = [u \in Threads |-> pc'[u]]
  BY DEF LockInv
<1>2. \A u \in Threads : pc'[u] = IF u = t THEN label ELSE pc[u]
  BY DEF LockInv
<1>3. Flagged' = Flagged
  BY <1>2 DEF Flagged
<1>4. \A u \in Threads : InCriticalSection(u)' => InCriticalSection(u)
  BY <1>2 DEF InCriticalSection
<1>5. QED
  BY <1>1, <1>3, <1>4 DEF LockInv, MutualExclusion

\* The first to add its flag to nothing is alone: nobody else's is there.
LEMMA AddKeepsLockInv ==
  ASSUME LockInv, NEW t \in Threads, Add(t)
  PROVE  LockInv'
<1> DEFINE label == IF Masked(mLockFlag') = 1 THEN "locked" ELSE "retract"
<1>1. pc[t] = "add" /\ pc' = [pc EXCEPT ![t] = label]
  BY DEF Add, Goto
<1>2. pc' = [u \in Threads |-> pc'[u]] /\ \A u \in Threads : pc'[u] = IF u = t THEN label ELSE pc[u]
  BY <1>1 DEF LockInv
<1>3. Flagged' = Flagged \cup {t} /\ t \notin Flagged
  BY <1>1, <1>2 DEF Flagged
<1>4. Cardinality(Flagged') = Cardinality(Flagged) + 1
  BY <1>3, FlaggedIsFinite, FS_AddElement
<1>5. Cardinality(Flagged') < MaskSize
  <2>1. Flagged' \subseteq Threads
    BY DEF Flagged
  <2>2. QED
    BY <2>1, LockAssumption, FS_Subset, FS_CardinalityType
<1>6. mLockFlag' = Cardinality(Flagged') /\ Masked(mLockFlag') = mLockFlag'
  <2>1. mLockFlag' = Cardinality(Flagged') % (2 * MaskSize)
    BY <1>4 DEF Add, Plus, LockInv
  <2>2. Cardinality(Flagged') \in Nat
    BY <1>4, FlaggedIsFinite
  <2>3. QED
    BY <2>1, <2>2, <1>5, SmallFlag
<1>7. MutualExclusion'
  <2>1. CASE mLockFlag' = 1
    <3>1. Flagged = {}
      BY <2>1, <1>4, <1>6, FlaggedIsFinite, FS_EmptySet
    <3>2. \A u \in Threads : InCriticalSection(u)' => u \in Flagged'
      BY DEF InCriticalSection, Entering, Flagged
    <3>3. QED
      BY <3>1, <3>2, <1>3 DEF MutualExclusion
  <2>2. CASE mLockFlag' # 1
    <3>1. \A u \in Threads : InCriticalSection(u)' => InCriticalSection(u)
      BY <2>2, <1>2, <1>6 DEF InCriticalSection, Entering
    <3>2. QED
      BY <3>1 DEF MutualExclusion, LockInv
  <2>3. QED
    BY <2>1, <2>2
<1>8. QED
  BY <1>2, <1>6, <1>7 DEF LockInv

\* Retract and LeaveWriteLock take a flag away.
LEMMA SubtractKeepsLockInv ==
  ASSUME LockInv, NEW t \in Threads, NEW label \in {"idle", "spin"},
         pc[t] \notin {"idle", "spin", "add"}, pc' = [pc EXCEPT ![t] = label],
         mLockFlag' = Plus(mLockFlag, -1)
  PROVE  LockInv'
<1>1. pc' = [u \in Threads |-> pc'[u]] /\ \A u \in Threads : pc'[u] = IF u = t THEN label ELSE pc[u]
  BY DEF LockInv
<1>2. Flagged' = Flagged \ {t} /\ t \in Flagged
  BY <1>1 DEF Flagged
<1>3. Cardinality(Flagged') = Cardinality(Flagged) - 1
  BY <1>2, FlaggedIsFinite, FS_RemoveElement
<1>4. Cardinality(Flagged') \in Nat /\ Cardinality(Flagged') < MaskSize
  <2>1. IsFiniteSet(Flagged')
    BY <1>2, FlaggedIsFinite, FS_Subset
  <2>2. Cardinality(Flagged') \in Nat
    BY <2>1, FS_CardinalityType
  <2>3. QED
    BY <2>2, <1>3, FlaggedIsFinite, LockAssumption
<1>5. mLockFlag' = Cardinality(Flagged')
  <2>1. mLockFlag' = Cardinality(Flagged') % (2 * MaskSize)
    BY <1>3, FlaggedIsFinite DEF Plus, LockInv
  <2>2. QED
    BY <2>1, <1>4, SmallFlag
<1>6. \A u \in Threads : InCriticalSection(u)' => InCriticalSection(u)
  BY <1>1 DEF InCriticalSection, Entering
<1>7. QED
  BY <1>1, <1>5, <1>6 DEF LockInv, MutualExclusion

\* The lock works for the pool's calls: every step of theirs is one of the three
\* kinds above.
LEMMA NextKeepsLockInv ==
  ASSUME LockInv, Next
  PROVE  LockInv'
<1>1. PICK t \in Threads : New(t) \/ (\E b \in Blocks : Delete(t, b)) \/ Step(t)
  BY DEF Next
<1>2. CASE New(t) \/ \E b \in Blocks : Delete(t, b)
  BY <1>2, MoveKeepsLockInv DEF New, Delete, Goto, InCriticalSection, Entering, LockInv
<1>3. CASE Spin(t)
  BY <1>3, MoveKeepsLockInv DEF Spin, Goto, InCriticalSection, Entering, LockInv
<1>4. CASE Add(t)
  BY <1>4, AddKeepsLockInv
<1>5. CASE Retract(t)
  BY <1>5, SubtractKeepsLockInv DEF Retract, Goto
<1>6. CASE Return(t)
  BY <1>6, SubtractKeepsLockInv DEF Return, LeaveWriteLock, Goto
<1>7. CASE Refill(t)
  BY <1>7 DEF Refill, lockVars, LockInv, Flagged, MutualExclusion, InCriticalSection
<1>8. CASE Look(t) \/ Take(t) \/ Link(t) \/ Give(t)
  BY <1>8, MoveKeepsLockInv
     DEF Look, Take, Link, Give, Goto, InCriticalSection, Entering, LockInv
<1>9. QED
  BY <1>1, <1>2, <1>3, <1>4, <1>5, <1>6, <1>7, <1>8 DEF Step, Lock, EnterWriteLock

\* No two threads are in operator new or delete of a type at once, for any number
\* of threads: whoever sees its own flag alone is alone, and a failed attempt
\* takes away no flag but its own.
THEOREM LockExcludes == Spec => []MutualExclusion
<1>1. Init => LockInv
  <2> SUFFICES ASSUME Init PROVE LockInv
    OBVIOUS
  <2>1. pc = [t \in Threads |-> "idle"] /\ mLockFlag = 0
    BY DEF Init, LockInit
  <2>2. Flagged = {} /\ \A t \in Threads : ~InCriticalSection(t)
    BY <2>1 DEF Flagged, InCriticalSection, Entering
  <2>3. QED
    BY <2>1, <2>2, FS_EmptySet DEF LockInv, MutualExclusion
<1>2. LockInv /\ [Next]_vars => LockInv'
  <2>1. ASSUME LockInv, UNCHANGED vars PROVE LockInv'
    BY <2>1 DEF vars, lockVars, LockInv, Flagged, MutualExclusion, InCriticalSection
  <2>2. QED
    BY <2>1, NextKeepsLockInv
<1>3. LockInv => MutualExclusion
  BY DEF LockInv
<1>4. QED
  BY <1>1, <1>2, <1>3, PTL DEF Spec

-----------------------------------------------------------------------------
\* A block is in a thread's hands from the start of operator delete until it is
\* the head of the list, and from the moment it is off the list until operator new
\* has returned it.
Out(t) ==
  \/ op[t] = "delete" /\ pc[t] # "leave"
  \/ op[t] = "new" /\ pc[t] = "leave"

\* The blocks that nobody has.
Free == {b \in 1..mTotalAllocCount : holders[b] = 0 /\ \A t \in Threads : Out(t) => obj[t] # b}

Types ==
  /\ status = "running"
  /\ pc \in [Threads -> {"idle", "spin", "add", "retract", "locked", "take", "give", "leave"}]
  /\ mFreeList \in Blocks \cup {Null}
  /\ mTotalAllocCount \in 0..(MaxInUse + AllocCount) /\ mCurrentUseCount \in Int
  /\ link \in [Blocks -> (0..mTotalAllocCount) \cup {Data}]
  /\ op \in [Threads -> {"none", "new", "delete"}]
  /\ obj \in [Threads -> Blocks \cup {Null}]
  /\ holders \in [Blocks -> {0, 1}]

\* What a thread knows at each point of a call.
Control ==
  \A t \in Threads :
    /\ pc[t] = "idle" <=> op[t] = "none"
    /\ pc[t] = "take" => op[t] = "new" /\ obj[t] = mFreeList /\ mFreeList # Null
    /\ pc[t] = "give" => op[t] = "delete" /\ link[obj[t]] = mFreeList

\* Blocks with a holder, or in hands, are of the pool; nobody else has them.
Apart ==
  /\ \A b \in Blocks : holders[b] = 1 => b \in 1..mTotalAllocCount
  /\ \A t \in Threads : Out(t) => obj[t] \in 1..mTotalAllocCount /\ holders[obj[t]] = 0
  /\ \A t, u \in Threads : Out(t) /\ Out(u) /\ obj[t] = obj[u] => t = u

\* The list runs through the free blocks, each of them once, and ends.
IsChain(list) ==
  /\ IsInjective(list) /\ Entries(list) = Free
  /\ mFreeList = IF list = << >> THEN Null ELSE Head(list)
  /\ \A i \in 1..Len(list) : link[list[i]] = IF i = Len(list) THEN Null ELSE list[i + 1]

Chained == \E list \in Seq(Blocks) : IsChain(list)

\* Nobody has more than the program uses, nor the pool counts.
Uses(t) == \/ op[t] = "delete" /\ pc[t] \notin {"give", "leave"}
           \/ op[t] = "new" /\ pc[t] = "leave"
Using == {t \in Threads : Uses(t)}

Counts ==
  /\ Cardinality(Held) + Cardinality(Callers) <= MaxInUse
  /\ mCurrentUseCount = Cardinality(Held) + Cardinality(Using)

\* The inductive invariant.
PoolInv == LockInv /\ Types /\ Control /\ Apart /\ Chained /\ Counts

-----------------------------------------------------------------------------
LEMMA Finite ==
  /\ IsFiniteSet(Held) /\ Cardinality(Held) \in Nat
  /\ IsFiniteSet(Callers) /\ Cardinality(Callers) \in Nat
  /\ IsFiniteSet(Using) /\ Cardinality(Using) \in Nat
<1>1. IsFiniteSet(Blocks)
  BY PoolAssumption, FS_Interval DEF Blocks
<1>2. IsFiniteSet(Held) /\ IsFiniteSet(Callers) /\ IsFiniteSet(Using)
  BY <1>1, LockAssumption, FS_Subset DEF Held, Callers, Using
<1>3. QED
  BY <1>2, FS_CardinalityType

LEMMA PoolNumbers ==
  /\ AllocCount \in Nat \ {0} /\ MaxInUse \in Nat \ {0} /\ Null \notin Blocks
  /\ Types => 1..mTotalAllocCount \subseteq Blocks
BY PoolAssumption DEF Blocks, Null, Types

LEMMA InitPoolInv == Init => PoolInv
<1> SUFFICES ASSUME Init PROVE PoolInv
  OBVIOUS
<1>1. LockInv
  <2>1. pc = [t \in Threads |-> "idle"] /\ mLockFlag = 0
    BY DEF Init, LockInit
  <2>2. Flagged = {} /\ \A t \in Threads : ~InCriticalSection(t)
    BY <2>1 DEF Flagged, InCriticalSection, Entering
  <2>3. QED
    BY <2>1, <2>2, FS_EmptySet DEF LockInv, MutualExclusion
<1>2. Types
  BY PoolAssumption DEF Init, LockInit, Types, Data, Null
<1>3. Control /\ Apart
  BY DEF Init, LockInit, Control, Apart, Out
<1>4. Chained
  <2>1. Free = {} /\ mFreeList = Null
    BY DEF Init, Free
  <2>2. << >> \in Seq(Blocks) /\ Len(<< >>) = 0
    OBVIOUS
  <2>3. \A i \in 1..Len(<< >>) : FALSE
    BY <2>2
  <2>4. IsChain(<< >>)
    BY <2>1, <2>3, EmptyLists DEF IsChain
  <2>5. QED
    BY <2>2, <2>4 DEF Chained
<1>5. Counts
  <2>1. Held = {} /\ Callers = {} /\ Using = {} /\ mCurrentUseCount = 0
    BY DEF Init, Held, Callers, Using, Uses
  <2>2. QED
    BY <2>1, FS_EmptySet, PoolAssumption DEF Counts
<1>6. QED
  BY <1>1, <1>2, <1>3, <1>4, <1>5 DEF PoolInv

-----------------------------------------------------------------------------
\* A step that changes neither the free blocks nor their links keeps the chain.
LEMMA ChainStays ==
  ASSUME Chained, mFreeList' = mFreeList, Free' = Free, \A b \in Free : link'[b] = link[b]
  PROVE  Chained'
<1>1. PICK list \in Seq(Blocks) : IsChain(list)
  BY DEF Chained
<1>2. \A i \in 1..Len(list) : list[i] \in Free
  BY <1>1 DEF IsChain, Entries
<1>3. IsChain(list)'
  BY <1>1, <1>2 DEF IsChain
<1>4. QED
  BY <1>3 DEF Chained

\* An empty list means that no block is free, and the other way round.
LEMMA EmptyChain ==
  ASSUME PoolInv
  PROVE  /\ mFreeList = Null <=> Free = {}
         /\ mFreeList # Null => mFreeList \in Free
<1>1. PICK list \in Seq(Blocks) : IsChain(list)
  BY DEF PoolInv, Chained
<1>2. CASE list = << >>
  BY <1>1, <1>2, EmptyLists DEF IsChain
<1>3. CASE list # << >>
  <2>1. Head(list) \in Entries(list) /\ Head(list) \in Blocks
    BY <1>1, <1>3, PopLemma DEF IsChain
  <2>2. QED
    BY <1>1, <1>3, <2>1, PoolNumbers DEF IsChain
<1>4. QED
  BY <1>2, <1>3

-----------------------------------------------------------------------------
\* One lemma per action; the lock's part of the invariant is already proved.
Rest == Types /\ Control /\ Apart /\ Chained /\ Counts

LEMMA NewKeepsRest ==
  ASSUME PoolInv, NEW t \in Threads, New(t)
  PROVE  Rest'
<1>1. /\ pc[t] = "idle" /\ op[t] = "none"
      /\ op' = [op EXCEPT ![t] = "new"] /\ pc' = [pc EXCEPT ![t] = "spin"]
      /\ UNCHANGED <<status, mFreeList, mTotalAllocCount, mCurrentUseCount, link, obj, holders>>
  BY DEF New, Goto, poolVars, PoolInv, Control
<1>2. Types'
  BY <1>1 DEF PoolInv, Types
<1>3. \A u \in Threads : /\ op'[u] = IF u = t THEN "new" ELSE op[u]
                         /\ pc'[u] = IF u = t THEN "spin" ELSE pc[u]
  BY <1>1 DEF PoolInv, Types
<1>4. \A u \in Threads : Out(u)' <=> Out(u)
  BY <1>1, <1>3 DEF Out
<1>5. Control'
  BY <1>1, <1>3 DEF PoolInv, Control
<1>6. Apart'
  BY <1>1, <1>4 DEF PoolInv, Apart
<1>7. Chained'
  <2>1. Free' = Free
    BY <1>1, <1>4 DEF Free
  <2>2. QED
    BY <1>1, <2>1, ChainStays DEF PoolInv
<1>8. Counts'
  <2>1. Held' = Held
    BY <1>1 DEF Held
  <2>2. Using' = Using
    BY <1>1, <1>3 DEF Using, Uses
  <2>3. Callers' = Callers \cup {t} /\ t \notin Callers
    BY <1>1, <1>3 DEF Callers
  <2>4. Cardinality(Callers') = Cardinality(Callers) + 1
    BY <2>3, Finite, FS_AddElement
  <2>5. QED
    BY <1>1, <2>1, <2>2, <2>4, Finite, PoolNumbers DEF PoolInv, Counts, New
<1>9. QED
  BY <1>2, <1>5, <1>6, <1>7, <1>8 DEF Rest

LEMMA DeleteKeepsRest ==
  ASSUME PoolInv, NEW t \in Threads, NEW b \in Blocks, Delete(t, b)
  PROVE  Rest'
<1>1. /\ pc[t] = "idle" /\ op[t] = "none" /\ b \in Held /\ holders[b] = 1
      /\ op' = [op EXCEPT ![t] = "delete"] /\ pc' = [pc EXCEPT ![t] = "spin"]
      /\ obj' = [obj EXCEPT ![t] = b] /\ holders' = [holders EXCEPT ![b] = 0]
      /\ UNCHANGED <<status, mFreeList, mTotalAllocCount, mCurrentUseCount, link>>
  <2>1. holders[b] = 1 /\ 1 - 1 = 0
    BY DEF Delete, Held, PoolInv, Types
  <2>2. QED
    BY <2>1 DEF Delete, Goto, poolVars, PoolInv, Control
<1>2. Types'
  BY <1>1 DEF PoolInv, Types
<1>3. /\ \A u \in Threads : /\ op'[u] = IF u = t THEN "delete" ELSE op[u]
                            /\ pc'[u] = IF u = t THEN "spin" ELSE pc[u]
                            /\ obj'[u] = IF u = t THEN b ELSE obj[u]
      /\ \A c \in Blocks : holders'[c] = IF c = b THEN 0 ELSE holders[c]
  BY <1>1 DEF PoolInv, Types
<1>4. \A u \in Threads : Out(u)' <=> (u = t \/ Out(u))
  BY <1>1, <1>3 DEF Out
<1>5. ~Out(t) /\ b \in 1..mTotalAllocCount /\ \A u \in Threads : Out(u) => obj[u] # b
  BY <1>1 DEF PoolInv, Apart, Out
<1>6. Control'
  BY <1>1, <1>3 DEF PoolInv, Control
<1>7. Apart'
  <2>1. \A u \in Threads : Out(u) => obj[u] \in Blocks
    BY PoolNumbers DEF PoolInv, Apart
  <2>2. \A u \in Threads : Out(u)' => obj'[u] \in 1..mTotalAllocCount /\ holders'[obj'[u]] = 0
    BY <1>3, <1>4, <1>5, <2>1 DEF PoolInv, Apart
  <2>3. \A u, v \in Threads : Out(u)' /\ Out(v)' /\ obj'[u] = obj'[v] => u = v
    BY <1>3, <1>4, <1>5 DEF PoolInv, Apart
  <2>4. \A c \in Blocks : holders'[c] = 1 => c \in 1..mTotalAllocCount
    BY <1>3 DEF PoolInv, Apart
  <2>5. mTotalAllocCount' = mTotalAllocCount
    BY <1>1
  <2>6. QED
    BY <2>2, <2>3, <2>4, <2>5 DEF Apart
<1>8. Chained'
  <2>1. 1..mTotalAllocCount \subseteq Blocks /\ mTotalAllocCount' = mTotalAllocCount
    BY <1>1, PoolNumbers DEF PoolInv
  <2>2. ASSUME NEW c \in 1..mTotalAllocCount
        PROVE  /\ (holders'[c] = 0 /\ \A u \in Threads : Out(u)' => obj'[u] # c)
               <=> (holders[c] = 0 /\ \A u \in Threads : Out(u) => obj[u] # c)
    BY <1>1, <1>3, <1>4, <1>5, <2>1
  <2>3. Free' = Free
    BY <2>1, <2>2 DEF Free
  <2>4. QED
    BY <1>1, <2>3, ChainStays DEF PoolInv
<1>9. Counts'
  <2>1. Held' = Held \ {b}
    BY <1>3, <1>1 DEF Held
  <2>2. Using' = Using \cup {t} /\ t \notin Using
    <3>1. \A u \in Threads : Uses(u)' <=> (u = t \/ Uses(u))
      BY <1>3 DEF Uses
    <3>2. ~Uses(t)
      BY <1>1 DEF Uses
    <3>3. QED
      BY <3>1, <3>2 DEF Using, Uses
  <2>3. Callers' = Callers \cup {t} /\ t \notin Callers
    BY <1>1, <1>3 DEF Callers
  <2>4. /\ Cardinality(Held') = Cardinality(Held) - 1
        /\ Cardinality(Using') = Cardinality(Using) + 1
        /\ Cardinality(Callers') = Cardinality(Callers) + 1
    BY <1>1, <2>1, <2>2, <2>3, Finite, FS_AddElement, FS_RemoveElement
  <2>5. QED
    BY <1>1, <2>4, Finite, PoolNumbers DEF PoolInv, Counts
<1>10. QED
  BY <1>2, <1>6, <1>7, <1>8, <1>9 DEF Rest

\* Inside the lock's own steps nothing of the pool moves.
LEMMA LockKeepsRest ==
  ASSUME PoolInv, NEW t \in Threads, Lock(t)
  PROVE  Rest'
<1>1. UNCHANGED <<status, mFreeList, mTotalAllocCount, mCurrentUseCount, link, op, obj, holders>>
  BY DEF Lock, poolVars
<1>2. PICK label \in {"add", "locked", "retract", "spin"} :
        pc[t] \in {"spin", "add", "retract"} /\ pc' = [pc EXCEPT ![t] = label]
  BY DEF Lock, EnterWriteLock, Spin, Add, Retract, Goto
<1>3. Types'
  BY <1>1, <1>2 DEF PoolInv, Types
<1>4. \A u \in Threads : pc'[u] = IF u = t THEN label ELSE pc[u]
  BY <1>2 DEF PoolInv, Types
<1>5. \A u \in Threads : Out(u)' <=> Out(u)
  BY <1>1, <1>2, <1>4 DEF Out
<1>6. Control'
  BY <1>1, <1>2, <1>4 DEF PoolInv, Control
<1>7. Apart'
  BY <1>1, <1>5 DEF PoolInv, Apart
<1>8. Chained'
  <2>1. Free' = Free
    BY <1>1, <1>5 DEF Free
  <2>2. QED
    BY <1>1, <2>1, ChainStays DEF PoolInv
<1>9. Counts'
  <2>1. Held' = Held /\ Callers' = Callers
    BY <1>1 DEF Held, Callers
  <2>2. Using' = Using
    BY <1>1, <1>2, <1>4 DEF Using, Uses
  <2>3. QED
    BY <1>1, <2>1, <2>2 DEF PoolInv, Counts
<1>10. QED
  BY <1>3, <1>6, <1>7, <1>8, <1>9 DEF Rest

\* Nobody else is between taking the lock and leaving it.
LEMMA AloneInside ==
  ASSUME PoolInv, NEW t \in Threads, pc[t] \in {"locked", "take", "give", "leave"}
  PROVE  \A u \in Threads : u # t => pc[u] \in {"idle", "spin", "add", "retract"}
<1>1. InCriticalSection(t)
  BY DEF InCriticalSection, Entering
<1>2. \A u \in Threads : u # t => ~InCriticalSection(u)
  BY <1>1 DEF PoolInv, LockInv, MutualExclusion
<1>3. QED
  BY <1>2 DEF InCriticalSection, Entering

\* The pool never holds more than the program uses plus one chunk: it is empty only
\* when every block is out, and the caller has none of them yet.
LEMMA RefillHasRoom ==
  ASSUME PoolInv, NEW t \in Threads, Refill(t)
  PROVE  mTotalAllocCount < MaxInUse /\ Free = {}
<1> DEFINE n == mTotalAllocCount
           O == {u \in Threads : Out(u)}
           objs == {obj[u] : u \in O}
<1>1. Free = {}
  BY EmptyChain DEF Refill
<1>2. 1..n \subseteq Held \cup objs
  BY <1>1, PoolNumbers DEF PoolInv, Types, Free, Held
<1>3. IsFiniteSet(objs) /\ Cardinality(objs) <= Cardinality(O) /\ IsFiniteSet(O)
  <2>1. IsFiniteSet(O)
    BY LockAssumption, FS_Subset
  <2> DEFINE f == [u \in O |-> obj[u]]
  <2>2. f \in Surjection(O, objs)
    BY DEF Surjection
  <2> HIDE DEF f, O, objs
  <2>3. QED
    BY <2>1, <2>2, FS_Surjection
<1>4. Cardinality(O) + 1 <= Cardinality(Callers)
  <2>1. O \subseteq Callers \ {t} /\ t \in Callers
    BY DEF Out, Callers, Refill
  <2>2. Cardinality(Callers \ {t}) = Cardinality(Callers) - 1 /\ IsFiniteSet(Callers \ {t})
    BY <2>1, Finite, FS_RemoveElement, FS_Subset
  <2>3. Cardinality(O) <= Cardinality(Callers \ {t})
    BY <2>1, <2>2, FS_Subset
  <2>4. QED
    BY <2>2, <2>3, <1>3, Finite, FS_CardinalityType
<1> HIDE DEF O, objs
<1>5. n <= Cardinality(Held) + Cardinality(objs)
  <2>1. /\ IsFiniteSet(Held \cup objs)
        /\ Cardinality(Held \cup objs) = Cardinality(Held) + Cardinality(objs) - Cardinality(Held \cap objs)
    BY <1>3, Finite, FS_Union
  <2>2. Cardinality(Held \cap objs) \in Nat
    BY Finite, FS_Subset, FS_CardinalityType
  <2>3. n \in Nat
    BY PoolNumbers DEF PoolInv, Types
  <2>4. Cardinality(1..n) = n
    BY <2>3, FS_Interval
  <2>5. n <= Cardinality(Held \cup objs)
    BY <1>2, <2>1, <2>4, FS_Subset
  <2>6. QED
    BY <2>1, <2>2, <2>3, <2>5, <1>3, Finite, FS_CardinalityType
<1>6. QED
  <2>1. n \in Nat /\ Cardinality(objs) \in Nat /\ Cardinality(O) \in Nat
    BY <1>3, PoolNumbers, FS_CardinalityType DEF PoolInv, Types
  <2>2. Cardinality(Held) + Cardinality(Callers) <= MaxInUse
    BY DEF PoolInv, Counts
  <2>3. QED
    BY <1>1, <1>3, <1>4, <1>5, <2>1, <2>2, Finite, PoolNumbers

LEMMA RefillKeepsRest ==
  ASSUME PoolInv, NEW t \in Threads, Refill(t)
  PROVE  Rest'
<1> DEFINE n == mTotalAllocCount
           A == AllocCount
           chunk == [i \in 1..A |-> n + i]
<1>1. n \in Nat /\ A \in Nat \ {0} /\ MaxInUse \in Nat /\ n < MaxInUse /\ Free = {}
  BY RefillHasRoom, PoolNumbers DEF PoolInv, Types
<1>2. /\ pc[t] = "locked" /\ op[t] = "new"
      /\ mFreeList' = n + 1 /\ link' = Chunk(n + 1) /\ mTotalAllocCount' = n + A
      /\ status' = status /\ pc' = pc /\ mCurrentUseCount' = mCurrentUseCount
      /\ op' = op /\ obj' = obj /\ holders' = holders
  BY DEF Refill, lockVars
<1>3. /\ 1..n \subseteq Blocks /\ (n + 1)..(n + A) \subseteq Blocks
      /\ n + 1 \in Blocks /\ n + A \in 0..(MaxInUse + A)
  BY <1>1 DEF Blocks
<1>4. link' = [b \in Blocks |-> IF b = n + A THEN Null ELSE IF b \in (n + 1)..(n + A) THEN b + 1 ELSE link[b]]
  <2>1. (n + 1) + A - 1 = n + A
    BY <1>1
  <2>2. QED
    BY <1>2, <2>1 DEF Chunk
<1>5. Types'
  <2>1. link' \in [Blocks -> (0..(n + A)) \cup {Data}]
    <3>1. \A b \in Blocks : link[b] \in (0..n) \cup {Data}
      BY DEF PoolInv, Types
    <3>2. \A b \in Blocks : link'[b] \in (0..(n + A)) \cup {Data}
      BY <1>1, <1>4, <3>1 DEF Null, Blocks
    <3>3. QED
      BY <1>4, <3>2
  <2>2. QED
    BY <1>2, <1>3, <2>1 DEF PoolInv, Types
<1>6. \A u \in Threads : Out(u)' <=> Out(u)
  BY <1>2 DEF Out
<1>7. Control'
  <2>1. \A u \in Threads : pc[u] \notin {"take", "give"}
    BY <1>2, AloneInside
  <2>2. QED
    BY <1>2, <2>1 DEF PoolInv, Control
<1>8. \A b \in 1..n : b \in 1..(n + A)
  BY <1>1
<1>9. Apart'
  BY <1>2, <1>6, <1>8 DEF PoolInv, Apart
<1>10. Chained'
  <2>1. chunk \in Seq(Blocks) /\ Len(chunk) = A /\ DOMAIN chunk = 1..A
    BY <1>1, <1>3
  <2>2. IsInjective(chunk)
    BY <1>1 DEF IsInjective
  <2>3. Entries(chunk) = (n + 1)..(n + A)
    <3>1. \A b \in (n + 1)..(n + A) : b - n \in 1..A /\ chunk[b - n] = b
      BY <1>1
    <3>2. \A i \in 1..A : chunk[i] \in (n + 1)..(n + A)
      BY <1>1
    <3>3. QED
      BY <2>1, <3>1, <3>2 DEF Entries
  <2>4. Free' = (n + 1)..(n + A)
    <3>1. Free' = {b \in 1..(n + A) : holders[b] = 0 /\ \A u \in Threads : Out(u) => obj[u] # b}
      BY <1>2, <1>6 DEF Free
    <3>2. \A b \in 1..n : ~(holders[b] = 0 /\ \A u \in Threads : Out(u) => obj[u] # b)
      BY <1>1 DEF Free
    <3>3. \A b \in (n + 1)..(n + A) : b \in Blocks /\ b \notin 1..n
      BY <1>1, <1>3
    <3>4. \A b \in (n + 1)..(n + A) : holders[b] = 0 /\ \A u \in Threads : Out(u) => obj[u] # b
      BY <3>3 DEF PoolInv, Apart, Types
    <3>5. \A b \in 1..(n + A) : b \in 1..n \/ b \in (n + 1)..(n + A)
      BY <1>1
    <3>6. (n + 1)..(n + A) \subseteq 1..(n + A)
      BY <1>1
    <3>7. QED
      BY <3>1, <3>2, <3>4, <3>5, <3>6
  <2>5. chunk # << >> /\ Head(chunk) = n + 1
    BY <1>1, <2>1
  <2>6. \A i \in 1..A : link'[chunk[i]] = IF i = A THEN Null ELSE chunk[i + 1]
    <3> SUFFICES ASSUME NEW i \in 1..A PROVE link'[chunk[i]] = IF i = A THEN Null ELSE chunk[i + 1]
      OBVIOUS
    <3>1. chunk[i] = n + i /\ n + i \in (n + 1)..(n + A) /\ n + i \in Blocks
      BY <1>1, <1>3
    <3>2. link'[n + i] = IF n + i = n + A THEN Null ELSE (n + i) + 1
      BY <1>4, <3>1
    <3>3. i # A => chunk[i + 1] = (n + i) + 1 /\ n + i # n + A
      BY <1>1
    <3>4. QED
      BY <3>1, <3>2, <3>3
  <2>7. PICK list \in Seq(Blocks) : list = chunk
    BY <2>1
  <2> HIDE DEF chunk
  <2>8. /\ Len(list) = A /\ IsInjective(list) /\ Entries(list) = Free'
        /\ list # << >> /\ mFreeList' = Head(list)
        /\ \A i \in 1..A : link'[list[i]] = IF i = A THEN Null ELSE list[i + 1]
    BY <1>2, <2>1, <2>2, <2>3, <2>4, <2>5, <2>6, <2>7
  <2>9. IsChain(list)'
    BY <2>8 DEF IsChain
  <2>10. QED
    BY <2>9 DEF Chained
<1>11. Counts'
  BY <1>2 DEF PoolInv, Counts, Held, Callers, Using, Uses
<1>12. QED
  BY <1>5, <1>7, <1>9, <1>10, <1>11 DEF Rest

LEMMA LookKeepsRest ==
  ASSUME PoolInv, NEW t \in Threads, Look(t)
  PROVE  Rest'
<1>1. /\ pc[t] = "locked" /\ op[t] = "new" /\ mFreeList # Null
      /\ obj' = [obj EXCEPT ![t] = mFreeList] /\ pc' = [pc EXCEPT ![t] = "take"]
      /\ UNCHANGED <<status, mFreeList, mTotalAllocCount, mCurrentUseCount, link, op, holders>>
  BY DEF Look, Goto, poolVars
<1>2. Types'
  BY <1>1 DEF PoolInv, Types
<1>3. \A u \in Threads : /\ pc'[u] = IF u = t THEN "take" ELSE pc[u]
                         /\ obj'[u] = IF u = t THEN mFreeList ELSE obj[u]
  BY <1>1 DEF PoolInv, Types
<1>4. \A u \in Threads : /\ Out(u)' <=> Out(u)
                         /\ Out(u) => obj'[u] = obj[u]
  BY <1>1, <1>3 DEF Out
<1>5. Control'
  BY <1>1, <1>3 DEF PoolInv, Control
<1>6. Apart'
  BY <1>1, <1>4 DEF PoolInv, Apart
<1>7. Chained'
  <2>1. Free' = Free
    BY <1>1, <1>4 DEF Free
  <2>2. QED
    BY <1>1, <2>1, ChainStays DEF PoolInv
<1>8. Counts'
  <2>1. Held' = Held /\ Callers' = Callers
    BY <1>1 DEF Held, Callers
  <2>2. Using' = Using
    BY <1>1, <1>3 DEF Using, Uses
  <2>3. QED
    BY <1>1, <2>1, <2>2 DEF PoolInv, Counts
<1>9. QED
  BY <1>2, <1>5, <1>6, <1>7, <1>8 DEF Rest

LEMMA TakeKeepsRest ==
  ASSUME PoolInv, NEW t \in Threads, Take(t)
  PROVE  Rest'
<1> DEFINE b == obj[t]
<1>1. /\ pc[t] = "take" /\ op[t] = "new" /\ b = mFreeList /\ mFreeList # Null
      /\ mFreeList' = link[b] /\ mCurrentUseCount' = mCurrentUseCount + 1
      /\ pc' = [pc EXCEPT ![t] = "leave"]
      /\ UNCHANGED <<status, mTotalAllocCount, link, op, obj, holders>>
  BY DEF Take, Goto, PoolInv, Control
<1>2. PICK list \in Seq(Blocks) : IsChain(list)
  BY DEF PoolInv, Chained
<1>3. list # << >> /\ b = Head(list)
  BY <1>1, <1>2 DEF IsChain
<1>4. /\ Tail(list) \in Seq(Blocks) /\ IsInjective(Tail(list))
      /\ Entries(Tail(list)) = Free \ {b} /\ b \in Free /\ b \in Blocks
  BY <1>2, <1>3, PopLemma DEF IsChain
<1>5. /\ mFreeList' = IF Tail(list) = << >> THEN Null ELSE Head(Tail(list))
      /\ \A i \in 1..Len(Tail(list)) : link[Tail(list)[i]] = IF i = Len(Tail(list)) THEN Null ELSE Tail(list)[i + 1]
  <2>1. /\ Len(list) \in Nat \ {0} /\ Len(Tail(list)) = Len(list) - 1 /\ list[1] = b
        /\ \A i \in 1..(Len(list) - 1) : Tail(list)[i] = list[i + 1]
    BY <1>3
  <2>2. \A i \in 1..Len(list) : link[list[i]] = IF i = Len(list) THEN Null ELSE list[i + 1]
    BY <1>2 DEF IsChain
  <2>3. mFreeList' = IF Len(list) = 1 THEN Null ELSE list[2]
    <3>1. 1 \in 1..Len(list) /\ 1 + 1 = 2
      BY <2>1
    <3>2. link[list[1]] = IF 1 = Len(list) THEN Null ELSE list[1 + 1]
      BY <2>2, <3>1
    <3>3. QED
      BY <1>1, <2>1, <3>1, <3>2
  <2>4. Len(list) = 1 <=> Tail(list) = << >>
    BY <1>3, <2>1
  <2>5. Tail(list) # << >> => Head(Tail(list)) = list[2]
    <3>1. Tail(list) # << >> => Head(Tail(list)) = Tail(list)[1] /\ 1 \in 1..(Len(list) - 1)
      BY <2>1, <2>4
    <3>2. QED
      BY <2>1, <3>1
  <2>6. ASSUME NEW i \in 1..Len(Tail(list))
        PROVE  link[Tail(list)[i]] = IF i = Len(Tail(list)) THEN Null ELSE Tail(list)[i + 1]
    <3>1. i + 1 \in 1..Len(list) /\ i \in 1..(Len(list) - 1) /\ Tail(list)[i] = list[i + 1]
      BY <2>1
    <3> DEFINE n == Len(list)
    <3>2. n \in Nat /\ i \in Nat /\ Len(Tail(list)) = n - 1 /\ i \in 1..(n - 1)
      BY <2>1, <3>1
    <3> HIDE DEF n
    <3>3. /\ i + 1 = n <=> i = n - 1
          /\ i + 1 # n => i + 1 \in 1..(n - 1)
      BY <3>2
    <3>4. link[list[i + 1]] = IF i + 1 = Len(list) THEN Null ELSE list[(i + 1) + 1]
      BY <2>2, <3>1
    <3>5. i + 1 # n => Tail(list)[i + 1] = list[(i + 1) + 1]
      BY <2>1, <3>3 DEF n
    <3>6. QED
      BY <3>1, <3>2, <3>3, <3>4, <3>5 DEF n
  <2>7. QED
    BY <2>3, <2>4, <2>5, <2>6
<1>6. mFreeList' \in Blocks \cup {Null}
  BY <1>4, <1>5
<1> HIDE DEF b
<1>7. Types'
  BY <1>1, <1>6 DEF PoolInv, Types
<1>8. \A u \in Threads : pc'[u] = IF u = t THEN "leave" ELSE pc[u]
  BY <1>1 DEF PoolInv, Types
<1>9. \A u \in Threads : Out(u)' <=> (u = t \/ Out(u))
  BY <1>1, <1>8 DEF Out
<1>10. ~Out(t) /\ b \in 1..mTotalAllocCount /\ holders[b] = 0 /\ \A u \in Threads : Out(u) => obj[u] # b
  BY <1>1, <1>4 DEF Free, Out
<1>11. Control'
  <2>1. \A u \in Threads : pc'[u] \notin {"take", "give"}
    BY <1>1, <1>8, AloneInside
  <2>2. QED
    BY <1>1, <1>8, <2>1 DEF PoolInv, Control
<1>12. Apart'
  <2>1. mTotalAllocCount' = mTotalAllocCount /\ holders' = holders /\ obj' = obj
    BY <1>1
  <2>2. QED
    BY <1>9, <1>10, <2>1 DEF PoolInv, Apart, b
<1>13. Chained'
  <2>1. Free' = Free \ {b}
    <3>1. mTotalAllocCount' = mTotalAllocCount /\ holders' = holders /\ obj' = obj
      BY <1>1
    <3>2. QED
      BY <1>9, <3>1 DEF Free, b
  <2>2. link' = link
    BY <1>1
  <2>3. IsChain(Tail(list))'
    BY <1>4, <1>5, <2>1, <2>2 DEF IsChain
  <2>4. QED
    BY <1>4, <2>3 DEF Chained
<1>14. Counts'
  <2>1. Held' = Held /\ Callers' = Callers
    BY <1>1 DEF Held, Callers
  <2>2. Using' = Using \cup {t} /\ t \notin Using
    <3>1. \A u \in Threads : Uses(u)' <=> (u = t \/ Uses(u))
      BY <1>1, <1>8 DEF Uses
    <3>2. ~Uses(t)
      BY <1>1 DEF Uses
    <3>3. QED
      BY <3>1, <3>2 DEF Using
  <2>3. Cardinality(Using') = Cardinality(Using) + 1
    BY <2>2, Finite, FS_AddElement
  <2>4. QED
    BY <1>1, <2>1, <2>3, Finite DEF PoolInv, Counts
<1>15. QED
  BY <1>7, <1>11, <1>12, <1>13, <1>14 DEF Rest

LEMMA LinkKeepsRest ==
  ASSUME PoolInv, NEW t \in Threads, Link(t)
  PROVE  Rest'
<1> DEFINE b == obj[t]
<1>1. /\ pc[t] = "locked" /\ op[t] = "delete" /\ Out(t)
      /\ b \in 1..mTotalAllocCount /\ b \in Blocks /\ b \notin Free
  BY PoolNumbers DEF Link, PoolInv, Apart, Out, Free
<1>2. /\ Using = (Using \ {t}) \cup {t} /\ t \in Using
      /\ Cardinality(Using \ {t}) = Cardinality(Using) - 1 /\ Cardinality(Using \ {t}) \in Nat
  <2>1. t \in Using
    BY <1>1 DEF Using, Uses
  <2>2. IsFiniteSet(Using \ {t}) /\ Cardinality(Using \ {t}) = Cardinality(Using) - 1
    BY <2>1, Finite, FS_RemoveElement, FS_Subset
  <2>3. QED
    BY <2>1, <2>2, FS_CardinalityType
<1>3. mCurrentUseCount > 0
  BY <1>2, Finite DEF PoolInv, Counts
<1>4. /\ status' = status /\ mCurrentUseCount' = mCurrentUseCount - 1
      /\ link' = [link EXCEPT ![b] = mFreeList] /\ pc' = [pc EXCEPT ![t] = "give"]
      /\ UNCHANGED <<mFreeList, mTotalAllocCount, op, obj, holders>>
  BY <1>3 DEF Link, Goto
<1> HIDE DEF b
<1>5. mFreeList \in 0..mTotalAllocCount
  BY EmptyChain, PoolNumbers DEF PoolInv, Types, Free, Null
<1>6. Types'
  <2>1. link' \in [Blocks -> (0..mTotalAllocCount) \cup {Data}]
    BY <1>4, <1>5 DEF PoolInv, Types
  <2>2. QED
    BY <1>4, <2>1 DEF PoolInv, Types
<1>7. /\ \A u \in Threads : pc'[u] = IF u = t THEN "give" ELSE pc[u]
      /\ \A c \in Blocks : link'[c] = IF c = b THEN mFreeList ELSE link[c]
  BY <1>4 DEF PoolInv, Types
<1>8. \A u \in Threads : Out(u)' <=> Out(u)
  BY <1>1, <1>4, <1>7 DEF Out
<1>9. Control'
  <2>1. \A u \in Threads : u # t => pc'[u] \notin {"take", "give"}
    BY <1>1, <1>7, AloneInside
  <2>2. op' = op /\ obj' = obj /\ mFreeList' = mFreeList
    BY <1>4
  <2>3. link'[obj'[t]] = mFreeList
    BY <1>1, <1>7, <2>2 DEF b
  <2>4. QED
    BY <1>1, <1>7, <2>1, <2>2, <2>3 DEF PoolInv, Control
<1>10. Apart'
  BY <1>4, <1>8 DEF PoolInv, Apart
<1>11. Chained'
  <2>1. Free' = Free
    BY <1>4, <1>8 DEF Free
  <2>2. \A c \in Free : c \in Blocks /\ c # b
    BY <1>1, PoolNumbers DEF Free, PoolInv
  <2>3. QED
    BY <1>4, <1>7, <2>1, <2>2, ChainStays DEF PoolInv
<1>12. Counts'
  <2>1. Held' = Held /\ Callers' = Callers
    BY <1>4 DEF Held, Callers
  <2>2. Using' = Using \ {t}
    <3>1. \A u \in Threads : Uses(u)' <=> (u # t /\ Uses(u))
      BY <1>1, <1>4, <1>7 DEF Uses
    <3>2. QED
      BY <3>1 DEF Using
  <2>3. QED
    BY <1>2, <1>4, <2>1, <2>2, Finite DEF PoolInv, Counts
<1>13. QED
  BY <1>6, <1>9, <1>10, <1>11, <1>12 DEF Rest

LEMMA GiveKeepsRest ==
  ASSUME PoolInv, NEW t \in Threads, Give(t)
  PROVE  Rest'
<1> DEFINE b == obj[t]
<1>1. /\ pc[t] = "give" /\ op[t] = "delete" /\ Out(t) /\ link[b] = mFreeList
      /\ b \in 1..mTotalAllocCount /\ b \in Blocks /\ b \notin Free /\ holders[b] = 0
      /\ \A u \in Threads : u # t /\ Out(u) => obj[u] # b
  BY PoolNumbers DEF Give, PoolInv, Control, Apart, Out, Free
<1>2. /\ mFreeList' = b /\ pc' = [pc EXCEPT ![t] = "leave"]
      /\ UNCHANGED <<status, mTotalAllocCount, mCurrentUseCount, link, op, obj, holders>>
  BY DEF Give, Goto
<1> HIDE DEF b
<1>3. Types'
  BY <1>1, <1>2 DEF PoolInv, Types
<1>4. \A u \in Threads : pc'[u] = IF u = t THEN "leave" ELSE pc[u]
  BY <1>2 DEF PoolInv, Types
<1>5. \A u \in Threads : Out(u)' <=> (u # t /\ Out(u))
  BY <1>1, <1>2, <1>4 DEF Out
<1>6. Control'
  <2>1. \A u \in Threads : pc'[u] \notin {"take", "give"}
    BY <1>1, <1>4, AloneInside
  <2>2. QED
    BY <1>1, <1>2, <1>4, <2>1 DEF PoolInv, Control
<1>7. Apart'
  BY <1>2, <1>5 DEF PoolInv, Apart
<1>8. Chained'
  <2>1. Free' = Free \cup {b}
    <3>1. mTotalAllocCount' = mTotalAllocCount /\ holders' = holders /\ obj' = obj
      BY <1>2
    <3>2. b \in Free'
      BY <1>1, <1>5, <3>1 DEF Free
    <3>3. \A c \in 1..mTotalAllocCount : c # b => (c \in Free' <=> c \in Free)
      BY <1>1, <1>5, <3>1 DEF Free, b
    <3>4. Free \subseteq 1..mTotalAllocCount /\ Free' \subseteq 1..mTotalAllocCount
      BY <3>1 DEF Free
    <3>5. QED
      BY <1>1, <3>2, <3>3, <3>4
  <2>2. PICK list \in Seq(Blocks) : IsChain(list)
    BY DEF PoolInv, Chained
  <2> DEFINE more == <<b>> \o list
             n == Len(list)
  <2>3. /\ more \in Seq(Blocks) /\ IsInjective(more) /\ Entries(more) = Free'
    BY <1>1, <2>1, <2>2, PushLemma DEF IsChain
  <2>4. /\ n \in Nat /\ Len(more) = n + 1 /\ more # << >> /\ Head(more) = b /\ more[1] = b
        /\ \A i \in 1..n : more[i + 1] = list[i]
        /\ n = 0 <=> list = << >>
        /\ list # << >> => Head(list) = list[1]
    BY <1>1
  <2>5. /\ \A i \in 1..n : link[list[i]] = IF i = n THEN Null ELSE list[i + 1]
        /\ mFreeList = IF n = 0 THEN Null ELSE list[1]
    BY <2>2, <2>4 DEF IsChain
  <2> HIDE DEF more, n
  <2>6. ASSUME NEW i \in 1..(n + 1)
        PROVE  link[more[i]] = IF i = n + 1 THEN Null ELSE more[i + 1]
    <3>1. CASE i = 1
      <4>1. n # 0 => 1 \in 1..n /\ more[1 + 1] = list[1]
        BY <2>4
      <4>2. QED
        BY <1>1, <2>4, <2>5, <3>1, <4>1
    <3>2. CASE i # 1
      <4>1. i - 1 \in 1..n /\ (i - 1) + 1 = i /\ (i - 1 = n <=> i = n + 1) /\ (i # n + 1 => i \in 1..n)
        BY <2>4, <3>2
      <4>2. more[i] = list[i - 1] /\ link[list[i - 1]] = IF i - 1 = n THEN Null ELSE list[i]
        BY <2>4, <2>5, <4>1
      <4>3. QED
        BY <2>4, <4>1, <4>2
    <3>3. QED
      BY <3>1, <3>2
  <2>7. link' = link
    BY <1>2
  <2>8. PICK longer \in Seq(Blocks) : longer = more
    BY <2>3
  <2>9. /\ IsInjective(longer) /\ Entries(longer) = Free' /\ longer # << >> /\ mFreeList' = Head(longer)
        /\ \A i \in 1..Len(longer) : link'[longer[i]] = IF i = Len(longer) THEN Null ELSE longer[i + 1]
    BY <1>2, <2>3, <2>4, <2>6, <2>7, <2>8
  <2>10. IsChain(longer)'
    BY <2>9 DEF IsChain
  <2>11. QED
    BY <2>10 DEF Chained
<1>9. Counts'
  <2>1. Held' = Held /\ Callers' = Callers
    BY <1>2 DEF Held, Callers
  <2>2. Using' = Using
    BY <1>1, <1>2, <1>4 DEF Using, Uses
  <2>3. QED
    BY <1>2, <2>1, <2>2 DEF PoolInv, Counts
<1>10. QED
  BY <1>3, <1>6, <1>7, <1>8, <1>9 DEF Rest

LEMMA ReturnKeepsRest ==
  ASSUME PoolInv, NEW t \in Threads, Return(t)
  PROVE  Rest'
<1> DEFINE b == obj[t]
<1>1. /\ pc[t] = "leave" /\ pc' = [pc EXCEPT ![t] = "idle"]
      /\ op' = [op EXCEPT ![t] = "none"] /\ obj' = [obj EXCEPT ![t] = Null]
      /\ UNCHANGED <<status, mFreeList, mTotalAllocCount, mCurrentUseCount>>
  BY DEF Return, LeaveWriteLock, Goto
<1>2. /\ \A u \in Threads : /\ pc'[u] = IF u = t THEN "idle" ELSE pc[u]
                            /\ op'[u] = IF u = t THEN "none" ELSE op[u]
                            /\ obj'[u] = IF u = t THEN Null ELSE obj[u]
  BY <1>1 DEF PoolInv, Types
<1>3. op[t] \in {"new", "delete"}
  BY <1>1 DEF PoolInv, Types, Control
<1>4. \A u \in Threads : Out(u)' <=> (u # t /\ Out(u))
  BY <1>2 DEF Out
<1>5. \A u \in Threads : u # t => pc[u] \notin {"take", "give"}
  BY <1>1, AloneInside
<1>6. Callers' = Callers \ {t} /\ t \in Callers
  BY <1>2, <1>3 DEF Callers
<1>7. Cardinality(Callers') = Cardinality(Callers) - 1
  BY <1>6, Finite, FS_RemoveElement
<1>8. CASE op[t] = "new"
  <2>1. /\ Out(t) /\ b \in 1..mTotalAllocCount /\ b \in Blocks /\ b \notin Free /\ holders[b] = 0
        /\ \A u \in Threads : u # t /\ Out(u) => obj[u] # b
    BY <1>1, <1>8, PoolNumbers DEF PoolInv, Apart, Out, Free
  <2>2. link' = [link EXCEPT ![b] = Data] /\ holders' = [holders EXCEPT ![b] = 1]
    <3>1. holders[b] + 1 = 1
      BY <2>1
    <3>2. QED
      BY <1>8, <3>1 DEF Return
  <2> HIDE DEF b
  <2>3. Types'
    BY <1>1, <2>1, <2>2 DEF PoolInv, Types
  <2>4. \A c \in Blocks : /\ holders'[c] = IF c = b THEN 1 ELSE holders[c]
                          /\ link'[c] = IF c = b THEN Data ELSE link[c]
    BY <2>1, <2>2 DEF PoolInv, Types
  <2>5. Control'
    BY <1>1, <1>2, <1>5 DEF PoolInv, Control
  <2>6. Apart'
    <3>1. mTotalAllocCount' = mTotalAllocCount
      BY <1>1
    <3>2. 1..mTotalAllocCount \subseteq Blocks
      BY PoolNumbers DEF PoolInv
    <3>3. QED
      BY <1>2, <1>4, <2>1, <2>4, <3>1, <3>2 DEF PoolInv, Apart
  <2>7. Chained'
    <3>1. mTotalAllocCount' = mTotalAllocCount /\ 1..mTotalAllocCount \subseteq Blocks
      BY <1>1, PoolNumbers DEF PoolInv
    <3>2. \A c \in 1..mTotalAllocCount :
             (holders'[c] = 0 /\ \A u \in Threads : Out(u)' => obj'[u] # c)
               <=> (holders[c] = 0 /\ \A u \in Threads : Out(u) => obj[u] # c)
      BY <1>2, <1>4, <2>1, <2>4, <3>1 DEF b
    <3>3. Free' = Free
      BY <3>1, <3>2 DEF Free
    <3>4. \A c \in Free : link'[c] = link[c]
      BY <2>1, <2>4, <3>1 DEF Free
    <3>5. QED
      BY <1>1, <3>3, <3>4, ChainStays DEF PoolInv
  <2>8. Counts'
    <3>1. Held' = Held \cup {b} /\ b \notin Held
      <4>1. \A c \in Blocks : holders'[c] > 0 <=> (c = b \/ holders[c] > 0)
        BY <2>4
      <4>2. ~(holders[b] > 0)
        BY <2>1
      <4>3. QED
        BY <2>1, <4>1, <4>2 DEF Held
    <3>2. Using' = Using \ {t} /\ t \in Using
      <4>1. \A u \in Threads : Uses(u)' <=> (u # t /\ Uses(u))
        BY <1>2 DEF Uses
      <4>2. Uses(t)
        BY <1>1, <1>8 DEF Uses
      <4>3. QED
        BY <4>1, <4>2 DEF Using
    <3>3. Cardinality(Held') = Cardinality(Held) + 1 /\ Cardinality(Using') = Cardinality(Using) - 1
      BY <3>1, <3>2, Finite, FS_AddElement, FS_RemoveElement
    <3>4. QED
      BY <1>1, <1>7, <3>3, Finite, PoolNumbers DEF PoolInv, Counts
  <2>9. QED
    BY <2>3, <2>5, <2>6, <2>7, <2>8 DEF Rest
<1>9. CASE op[t] = "delete"
  <2>1. link' = link /\ holders' = holders /\ ~Out(t)
    BY <1>1, <1>9 DEF Return, Out
  <2>2. Types'
    BY <1>1, <2>1 DEF PoolInv, Types
  <2>3. \A u \in Threads : (Out(u)' <=> Out(u)) /\ (Out(u) => obj'[u] = obj[u])
    BY <1>2, <1>4, <2>1
  <2>4. Control'
    BY <1>1, <1>2, <1>5 DEF PoolInv, Control
  <2>5. Apart'
    BY <1>1, <2>1, <2>3 DEF PoolInv, Apart
  <2>6. Chained'
    <3>1. Free' = Free
      BY <1>1, <2>1, <2>3 DEF Free
    <3>2. QED
      BY <1>1, <2>1, <3>1, ChainStays DEF PoolInv
  <2>7. Counts'
    <3>1. Held' = Held
      BY <2>1 DEF Held
    <3>2. Using' = Using
      BY <1>1, <1>2, <1>9 DEF Using, Uses
    <3>3. QED
      BY <1>1, <1>7, <3>1, <3>2, Finite, PoolNumbers DEF PoolInv, Counts
  <2>8. QED
    BY <2>2, <2>4, <2>5, <2>6, <2>7 DEF Rest
<1>10. QED
  BY <1>3, <1>8, <1>9

LEMMA NextKeepsPoolInv == PoolInv /\ [Next]_vars => PoolInv'
<1> SUFFICES ASSUME PoolInv, [Next]_vars PROVE PoolInv'
  OBVIOUS
<1>1. CASE UNCHANGED vars
  <2>1. LockInv'
    BY <1>1 DEF vars, lockVars, PoolInv, LockInv, Flagged, MutualExclusion, InCriticalSection
  <2>2. Types' /\ Control' /\ Apart'
    BY <1>1 DEF vars, lockVars, poolVars, PoolInv, Types, Control, Apart, Out
  <2>3. Chained'
    <3>1. Free' = Free
      BY <1>1 DEF vars, lockVars, poolVars, Free, Out
    <3>2. QED
      BY <1>1, <3>1, ChainStays DEF vars, poolVars, PoolInv
  <2>4. Counts'
    BY <1>1 DEF vars, lockVars, poolVars, PoolInv, Counts, Held, Callers, Using, Uses
  <2>5. QED
    BY <2>1, <2>2, <2>3, <2>4 DEF PoolInv
<1>2. CASE Next
  <2>1. LockInv'
    BY <1>2, NextKeepsLockInv DEF PoolInv
  <2>2. PICK t \in Threads : New(t) \/ (\E b \in Blocks : Delete(t, b)) \/ Step(t)
    BY <1>2 DEF Next
  <2>3. Rest'
    BY <2>2, NewKeepsRest, DeleteKeepsRest, LockKeepsRest, RefillKeepsRest, LookKeepsRest,
       TakeKeepsRest, LinkKeepsRest, GiveKeepsRest, ReturnKeepsRest DEF Step
  <2>4. QED
    BY <2>1, <2>3 DEF Rest, PoolInv
<1>3. QED
  BY <1>1, <1>2

LEMMA PoolInvHolds == Spec => []PoolInv
BY InitPoolInv, NextKeepsPoolInv, PTL DEF Spec

-----------------------------------------------------------------------------
\* The types; above all, the assertion of operator delete never fails, so that the
\* count of objects is never negative (ObjectPool.h:48).
THEOREM TypeCorrect == Spec => []TypeOK
<1>1. PoolInv => TypeOK
  <2> SUFFICES ASSUME PoolInv PROVE TypeOK
    OBVIOUS
  <2>1. mLockFlag \in 0..(2 * MaskSize - 1)
    BY FlaggedIsFinite, LockAssumption DEF PoolInv, LockInv
  <2>2. mCurrentUseCount \in Nat
    BY Finite DEF PoolInv, Counts
  <2>3. holders \in [Blocks -> Nat]
    <3>1. holders \in [Blocks -> {0, 1}]
      BY DEF PoolInv, Types
    <3>2. QED
      BY <3>1
  <2>4. mTotalAllocCount \in Nat
    BY PoolNumbers DEF PoolInv, Types
  <2>5. QED
    BY <2>1, <2>2, <2>3, <2>4 DEF PoolInv, Types, TypeOK
<1>2. QED
  BY <1>1, PoolInvHolds, PTL

\* The end of operator new hands a block out, the start of operator delete takes it
\* back; no other step shows.
LEMMA StepIsAllocatorStep ==
  ASSUME PoolInv, [Next]_vars
  PROVE  [Allocator!AllocatorNext]_holders
<1>1. CASE UNCHANGED vars
  BY <1>1 DEF vars
<1>2. ASSUME NEW t \in Threads, NEW b \in Blocks, Delete(t, b)
      PROVE  Allocator!AllocatorNext
  <2>1. holders[b] = 1 /\ holders[b] - 1 = 0 /\ holders' = [holders EXCEPT ![b] = @ - 1]
    BY <1>2 DEF Delete, Held, PoolInv, Types
  <2>2. QED
    BY <2>1 DEF Allocator!AllocatorNext, Allocator!Free
<1>3. ASSUME NEW t \in Threads, Return(t)
      PROVE  [Allocator!AllocatorNext]_holders
  <2>1. CASE op[t] = "new"
    <3>1. obj[t] \in Blocks /\ holders[obj[t]] = 0 /\ holders[obj[t]] + 1 = 1
      BY <1>3, <2>1, PoolNumbers DEF Return, LeaveWriteLock, PoolInv, Apart, Out
    <3>2. QED
      BY <1>3, <2>1, <3>1 DEF Return, Allocator!AllocatorNext, Allocator!Allocate
  <2>2. CASE op[t] # "new"
    BY <1>3, <2>2 DEF Return
  <2>3. QED
    BY <2>1, <2>2
<1>4. ASSUME NEW t \in Threads
      PROVE  New(t) \/ Lock(t) \/ Refill(t) \/ Look(t) \/ Take(t) \/ Link(t) \/ Give(t) => UNCHANGED holders
  BY DEF New, Lock, Refill, Look, Take, Link, Give
<1>5. QED
  BY <1>1, <1>2, <1>3, <1>4 DEF Next, Step

\* A block is given to one object at a time: nobody gets a block that is in use or
\* about to be returned (ObjectPool.h:17-53).
THEOREM PoolAllocates == Spec => ImplementsBlockAllocator
<1>1. Init => Allocator!AllocatorInit
  BY DEF Init, Allocator!AllocatorInit
<1>2. PoolInv /\ [Next]_vars => [Allocator!AllocatorNext]_holders
  BY StepIsAllocatorStep
<1>3. QED
  BY <1>1, <1>2, PoolInvHolds, PTL DEF Spec, ImplementsBlockAllocator, Allocator!AllocatorSpec

-----------------------------------------------------------------------------
\* FreeList follows its own rule, which is one step along the links: there is a
\* function that does, the one a chain gives.
LEMMA FreeListFollowsLinks ==
  ASSUME NEW list \in Seq(Blocks), IsChain(list)
  PROVE  FreeList = [i \in 0..Cardinality(Blocks) |->
                       IF i = 0 THEN mFreeList
                       ELSE IF FreeList[i - 1] \in Blocks THEN link[FreeList[i - 1]] ELSE FreeList[i - 1]]
<1> DEFINE N == Cardinality(Blocks)
           n == Len(list)
           walk == [i \in 0..N |-> IF i < n THEN list[i + 1] ELSE Null]
           Rule(f) == [i \in 0..N |-> IF i = 0 THEN mFreeList
                                      ELSE IF f[i - 1] \in Blocks THEN link[f[i - 1]] ELSE f[i - 1]]
<1>1. n \in Nat /\ N \in Nat
  <2>1. IsFiniteSet(Blocks)
    BY PoolAssumption, FS_Interval DEF Blocks
  <2>2. QED
    BY <2>1, FS_CardinalityType
<1>2. /\ \A i \in 1..n : link[list[i]] = IF i = n THEN Null ELSE list[i + 1]
      /\ \A i \in 1..n : list[i] \in Blocks
      /\ mFreeList = IF n = 0 THEN Null ELSE list[1]
  BY DEF IsChain
<1> HIDE DEF N, n
<1>3. ASSUME NEW i \in 0..N
      PROVE  walk[i] = IF i = 0 THEN mFreeList
                       ELSE IF walk[i - 1] \in Blocks THEN link[walk[i - 1]] ELSE walk[i - 1]
  <2>1. CASE i = 0
    BY <1>1, <1>2, <2>1
  <2>2. CASE i # 0
    <3>1. i - 1 \in 0..N /\ i \in Nat /\ (i - 1) + 1 = i
      BY <1>1, <2>2
    <3>2. walk[i - 1] = IF i - 1 < n THEN list[i] ELSE Null
      BY <3>1
    <3>3. CASE i - 1 < n
      <4>1. i \in 1..n /\ (i = n <=> ~(i < n))
        BY <1>1, <2>2, <3>1, <3>3
      <4>2. link[list[i]] = IF i < n THEN list[i + 1] ELSE Null
        BY <1>2, <4>1
      <4>3. QED
        BY <1>2, <2>2, <3>2, <3>3, <4>1, <4>2
    <3>4. CASE ~(i - 1 < n)
      <4>1. ~(i < n)
        BY <1>1, <3>1, <3>4
      <4>2. QED
        BY <2>2, <3>2, <3>4, <4>1, PoolNumbers
    <3>5. QED
      BY <3>3, <3>4
  <2>3. QED
    BY <2>1, <2>2
<1>4. walk = Rule(walk)
  BY <1>3
<1>5. FreeList = CHOOSE f : f = Rule(f)
  BY DEF FreeList, N
<1> HIDE DEF walk, Rule
<1>6. FreeList = Rule(FreeList)
  BY <1>4, <1>5
<1>7. QED
  BY <1>6 DEF Rule, N

\* So it walks along the chain, and stays at its end.
LEMMA FreeListIsTheChain ==
  ASSUME NEW list \in Seq(Blocks), IsChain(list), NEW k \in 0..Cardinality(Blocks)
  PROVE  FreeList[k] = IF k < Len(list) THEN list[k + 1] ELSE Null
<1> DEFINE N == Cardinality(Blocks)
           n == Len(list)
           at(i) == IF i < n THEN list[i + 1] ELSE Null
           S == {i \in Nat : i \in 0..N => FreeList[i] = at(i)}
<1>1. n \in Nat /\ N \in Nat
  <2>1. IsFiniteSet(Blocks)
    BY PoolAssumption, FS_Interval DEF Blocks
  <2>2. QED
    BY <2>1, FS_CardinalityType
<1>2. /\ \A i \in 1..n : link[list[i]] = IF i = n THEN Null ELSE list[i + 1]
      /\ \A i \in 1..n : list[i] \in Blocks
      /\ mFreeList = IF n = 0 THEN Null ELSE list[1]
  BY DEF IsChain
<1>3. \A i \in 0..N : FreeList[i] = IF i = 0 THEN mFreeList
                         ELSE IF FreeList[i - 1] \in Blocks THEN link[FreeList[i - 1]] ELSE FreeList[i - 1]
  BY FreeListFollowsLinks
<1> HIDE DEF N, n
<1>4. 0 \in S
  BY <1>1, <1>2, <1>3
<1>5. ASSUME NEW i \in Nat, i \in S PROVE i + 1 \in S
  <2> SUFFICES ASSUME i + 1 \in 0..N PROVE FreeList[i + 1] = at(i + 1)
    OBVIOUS
  <2>1. i \in 0..N /\ i + 1 # 0 /\ (i + 1) - 1 = i /\ FreeList[i] = at(i)
    BY <1>1, <1>5
  <2>2. FreeList[i + 1] = IF at(i) \in Blocks THEN link[at(i)] ELSE at(i)
    BY <1>3, <2>1
  <2>3. CASE i < n
    <3>1. i + 1 \in 1..n /\ (i + 1 = n <=> ~(i + 1 < n))
      BY <1>1, <2>3
    <3>2. at(i) \in Blocks /\ link[at(i)] = IF i + 1 = n THEN Null ELSE list[(i + 1) + 1]
      BY <1>2, <2>3, <3>1
    <3>3. QED
      BY <2>2, <3>1, <3>2
  <2>4. CASE ~(i < n)
    <3>1. ~(i + 1 < n)
      BY <1>1, <2>4
    <3>2. QED
      BY <2>2, <2>4, <3>1, PoolNumbers
  <2>5. QED
    BY <2>3, <2>4
<1> HIDE DEF S
<1>6. Nat \subseteq S
  BY <1>4, <1>5, SetInduction
<1>7. k \in S /\ k \in 0..N
  BY <1>1, <1>6 DEF N
<1>8. QED
  BY <1>7 DEF S, n

\* Between two critical sections the list runs without a loop to its end, through
\* exactly the blocks that no object is in and no thread is about to give back, and
\* the count of objects is right (ObjectPool.h:17-53).
THEOREM FreeListIsSound == Spec => []FreeListIsTheRest
<1>1. PoolInv => FreeListIsTheRest
  <2> SUFFICES ASSUME PoolInv, \A t \in Threads : ~InCriticalSection(t)
               PROVE  /\ FreeList[Cardinality(Blocks)] = Null
                      /\ {FreeList[i] : i \in DOMAIN FreeList} \ {Null}
                           = (1..mTotalAllocCount) \ (Held \cup {obj[t] : t \in Deleting})
                      /\ mCurrentUseCount = Cardinality(Held) + Cardinality(Deleting)
    BY DEF FreeListIsTheRest
  <2> DEFINE N == Cardinality(Blocks)
  <2>1. \A t \in Threads : pc[t] \notin {"give", "leave"}
    BY DEF InCriticalSection, Entering
  <2>2. PICK list \in Seq(Blocks) : IsChain(list)
    BY DEF PoolInv, Chained
  <2>3. Len(list) <= N /\ N \in Nat /\ Len(list) \in Nat
    <3>1. IsFiniteSet(Blocks)
      BY PoolAssumption, FS_Interval DEF Blocks
    <3>2. list \in Injection(1..Len(list), Blocks)
      BY <2>2 DEF IsChain, Injection
    <3>3. Cardinality(1..Len(list)) = Len(list) /\ Len(list) \in Nat
      BY FS_Interval
    <3>4. QED
      BY <3>1, <3>2, <3>3, FS_Injection, FS_CardinalityType
  <2>4. \A i \in 0..N : FreeList[i] = IF i < Len(list) THEN list[i + 1] ELSE Null
    BY <2>2, FreeListIsTheChain
  <2>5. FreeList[N] = Null
    BY <2>3, <2>4
  <2>6. {FreeList[i] : i \in DOMAIN FreeList} \ {Null} = Free
    <3>1. DOMAIN FreeList = 0..N
      BY <2>2, FreeListFollowsLinks
    <3>2. Entries(list) = Free /\ Null \notin Free
      BY <2>2, PoolNumbers DEF IsChain, Free, PoolInv
    <3>3. \A i \in 0..N : FreeList[i] = Null \/ FreeList[i] \in Free
      <4>1. \A i \in 0..N : i < Len(list) => i + 1 \in 1..Len(list) /\ list[i + 1] \in Entries(list)
        BY <2>3 DEF Entries
      <4>2. QED
        BY <2>4, <3>2, <4>1
    <3>4. ASSUME NEW b \in Free PROVE \E i \in 0..N : FreeList[i] = b
      <4>1. PICK j \in 1..Len(list) : list[j] = b
        BY <3>2 DEF Entries
      <4>2. j - 1 \in 0..N /\ j - 1 < Len(list) /\ (j - 1) + 1 = j
        BY <2>3
      <4>3. QED
        BY <2>4, <4>1, <4>2
    <3>5. QED
      BY <3>1, <3>2, <3>3, <3>4
  <2>7. Free = (1..mTotalAllocCount) \ (Held \cup {obj[t] : t \in Deleting})
    <3>1. \A t \in Threads : Out(t) <=> t \in Deleting
      BY <2>1 DEF Out, Deleting
    <3>2. \A b \in 1..mTotalAllocCount : b \in Held <=> holders[b] # 0
      BY PoolNumbers DEF Held, PoolInv, Types
    <3>3. \A b : b \in {obj[t] : t \in Deleting} <=> \E t \in Threads : Out(t) /\ obj[t] = b
      BY <3>1 DEF Deleting
    <3>4. QED
      BY <3>2, <3>3 DEF Free
  <2>8. Using = Deleting
    BY <2>1 DEF Using, Uses, Deleting
  <2>9. QED
    BY <2>5, <2>6, <2>7, <2>8 DEF PoolInv, Counts
<1>2. QED
  BY <1>1, PoolInvHolds, PTL
=============================================================================
