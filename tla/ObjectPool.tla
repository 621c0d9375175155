----------------------------- MODULE ObjectPool -----------------------------
(***************************************************************************)
(* ObjectPool<TOBJECT, ALLOC_COUNT> of Homework4/EduServer_IOCP (and, with *)
(* another lock, of Homework5 to Homework7): operator new and delete of a  *)
(* type of I/O context, called by any thread.  Free blocks are chained     *)
(* through their own memory, under the class's lock.                       *)
(***************************************************************************)
EXTENDS WriteLock

CONSTANTS
  AllocCount,     \* ALLOC_COUNT, the blocks of one allocation
  MaxInUse        \* bound: how many objects the program has at a time

ASSUME PoolAssumption == AllocCount \in Nat \ {0} /\ MaxInUse \in Nat \ {0}

\* The memory the pool may come to own, in blocks of sizeof(TOBJECT).
Blocks == 1..(MaxInUse + AllocCount)

Null == 0
Data == -1      \* an object's first bytes, which are no address of a block

VARIABLES
  status,       \* "running", or "crashed" by a CRASH_ASSERT
  mFreeList, mTotalAllocCount, mCurrentUseCount,
  link,         \* the pointer in the first bytes of each block
  op, obj,      \* per thread: the call it is in, and its pAvailable or obj
  holders       \* history: how many objects live in each block

poolVars == <<mFreeList, mTotalAllocCount, mCurrentUseCount, link>>
vars     == <<status, lockVars, poolVars, op, obj, holders>>

Held    == {b \in Blocks : holders[b] > 0}
Callers == {t \in Threads : op[t] # "none"}

-----------------------------------------------------------------------------
\* A thread creates a context, or deletes one that exists, whoever created it:
\* both calls begin with the LockGuard.
New(t) ==
  /\ pc[t] = "idle"
  /\ Cardinality(Held) + Cardinality(Callers) < MaxInUse
  /\ op' = [op EXCEPT ![t] = "new"]
  /\ Goto(t, "spin")
  /\ UNCHANGED <<status, mLockFlag, poolVars, obj, holders>>

Delete(t, b) ==
  /\ pc[t] = "idle"
  /\ b \in Held
  /\ holders' = [holders EXCEPT ![b] = @ - 1]
  /\ op' = [op EXCEPT ![t] = "delete"]
  /\ obj' = [obj EXCEPT ![t] = b]
  /\ Goto(t, "spin")
  /\ UNCHANGED <<status, mLockFlag, poolVars>>

ChunkUnterminated(first) ==                                          \* mutant
  [b \in Blocks |-> IF b \in first..(first + AllocCount - 2) THEN b + 1 ELSE link[b]]

\* The blocks of a fresh allocation, chained in their order.
Chunk(first) ==
  LET last == first + AllocCount - 1
  IN  [b \in Blocks |-> IF b = last THEN Null
                        ELSE IF b \in first..last THEN b + 1 ELSE link[b]]

\* operator new on an empty list.
Refill(t) ==
  /\ pc[t] = "locked" /\ op[t] = "new"
  /\ mFreeList = Null
  /\ mFreeList' = mTotalAllocCount + 1
  /\ link' = Chunk(mTotalAllocCount + 1)
  /\ mTotalAllocCount' = mTotalAllocCount + AllocCount
  /\ UNCHANGED <<status, lockVars, mCurrentUseCount, op, obj, holders>>

\* pAvailable is the head of the list ...
Look(t) ==
  /\ pc[t] = "locked" /\ op[t] = "new"
  /\ mFreeList # Null
  /\ obj' = [obj EXCEPT ![t] = mFreeList]
  /\ Goto(t, "take")
  /\ UNCHANGED <<status, mLockFlag, poolVars, op, holders>>

TakeKeepsHead(t) ==                                                  \* mutant
  /\ pc[t] = "take"
  /\ mCurrentUseCount' = mCurrentUseCount + 1
  /\ Goto(t, "leave")
  /\ UNCHANGED <<status, mLockFlag, mFreeList, mTotalAllocCount, link, op, obj, holders>>

TakeUncounted(t) ==                                                  \* mutant
  /\ pc[t] = "take"
  /\ mFreeList' = link[obj[t]]
  /\ Goto(t, "leave")
  /\ UNCHANGED <<status, mLockFlag, mTotalAllocCount, mCurrentUseCount, link, op, obj, holders>>

\* ... and the list is what it points to.
Take(t) ==
  /\ pc[t] = "take"
  /\ mFreeList' = link[obj[t]]
  /\ mCurrentUseCount' = mCurrentUseCount + 1
  /\ Goto(t, "leave")
  /\ UNCHANGED <<status, mLockFlag, mTotalAllocCount, link, op, obj, holders>>

\* operator delete: the assertion, the count, and the block points to the list ...
Link(t) ==
  /\ pc[t] = "locked" /\ op[t] = "delete"
  /\ status' = IF mCurrentUseCount > 0 THEN status ELSE "crashed"
  /\ mCurrentUseCount' = mCurrentUseCount - 1
  /\ link' = [link EXCEPT ![obj[t]] = mFreeList]
  /\ Goto(t, "give")
  /\ UNCHANGED <<mLockFlag, mFreeList, mTotalAllocCount, op, obj, holders>>

\* ... and becomes its head.
Give(t) ==
  /\ pc[t] = "give"
  /\ mFreeList' = obj[t]
  /\ Goto(t, "leave")
  /\ UNCHANGED <<status, mLockFlag, mTotalAllocCount, mCurrentUseCount, link, op, obj, holders>>

\* ~LockGuard, and the call returns.  The constructor of a new object writes over
\* the pointer that chained its block.
Return(t) ==
  /\ LeaveWriteLock(t)
  /\ link' = IF op[t] = "new" THEN [link EXCEPT ![obj[t]] = Data] ELSE link
  /\ holders' = IF op[t] = "new" THEN [holders EXCEPT ![obj[t]] = @ + 1] ELSE holders
  /\ op' = [op EXCEPT ![t] = "none"]
  /\ obj' = [obj EXCEPT ![t] = Null]
  /\ UNCHANGED <<status, mFreeList, mTotalAllocCount, mCurrentUseCount>>

-----------------------------------------------------------------------------
Init ==
  /\ LockInit
  /\ status = "running"
  /\ mFreeList = Null /\ mTotalAllocCount = 0 /\ mCurrentUseCount = 0
  /\ link = [b \in Blocks |-> Data]
  /\ op  = [t \in Threads |-> "none"]
  /\ obj = [t \in Threads |-> Null]
  /\ holders = [b \in Blocks |-> 0]

Lock(t) == EnterWriteLock(t) /\ UNCHANGED <<status, poolVars, op, obj, holders>>

\* What a thread does by itself once it is in a call.
Step(t) == Lock(t) \/ Refill(t) \/ Look(t) \/ Take(t) \/ Link(t) \/ Give(t) \/ Return(t)

Next ==
  /\ status = "running"
  /\ \E t \in Threads : New(t) \/ (\E b \in Blocks : Delete(t, b)) \/ Step(t)

Spec == Init /\ [][Next]_vars

\* Threads are scheduled; nobody has to make another call.
FairSpec == Spec /\ \A t \in Threads : WF_vars(status = "running" /\ Step(t))

-----------------------------------------------------------------------------
\* Type invariant.  The count is never negative: the assertion of operator delete
\* (ObjectPool.h:48) holds.
TypeOK ==
  /\ status = "running"
  /\ mLockFlag \in 0..(2 * MaskSize - 1)
  /\ pc \in [Threads -> {"idle", "spin", "add", "retract", "locked", "take", "give", "leave"}]
  /\ mFreeList \in Blocks \cup {Null}
  /\ mTotalAllocCount \in Nat /\ mCurrentUseCount \in Nat
  /\ link \in [Blocks -> 0..mTotalAllocCount \cup {Data}]
  /\ op \in [Threads -> {"none", "new", "delete"}]
  /\ obj \in [Threads -> Blocks \cup {Null}]
  /\ holders \in [Blocks -> Nat]

\* The addresses met on the way through the list, ending with what is no block.
FreeList ==
  LET at[i \in 0..Cardinality(Blocks)] ==
        IF i = 0 THEN mFreeList
        ELSE IF at[i - 1] \in Blocks THEN link[at[i - 1]] ELSE at[i - 1]
  IN  at

Deleting == {t \in Threads : op[t] = "delete"}

\* Between two critical sections the list runs, without a loop, to its end through
\* exactly the blocks that no object is in and no thread is about to give back;
\* nothing is lost, nothing is there twice, and no object's bytes are taken for a
\* pointer.  The count of objects is right (ObjectPool.h:17-53).
FreeListIsTheRest ==
  (\A t \in Threads : ~InCriticalSection(t)) =>
    /\ FreeList[Cardinality(Blocks)] = Null
    /\ {FreeList[i] : i \in DOMAIN FreeList} \ {Null}
         = (1..mTotalAllocCount) \ (Held \cup {obj[t] : t \in Deleting})
    /\ mCurrentUseCount = Cardinality(Held) + Cardinality(Deleting)

\* The pool hands a block to one holder at a time.
Allocator == INSTANCE BlockAllocator

ImplementsBlockAllocator == Allocator!AllocatorSpec
=============================================================================
