----------------------------- MODULE WriteLock ------------------------------
(***************************************************************************)
(* FastSpinlock of Homework4/EduServer_IOCP in write mode.  The lock is a  *)
(* counter of attempts: whoever adds its LF_WRITE_FLAG to nothing has the  *)
(* lock, everybody else takes the flag away again and waits.               *)
(*                                                                         *)
(* mLockFlag counts LF_WRITE_FLAGs: its bits 20 to 30 are LF_WRITE_MASK,   *)
(* bit 31 lies outside the mask.  The bits below, of the readers, stay     *)
(* zero: EnterReadLock never returns, so that the wait for readers in      *)
(* EnterWriteLock is over at once.  The locks modelled have the order      *)
(* LO_DONT_CARE, which keeps LockOrderChecker out of it.                   *)
(***************************************************************************)
EXTENDS Integers, FiniteSets

CONSTANTS
  Threads,
  MaskSize      \* how many flags fit under LF_WRITE_MASK: 2^11 in the code

ASSUME LockAssumption ==
  /\ IsFiniteSet(Threads)
  /\ MaskSize \in Nat \ {0, 1}
  /\ Cardinality(Threads) < MaskSize

VARIABLES mLockFlag, pc

lockVars == <<mLockFlag, pc>>

Goto(t, label) == pc' = [pc EXCEPT ![t] = label]

\* mLockFlag & LF_WRITE_MASK.
Masked(flag) == flag % MaskSize

\* InterlockedAdd of n flags, on the bits from 20 up.
Plus(flag, n) == (flag + n) % (2 * MaskSize)

LockInit ==
  /\ mLockFlag = 0
  /\ pc = [t \in Threads |-> "idle"]

\* EnterWriteLock, the inner loop: wait until nobody has the lock or tries.
Spin(t) ==
  /\ pc[t] = "spin"
  /\ Masked(mLockFlag) = 0
  /\ Goto(t, "add")
  /\ UNCHANGED mLockFlag

AddTestsPresence(t) ==                                               \* mutant
  /\ pc[t] = "add"
  /\ mLockFlag' = Plus(mLockFlag, 1)
  /\ Goto(t, IF Masked(mLockFlag') # 0 THEN "locked" ELSE "retract")

\* The InterlockedAdd and the test of its result.
Add(t) ==
  /\ pc[t] = "add"
  /\ mLockFlag' = Plus(mLockFlag, 1)
  /\ Goto(t, IF Masked(mLockFlag') = 1 THEN "locked" ELSE "retract")

RetractForgotten(t) ==                                               \* mutant
  pc[t] = "retract" /\ Goto(t, "spin") /\ UNCHANGED mLockFlag

\* Not the first: take the flag away again.
Retract(t) ==
  /\ pc[t] = "retract"
  /\ mLockFlag' = Plus(mLockFlag, -1)
  /\ Goto(t, "spin")

EnterWriteLock(t) == Spin(t) \/ Add(t) \/ Retract(t)

LeaveWriteLock(t) ==
  /\ pc[t] = "leave"
  /\ mLockFlag' = Plus(mLockFlag, -1)
  /\ Goto(t, "idle")

-----------------------------------------------------------------------------
Entering == {"spin", "add", "retract"}

\* A thread that is neither outside nor on its way in is in its critical section.
InCriticalSection(t) == pc[t] \notin Entering \cup {"idle"}

\* Two threads are never in a critical section of the lock at once, however many
\* of them add and take away their flags meanwhile (FastSpinlock.cpp:30, 39).
MutualExclusion ==
  \A t, u \in Threads : InCriticalSection(t) /\ InCriticalSection(u) => t = u

\* Failed attempts cannot keep everybody out for ever: if threads want the lock,
\* some thread gets it (FastSpinlock.cpp:23-40).  Which one is left open: a thread
\* may be overtaken again and again.
SomebodyEnters ==
  (\E t \in Threads : pc[t] \in Entering) ~> (\E t \in Threads : InCriticalSection(t))
=============================================================================
