--------------------------- MODULE CircularBuffer ---------------------------
(***************************************************************************)
(* The stream buffer of a session, class CircularBuffer of                 *)
(* Homework5/EduServer_IOCP/CircularBuffer.{h,cpp}, as operators on a      *)
(* record: a block of memory and two regions of it.  Region A holds the    *)
(* oldest bytes.  When there is more room in front of A than behind it,    *)
(* new bytes go to region B at the start of the memory, and B becomes A    *)
(* once A is empty.  Pointers are offsets from mBuffer.                    *)
(***************************************************************************)
EXTENDS Integers, Sequences

CONSTANT Cap             \* mCapacity

ASSUME CapAssumption == Cap \in Nat \ {0}

Null  == -1              \* the pointer nullptr
Blank == 0               \* the byte memset writes

\* A fresh or reset buffer.
BufferReset ==
  [mem   |-> [i \in 0..(Cap - 1) |-> Blank],
   aPtr  |-> 0, aSize |-> 0, bPtr |-> Null, bSize |-> 0]

GetStoredSize(b) == b.aSize + b.bSize

GetAFreeSpace(b)   == Cap - b.aPtr - b.aSize
GetSpaceBeforeA(b) == b.aPtr
GetBFreeSpace(b)   == IF b.bPtr = Null THEN 0 ELSE b.aPtr - b.bPtr - b.bSize

\* GetFreeSpaceSize is not a pure query: it opens region B when there is more
\* room in front of A than behind it.  AfterProbe is the buffer it leaves.
AfterProbe(b) ==
  IF b.bPtr = Null /\ GetAFreeSpace(b) < GetSpaceBeforeA(b)
  THEN [b EXCEPT !.bPtr = 0]
  ELSE b

GetFreeSpaceSize(b) ==
  LET p == AfterProbe(b)
  IN  IF p.bPtr # Null THEN GetBFreeSpace(p) ELSE GetAFreeSpace(p)

\* Where the next byte is written, and how many bytes can be read in one run
\* from where.
GetBuffer(b) == IF b.bPtr # Null THEN b.bPtr + b.bSize ELSE b.aPtr + b.aSize

GetContiguiousBytes(b) == IF b.aSize > 0 THEN b.aSize ELSE b.bSize

GetBufferStart(b) == IF b.aSize > 0 THEN b.aPtr ELSE b.bPtr

CommitToA(b, n) == [b EXCEPT !.aSize = @ + n]                         \* mutant

Commit(b, n) ==
  IF b.bPtr # Null THEN [b EXCEPT !.bSize = @ + n] ELSE [b EXCEPT !.aSize = @ + n]

\* The users of the buffer write the memory themselves, before Commit.
Fill(b, at, bytes) ==
  [b EXCEPT !.mem = [i \in 0..(Cap - 1) |->
     IF i \in at..(at + Len(bytes) - 1) THEN bytes[i - at + 1] ELSE @[i]]]

Lesser(m, n) == IF m < n THEN m ELSE n

RemoveTooMuch(b, n) ==                                               \* mutant
  IF b.aSize > 0 THEN [b EXCEPT !.aPtr = @ + n, !.aSize = @ - n] ELSE b

RemoveKeepsPlace(b, n) ==                                            \* mutant
  IF n < b.aSize \/ b.bSize = 0
  THEN [b EXCEPT !.aPtr = @ + Lesser(n, b.aSize), !.aSize = @ - Lesser(n, b.aSize)]
  ELSE [b EXCEPT !.aPtr = 0, !.aSize = b.bSize - Lesser(n - b.aSize, b.bSize),
                 !.bPtr = Null, !.bSize = 0]

RemoveMovesNothing(b, n) ==                                          \* mutant
  IF n < b.aSize
  THEN [b EXCEPT !.aPtr = @ + n, !.aSize = @ - n]
  ELSE [b EXCEPT !.aPtr = 0, !.aSize = b.bSize - Lesser(n - b.aSize, b.bSize),
                 !.bPtr = Null, !.bSize = 0]

\* Remove: A loses its first bytes, then B; an empty A is replaced by B, which
\* memmove first brings to the start of the memory.
Remove(b, n) ==
  LET aCut == Lesser(n, b.aSize)
      bCut == Lesser(n - aCut, b.bSize)
      left == b.bSize - bCut
      from == b.bPtr + bCut
  IN  IF aCut < b.aSize
      THEN [b EXCEPT !.aPtr = @ + aCut, !.aSize = @ - aCut]
      ELSE [mem   |-> [i \in 0..(Cap - 1) |->
                         IF i < left THEN b.mem[from + i] ELSE b.mem[i]],
            aPtr  |-> 0, aSize |-> left, bPtr |-> Null, bSize |-> 0]

-----------------------------------------------------------------------------
\* The n bytes at offset at, and all the bytes stored, oldest first.
Window(b, at, n) == [i \in 1..n |-> b.mem[at + i - 1]]

Contents(b) == Window(b, b.aPtr, b.aSize) \o Window(b, b.bPtr, b.bSize)

\* The type of a buffer.  Region B, when there is one, begins at the start of the
\* memory: Remove never leaves it anywhere else.
Buffers ==
  [mem  : [0..(Cap - 1) -> Nat],
   aPtr : 0..Cap, aSize : 0..Cap, bPtr : {Null, 0}, bSize : 0..Cap]
=============================================================================
