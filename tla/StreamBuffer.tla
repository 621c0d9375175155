---------------------------- MODULE StreamBuffer ----------------------------
(***************************************************************************)
(* One CircularBuffer and the calls its users make on it: a look for free  *)
(* space (Session::PostRecv), a block written and committed                *)
(* (Session::PostSend), a run read and removed (Session::SendCompletion,   *)
(* Session::EchoBack), the reset (ClientSession::SessionReset).            *)
(***************************************************************************)
EXTENDS CircularBuffer

CONSTANT Byte                          \* the bytes the users write

ASSUME ByteAssumption == Byte \subseteq Nat

VARIABLE buf

Init == buf = BufferReset

\* GetFreeSpaceSize called for its value only (PostRecv, or a refused PostSend).
Probe == buf' = AfterProbe(buf)

\* A block that fits is copied to GetBuffer() and committed.
Write(bytes) ==
  LET p == AfterProbe(buf)
  IN  /\ Len(bytes) <= GetFreeSpaceSize(buf)
      /\ buf' = Commit(Fill(p, GetBuffer(p), bytes), Len(bytes))

\* A run of bytes read from GetBufferStart() is removed.
Read(n) ==
  /\ n \in 1..GetContiguiousBytes(buf)
  /\ buf' = Remove(buf, n)

\* Remove is also defined for a length that spans both regions, or exceeds them.
Discard(n) == buf' = Remove(buf, n)

Reset == buf' = BufferReset

Blocks == UNION {[1..k -> Byte] : k \in 1..Cap}

Next ==
  \/ Probe
  \/ \E bytes \in Blocks : Write(bytes)
  \/ \E n \in 1..Cap : Read(n)
  \/ \E n \in 0..(Cap + 1) : Discard(n)
  \/ Reset

Spec == Init /\ [][Next]_buf

-----------------------------------------------------------------------------
\* Type invariant: offsets and sizes stay within the memory, none is negative.
TypeOK == buf \in Buffers

\* The regions lie inside the memory and do not overlap, so that none of the
\* unsigned subtractions of CircularBuffer.h:103-119 can wrap around.
RegionsDisjoint ==
  /\ buf.aPtr + buf.aSize <= Cap
  /\ buf.bPtr # Null => buf.bPtr + buf.bSize <= buf.aPtr
  /\ buf.bPtr = Null => buf.bSize = 0

\* An empty A region is at the start of the memory and has no B region behind
\* it: GetBufferStart (CircularBuffer.h:87) then never returns nullptr for a
\* buffer that stores something, and the order "A before B" is never inverted.
NoOrphanB == buf.aSize = 0 => buf.aPtr = 0 /\ buf.bPtr = Null

\* Every operation is one of a bounded FIFO queue of bytes: what is read is what
\* was written, once and in order, whichever regions it went through.
Queue == INSTANCE ByteQueue WITH queue <- Contents(buf)
IsByteQueue == Queue!QueueInit /\ [][Queue!QueueNext]_(Contents(buf))
=============================================================================
