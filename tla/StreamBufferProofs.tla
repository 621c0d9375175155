------------------------- MODULE StreamBufferProofs -------------------------
(***************************************************************************)
(* Proofs about StreamBuffer, for every capacity and every set of bytes.   *)
(***************************************************************************)
EXTENDS StreamBuffer, BufferLemmas

-----------------------------------------------------------------------------
\* Regions never overlap, never leave the memory, and B never stands alone: all
\* the invariants of StreamBuffer, for every capacity.
THEOREM RegionsAreSafe == Spec => [](TypeOK /\ RegionsDisjoint /\ NoOrphanB)
<1>1. Init => BufferOK(buf)
  BY ResetOK DEF Init
<1>2. BufferOK(buf) /\ [Next]_buf => BufferOK(buf)'
  <2> SUFFICES ASSUME BufferOK(buf), [Next]_buf
               PROVE  BufferOK(buf')
    OBVIOUS
  <2>1. CASE Probe
    BY <2>1, ProbeOK DEF Probe
  <2>2. ASSUME NEW bytes \in Blocks, Write(bytes)
        PROVE  BufferOK(buf')
    <3>1. PICK n \in 1..Cap : bytes \in [1..n -> Byte]
      BY DEF Blocks
    <3>2. n \in Nat /\ bytes \in [1..n -> Nat]
      <4>1. n \in Nat
        BY CapAssumption
      <4>2. \A i \in 1..n : bytes[i] \in Nat
        BY <3>1, ByteAssumption
      <4>3. QED BY <3>1, <4>1, <4>2
    <3> DEFINE p == AfterProbe(buf)
               f == Fill(p, GetBuffer(p), bytes)
    <3>3. BufferOK(p)
      BY ProbeOK
    <3>4. GetBuffer(p) \in Int
      BY <3>3, CapAssumption DEF BufferOK, Buffers, GetBuffer, Null
    <3>5. BufferOK(f) /\ Len(bytes) = n
      BY <3>2, <3>3, <3>4, FillOK
    <3>6. f.aPtr = p.aPtr /\ f.aSize = p.aSize /\ f.bPtr = p.bPtr /\ f.bSize = p.bSize
      BY <3>3 DEF Fill, BufferOK, Buffers
    <3>7. n \in 1..GetFreeSpaceSize(buf) /\ buf' = Commit(f, n)
      BY <2>2, <3>1, <3>5, ProbeOK, CapAssumption DEF Write
    <3> HIDE DEF f
    <3>8. QED
      BY <3>5, <3>6, <3>7, CommitOK
  <2>3. ASSUME NEW n \in 1..Cap, Read(n)
        PROVE  BufferOK(buf')
    BY <2>3, RemoveOK, CapAssumption DEF Read
  <2>4. ASSUME NEW n \in 0..(Cap + 1), Discard(n)
        PROVE  BufferOK(buf')
    BY <2>4, RemoveOK, CapAssumption DEF Discard
  <2>5. CASE Reset
    BY <2>5, ResetOK DEF Reset
  <2>6. CASE UNCHANGED buf
    BY <2>6
  <2>7. QED
    BY <2>1, <2>2, <2>3, <2>4, <2>5, <2>6 DEF Next
<1>3. BufferOK(buf) => TypeOK /\ RegionsDisjoint /\ NoOrphanB
  BY DEF BufferOK, RegionsOK, TypeOK, RegionsDisjoint, NoOrphanB
<1>4. QED
  BY <1>1, <1>2, <1>3, PTL DEF Spec

\* Offsets and sizes stay within the memory, for every capacity.
THEOREM BufferIsTyped == Spec => []TypeOK
<1>1. TypeOK /\ RegionsDisjoint /\ NoOrphanB => TypeOK
  OBVIOUS
<1>2. QED BY RegionsAreSafe, <1>1, PTL

\* An empty region A has no region B behind it, for every capacity.
THEOREM NoRegionIsOrphaned == Spec => []NoOrphanB
<1>1. TypeOK /\ RegionsDisjoint /\ NoOrphanB => NoOrphanB
  OBVIOUS
<1>2. QED BY RegionsAreSafe, <1>1, PTL

-----------------------------------------------------------------------------
\* A fresh buffer stores nothing.
LEMMA ResetContents == Contents(BufferReset) = << >>
<1>1. BufferReset.aSize + BufferReset.bSize = 0
  BY DEF BufferReset
<1>2. Contents(BufferReset) \in Seq(Nat) /\ Len(Contents(BufferReset)) = 0
  BY <1>1, ResetOK, ContentsAt
<1>3. QED
  BY <1>2, EmptySeq

\* Remove is Dequeue of what there is, at most as much as was asked for.
LEMMA RemoveIsDequeue ==
  ASSUME BufferOK(buf), NEW n \in 0..(Cap + 1), buf' = Remove(buf, n)
  PROVE  \E k \in 0..Cap : Queue!Dequeue(k)
<1> DEFINE L == buf.aSize + buf.bSize
           k == Lesser(n, L)
<1>1. n \in Nat
  BY CapAssumption
<1>2. k \in 0..L /\ Contents(Remove(buf, n)) = SubSeq(Contents(buf), k + 1, L)
  BY <1>1, RemoveContents
<1>3. Len(Contents(buf)) = L /\ L \in Nat /\ L <= Cap
  <2>1. Len(Contents(buf)) = L
    BY ContentsAt
  <2>2. /\ buf.aSize \in Nat /\ buf.bSize \in Nat /\ buf.aPtr \in Nat
        /\ buf.aPtr + buf.aSize <= Cap /\ buf.bSize <= buf.aPtr
    BY BufferFields
  <2>3. L \in Nat /\ L <= Cap
    BY <2>2, CapAssumption
  <2>4. QED BY <2>1, <2>3
<1> HIDE DEF k, L
<1>4. k \in 0..Cap /\ k <= Len(Contents(buf))
  BY <1>2, <1>3, CapAssumption
<1>5. Contents(buf)' = SubSeq(Contents(buf), k + 1, Len(Contents(buf)))
  <2>1. Contents(buf)' = Contents(buf')
    OBVIOUS
  <2>2. QED BY <1>2, <1>3, <2>1
<1>6. Queue!Dequeue(k)
  BY <1>4, <1>5 DEF Queue!Dequeue
<1>7. QED BY <1>4, <1>6

\* The buffer is a bounded queue of bytes, for every capacity and every set of
\* bytes: what is read is what was written, once and in order, whichever regions
\* it went through, and no write is accepted that the memory cannot hold.
THEOREM BufferIsAQueue == Spec => IsByteQueue
<1>1. Init => BufferOK(buf) /\ Queue!QueueInit
  BY ResetOK, ResetContents DEF Init, Queue!QueueInit
<1>2. BufferOK(buf) /\ [Next]_buf => [Queue!QueueNext]_(Contents(buf))
  <2> SUFFICES ASSUME BufferOK(buf), [Next]_buf
               PROVE  [Queue!QueueNext]_(Contents(buf))
    OBVIOUS
  <2>0. \A b : buf' = b => Contents(buf)' = Contents(b)
    OBVIOUS
  <2>1. CASE Probe
    <3>1. Contents(buf)' = Contents(AfterProbe(buf))
      BY <2>0, <2>1 DEF Probe
    <3>2. QED BY <3>1, ProbeContents
  <2>2. ASSUME NEW bytes \in Blocks, Write(bytes)
        PROVE  Queue!QueueNext
    <3> DEFINE p == AfterProbe(buf)
               c == Commit(Fill(p, GetBuffer(p), bytes), Len(bytes))
    <3>1. PICK n \in 1..Cap : bytes \in [1..n -> Byte]
      BY DEF Blocks
    <3>2. n \in Nat /\ bytes \in [1..n -> Nat] /\ Len(bytes) = n
      <4>1. n \in Nat
        BY CapAssumption
      <4>2. \A i \in 1..n : bytes[i] \in Nat
        BY <3>1, ByteAssumption
      <4>3. Len(bytes) = n
        BY <3>1, <4>1, FunctionIsSeq
      <4>4. QED BY <3>1, <4>1, <4>2, <4>3
    <3>3. BufferOK(p) /\ AfterProbe(p) = p /\ Contents(p) = Contents(buf)
      BY ProbeOK, ProbeContents
    <3>4. n \in 1..GetFreeSpaceSize(p) /\ buf' = c
      <4>1. GetFreeSpaceSize(p) = GetFreeSpaceSize(buf) /\ GetFreeSpaceSize(buf) \in 0..Cap
        BY ProbeOK, ProbeContents
      <4>2. n <= GetFreeSpaceSize(buf) /\ buf' = c
        BY <2>2, <3>2 DEF Write
      <4> HIDE DEF p, c
      <4>3. QED BY <3>1, <4>1, <4>2, CapAssumption
    <3>5. BufferOK(c) /\ Contents(c) = Contents(buf) \o bytes
      <4>1. c = Commit(Fill(p, GetBuffer(p), bytes), n)
        BY <3>2
      <4> HIDE DEF c, p
      <4>2. BufferOK(c) /\ Contents(c) = Contents(p) \o bytes
        <5>1. BufferOK(p) /\ AfterProbe(p) = p /\ n \in 1..GetFreeSpaceSize(p)
          BY <3>3, <3>4
        <5>2. bytes \in [1..n -> Nat]
          BY <3>2
        <5>3. QED BY <5>1, <5>2, <4>1, WriteContents, SMTT(60)
      <4>3. QED BY <3>3, <4>2
    <3> HIDE DEF c
    <3>6. Contents(buf)' = Contents(buf) \o bytes
      BY <2>0, <3>4, <3>5
    <3>7. Len(Contents(buf)) + Len(bytes) <= Cap
      <4>1. Contents(buf) \in Seq(Nat) /\ bytes \in Seq(Nat)
        BY <3>2, ContentsAt, FunctionIsSeq
      <4>2. Len(Contents(c)) = Len(Contents(buf)) + Len(bytes)
        BY <3>5, <4>1, ConcatProperties
      <4>3. Len(Contents(c)) = c.aSize + c.bSize /\ c.aSize + c.bSize <= Cap
        <5>1. Len(Contents(c)) = c.aSize + c.bSize
          BY <3>5, ContentsAt
        <5>2. /\ c.aSize \in Nat /\ c.bSize \in Nat /\ c.aPtr \in Nat
              /\ c.aPtr + c.aSize <= Cap /\ c.bSize <= c.aPtr
          BY <3>5, BufferFields
        <5>3. c.aSize + c.bSize <= Cap
          BY <5>2, CapAssumption
        <5>4. QED BY <5>1, <5>3
      <4>4. QED BY <4>2, <4>3
    <3>8. bytes \in Queue!Blocks
      BY DEF Blocks, Queue!Blocks
    <3>9. Queue!Enqueue(bytes)
      BY <3>6, <3>7 DEF Queue!Enqueue
    <3>10. QED BY <3>8, <3>9 DEF Queue!QueueNext
  <2>3. ASSUME NEW n \in 1..Cap, Read(n)
        PROVE  Queue!QueueNext
    <3>1. n \in 0..(Cap + 1) /\ buf' = Remove(buf, n)
      BY <2>3, CapAssumption DEF Read
    <3>2. QED BY <3>1, RemoveIsDequeue DEF Queue!QueueNext
  <2>4. ASSUME NEW n \in 0..(Cap + 1), Discard(n)
        PROVE  Queue!QueueNext
    <3>1. buf' = Remove(buf, n)
      BY <2>4 DEF Discard
    <3>2. QED BY <3>1, RemoveIsDequeue DEF Queue!QueueNext
  <2>5. CASE Reset
    <3>1. Contents(buf)' = << >>
      BY <2>0, <2>5, ResetContents DEF Reset
    <3>2. QED BY <3>1 DEF Queue!QueueNext, Queue!Clear
  <2>6. CASE UNCHANGED buf
    BY <2>0, <2>6
  <2>7. QED
    BY <2>1, <2>2, <2>3, <2>4, <2>5, <2>6 DEF Next
<1>3. TypeOK /\ RegionsDisjoint /\ NoOrphanB => BufferOK(buf)
  BY DEF BufferOK, RegionsOK, TypeOK, RegionsDisjoint, NoOrphanB
<1>4. Spec => Init /\ [][Next]_buf
  BY DEF Spec
<1>5. QED
  BY <1>1, <1>2, <1>3, <1>4, RegionsAreSafe, PTL DEF IsByteQueue
=============================================================================
