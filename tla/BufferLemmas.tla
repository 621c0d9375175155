---------------------------- MODULE BufferLemmas ----------------------------
(***************************************************************************)
(* Lemmas about the operators of CircularBuffer: what keeps a buffer well  *)
(* formed, and what each operation does to the bytes it stores.            *)
(***************************************************************************)
EXTENDS CircularBuffer, SequenceTheorems, TLAPS

\* What the operations preserve, for any buffer.
RegionsOK(b) ==
  /\ b.aPtr + b.aSize <= Cap
  /\ b.bPtr # Null => b.bPtr + b.bSize <= b.aPtr
  /\ b.bPtr = Null => b.bSize = 0
  /\ b.aSize = 0 => b.aPtr = 0 /\ b.bPtr = Null

BufferOK(b) == b \in Buffers /\ RegionsOK(b)

\* The fields of a sound buffer, as numbers.
LEMMA BufferFields ==
  ASSUME NEW b, BufferOK(b)
  PROVE  /\ b \in Buffers /\ b.mem \in [0..(Cap - 1) -> Nat]
         /\ b.aPtr \in Nat /\ b.aSize \in Nat /\ b.bSize \in Nat
         /\ b.aPtr + b.aSize <= Cap /\ b.bSize <= b.aPtr
         /\ b.bPtr \in {Null, 0} /\ Null = -1
         /\ b.bPtr = Null => b.bSize = 0
         /\ b.aSize = 0 => b.aPtr = 0 /\ b.bPtr = Null
  BY CapAssumption DEF BufferOK, RegionsOK, Buffers, Null

\* A fresh buffer is sound.
LEMMA ResetOK == BufferOK(BufferReset)
  BY CapAssumption DEF BufferOK, RegionsOK, Buffers, BufferReset, Null, Blank

\* Looking for free space keeps a buffer sound, and the free space it reports is
\* a natural number.
LEMMA ProbeOK ==
  ASSUME NEW b, BufferOK(b)
  PROVE  BufferOK(AfterProbe(b)) /\ GetFreeSpaceSize(b) \in 0..Cap
<1> USE CapAssumption DEF BufferOK, RegionsOK, Buffers, Null, AfterProbe, GetAFreeSpace,
        GetSpaceBeforeA
<1>1. CASE b.bPtr = Null /\ GetAFreeSpace(b) < GetSpaceBeforeA(b)
  BY <1>1 DEF GetFreeSpaceSize, GetBFreeSpace
<1>2. CASE ~(b.bPtr = Null /\ GetAFreeSpace(b) < GetSpaceBeforeA(b))
  BY <1>2 DEF GetFreeSpaceSize, GetBFreeSpace
<1>3. QED BY <1>1, <1>2

\* Copying bytes into the memory does not touch the regions.
LEMMA FillOK ==
  ASSUME NEW b, BufferOK(b), NEW at \in Int, NEW n \in Nat, NEW bytes \in [1..n -> Nat]
  PROVE  BufferOK(Fill(b, at, bytes)) /\ Len(bytes) = n
<1>1. Len(bytes) = n
  OBVIOUS
<1>2. ASSUME NEW i \in 0..(Cap - 1)
      PROVE  (IF i \in at..(at + n - 1) THEN bytes[i - at + 1] ELSE b.mem[i]) \in Nat
  BY <1>2, CapAssumption DEF BufferOK, Buffers
<1>3. QED
  BY <1>1, <1>2 DEF BufferOK, RegionsOK, Buffers, Fill

\* Committing at most the free space keeps a probed buffer sound.
LEMMA CommitOK ==
  ASSUME NEW b, BufferOK(b), NEW p, p = AfterProbe(b), NEW c, BufferOK(c),
         c.aPtr = p.aPtr, c.aSize = p.aSize, c.bPtr = p.bPtr, c.bSize = p.bSize,
         NEW n \in 1..GetFreeSpaceSize(b)
  PROVE  BufferOK(Commit(c, n))
<1>1. BufferOK(p) /\ GetFreeSpaceSize(b) \in 0..Cap
  BY ProbeOK
<1>2. CASE p.bPtr # Null
  <2>1. GetFreeSpaceSize(b) = c.aPtr - c.bPtr - c.bSize
    BY <1>2 DEF GetFreeSpaceSize, GetBFreeSpace
  <2> DEFINE m == c.bSize + n
  <2>2. Commit(c, n) = [c EXCEPT !.bSize = m]
    BY <1>2 DEF Commit
  <2>3. m \in 1..Cap /\ c.bPtr + m <= c.aPtr /\ c \in Buffers
    BY <1>1, <1>2, <2>1, BufferFields, CapAssumption
  <2> HIDE DEF m
  <2> DEFINE d == [c EXCEPT !.bSize = m]
  <2>4. d \in Buffers /\ d.aPtr = c.aPtr /\ d.aSize = c.aSize /\ d.bPtr = c.bPtr /\ d.bSize = m
    BY <2>3, CapAssumption DEF Buffers
  <2>5. Commit(c, n) = d
    BY <2>2
  <2> HIDE DEF d
  <2>6. RegionsOK(d)
    BY <1>2, <2>3, <2>4, BufferFields DEF RegionsOK
  <2>7. QED
    BY <2>4, <2>5, <2>6 DEF BufferOK
<1>3. CASE p.bPtr = Null
  <2>1. GetFreeSpaceSize(b) = Cap - c.aPtr - c.aSize
    BY <1>3 DEF GetFreeSpaceSize, GetAFreeSpace
  <2> DEFINE m == c.aSize + n
  <2>2. Commit(c, n) = [c EXCEPT !.aSize = m]
    BY <1>3 DEF Commit
  <2>3. m \in 1..Cap /\ c.aPtr + m <= Cap /\ c \in Buffers
    BY <1>1, <2>1, BufferFields, CapAssumption
  <2> HIDE DEF m
  <2> DEFINE d == [c EXCEPT !.aSize = m]
  <2>4. d \in Buffers /\ d.aPtr = c.aPtr /\ d.aSize = m /\ d.bPtr = c.bPtr /\ d.bSize = c.bSize
    BY <2>3, CapAssumption DEF Buffers
  <2>5. Commit(c, n) = d
    BY <2>2
  <2> HIDE DEF d
  <2>6. RegionsOK(d)
    BY <1>3, <2>3, <2>4, BufferFields DEF RegionsOK
  <2>7. QED
    BY <2>4, <2>5, <2>6 DEF BufferOK
<1>4. QED BY <1>2, <1>3

\* Removing any number of bytes keeps a buffer sound.
LEMMA RemoveOK ==
  ASSUME NEW b, BufferOK(b), NEW n \in Nat
  PROVE  BufferOK(Remove(b, n))
<1> DEFINE aCut == Lesser(n, b.aSize)
           bCut == Lesser(n - aCut, b.bSize)
           left == b.bSize - bCut
           from == b.bPtr + bCut
<1> USE CapAssumption
<1>1. /\ aCut \in 0..b.aSize /\ left \in 0..b.bSize
      /\ bCut \in 0..b.bSize /\ b.bSize \in 0..Cap
  BY DEF BufferOK, Buffers, Lesser
<1>2. CASE aCut < b.aSize
  <2> DEFINE k == b.aPtr + aCut
             m == b.aSize - aCut
  <2>1. Remove(b, n) = [b EXCEPT !.aPtr = k, !.aSize = m]
    BY <1>2 DEF Remove
  <2>2. /\ k \in 0..Cap /\ m \in 1..Cap /\ b \in Buffers
        /\ k + m = b.aPtr + b.aSize /\ k >= b.aPtr
    <3>1. b \in Buffers /\ b.aPtr \in 0..Cap /\ b.aSize \in 0..Cap /\ b.aPtr + b.aSize <= Cap
      BY BufferFields
    <3>2. aCut \in 0..b.aSize /\ aCut < b.aSize
      BY <1>1, <1>2
    <3> HIDE DEF aCut
    <3>3. QED BY <3>1, <3>2
  <2> HIDE DEF k, m
  <2> DEFINE d == [b EXCEPT !.aPtr = k, !.aSize = m]
  <2>3. d \in Buffers /\ d.aPtr = k /\ d.aSize = m /\ d.bPtr = b.bPtr /\ d.bSize = b.bSize
    <3>1. m \in 0..Cap
      BY <2>2, CapAssumption
    <3>2. QED
      BY <2>2, <3>1 DEF Buffers
  <2>4. Remove(b, n) = d
    BY <2>1
  <2> HIDE DEF d
  <2>5. RegionsOK(d)
    BY <2>2, <2>3, BufferFields DEF RegionsOK
  <2>6. QED
    BY <2>3, <2>4, <2>5 DEF BufferOK
<1>3. CASE ~(aCut < b.aSize)
  <2>1. ASSUME NEW i \in 0..(Cap - 1)
        PROVE  (IF i < left THEN b.mem[from + i] ELSE b.mem[i]) \in Nat
    <3>1. CASE i < left
      <4>1. b.bPtr # Null
        BY <1>1, <3>1 DEF BufferOK, RegionsOK
      <4>2. /\ b.bPtr \in 0..Cap /\ b.bSize \in 0..Cap /\ b.aPtr \in 0..Cap
            /\ b.bPtr + b.bSize <= b.aPtr
        BY <4>1, BufferFields DEF BufferOK, RegionsOK, Buffers, Null
      <4>3. bCut \in 0..b.bSize /\ left = b.bSize - bCut /\ from = b.bPtr + bCut
        BY <1>1
      <4> HIDE DEF bCut, left, from
      <4>4. from + i \in 0..(Cap - 1)
        BY <3>1, <4>2, <4>3
      <4>5. QED BY <3>1, <4>4 DEF BufferOK, Buffers
    <3>2. CASE ~(i < left)
      BY <3>2 DEF BufferOK, Buffers
    <3>3. QED BY <3>1, <3>2
  <2>2. Remove(b, n) =
          [mem   |-> [i \in 0..(Cap - 1) |-> IF i < left THEN b.mem[from + i] ELSE b.mem[i]],
           aPtr  |-> 0, aSize |-> left, bPtr |-> Null, bSize |-> 0]
    BY <1>3 DEF Remove
  <2> HIDE DEF left, from
  <2>3. left \in 0..Cap
    BY <1>1
  <2>4. QED
    BY <2>1, <2>2, <2>3 DEF BufferOK, RegionsOK, Buffers, Null
<1>4. QED BY <1>2, <1>3

-----------------------------------------------------------------------------
\* The i-th stored byte, oldest first: first those of region A, then those of B.
ByteAt(b, i) ==
  IF i <= b.aSize THEN b.mem[b.aPtr + i - 1] ELSE b.mem[b.bPtr + i - b.aSize - 1]

\* A function on 1..n is a sequence of length n.
LEMMA FunctionIsSeq ==
  ASSUME NEW S, NEW n \in Nat, NEW s \in [1..n -> S]
  PROVE  s \in Seq(S) /\ Len(s) = n
<1>1. Len(s) = n
  OBVIOUS
<1>2. s \in Seq(S)
  OBVIOUS
<1>3. QED BY <1>1, <1>2

\* The contents of a sound buffer, byte by byte.
LEMMA ContentsAt ==
  ASSUME NEW b, BufferOK(b)
  PROVE  /\ Contents(b) \in Seq(Nat)
         /\ Len(Contents(b)) = b.aSize + b.bSize
         /\ \A i \in 1..(b.aSize + b.bSize) : Contents(b)[i] = ByteAt(b, i)
<1> DEFINE u == Window(b, b.aPtr, b.aSize)
           v == Window(b, b.bPtr, b.bSize)
<1>1. u \in Seq(Nat) /\ Len(u) = b.aSize /\ \A i \in 1..b.aSize : u[i] = b.mem[b.aPtr + i - 1]
  <2>1. \A i \in 1..b.aSize : b.aPtr + i - 1 \in 0..(Cap - 1)
    BY BufferFields, CapAssumption
  <2>2. \A i \in 1..b.aSize : b.mem[b.aPtr + i - 1] \in Nat
    BY <2>1, BufferFields
  <2>3. u = [i \in 1..b.aSize |-> b.mem[b.aPtr + i - 1]] /\ b.aSize \in Nat
    BY BufferFields DEF Window
  <2> HIDE DEF u
  <2>4. u \in [1..b.aSize -> Nat] /\ \A i \in 1..b.aSize : u[i] = b.mem[b.aPtr + i - 1]
    BY <2>2, <2>3
  <2>5. QED
    BY <2>3, <2>4, FunctionIsSeq
<1>2. v \in Seq(Nat) /\ Len(v) = b.bSize /\ \A i \in 1..b.bSize : v[i] = b.mem[b.bPtr + i - 1]
  <2>1. \A i \in 1..b.bSize : b.bPtr + i - 1 \in 0..(Cap - 1)
    BY BufferFields, CapAssumption
  <2>2. \A i \in 1..b.bSize : b.mem[b.bPtr + i - 1] \in Nat
    BY <2>1, BufferFields
  <2>3. v = [i \in 1..b.bSize |-> b.mem[b.bPtr + i - 1]] /\ b.bSize \in Nat
    BY BufferFields DEF Window
  <2> HIDE DEF v
  <2>4. v \in [1..b.bSize -> Nat] /\ \A i \in 1..b.bSize : v[i] = b.mem[b.bPtr + i - 1]
    BY <2>2, <2>3
  <2>5. QED
    BY <2>3, <2>4, FunctionIsSeq
<1>3. /\ u \o v \in Seq(Nat)
      /\ Len(u \o v) = Len(u) + Len(v)
      /\ \A i \in 1..(Len(u) + Len(v)) : (u \o v)[i] = IF i <= Len(u) THEN u[i] ELSE v[i - Len(u)]
  BY <1>1, <1>2, ConcatProperties
<1>4. ASSUME NEW i \in 1..(b.aSize + b.bSize)
      PROVE  (u \o v)[i] = ByteAt(b, i)
  <2>0. b.aSize \in Nat /\ b.bSize \in Nat /\ i \in Nat /\ b.bPtr \in Int
    BY <1>4, BufferFields
  <2>1. CASE i <= b.aSize
    <3>1. i \in 1..b.aSize /\ i \in 1..(Len(u) + Len(v)) /\ i <= Len(u)
      BY <1>1, <1>2, <1>4, <2>0, <2>1
    <3>2. (u \o v)[i] = u[i]
      BY <1>3, <3>1
    <3>3. u[i] = b.mem[b.aPtr + i - 1]
      BY <1>1, <3>1
    <3> HIDE DEF u, v
    <3>4. QED BY <2>1, <3>2, <3>3 DEF ByteAt
  <2>2. CASE ~(i <= b.aSize)
    <3> DEFINE j == i - b.aSize
    <3>1. j \in 1..b.bSize /\ i \in 1..(Len(u) + Len(v)) /\ ~(i <= Len(u)) /\ i - Len(u) = j
      BY <1>1, <1>2, <1>4, <2>0, <2>2
    <3>2. (u \o v)[i] = v[j]
      BY <1>3, <3>1
    <3>3. v[j] = b.mem[b.bPtr + j - 1]
      BY <1>2, <3>1
    <3>4. b.bPtr + j - 1 = b.bPtr + i - b.aSize - 1
      BY <2>0
    <3> HIDE DEF u, v, j
    <3>5. QED BY <2>2, <3>2, <3>3, <3>4 DEF ByteAt
  <2>3. QED BY <2>1, <2>2
<1>5. QED
  BY <1>1, <1>2, <1>3, <1>4 DEF Contents

\* Looking for free space changes neither the bytes stored nor, done again, the
\* buffer or its answer.
LEMMA ProbeContents ==
  ASSUME NEW b, BufferOK(b)
  PROVE  /\ Contents(AfterProbe(b)) = Contents(b)
         /\ AfterProbe(AfterProbe(b)) = AfterProbe(b)
         /\ GetFreeSpaceSize(AfterProbe(b)) = GetFreeSpaceSize(b)
<1>1. CASE ~(b.bPtr = Null /\ GetAFreeSpace(b) < GetSpaceBeforeA(b))
  <2>1. AfterProbe(b) = b
    BY <1>1 DEF AfterProbe
  <2>2. QED BY <2>1
<1>2. CASE b.bPtr = Null /\ GetAFreeSpace(b) < GetSpaceBeforeA(b)
  <2> DEFINE p == [b EXCEPT !.bPtr = 0]
  <2>1. AfterProbe(b) = p
    BY <1>2 DEF AfterProbe
  <2>2. /\ p.aPtr = b.aPtr /\ p.aSize = b.aSize /\ p.bPtr = 0 /\ p.bSize = b.bSize
        /\ p.mem = b.mem /\ b.bSize = 0
    BY <1>2, BufferFields DEF Buffers
  <2>3. BufferOK(p)
    BY <2>1, ProbeOK
  <2> HIDE DEF p
  <2>4. AfterProbe(p) = p
    BY <2>2 DEF AfterProbe, Null
  <2>5. GetFreeSpaceSize(p) = GetFreeSpaceSize(b)
    BY <2>1, <2>4 DEF GetFreeSpaceSize
  <2>6. \A i \in 1..(b.aSize + b.bSize) : ByteAt(p, i) = ByteAt(b, i)
    BY <2>2, BufferFields DEF ByteAt
  <2>7. Contents(p) = Contents(b)
    <3>1. /\ Contents(p) \in Seq(Nat) /\ Contents(b) \in Seq(Nat)
          /\ Len(Contents(p)) = b.aSize + b.bSize /\ Len(Contents(b)) = b.aSize + b.bSize
      BY <2>2, <2>3, ContentsAt
    <3>2. \A i \in 1..(b.aSize + b.bSize) : Contents(p)[i] = Contents(b)[i]
      BY <2>2, <2>3, <2>6, ContentsAt
    <3>3. QED
      BY <3>1, <3>2, SeqEqual
  <2>8. QED BY <2>1, <2>4, <2>5, <2>7
<1>3. QED BY <1>1, <1>2

\* Where the i-th byte lies when n bytes are written behind a region B of sb bytes,
\* and behind a region A without B.
BehindB(cap, pa, sa, sb, n, i) ==
  /\ i <= sa =>
       pa + i - 1 \in 0..(cap - 1) /\ pa + i - 1 \notin sb..(sb + n - 1)
  /\ ~(i <= sa) /\ i <= sa + sb =>
       i - sa - 1 \in 0..(cap - 1) /\ i - sa - 1 \notin sb..(sb + n - 1)
  /\ ~(i <= sa + sb) =>
       /\ i - sa - 1 \in 0..(cap - 1)
       /\ i - sa - 1 \in sb..(sb + n - 1)
       /\ i - sa - 1 - sb + 1 = i - (sa + sb)
       /\ ~(i <= sa)

BehindA(cap, pa, sa, n, i) ==
  /\ pa + i - 1 \in 0..(cap - 1)
  /\ i <= sa => pa + i - 1 \notin (pa + sa)..(pa + sa + n - 1)
  /\ ~(i <= sa) =>
       /\ pa + i - 1 \in (pa + sa)..(pa + sa + n - 1)
       /\ (pa + i - 1) - (pa + sa) + 1 = i - sa

LEMMA PlacesBehindB ==
  ASSUME NEW cap \in Nat, NEW pa \in Nat, NEW sa \in Nat, NEW sb \in Nat, NEW n \in Nat,
         NEW i \in Nat, pa + sa <= cap, sb + n <= pa, n >= 1, i >= 1, i <= sa + sb + n
  PROVE  BehindB(cap, pa, sa, sb, n, i)
<1>1. ASSUME i <= sa
      PROVE  pa + i - 1 \in 0..(cap - 1)
  BY <1>1
<1>2. ASSUME i <= sa
      PROVE  pa + i - 1 \notin sb..(sb + n - 1)
  BY <1>2
<1>3. ASSUME ~(i <= sa), i <= sa + sb
      PROVE  i - sa - 1 \in 0..(cap - 1)
  BY <1>3
<1>4. ASSUME ~(i <= sa), i <= sa + sb
      PROVE  i - sa - 1 \notin sb..(sb + n - 1)
  BY <1>4
<1>5. ASSUME ~(i <= sa + sb)
      PROVE  i - sa - 1 \in 0..(cap - 1)
  BY <1>5
<1>6. ASSUME ~(i <= sa + sb)
      PROVE  i - sa - 1 \in sb..(sb + n - 1)
  BY <1>6
<1>7. ASSUME ~(i <= sa + sb)
      PROVE  i - sa - 1 - sb + 1 = i - (sa + sb) /\ ~(i <= sa)
  BY <1>7
<1>8. QED
  BY <1>1, <1>2, <1>3, <1>4, <1>5, <1>6, <1>7 DEF BehindB

LEMMA PlacesBehindA ==
  ASSUME NEW cap \in Nat, NEW pa \in Nat, NEW sa \in Nat, NEW n \in Nat,
         NEW i \in Nat, pa + sa + n <= cap, n >= 1, i >= 1, i <= sa + n
  PROVE  BehindA(cap, pa, sa, n, i)
<1>1. pa + i - 1 \in 0..(cap - 1)
  OBVIOUS
<1>2. ASSUME i <= sa
      PROVE  pa + i - 1 \notin (pa + sa)..(pa + sa + n - 1)
  BY <1>2
<1>3. ASSUME ~(i <= sa)
      PROVE  pa + i - 1 \in (pa + sa)..(pa + sa + n - 1)
  BY <1>3
<1>4. (pa + i - 1) - (pa + sa) + 1 = i - sa
  OBVIOUS
<1>5. QED
  BY <1>1, <1>2, <1>3, <1>4 DEF BehindA

\* A block written where GetBuffer says and committed is stored behind the bytes
\* that were there, in a buffer that was looked at before.
LEMMA WriteContents ==
  ASSUME NEW p, BufferOK(p), AfterProbe(p) = p, NEW n \in 1..GetFreeSpaceSize(p),
         NEW bytes \in [1..n -> Nat],
         NEW c, c = Commit(Fill(p, GetBuffer(p), bytes), n)
  PROVE  BufferOK(c) /\ Contents(c) = Contents(p) \o bytes
<1> DEFINE at == GetBuffer(p)
           f  == Fill(p, at, bytes)
<1>1. n \in Nat \ {0} /\ GetFreeSpaceSize(p) \in Nat
  BY ProbeOK, CapAssumption
<1>2. at \in Int /\ BufferOK(f) /\ Len(bytes) = n
  <2>1. at \in Int
    BY BufferFields DEF GetBuffer
  <2>2. QED BY <1>1, <2>1, FillOK
<1>3. /\ f.aPtr = p.aPtr /\ f.aSize = p.aSize /\ f.bPtr = p.bPtr /\ f.bSize = p.bSize
      /\ f.mem = [i \in 0..(Cap - 1) |-> IF i \in at..(at + n - 1) THEN bytes[i - at + 1] ELSE p.mem[i]]
  BY <1>2 DEF Fill, BufferOK, Buffers
<1> HIDE DEF f
<1>4. BufferOK(c)
  <2>1. c = Commit(f, n)
    BY DEF f
  <2> HIDE DEF at
  <2>2. BufferOK(Commit(f, n))
    BY <1>2, <1>3, CommitOK
  <2>3. QED BY <2>1, <2>2
<1>5. bytes \in Seq(Nat)
  BY <1>1, FunctionIsSeq
<1> DEFINE L == p.aSize + p.bSize
<1>6. /\ Contents(p) \o bytes \in Seq(Nat)
      /\ Len(Contents(p) \o bytes) = L + n
      /\ \A i \in 1..(L + n) : (Contents(p) \o bytes)[i] =
           IF i <= L THEN ByteAt(p, i) ELSE bytes[i - L]
  <2>1. Contents(p) \in Seq(Nat) /\ Len(Contents(p)) = L /\ L \in Nat
    BY ContentsAt, BufferFields
  <2>2. \A i \in 1..(L + n) : i <= L => Contents(p)[i] = ByteAt(p, i)
    BY <1>1, <2>1, ContentsAt
  <2> HIDE DEF L
  <2>3. QED
    BY <1>2, <1>5, <2>1, <2>2, ConcatProperties
<1>7. /\ c.aSize + c.bSize = L + n
      /\ \A i \in 1..(L + n) : ByteAt(c, i) = IF i <= L THEN ByteAt(p, i) ELSE bytes[i - L]
  <2>0. /\ p.aPtr \in Nat /\ p.aSize \in Nat /\ p.bSize \in Nat /\ p.aPtr + p.aSize <= Cap
        /\ p.bSize <= p.aPtr /\ p.bPtr \in {Null, 0} /\ Null = -1 /\ Cap \in Nat
        /\ p.bPtr = Null => p.bSize = 0
    BY BufferFields, CapAssumption
  <2>00. L = p.aSize + p.bSize /\ L \in Nat /\ n \in Nat /\ n >= 1
    BY <1>1, <2>0
  <2> HIDE DEF L
  <2>1. CASE p.bPtr # Null
    <3>1. at = p.bSize /\ p.bPtr = 0 /\ p.bSize + n <= p.aPtr
      <4>1. GetFreeSpaceSize(p) = p.aPtr - p.bPtr - p.bSize
        BY <2>1 DEF GetFreeSpaceSize, GetBFreeSpace
      <4>2. QED BY <1>1, <2>0, <2>1, <4>1 DEF GetBuffer
    <3>2. /\ c.aPtr = p.aPtr /\ c.aSize = p.aSize /\ c.bPtr = 0 /\ c.bSize = p.bSize + n
          /\ c.mem = f.mem
      <4>1. c = [f EXCEPT !.bSize = @ + n]
        BY <1>3, <2>1 DEF Commit, f
      <4>2. f \in Buffers
        BY <1>2 DEF BufferOK
      <4>3. QED BY <1>3, <3>1, <4>1, <4>2 DEF Buffers
    <3>3. c.aSize + c.bSize = L + n
      BY <2>00, <2>0, <3>2
    <3>4. ASSUME NEW i \in 1..(L + n)
          PROVE  ByteAt(c, i) = IF i <= L THEN ByteAt(p, i) ELSE bytes[i - L]
      <4>i. i \in Nat /\ i >= 1 /\ i <= L + n
        BY <2>00, <3>4
      <4>j. /\ i <= p.aSize =>
                 /\ p.aPtr + i - 1 \in 0..(Cap - 1) /\ p.aPtr + i - 1 \notin at..(at + n - 1)
                 /\ i <= L
            /\ ~(i <= p.aSize) /\ i <= L =>
                 i - p.aSize - 1 \in 0..(Cap - 1) /\ i - p.aSize - 1 \notin at..(at + n - 1)
            /\ ~(i <= L) =>
                 /\ i - p.aSize - 1 \in 0..(Cap - 1)
                 /\ i - p.aSize - 1 \in at..(at + n - 1)
                 /\ i - p.aSize - 1 - at + 1 = i - L
                 /\ ~(i <= p.aSize)
        <5>1. i <= p.aSize + p.bSize + n
          BY <2>00, <2>0, <4>i
        <5>2. i <= p.aSize => i <= L
          BY <2>00, <2>0, <4>i
        <5> HIDE DEF at
        <5>3. p.bSize + n <= p.aPtr /\ Cap \in Nat
          BY <2>0, <3>1
        <5>4. BehindB(Cap, p.aPtr, p.aSize, p.bSize, n, i)
          <6>1. p.aPtr \in Nat /\ p.aSize \in Nat /\ p.bSize \in Nat /\ p.aPtr + p.aSize <= Cap
            BY <2>0
          <6>2. QED BY <2>00, <4>i, <5>1, <5>3, <6>1, PlacesBehindB, Zenon
        <5>5. at = p.bSize /\ L = p.aSize + p.bSize
          BY <2>00, <3>1
        <5>6. QED BY <5>2, <5>4, <5>5, Zenon DEF BehindB
      <4> HIDE DEF at
      <4>1. CASE i <= p.aSize
        <5>1. p.aPtr + i - 1 \in 0..(Cap - 1) /\ p.aPtr + i - 1 \notin at..(at + n - 1) /\ i <= L
          BY <4>j, <4>1
        <5>2. f.mem[p.aPtr + i - 1] = p.mem[p.aPtr + i - 1]
          BY <1>3, <5>1
        <5>3. QED BY <3>2, <4>1, <5>1, <5>2 DEF ByteAt
      <4>2. CASE ~(i <= p.aSize) /\ i <= L
        <5> DEFINE j == i - p.aSize - 1
        <5>1. j \in 0..(Cap - 1) /\ j \notin at..(at + n - 1)
          BY <4>j, <4>2
        <5>2. f.mem[j] = p.mem[j]
          BY <1>3, <5>1
        <5>3. p.bPtr + i - p.aSize - 1 = j /\ c.bPtr + i - c.aSize - 1 = j
          BY <2>0, <3>1, <3>2, <4>i
        <5> HIDE DEF j
        <5>4. QED BY <3>2, <4>2, <5>2, <5>3 DEF ByteAt
      <4>3. CASE ~(i <= L)
        <5> DEFINE j == i - p.aSize - 1
        <5>1. j \in 0..(Cap - 1) /\ j \in at..(at + n - 1) /\ j - at + 1 = i - L /\ ~(i <= p.aSize)
          BY <4>j, <4>3
        <5>2. f.mem[j] = bytes[j - at + 1]
          BY <1>3, <5>1
        <5>3. c.bPtr + i - c.aSize - 1 = j
          BY <2>0, <3>1, <3>2, <4>i
        <5> HIDE DEF j
        <5>4. QED BY <3>2, <4>3, <5>1, <5>2, <5>3 DEF ByteAt
      <4>4. QED BY <4>1, <4>2, <4>3
    <3>5. QED BY <3>3, <3>4
  <2>2. CASE p.bPtr = Null
    <3>1. at = p.aPtr + p.aSize /\ p.bSize = 0 /\ p.aPtr + p.aSize + n <= Cap
      <4>1. GetFreeSpaceSize(p) = Cap - p.aPtr - p.aSize
        BY <2>2 DEF GetFreeSpaceSize, GetAFreeSpace
      <4>2. QED BY <1>1, <2>0, <2>2, <4>1 DEF GetBuffer
    <3>2. c.aPtr = p.aPtr /\ c.aSize = p.aSize + n /\ c.bSize = 0 /\ c.mem = f.mem
      <4>1. c = [f EXCEPT !.aSize = @ + n]
        BY <1>3, <2>2 DEF Commit, f
      <4>2. f \in Buffers
        BY <1>2 DEF BufferOK
      <4>3. QED BY <1>3, <3>1, <4>1, <4>2 DEF Buffers
    <3>3. c.aSize + c.bSize = L + n
      BY <2>00, <2>0, <3>1, <3>2
    <3>4. ASSUME NEW i \in 1..(L + n)
          PROVE  ByteAt(c, i) = IF i <= L THEN ByteAt(p, i) ELSE bytes[i - L]
      <4>i. i \in Nat /\ i >= 1 /\ i <= L + n
        BY <2>00, <3>4
      <4> HIDE DEF at
      <4> DEFINE j == p.aPtr + i - 1
      <4>0. L = p.aSize /\ i <= c.aSize
        BY <2>00, <2>0, <3>1, <3>2, <4>i
      <4>j. /\ j \in 0..(Cap - 1)
            /\ i <= L => j \notin at..(at + n - 1)
            /\ ~(i <= L) => j \in at..(at + n - 1) /\ j - at + 1 = i - L
        <5>1. at = p.aPtr + p.aSize /\ p.aPtr + p.aSize + n <= Cap /\ i <= p.aSize + n
          BY <3>1, <4>i, <4>0
        <5> HIDE DEF at
        <5>2. BehindA(Cap, p.aPtr, p.aSize, n, i)
          <6>1. p.aPtr \in Nat /\ p.aSize \in Nat /\ Cap \in Nat
            BY <2>0
          <6>2. QED BY <2>00, <4>i, <5>1, <6>1, PlacesBehindA, Zenon
        <5>3. /\ j \in 0..(Cap - 1)
              /\ i <= p.aSize => j \notin (p.aPtr + p.aSize)..(p.aPtr + p.aSize + n - 1)
              /\ ~(i <= p.aSize) =>
                   /\ j \in (p.aPtr + p.aSize)..(p.aPtr + p.aSize + n - 1)
                   /\ j - (p.aPtr + p.aSize) + 1 = i - p.aSize
          BY <5>2, Zenon DEF BehindA
        <5> HIDE DEF j
        <5>4. at = p.aPtr + p.aSize /\ L = p.aSize
          BY <4>0, <5>1
        <5>5. QED BY <5>3, <5>4, Zenon
      <4>1. CASE i <= L
        <5>1. j \notin at..(at + n - 1)
          BY <4>1, <4>j
        <5>2. f.mem[j] = p.mem[j]
          BY <1>3, <4>j, <5>1
        <5>3. QED BY <3>2, <4>0, <4>1, <5>2 DEF ByteAt
      <4>2. CASE ~(i <= L)
        <5>1. j \in at..(at + n - 1) /\ j - at + 1 = i - L
          BY <4>2, <4>j
        <5>2. f.mem[j] = bytes[j - at + 1]
          BY <1>3, <4>j, <5>1
        <5>3. QED BY <3>2, <4>0, <4>2, <5>1, <5>2 DEF ByteAt
      <4>3. QED BY <4>1, <4>2
    <3>5. QED BY <3>3, <3>4
  <2>3. QED BY <2>1, <2>2
<1> HIDE DEF L
<1>8. Contents(c) \in Seq(Nat) /\ Len(Contents(c)) = L + n
  BY <1>4, <1>7, ContentsAt
<1>9. \A i \in 1..(L + n) : Contents(c)[i] = (Contents(p) \o bytes)[i]
  BY <1>4, <1>6, <1>7, ContentsAt
<1>10. Contents(c) = Contents(p) \o bytes
  BY <1>6, <1>8, <1>9, SeqEqual
<1>11. QED BY <1>4, <1>10

\* Remove drops the oldest bytes, all of them when it is asked for more.
LEMMA RemoveContents ==
  ASSUME NEW b, BufferOK(b), NEW n \in Nat,
         NEW k, k = Lesser(n, b.aSize + b.bSize)
  PROVE  /\ k \in 0..(b.aSize + b.bSize)
         /\ Contents(Remove(b, n)) = SubSeq(Contents(b), k + 1, b.aSize + b.bSize)
<1> DEFINE L == b.aSize + b.bSize
           aCut == Lesser(n, b.aSize)
           bCut == Lesser(n - aCut, b.bSize)
           left == b.bSize - bCut
           from == b.bPtr + bCut
           r == Remove(b, n)
<1>0. /\ b.aPtr \in Nat /\ b.aSize \in Nat /\ b.bSize \in Nat /\ b.aPtr + b.aSize <= Cap
      /\ b.bSize <= b.aPtr /\ b.bPtr \in {Null, 0} /\ Null = -1 /\ Cap \in Nat
      /\ b.bPtr = Null => b.bSize = 0
  BY BufferFields, CapAssumption
<1>1. k \in 0..L /\ k \in Nat /\ L \in Nat
  BY <1>0 DEF Lesser
<1>2. BufferOK(r)
  BY RemoveOK
<1>3. /\ SubSeq(Contents(b), k + 1, L) \in Seq(Nat)
      /\ Len(SubSeq(Contents(b), k + 1, L)) = L - k
      /\ \A i \in 1..(L - k) : SubSeq(Contents(b), k + 1, L)[i] = ByteAt(b, k + i)
  <2>1. \A i \in (k + 1)..L : Contents(b)[i] \in Nat
    <3>1. Contents(b) \in Seq(Nat) /\ Len(Contents(b)) = L
      BY ContentsAt
    <3> HIDE DEF L
    <3>2. QED BY <1>1, <3>1, ElementOfSeq
  <2>2. \A i \in (k + 1)..L : Contents(b)[i] = ByteAt(b, i)
    <3>1. \A i \in 1..L : Contents(b)[i] = ByteAt(b, i)
      BY ContentsAt
    <3> HIDE DEF L
    <3>2. QED BY <1>1, <3>1
  <2> HIDE DEF L
  <2>3. k + 1 \in Int /\ L \in Int
    BY <1>1
  <2> DEFINE s == SubSeq(Contents(b), k + 1, L)
  <2>4. /\ s \in Seq(Nat) /\ Len(s) = (IF k + 1 <= L THEN L - (k + 1) + 1 ELSE 0)
        /\ \A i \in 1..(L - (k + 1) + 1) : s[i] = Contents(b)[k + 1 + i - 1]
    BY <2>1, <2>3, SubSeqProperties
  <2> HIDE DEF s
  <2>5. L - (k + 1) + 1 = L - k /\ Len(s) = L - k
    BY <1>1, <2>4
  <2>6. ASSUME NEW i \in 1..(L - k)
        PROVE  s[i] = ByteAt(b, k + i)
    <3>1. k + 1 + i - 1 = k + i /\ k + i \in (k + 1)..L
      BY <1>1, <2>6
    <3>2. s[i] = Contents(b)[k + i]
      BY <2>4, <2>5, <3>1
    <3>3. QED BY <2>2, <3>1, <3>2
  <2>7. QED BY <2>4, <2>5, <2>6 DEF s
<1>4. /\ r.aSize + r.bSize = L - k
      /\ \A i \in 1..(L - k) : ByteAt(r, i) = ByteAt(b, k + i)
  <2>1. CASE aCut < b.aSize
    <3>1. aCut = n /\ k = n
      BY <1>0, <2>1 DEF Lesser
    <3>2. /\ r.aPtr = b.aPtr + n /\ r.aSize = b.aSize - n /\ r.bPtr = b.bPtr /\ r.bSize = b.bSize
          /\ r.mem = b.mem
      <4>1. r = [b EXCEPT !.aPtr = @ + aCut, !.aSize = @ - aCut]
        BY <2>1 DEF Remove
      <4>2. b \in Buffers
        BY DEF BufferOK
      <4> HIDE DEF aCut, r
      <4>3. QED BY <3>1, <4>1, <4>2 DEF Buffers
    <3> HIDE DEF aCut, r
    <3>3. r.aSize + r.bSize = L - k
      BY <1>0, <3>1, <3>2
    <3>4. ASSUME NEW i \in 1..(L - k)
          PROVE  ByteAt(r, i) = ByteAt(b, k + i)
      <4>1. i \in Nat /\ (i <= r.aSize <=> k + i <= b.aSize)
        BY <1>0, <1>1, <3>1, <3>2, <3>4
      <4>2. r.aPtr + i - 1 = b.aPtr + (k + i) - 1
        BY <1>0, <1>1, <3>1, <3>2, <3>4
      <4>3. r.bPtr + i - r.aSize - 1 = b.bPtr + (k + i) - b.aSize - 1
        BY <1>0, <1>1, <3>1, <3>2, <3>4
      <4>4. QED BY <3>2, <4>1, <4>2, <4>3 DEF ByteAt
    <3>5. QED BY <3>3, <3>4
  <2>2. CASE ~(aCut < b.aSize)
    <3>1. /\ aCut = b.aSize /\ b.aSize <= n /\ bCut \in Nat /\ left \in Nat
          /\ k = b.aSize + bCut /\ left = L - k /\ bCut + left = b.bSize
      BY <1>0, <2>2 DEF Lesser
    <3>2. /\ r.aPtr = 0 /\ r.aSize = left /\ r.bSize = 0
          /\ r.mem = [i \in 0..(Cap - 1) |-> IF i < left THEN b.mem[from + i] ELSE b.mem[i]]
      BY <2>2 DEF Remove
    <3> HIDE DEF aCut, bCut, left, r
    <3>3. r.aSize + r.bSize = L - k
      BY <3>1, <3>2
    <3>4. ASSUME NEW i \in 1..(L - k)
          PROVE  ByteAt(r, i) = ByteAt(b, k + i)
      <4>1. /\ i - 1 \in 0..(Cap - 1) /\ i - 1 < left /\ i <= r.aSize /\ ~(k + i <= b.aSize)
            /\ r.aPtr + i - 1 = i - 1
        <5>1. i \in Nat /\ i >= 1 /\ i <= left
          BY <1>1, <3>1, <3>4
        <5>2. left <= b.bSize /\ b.bSize <= Cap /\ Cap \in Nat /\ left \in Nat /\ b.bSize \in Nat
          BY <1>0, <3>1
        <5>3. i - 1 \in 0..(Cap - 1)
          BY <1>0, <3>1, <5>1, <5>2
        <5>4. i - 1 < left /\ i <= r.aSize /\ r.aPtr + i - 1 = i - 1
          BY <3>1, <3>2, <5>1
        <5>5. ~(k + i <= b.aSize)
          BY <1>0, <3>1, <5>1
        <5>6. QED BY <5>3, <5>4, <5>5
      <4>2. r.mem[i - 1] = b.mem[from + (i - 1)]
        BY <3>2, <4>1
      <4>3. from + (i - 1) = b.bPtr + (k + i) - b.aSize - 1
        BY <1>0, <1>1, <3>1, <3>4
      <4> HIDE DEF from
      <4>4. QED BY <4>1, <4>2, <4>3 DEF ByteAt
    <3>5. QED BY <3>3, <3>4
  <2>3. QED BY <2>1, <2>2
<1> HIDE DEF L, r
<1>5. Contents(r) \in Seq(Nat) /\ Len(Contents(r)) = L - k
  BY <1>2, <1>4, ContentsAt
<1>6. \A i \in 1..(L - k) : Contents(r)[i] = SubSeq(Contents(b), k + 1, L)[i]
  BY <1>2, <1>3, <1>4, ContentsAt
<1>7. Contents(r) = SubSeq(Contents(b), k + 1, L)
  BY <1>3, <1>5, <1>6, SeqEqual
<1>8. QED BY <1>1, <1>7 DEF L, r

-----------------------------------------------------------------------------
(* The front of a buffer, which a send or an echo takes.                     *)

LEMMA Associative ==
  \A s, t, u \in Seq(Nat) : (s \o t) \o u = s \o (t \o u)
<1>1. ASSUME NEW s \in Seq(Nat), NEW t \in Seq(Nat), NEW u \in Seq(Nat)
      PROVE  (s \o t) \o u = s \o (t \o u)
  OBVIOUS
<1>2. QED BY <1>1

\* Two ways to cut one sequence at the same place are the same.
LEMMA SameCut ==
  ASSUME NEW S, NEW x \in Seq(S), NEW y \in Seq(S), NEW u \in Seq(S), NEW v \in Seq(S),
         x \o y = u \o v, Len(x) = Len(u)
  PROVE  x = u /\ y = v
<1>1. Len(x) \in Nat /\ Len(y) \in Nat /\ Len(v) \in Nat
  OBVIOUS
<1>2. /\ \A i \in 1..(Len(x) + Len(y)) : (x \o y)[i] = IF i <= Len(x) THEN x[i] ELSE y[i - Len(x)]
      /\ \A i \in 1..(Len(u) + Len(v)) : (u \o v)[i] = IF i <= Len(u) THEN u[i] ELSE v[i - Len(u)]
  BY ConcatProperties
<1>3. ASSUME NEW i \in 1..Len(x) PROVE x[i] = u[i]
  <2>1. i \in 1..(Len(x) + Len(y)) /\ i \in 1..(Len(u) + Len(v)) /\ i <= Len(x)
    BY <1>1
  <2>2. (x \o y)[i] = x[i] /\ (u \o v)[i] = u[i]
    BY <1>2, <2>1
  <2>3. QED BY <2>2
<1>4. x = u
  BY <1>3, SeqEqual
<1>5. Len(y) = Len(v) /\ \A i \in 1..Len(y) : y[i] = v[i]
  <2>1. Len(x) + Len(y) = Len(u) + Len(v)
    <3>1. Len(x \o y) = Len(x) + Len(y) /\ Len(u \o v) = Len(u) + Len(v)
      BY ConcatProperties
    <3>2. QED BY <3>1
  <2>2. ASSUME NEW i \in 1..Len(y) PROVE y[i] = v[i]
    <3>1. Len(x) + i \in 1..(Len(x) + Len(y)) /\ ~(Len(x) + i <= Len(x)) /\ (Len(x) + i) - Len(x) = i
      BY <1>1
    <3>2. (x \o y)[Len(x) + i] = y[i] /\ (u \o v)[Len(x) + i] = v[i]
      BY <1>2, <2>1, <3>1
    <3>3. QED BY <3>2
  <2>3. QED BY <1>1, <2>1, <2>2
<1>6. y = v
  BY <1>5, SeqEqual
<1>7. QED BY <1>4, <1>6

\* The first run of bytes is the front of the contents.
LEMMA FrontOfContents ==
  ASSUME NEW b, BufferOK(b), NEW n \in 0..GetContiguiousBytes(b)
  PROVE  /\ BufferOK(Remove(b, n)) /\ Contents(Remove(b, n)) \in Seq(Nat)
         /\ Window(b, GetBufferStart(b), n) \in [1..n -> Nat]
         /\ Contents(b) = Window(b, GetBufferStart(b), n) \o Contents(Remove(b, n))
<1> DEFINE L == b.aSize + b.bSize
           front == Window(b, GetBufferStart(b), n)
<1>1. /\ b.aPtr \in Nat /\ b.aSize \in Nat /\ b.bSize \in Nat /\ b.aPtr + b.aSize <= Cap
      /\ b.aSize = 0 => b.bSize = 0
      /\ b.mem \in [0..(Cap - 1) -> Nat] /\ Cap \in Nat
  BY BufferFields, CapAssumption
<1>2. n \in Nat /\ n <= b.aSize /\ L \in Nat /\ n <= L
  BY <1>1 DEF GetContiguiousBytes
<1>3. n = Lesser(n, L)
  BY <1>2 DEF Lesser
<1>4. BufferOK(Remove(b, n)) /\ Contents(Remove(b, n)) = SubSeq(Contents(b), n + 1, L)
  BY <1>2, <1>3, RemoveOK, RemoveContents
<1>5. Contents(b) \in Seq(Nat) /\ Len(Contents(b)) = L /\ \A i \in 1..L : Contents(b)[i] = ByteAt(b, i)
  BY ContentsAt
<1>6. \A i \in 1..n : front[i] = b.mem[b.aPtr + i - 1] /\ b.mem[b.aPtr + i - 1] \in Nat
  <2>1. n # 0 => GetBufferStart(b) = b.aPtr
    BY <1>1, <1>2 DEF GetBufferStart
  <2>2. \A i \in 1..n : b.aPtr + i - 1 \in 0..(Cap - 1) /\ n # 0
    BY <1>1, <1>2
  <2>3. QED BY <1>1, <2>1, <2>2 DEF Window
<1>7. front \in [1..n -> Nat]
  BY <1>6 DEF Window
<1> HIDE DEF L, front
<1>8. front = SubSeq(Contents(b), 1, n)
  <2> DEFINE s == SubSeq(Contents(b), 1, n)
  <2>1. \A i \in 1..n : Contents(b)[i] \in Nat
    BY <1>2, <1>5, ElementOfSeq
  <2>2. /\ s \in Seq(Nat) /\ Len(s) = (IF 1 <= n THEN n - 1 + 1 ELSE 0)
        /\ \A i \in 1..(n - 1 + 1) : s[i] = Contents(b)[1 + i - 1]
    BY <1>2, <2>1, SubSeqProperties
  <2> HIDE DEF s
  <2>3. Len(s) = n /\ \A i \in 1..n : s[i] = Contents(b)[i]
    BY <1>2, <2>2
  <2>4. \A i \in 1..n : s[i] = ByteAt(b, i) /\ ByteAt(b, i) = front[i]
    <3>1. \A i \in 1..n : i <= b.aSize /\ i \in 1..L
      BY <1>1, <1>2
    <3>2. \A i \in 1..n : ByteAt(b, i) = b.mem[b.aPtr + i - 1]
      BY <3>1 DEF ByteAt
    <3>3. QED BY <1>5, <1>6, <2>3, <3>1, <3>2
  <2>5. front \in Seq(Nat) /\ Len(front) = n
    BY <1>2, <1>7, FunctionIsSeq
  <2>6. front = s
    BY <2>2, <2>3, <2>4, <2>5, SeqEqual
  <2>7. QED BY <2>6 DEF s
<1>9. Contents(b) = SubSeq(Contents(b), 1, n) \o SubSeq(Contents(b), n + 1, L)
  <2>1. SubSeq(Contents(b), 1, L) = Contents(b)
    BY <1>5, SubSeqFull
  <2>2. 1 \in 1..(Len(Contents(b)) + 1) /\ n \in (1 - 1)..Len(Contents(b)) /\ L \in n..Len(Contents(b))
    BY <1>2, <1>5
  <2>3. QED BY <1>5, <2>1, <2>2, ConcatAdjacentSubSeq
<1>10. Contents(Remove(b, n)) \in Seq(Nat)
  BY <1>4, ContentsAt
<1>11. QED BY <1>4, <1>7, <1>8, <1>9, <1>10 DEF front

\* What is removed from the front and what is written behind do not meet.
LEMMA RemoveBeforeWrite ==
  ASSUME NEW b, BufferOK(b), NEW c, BufferOK(c), NEW bytes \in Seq(Nat),
         Contents(c) = Contents(b) \o bytes,
         NEW n, n \in 0..GetContiguiousBytes(b), n \in 0..GetContiguiousBytes(c)
  PROVE  Contents(Remove(c, n)) = Contents(Remove(b, n)) \o bytes
<1> DEFINE x == Window(b, GetBufferStart(b), n)
           y == Contents(Remove(b, n))
           u == Window(c, GetBufferStart(c), n)
           v == Contents(Remove(c, n))
<1>1. x \in [1..n -> Nat] /\ y \in Seq(Nat) /\ Contents(b) = x \o y
  BY FrontOfContents
<1>2. u \in [1..n -> Nat] /\ v \in Seq(Nat) /\ Contents(c) = u \o v
  BY FrontOfContents
<1> HIDE DEF x, y, u, v
<1>3. n \in Nat
  BY BufferFields DEF GetContiguiousBytes
<1>4. x \in Seq(Nat) /\ u \in Seq(Nat) /\ Len(x) = n /\ Len(u) = n
  BY <1>1, <1>2, <1>3, FunctionIsSeq
<1>5. y \o bytes \in Seq(Nat)
  BY <1>1, ConcatProperties
<1>6. u \o v = x \o (y \o bytes)
  <2>1. x \in Seq(Nat) /\ y \in Seq(Nat)
    BY <1>1, <1>4
  <2>2. (x \o y) \o bytes = x \o (y \o bytes)
    BY <2>1, Associative
  <2>3. u \o v = (x \o y) \o bytes
    BY <1>1, <1>2
  <2>4. QED BY <2>2, <2>3
<1>7. v = y \o bytes
  BY <1>2, <1>4, <1>5, <1>6, SameCut
<1>8. QED BY <1>7 DEF v, y

\* Writing leaves the first run where it is; it can only grow.
LEMMA FrontStays ==
  ASSUME NEW b, BufferOK(b), GetContiguiousBytes(b) > 0
  PROVE  /\ GetBufferStart(AfterProbe(b)) = GetBufferStart(b)
         /\ GetContiguiousBytes(AfterProbe(b)) = GetContiguiousBytes(b)
         /\ \A at, bytes : \A n \in Nat :
              LET c == Commit(Fill(AfterProbe(b), at, bytes), n)
              IN  /\ GetBufferStart(c) = GetBufferStart(b)
                  /\ GetContiguiousBytes(c) \in Nat
                  /\ GetContiguiousBytes(c) >= GetContiguiousBytes(b)
<1> DEFINE p == AfterProbe(b)
<1>1. b \in Buffers /\ b.aSize \in Nat /\ b.aSize > 0 /\ b.bSize \in Nat
  BY BufferFields DEF GetContiguiousBytes
<1>2. p \in Buffers /\ p.aPtr = b.aPtr /\ p.aSize = b.aSize
  <2>1. p = b \/ p = [b EXCEPT !.bPtr = 0]
    BY DEF AfterProbe
  <2>2. QED BY <1>1, <2>1, CapAssumption DEF Buffers
<1>3. ASSUME NEW at, NEW bytes, NEW n \in Nat, NEW c, c = Commit(Fill(p, at, bytes), n)
      PROVE  c.aPtr = b.aPtr /\ c.aSize \in {b.aSize, b.aSize + n}
  <2> DEFINE f == Fill(p, at, bytes)
             m == [i \in 0..(Cap - 1) |->
                     IF i \in at..(at + Len(bytes) - 1) THEN bytes[i - at + 1] ELSE p.mem[i]]
  <2>1. f = [p EXCEPT !.mem = m]
    BY DEF Fill
  <2> HIDE DEF m
  <2>2. f = [mem |-> m, aPtr |-> p.aPtr, aSize |-> p.aSize, bPtr |-> p.bPtr, bSize |-> p.bSize]
    BY <1>2, <2>1 DEF Buffers
  <2> HIDE DEF f, p
  <2>3. c = [f EXCEPT !.bSize = @ + n] \/ c = [f EXCEPT !.aSize = @ + n]
    BY <1>3 DEF Commit, f
  <2>4. QED BY <1>2, <2>2, <2>3
<1> HIDE DEF p
<1>4. QED
  <2>1. GetBufferStart(p) = GetBufferStart(b) /\ GetContiguiousBytes(p) = GetContiguiousBytes(b)
    BY <1>1, <1>2 DEF GetBufferStart, GetContiguiousBytes
  <2>2. ASSUME NEW at, NEW bytes, NEW n \in Nat, NEW c, c = Commit(Fill(p, at, bytes), n)
        PROVE  /\ GetBufferStart(c) = GetBufferStart(b)
               /\ GetContiguiousBytes(c) \in Nat
               /\ GetContiguiousBytes(c) >= GetContiguiousBytes(b)
    <3>1. c.aPtr = b.aPtr /\ c.aSize \in {b.aSize, b.aSize + n}
      BY <1>3, <2>2
    <3>2. QED BY <1>1, <3>1 DEF GetBufferStart, GetContiguiousBytes
  <2>3. QED BY <2>1, <2>2 DEF p

\* Receiving nothing changes nothing.
LEMMA FillNothing ==
  ASSUME NEW b, BufferOK(b), NEW at \in Int, NEW bytes \in [1..0 -> Nat]
  PROVE  Fill(b, at, bytes) = b
<1>1. Len(bytes) = 0
  BY FunctionIsSeq
<1>2. \A i : i \notin at..(at + Len(bytes) - 1)
  BY <1>1
<1>3. [i \in 0..(Cap - 1) |-> IF i \in at..(at + Len(bytes) - 1) THEN bytes[i - at + 1] ELSE b.mem[i]]
        = b.mem
  BY <1>2, BufferFields
<1>4. Fill(b, at, bytes) = [b EXCEPT !.mem = b.mem]
  BY <1>3 DEF Fill
<1>5. QED BY <1>4, BufferFields DEF Buffers
=============================================================================
