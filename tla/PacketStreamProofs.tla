------------------------- MODULE PacketStreamProofs -------------------------
(***************************************************************************)
(* Proofs about PacketStream, for every capacity, header size, set of      *)
(* signed payload sizes and width of size_t, every number of packets and   *)
(* every way the network may cut the stream.                               *)
(*                                                                         *)
(* The inductive invariant has two parts.  One always holds: the packets   *)
(* sent lie one behind the other, the packets handled are the first of     *)
(* them up to and with the first of negative size, and the buffer stores   *)
(* the last bytes that came in.  The other holds while the parser is in    *)
(* step: the bytes stored are those behind the packets handled, and the    *)
(* parser's stream is region A.                                            *)
(***************************************************************************)
EXTENDS PacketStream, BufferLemmas

\* The packets sent lie one behind the other.
Contiguous ==
  /\ sent \in Seq(Packets)
  /\ \A k \in 1..Len(sent) :
       sent[k].at = IF k = 1 THEN 0 ELSE PacketEnd(sent[k - 1])
  /\ \A j, k \in 1..Len(sent) : j < k => PacketEnd(sent[j]) <= sent[k].at

\* The packets handled are the first packets sent, up to and with the first whose
\* size is negative.
Follows(k) ==
  (\A j \in 1..(k - 1) : handled[j].mSize >= 0) =>
    k <= Len(sent) /\ handled[k] = sent[k]

FirstHandled == handled \in Seq(Packets) /\ \A k \in 1..Len(handled) : Follows(k)

\* The buffer stores the last bytes that came in.
Buffered ==
  /\ BufferOK(mRecvBuffer)
  /\ arrived \in Nat
  /\ arrived <= EndOf(sent)
  /\ GetStoredSize(mRecvBuffer) <= arrived
  /\ Contents(mRecvBuffer) =
       [i \in 1..GetStoredSize(mRecvBuffer) |->
          (arrived - GetStoredSize(mRecvBuffer)) + i]

\* The stream lies within the memory, and a posted receive has found its place.
Typed ==
  /\ mConnected \in BOOLEAN
  /\ phase \in {"preRecv", "armed", "posted", "parse", "ended"}
  /\ stream \in [at : 0..Cap, len : 0..Cap]
  /\ phase = "parse" => stream.at + stream.len <= Cap
  /\ phase = "posted" => AfterProbe(mRecvBuffer) = mRecvBuffer

\* In step: the bytes stored are those behind the packets handled.
Stored == GetStoredSize(mRecvBuffer) = arrived - EndOf(handled)

\* In step: while the parser runs, its stream is region A.
StreamIsA ==
  phase = "parse" => /\ stream.len = mRecvBuffer.aSize
                     /\ stream.at = mRecvBuffer.aPtr \/ stream.len = 0

\* Region A ends within the next packet.
CutsAPacket ==
  Len(handled) < Len(sent) =>
    EndOf(handled) + mRecvBuffer.aSize < PacketEnd(sent[Len(handled) + 1])

\* In step: a session that waits for more has no whole packet in region A, and while
\* there is a region B there never is one: bytes go to B only behind a cut packet,
\* which the parser can then never see as a whole.
Waits ==
  /\ mRecvBuffer.bSize > 0 => CutsAPacket
  /\ phase \in {"armed", "posted"} => CutsAPacket
  /\ phase = "preRecv" /\ mConnected => CutsAPacket

IInv ==
  /\ Contiguous /\ FirstHandled /\ Buffered /\ Typed
  /\ InStep => Stored /\ StreamIsA /\ Waits

-----------------------------------------------------------------------------
(* Packets and their places.                                                 *)

\* The numbers of a packet.
LEMMA PacketNumbers ==
  ASSUME NEW p \in Packets
  PROVE  /\ p.at \in Nat /\ p.mSize \in PayloadSizes /\ p.mSize \in Int
         /\ Skipped(p) \in Nat
         /\ p.mSize >= 0 => Skipped(p) = p.mSize
         /\ p.mSize < 0 => Skipped(p) = 0
         /\ HeaderSize \in Nat /\ HeaderSize > 0
         /\ PacketEnd(p) = p.at + HeaderSize + Skipped(p)
         /\ PacketEnd(p) \in Nat /\ p.at < PacketEnd(p)
<1>1. p.at \in Nat /\ p.mSize \in PayloadSizes /\ p.mSize \in Int
  BY PayloadAssumption DEF Packets
<1>2. HeaderSize \in Nat /\ HeaderSize > 0
  BY HeaderAssumption
<1>3. /\ Skipped(p) \in Nat
      /\ p.mSize >= 0 => Skipped(p) = p.mSize
      /\ p.mSize < 0 => Skipped(p) = 0
  BY <1>1 DEF Skipped
<1>4. QED BY <1>1, <1>2, <1>3 DEF PacketEnd

\* The end of the packets sent is a place.
LEMMA EndOfSent ==
  ASSUME Contiguous
  PROVE  EndOf(sent) \in Nat
<1>1. sent \in Seq(Packets) /\ Len(sent) \in Nat
  BY DEF Contiguous
<1>2. sent # << >> => sent[Len(sent)] \in Packets
  BY <1>1, EmptySeq, ElementOfSeq
<1>3. QED BY <1>2, PacketNumbers DEF EndOf

\* In step, the packets handled are the first packets sent.
LEMMA InStepHandled ==
  ASSUME Contiguous, FirstHandled, InStep
  PROVE  /\ handled \in Seq(Packets) /\ Len(handled) \in Nat /\ Len(sent) \in Nat
         /\ Len(handled) <= Len(sent)
         /\ \A k \in 1..Len(handled) : handled[k] = sent[k]
<1>1. handled \in Seq(Packets) /\ Len(handled) \in Nat /\ Len(sent) \in Nat
  BY DEF Contiguous, FirstHandled
<1>2. DOMAIN handled = 1..Len(handled)
  BY <1>1
<1>3. ASSUME NEW k \in 1..Len(handled)
      PROVE  k <= Len(sent) /\ handled[k] = sent[k]
  <2>1. \A j \in 1..(k - 1) : j \in DOMAIN handled
    BY <1>1, <1>2, <1>3
  <2>2. \A j \in 1..(k - 1) : handled[j].mSize >= 0
    BY <2>1 DEF InStep
  <2>3. QED BY <2>2 DEF FirstHandled, Follows
<1>4. Len(handled) <= Len(sent)
  <2>1. CASE Len(handled) = 0
    BY <1>1, <2>1
  <2>2. CASE Len(handled) # 0
    <3>1. Len(handled) \in 1..Len(handled)
      BY <1>1, <2>2
    <3>2. QED BY <1>3, <3>1
  <2>3. QED BY <2>1, <2>2
<1>5. QED BY <1>1, <1>3, <1>4

\* The end of the packets handled is the start of the next one.
LEMMA Places ==
  ASSUME Contiguous, FirstHandled, InStep
  PROVE  /\ Len(sent) \in Nat /\ Len(handled) \in Nat /\ Len(handled) <= Len(sent)
         /\ EndOf(sent) \in Nat /\ EndOf(handled) \in Nat
         /\ EndOf(handled) <= EndOf(sent)
         /\ Len(handled) = Len(sent) => EndOf(handled) = EndOf(sent)
         /\ Len(handled) < Len(sent) =>
              /\ sent[Len(handled) + 1] \in Packets
              /\ sent[Len(handled) + 1].at = EndOf(handled)
<1>1. /\ sent \in Seq(Packets) /\ handled \in Seq(Packets)
      /\ Len(sent) \in Nat /\ Len(handled) \in Nat /\ Len(handled) <= Len(sent)
  BY InStepHandled DEF Contiguous
<1>2. \A k \in 1..Len(sent) : sent[k] \in Packets /\ PacketEnd(sent[k]) \in Nat
  BY <1>1, ElementOfSeq, PacketNumbers
<1>3. EndOf(sent) = IF Len(sent) = 0 THEN 0 ELSE PacketEnd(sent[Len(sent)])
  BY <1>1, EmptySeq DEF EndOf
<1>4. EndOf(handled) = IF Len(handled) = 0 THEN 0 ELSE PacketEnd(sent[Len(handled)])
  <2>1. CASE Len(handled) = 0
    BY <1>1, <2>1, EmptySeq DEF EndOf
  <2>2. CASE Len(handled) # 0
    <3>1. handled # << >> /\ Len(handled) \in 1..Len(handled)
      BY <1>1, <2>2, EmptySeq
    <3>2. handled[Len(handled)] = sent[Len(handled)]
      BY <3>1, InStepHandled
    <3>3. QED BY <2>2, <3>1, <3>2 DEF EndOf
  <2>3. QED BY <2>1, <2>2
<1>5. EndOf(sent) \in Nat /\ EndOf(handled) \in Nat
  BY <1>1, <1>2, <1>3, <1>4
<1>6. EndOf(handled) <= EndOf(sent)
  <2>1. CASE Len(handled) = 0
    BY <1>4, <1>5, <2>1
  <2>2. CASE Len(handled) # 0 /\ Len(handled) < Len(sent)
    <3>1. Len(handled) \in 1..Len(sent) /\ Len(sent) \in 1..Len(sent) /\ Len(sent) # 0
      BY <1>1, <2>2
    <3>2. PacketEnd(sent[Len(handled)]) <= sent[Len(sent)].at
      BY <2>2, <3>1 DEF Contiguous
    <3>3. sent[Len(sent)].at \in Nat /\ sent[Len(sent)].at < PacketEnd(sent[Len(sent)])
      BY <1>2, <3>1, PacketNumbers
    <3>4. EndOf(handled) <= sent[Len(sent)].at /\ sent[Len(sent)].at < EndOf(sent)
      BY <1>3, <1>4, <2>2, <3>1, <3>2, <3>3
    <3>5. QED BY <1>5, <3>3, <3>4
  <2>3. CASE Len(handled) = Len(sent)
    BY <1>3, <1>4, <1>5, <2>3
  <2>4. QED BY <1>1, <2>1, <2>2, <2>3
<1>7. ASSUME Len(handled) < Len(sent)
      PROVE  /\ sent[Len(handled) + 1] \in Packets
             /\ sent[Len(handled) + 1].at = EndOf(handled)
  <2> DEFINE k == Len(handled) + 1
  <2>1. k \in 1..Len(sent) /\ k - 1 = Len(handled) /\ (k = 1 <=> Len(handled) = 0)
    BY <1>1, <1>7
  <2>2. sent[k].at = IF k = 1 THEN 0 ELSE PacketEnd(sent[k - 1])
    BY <2>1 DEF Contiguous
  <2>3. sent[k] \in Packets
    BY <1>2, <2>1
  <2>4. sent[k].at = EndOf(handled)
    BY <1>4, <2>1, <2>2
  <2>5. QED BY <2>3, <2>4
<1>8. QED
  BY <1>1, <1>3, <1>4, <1>5, <1>6, <1>7

\* A byte of a header belongs to one packet only: the first byte behind the
\* packets handled is the header of the next packet.
LEMMA ParserFindsNext ==
  ASSUME Contiguous, FirstHandled, InStep, Len(handled) < Len(sent)
  PROVE  PacketsAt(EndOf(handled) + 1) = {sent[Len(handled) + 1]}
<1> DEFINE k == Len(handled) + 1
           e == EndOf(handled)
<1>1. /\ k \in 1..Len(sent) /\ sent[k] \in Packets /\ sent[k].at = e /\ e \in Nat
      /\ sent \in Seq(Packets) /\ Len(sent) \in Nat
  BY Places DEF Contiguous
<1>2. DOMAIN sent = 1..Len(sent)
  BY <1>1
<1>3. \A j \in 1..Len(sent) : sent[j] \in Packets
  BY <1>1, ElementOfSeq
<1> HIDE DEF k, e
<1>4. ASSUME NEW j \in 1..Len(sent), sent[j].at + 1 = e + 1
      PROVE  j = k
  <2>1. /\ sent[j].at \in Nat /\ sent[j].at < PacketEnd(sent[j]) /\ PacketEnd(sent[j]) \in Nat
        /\ sent[k].at \in Nat /\ sent[k].at < PacketEnd(sent[k]) /\ PacketEnd(sent[k]) \in Nat
    BY <1>1, <1>3, PacketNumbers
  <2>2. sent[j].at = sent[k].at
    BY <1>1, <1>4, <2>1
  <2>3. j < k => PacketEnd(sent[j]) <= sent[k].at
    BY <1>1 DEF Contiguous
  <2>4. k < j => PacketEnd(sent[k]) <= sent[j].at
    BY <1>1 DEF Contiguous
  <2>5. ~(j < k) /\ ~(k < j)
    BY <2>1, <2>2, <2>3, <2>4
  <2>6. j \in Nat /\ k \in Nat
    BY <1>1
  <2>7. QED BY <2>5, <2>6
<1>5. Range(sent) = {sent[j] : j \in 1..Len(sent)}
  BY <1>2 DEF Range
<1>6. {p \in Range(sent) : p.at + 1 = e + 1} = {sent[k]}
  <2>1. sent[k] \in Range(sent) /\ sent[k].at + 1 = e + 1
    BY <1>1, <1>5
  <2>2. ASSUME NEW p \in Range(sent), p.at + 1 = e + 1
        PROVE  p = sent[k]
    <3>1. PICK j \in 1..Len(sent) : p = sent[j]
      BY <1>5, <2>2
    <3>2. j = k
      BY <1>4, <2>2, <3>1
    <3>3. QED BY <3>1, <3>2
  <2>3. QED BY <2>1, <2>2
<1>7. PacketsAt(e + 1) = {sent[k]}
  BY <1>6 DEF PacketsAt
<1>8. QED
  BY <1>7 DEF k, e

\* In step or not, what the parser takes for a packet has the numbers of one.
LEMMA ParserFindsPackets ==
  ASSUME Contiguous, NEW b \in Nat
  PROVE  PacketsAt(b) \subseteq Packets
<1>1. sent \in Seq(Packets) /\ DOMAIN sent = 1..Len(sent)
  BY DEF Contiguous
<1>2. Range(sent) \subseteq Packets
  BY <1>1, ElementOfSeq DEF Range
<1>3. [at : {b}, mSize : PayloadSizes, kind : Kinds] \subseteq Packets
  BY DEF Packets
<1>4. QED BY <1>2, <1>3 DEF PacketsAt

\* Two runs of the stream, one behind the other, and what is left of a run.
LEMMA RunsJoin ==
  ASSUME NEW e \in Nat, NEW m \in Nat, NEW n \in Nat
  PROVE  [i \in 1..m |-> e + i] \o [i \in 1..n |-> e + m + i] = [i \in 1..(m + n) |-> e + i]
<1> DEFINE u == [i \in 1..m |-> e + i]
           v == [i \in 1..n |-> e + m + i]
           w == [i \in 1..(m + n) |-> e + i]
<1>1. u \in Seq(Nat) /\ Len(u) = m
  <2>1. u \in [1..m -> Nat]
    OBVIOUS
  <2> HIDE DEF u
  <2>2. QED BY <2>1, FunctionIsSeq
<1>2. v \in Seq(Nat) /\ Len(v) = n
  <2>1. v \in [1..n -> Nat]
    OBVIOUS
  <2> HIDE DEF v
  <2>2. QED BY <2>1, FunctionIsSeq
<1>3. w \in Seq(Nat) /\ Len(w) = m + n
  <2>1. w \in [1..(m + n) -> Nat] /\ m + n \in Nat
    OBVIOUS
  <2> HIDE DEF w
  <2>2. QED BY <2>1, FunctionIsSeq
<1>4. /\ u \o v \in Seq(Nat) /\ Len(u \o v) = m + n
      /\ \A i \in 1..(m + n) : (u \o v)[i] = IF i <= m THEN u[i] ELSE v[i - m]
  <2> HIDE DEF u, v
  <2>1. QED BY <1>1, <1>2, ConcatProperties
<1>5. ASSUME NEW i \in 1..(m + n)
      PROVE  (u \o v)[i] = w[i]
  <2>1. i \in Nat /\ w[i] = e + i
    BY <1>5
  <2>2. CASE i <= m
    <3>1. i \in 1..m
      BY <1>5, <2>2
    <3>2. u[i] = e + i
      BY <3>1
    <3> HIDE DEF u, v, w
    <3>3. QED BY <1>4, <2>1, <2>2, <3>2
  <2>3. CASE ~(i <= m)
    <3>1. i - m \in 1..n /\ e + m + (i - m) = e + i
      BY <1>5, <2>3
    <3>2. v[i - m] = e + i
      BY <3>1
    <3> HIDE DEF u, v, w
    <3>3. QED BY <1>4, <2>1, <2>3, <3>2
  <2>4. QED BY <2>2, <2>3
<1> HIDE DEF u, v, w
<1>6. u \o v = w
  BY <1>3, <1>4, <1>5, SeqEqual
<1>7. QED BY <1>6 DEF u, v, w

LEMMA RunIsLeft ==
  ASSUME NEW e \in Nat, NEW m \in Nat, NEW n \in 0..m
  PROVE  SubSeq([i \in 1..m |-> e + i], n + 1, m) = [i \in 1..(m - n) |-> e + n + i]
<1> DEFINE u == [i \in 1..m |-> e + i]
           w == [i \in 1..(m - n) |-> e + n + i]
           s == SubSeq(u, n + 1, m)
<1>0. n \in Nat /\ m - n \in Nat
  OBVIOUS
<1>1. \A i \in (n + 1)..m : u[i] \in Nat /\ u[i] = e + i
  OBVIOUS
<1>2. w \in Seq(Nat) /\ Len(w) = m - n /\ \A i \in 1..(m - n) : w[i] = e + n + i
  <2>1. w \in [1..(m - n) -> Nat] /\ \A i \in 1..(m - n) : w[i] = e + n + i
    BY <1>0
  <2> HIDE DEF w
  <2>2. QED BY <1>0, <2>1, FunctionIsSeq
<1> HIDE DEF u, w
<1>3. /\ s \in Seq(Nat) /\ Len(s) = (IF n + 1 <= m THEN m - (n + 1) + 1 ELSE 0)
      /\ \A i \in 1..(m - (n + 1) + 1) : s[i] = u[(n + 1) + i - 1]
  BY <1>0, <1>1, SubSeqProperties
<1> HIDE DEF s
<1>4. m - (n + 1) + 1 = m - n /\ Len(s) = m - n
  BY <1>0, <1>3
<1>5. ASSUME NEW i \in 1..(m - n)
      PROVE  s[i] = w[i]
  <2>1. (n + 1) + i - 1 = n + i /\ n + i \in (n + 1)..m /\ e + (n + i) = e + n + i
    BY <1>0, <1>5
  <2>2. s[i] = u[n + i]
    BY <1>3, <1>4, <2>1
  <2>3. QED BY <1>1, <1>2, <2>1, <2>2
<1>6. s = w
  BY <1>2, <1>3, <1>4, <1>5, SeqEqual
<1>7. QED BY <1>6 DEF s, u, w

-----------------------------------------------------------------------------
(* The steps.                                                                *)

LEMMA InitOK == Init => IInv
<1> SUFFICES ASSUME Init PROVE IInv
  OBVIOUS
<1>1. sent = << >> /\ handled = << >> /\ arrived = 0 /\ mRecvBuffer = BufferReset
  BY DEF Init
<1>2. /\ << >> \in Seq(Packets) /\ Len(<< >>) = 0
      /\ EndOf(<< >>) = 0
  BY EmptySeq DEF EndOf
<1>3. Contiguous
  BY <1>1, <1>2 DEF Contiguous
<1>4. FirstHandled
  BY <1>1, <1>2 DEF FirstHandled
<1>5. /\ BufferReset.aSize = 0 /\ BufferReset.bSize = 0 /\ BufferReset.aPtr = 0
      /\ GetStoredSize(BufferReset) = 0
  BY DEF BufferReset, GetStoredSize
<1>6. Contents(BufferReset) = [i \in 1..0 |-> (0 - 0) + i]
  <2>1. Contents(BufferReset) \in Seq(Nat) /\ Len(Contents(BufferReset)) = 0
    BY <1>5, ResetOK, ContentsAt
  <2>2. Contents(BufferReset) = << >>
    BY <2>1, EmptySeq
  <2>3. [i \in 1..0 |-> (0 - 0) + i] = << >>
    OBVIOUS
  <2>4. QED BY <2>2, <2>3
<1>7. Buffered
  <2>1. EndOf(sent) = 0 /\ GetStoredSize(mRecvBuffer) = 0
    BY <1>1, <1>2, <1>5
  <2>2. Contents(mRecvBuffer) = [i \in 1..GetStoredSize(mRecvBuffer) |->
                                   (arrived - GetStoredSize(mRecvBuffer)) + i]
    BY <1>1, <1>5, <1>6
  <2>3. QED BY <1>1, <2>1, <2>2, ResetOK DEF Buffered
<1>8. Typed
  BY CapAssumption DEF Init, Typed, NoStream
<1>9. Stored /\ StreamIsA /\ Waits
  BY <1>1, <1>2, <1>5 DEF Init, Stored, StreamIsA, Waits, CutsAPacket
<1>10. QED
  BY <1>3, <1>4, <1>7, <1>8, <1>9 DEF IInv

\* What the steps keep that move neither packets nor bytes.
LEMMA NothingMoves ==
  ASSUME IInv, UNCHANGED <<sent, mRecvBuffer, arrived, handled>>
  PROVE  /\ Contiguous' /\ FirstHandled' /\ Buffered'
         /\ InStep' => InStep /\ Stored' /\ StreamIsA /\ Waits
         /\ CutsAPacket => CutsAPacket'
<1>0. sent' = sent /\ mRecvBuffer' = mRecvBuffer /\ arrived' = arrived /\ handled' = handled
  OBVIOUS
<1>1. Contiguous'
  BY <1>0 DEF IInv, Contiguous
<1>2. FirstHandled'
  BY <1>0 DEF IInv, FirstHandled, Follows
<1>3. Buffered'
  BY <1>0 DEF IInv, Buffered
<1>4. InStep' => InStep
  BY <1>0 DEF InStep
<1>5. InStep => Stored' /\ StreamIsA /\ Waits
  BY <1>0 DEF IInv, Stored
<1>6. CutsAPacket => CutsAPacket'
  BY <1>0 DEF CutsAPacket
<1>7. QED BY <1>1, <1>2, <1>3, <1>4, <1>5, <1>6

LEMMA DisconnectStep == ASSUME IInv, DisconnectRequest PROVE IInv'
<1>1. /\ Contiguous' /\ FirstHandled' /\ Buffered'
      /\ InStep' => InStep /\ Stored' /\ StreamIsA /\ Waits
      /\ CutsAPacket => CutsAPacket'
  BY NothingMoves DEF DisconnectRequest
<1>2. Typed'
  BY DEF DisconnectRequest, Typed, IInv
<1>3. ASSUME StreamIsA, Waits PROVE StreamIsA' /\ Waits'
  BY <1>1, <1>3 DEF DisconnectRequest, StreamIsA, Waits
<1>4. QED BY <1>1, <1>2, <1>3 DEF IInv

LEMMA PreRecvStep == ASSUME IInv, PreRecv PROVE IInv'
<1>1. /\ Contiguous' /\ FirstHandled' /\ Buffered'
      /\ InStep' => InStep /\ Stored' /\ StreamIsA /\ Waits
      /\ CutsAPacket => CutsAPacket'
  BY NothingMoves DEF PreRecv
<1>2. Typed'
  BY DEF PreRecv, Typed, IInv
<1>3. ASSUME Waits PROVE StreamIsA' /\ Waits'
  BY <1>1, <1>3 DEF PreRecv, StreamIsA, Waits
<1>4. QED BY <1>1, <1>2, <1>3 DEF IInv

LEMMA RecvFailsStep == ASSUME IInv, RecvFails PROVE IInv'
<1>1. /\ Contiguous' /\ FirstHandled' /\ Buffered'
      /\ InStep' => InStep /\ Stored' /\ StreamIsA /\ Waits
      /\ CutsAPacket => CutsAPacket'
  BY NothingMoves DEF RecvFails
<1>2. Typed'
  BY DEF RecvFails, Typed, IInv
<1>3. ASSUME Waits PROVE StreamIsA' /\ Waits'
  BY <1>1, <1>3 DEF RecvFails, StreamIsA, Waits
<1>4. QED BY <1>1, <1>2, <1>3 DEF IInv

\* A new packet lies behind the others; the parser does not see it yet.
LEMMA ServerSendsStep ==
  ASSUME IInv, NEW size \in PayloadSizes, NEW kind \in Kinds, ServerSends(size, kind)
  PROVE  IInv'
<1> DEFINE p == [at |-> EndOf(sent), mSize |-> size, kind |-> kind]
<1>0. /\ sent' = Append(sent, p) /\ handled' = handled /\ mRecvBuffer' = mRecvBuffer
      /\ arrived' = arrived /\ stream' = stream /\ phase' = phase /\ mConnected' = mConnected
  BY DEF ServerSends
<1>1. EndOf(sent) \in Nat /\ Len(sent) \in Nat
  BY EndOfSent DEF IInv, Contiguous
<1>2. sent \in Seq(Packets) /\ \A k \in 1..Len(sent) : sent[k] \in Packets
  BY ElementOfSeq DEF IInv, Contiguous
<1>3. p \in Packets /\ p.at = EndOf(sent)
  BY <1>1 DEF Packets
<1> HIDE DEF p
<1>4. PacketEnd(p) \in Nat /\ EndOf(sent) < PacketEnd(p)
  BY <1>3, PacketNumbers
<1>5. /\ sent' \in Seq(Packets) /\ Len(sent') = Len(sent) + 1
      /\ \A k \in 1..Len(sent) : sent'[k] = sent[k]
      /\ sent'[Len(sent) + 1] = p
  BY <1>0, <1>2, <1>3, AppendProperties
<1>6. EndOf(sent') = PacketEnd(p)
  <2>1. sent' # << >>
    BY <1>0, <1>1, <1>5, EmptySeq
  <2>2. QED BY <1>5, <2>1 DEF EndOf
<1>6a. EndOf(sent) = IF Len(sent) = 0 THEN 0 ELSE PacketEnd(sent[Len(sent)])
  BY <1>2, EmptySeq DEF EndOf
<1>7. Contiguous'
  <2>1. ASSUME NEW k \in 1..(Len(sent) + 1)
        PROVE  sent'[k].at = IF k = 1 THEN 0 ELSE PacketEnd(sent'[k - 1])
    <3>1. CASE k \in 1..Len(sent)
      <4>1. sent[k].at = IF k = 1 THEN 0 ELSE PacketEnd(sent[k - 1])
        BY <3>1 DEF IInv, Contiguous
      <4>2. k # 1 => k - 1 \in 1..Len(sent)
        BY <1>1, <3>1
      <4>3. QED BY <1>5, <3>1, <4>1, <4>2
    <3>2. CASE k = Len(sent) + 1
      <4>1. sent'[k].at = EndOf(sent)
        BY <1>3, <1>5, <3>2
      <4>2. k - 1 = Len(sent) /\ (k = 1 <=> Len(sent) = 0)
        BY <1>1, <3>2
      <4>3. k # 1 => k - 1 \in 1..Len(sent)
        BY <1>1, <4>2
      <4>4. k # 1 => sent'[k - 1] = sent[Len(sent)]
        BY <1>5, <4>2, <4>3
      <4>5. QED BY <1>6a, <4>1, <4>2, <4>4
    <3>3. QED BY <1>1, <2>1, <3>1, <3>2
  <2>2. ASSUME NEW j \in 1..(Len(sent) + 1), NEW k \in 1..(Len(sent) + 1), j < k
        PROVE  PacketEnd(sent'[j]) <= sent'[k].at
    <3>1. j \in 1..Len(sent)
      BY <1>1, <2>2
    <3>2. CASE k \in 1..Len(sent)
      <4>1. PacketEnd(sent[j]) <= sent[k].at
        BY <2>2, <3>1, <3>2 DEF IInv, Contiguous
      <4>2. QED BY <1>5, <3>1, <3>2, <4>1
    <3>3. CASE k = Len(sent) + 1
      <4>1. sent'[j] = sent[j] /\ sent'[k].at = EndOf(sent)
        BY <1>3, <1>5, <3>1, <3>3
      <4>2. Len(sent) \in 1..Len(sent) /\ EndOf(sent) = PacketEnd(sent[Len(sent)])
        BY <1>1, <1>6a, <3>1
      <4>3. CASE j = Len(sent)
        BY <1>1, <4>1, <4>2, <4>3
      <4>4. CASE j < Len(sent)
        <5>1. PacketEnd(sent[j]) <= sent[Len(sent)].at
          BY <3>1, <4>2, <4>4 DEF IInv, Contiguous
        <5>2. sent[Len(sent)] \in Packets /\ sent[j] \in Packets
          BY <1>2, <3>1, <4>2
        <5>3. /\ sent[Len(sent)].at \in Nat /\ sent[Len(sent)].at < EndOf(sent)
              /\ PacketEnd(sent[j]) \in Nat
          BY <4>2, <5>2, PacketNumbers
        <5>4. PacketEnd(sent[j]) <= EndOf(sent)
          BY <1>1, <5>1, <5>3
        <5>5. QED BY <4>1, <5>4
      <4>5. QED BY <1>1, <3>1, <4>3, <4>4
    <3>4. QED BY <1>1, <2>2, <3>2, <3>3
  <2>3. QED BY <1>5, <2>1, <2>2 DEF Contiguous
<1>8. FirstHandled'
  <2>1. handled \in Seq(Packets) /\ Len(handled) \in Nat
    BY DEF IInv, FirstHandled
  <2>2. ASSUME NEW k \in 1..Len(handled), k <= Len(sent) /\ handled[k] = sent[k]
        PROVE  k <= Len(sent') /\ handled[k] = sent'[k]
    BY <1>1, <1>5, <2>1, <2>2
  <2>3. ASSUME NEW k \in 1..Len(handled)
        PROVE  Follows(k)'
    <3>1. Follows(k)
      BY <2>3 DEF IInv, FirstHandled
    <3>2. QED BY <1>0, <2>2, <2>3, <3>1 DEF Follows
  <2>4. QED BY <1>0, <2>1, <2>3 DEF FirstHandled
<1>9. Buffered'
  <2>1. Buffered
    BY DEF IInv
  <2>2. arrived <= EndOf(sent')
    BY <1>1, <1>4, <1>6, <2>1 DEF Buffered
  <2>3. QED BY <1>0, <2>1, <2>2 DEF Buffered
<1>10. Typed'
  BY <1>0 DEF IInv, Typed
<1>11. ASSUME InStep'
       PROVE  Stored' /\ StreamIsA' /\ Waits'
  <2>0. InStep
    BY <1>0, <1>11 DEF InStep
  <2>1. Stored /\ StreamIsA /\ Waits
    BY <2>0 DEF IInv
  <2>2. /\ Len(handled) \in Nat /\ Len(handled) <= Len(sent)
        /\ EndOf(handled) \in Nat
        /\ Len(handled) = Len(sent) => EndOf(handled) = EndOf(sent)
    BY <2>0, Places DEF IInv
  <2>3. CutsAPacket => CutsAPacket'
    <3>1. CASE Len(handled) < Len(sent)
      <4>1. Len(handled) + 1 \in 1..Len(sent)
        BY <1>1, <2>2, <3>1
      <4>2. sent'[Len(handled) + 1] = sent[Len(handled) + 1]
        BY <1>5, <4>1
      <4>3. QED BY <1>0, <3>1, <4>2 DEF CutsAPacket
    <3>2. CASE Len(handled) = Len(sent)
      <4>1. mRecvBuffer.aSize \in Nat /\ mRecvBuffer.bSize \in Nat
        BY BufferFields DEF IInv, Buffered
      <4>2. /\ arrived \in Nat /\ arrived <= EndOf(sent)
            /\ mRecvBuffer.aSize + mRecvBuffer.bSize = arrived - EndOf(handled)
        BY <2>1 DEF IInv, Buffered, Stored, GetStoredSize
      <4>3. mRecvBuffer.aSize = 0
        BY <1>1, <2>2, <3>2, <4>1, <4>2
      <4>4. EndOf(handled) + mRecvBuffer.aSize < PacketEnd(p)
        BY <1>1, <1>4, <2>2, <3>2, <4>3
      <4>5. sent'[Len(handled) + 1] = p
        BY <1>5, <3>2
      <4>6. QED BY <1>0, <4>4, <4>5 DEF CutsAPacket
    <3>3. QED BY <1>1, <2>2, <3>1, <3>2
  <2>4. Stored' /\ StreamIsA'
    BY <1>0, <2>1 DEF Stored, StreamIsA
  <2>5. Waits'
    BY <1>0, <2>1, <2>3 DEF Waits
  <2>6. QED BY <2>4, <2>5
<1>12. QED
  BY <1>7, <1>8, <1>9, <1>10, <1>11 DEF IInv

\* Looking for free space moves no byte.
LEMMA PostRecvStep == ASSUME IInv, PostRecv PROVE IInv'
<1> DEFINE b == mRecvBuffer
<1>0. /\ sent' = sent /\ handled' = handled /\ arrived' = arrived /\ stream' = stream
      /\ phase = "armed"
      /\ mRecvBuffer' = IF mConnected THEN AfterProbe(b) ELSE b
      /\ \/ mConnected /\ phase' = "posted" /\ mConnected' = mConnected
         \/ phase' = "ended" /\ mConnected' = FALSE
  BY DEF PostRecv
<1>1. BufferOK(b) /\ mConnected \in BOOLEAN
  BY DEF IInv, Buffered, Typed
<1>2. /\ BufferOK(mRecvBuffer') /\ Contents(mRecvBuffer') = Contents(b)
      /\ mRecvBuffer'.aSize = b.aSize /\ mRecvBuffer'.bSize = b.bSize
      /\ mConnected => AfterProbe(mRecvBuffer') = mRecvBuffer'
  <2>1. /\ BufferOK(AfterProbe(b)) /\ Contents(AfterProbe(b)) = Contents(b)
        /\ AfterProbe(AfterProbe(b)) = AfterProbe(b)
    BY <1>1, ProbeOK, ProbeContents
  <2>2. AfterProbe(b).aSize = b.aSize /\ AfterProbe(b).bSize = b.bSize
    BY <1>1 DEF AfterProbe, BufferOK, Buffers
  <2>3. QED BY <1>0, <1>1, <2>1, <2>2
<1>3. GetStoredSize(mRecvBuffer') = GetStoredSize(b)
  BY <1>2 DEF GetStoredSize
<1>4. Contiguous' /\ FirstHandled'
  BY <1>0 DEF IInv, Contiguous, FirstHandled, Follows
<1>5. Buffered'
  <2>1. Buffered
    BY DEF IInv
  <2>2. QED BY <1>0, <1>2, <1>3, <2>1 DEF Buffered
<1>6. Typed'
  <2>1. phase' # "parse" /\ phase' \in {"posted", "ended"} /\ mConnected' \in BOOLEAN
    BY <1>0, <1>1
  <2>2. phase' = "posted" => AfterProbe(mRecvBuffer') = mRecvBuffer'
    BY <1>0, <1>2
  <2>3. stream' \in [at : 0..Cap, len : 0..Cap]
    BY <1>0 DEF IInv, Typed
  <2>4. QED BY <2>1, <2>2, <2>3 DEF Typed
<1>7. ASSUME InStep'
      PROVE  Stored' /\ StreamIsA' /\ Waits'
  <2>1. InStep
    BY <1>0, <1>7 DEF InStep
  <2>2. Stored /\ CutsAPacket
    BY <1>0, <2>1 DEF IInv, Waits
  <2>3. Stored'
    BY <1>0, <1>3, <2>2 DEF Stored
  <2>4. StreamIsA'
    BY <1>0 DEF StreamIsA
  <2>5. CutsAPacket'
    BY <1>0, <1>2, <2>2 DEF CutsAPacket
  <2>6. QED BY <2>3, <2>4, <2>5 DEF Waits
<1>8. QED
  BY <1>4, <1>5, <1>6, <1>7 DEF IInv

\* The bytes that come in are stored behind the others, and a region B is written
\* only behind a packet that A cuts.
LEMMA RecvCompletionStep ==
  ASSUME IInv, NEW n \in 1..Cap, RecvCompletion(n)
  PROVE  IInv'
<1> DEFINE b     == mRecvBuffer
           bytes == [i \in 1..n |-> arrived + i]
           got   == Commit(Fill(b, GetBuffer(b), bytes), n)
           m     == GetStoredSize(b)
           e     == arrived - m
<1>0. /\ phase = "posted"
      /\ n <= Lesser(GetFreeSpaceSize(b), EndOf(sent) - arrived)
      /\ mRecvBuffer' = got /\ arrived' = arrived + n
      /\ stream' = [at |-> GetBufferStart(got), len |-> GetContiguiousBytes(got)]
      /\ phase' = "parse" /\ sent' = sent /\ handled' = handled /\ mConnected' = mConnected
  BY DEF RecvCompletion
<1>1. /\ BufferOK(b) /\ AfterProbe(b) = b /\ arrived \in Nat /\ mConnected \in BOOLEAN
      /\ m <= arrived
      /\ Contents(b) = [i \in 1..m |-> e + i]
  BY <1>0 DEF IInv, Buffered, Typed
<1>2. EndOf(sent) \in Nat /\ m \in Nat /\ e \in Nat /\ e + m = arrived
  <2>1. EndOf(sent) \in Nat
    BY EndOfSent DEF IInv
  <2>2. m \in Nat
    BY <1>1, BufferFields DEF GetStoredSize
  <2> HIDE DEF m
  <2>3. QED BY <1>1, <2>1, <2>2
<1>3. n \in Nat /\ n >= 1 /\ GetFreeSpaceSize(b) \in Nat
  BY <1>1, ProbeOK, CapAssumption
<1>4. n \in 1..GetFreeSpaceSize(b) /\ arrived + n <= EndOf(sent)
  <2> HIDE DEF b
  <2>1. CASE GetFreeSpaceSize(b) < EndOf(sent) - arrived
    BY <1>0, <1>1, <1>2, <1>3, <2>1 DEF Lesser
  <2>2. CASE ~(GetFreeSpaceSize(b) < EndOf(sent) - arrived)
    BY <1>0, <1>1, <1>2, <1>3, <2>2 DEF Lesser
  <2>3. QED BY <2>1, <2>2
<1>5. bytes \in [1..n -> Nat]
  BY <1>1, <1>3
<1>6. BufferOK(got) /\ Contents(got) = Contents(b) \o bytes
  <2>1. PICK c : c = got
    OBVIOUS
  <2>2. c = Commit(Fill(b, GetBuffer(b), bytes), n)
    BY <2>1
  <2>3. BufferOK(b) /\ AfterProbe(b) = b /\ n \in 1..GetFreeSpaceSize(b)
    BY <1>1, <1>4
  <2> HIDE DEF bytes, b
  <2>4. BufferOK(c) /\ Contents(c) = Contents(b) \o bytes
    BY <1>5, <2>2, <2>3, WriteContents, SMTT(60)
  <2> HIDE DEF got
  <2>5. QED BY <2>1, <2>4
<1>7. Contents(got) = [i \in 1..(m + n) |-> e + i]
  <2>1. bytes = [i \in 1..n |-> e + m + i]
    <3> HIDE DEF e, m
    <3>1. QED BY <1>2
  <2>2. Contents(b) \o bytes = [i \in 1..(m + n) |-> e + i]
    <3> HIDE DEF bytes, e, m
    <3>1. [i \in 1..m |-> e + i] \o [i \in 1..n |-> e + m + i] = [i \in 1..(m + n) |-> e + i]
      BY <1>2, <1>3, RunsJoin
    <3>2. QED BY <1>1, <2>1, <3>1
  <2>3. QED BY <1>6, <2>2
<1>8. \/ got.aSize = b.aSize /\ b.bPtr # Null
      \/ got.bSize = 0
  <2> DEFINE f == Fill(b, GetBuffer(b), bytes)
  <2>1. f \in Buffers /\ f.aSize = b.aSize /\ f.bSize = b.bSize /\ f.bPtr = b.bPtr
    <3>1. GetBuffer(b) \in Int
      BY <1>1, BufferFields DEF GetBuffer
    <3>2. BufferOK(f)
      BY <1>1, <1>3, <1>5, <3>1, FillOK
    <3>3. f \in Buffers
      BY <3>2 DEF BufferOK
    <3>4. b \in Buffers
      BY <1>1 DEF BufferOK
    <3>5. f.aSize = b.aSize /\ f.bSize = b.bSize /\ f.bPtr = b.bPtr
      BY <3>4 DEF Fill, Buffers
    <3>6. QED BY <3>3, <3>5
  <2>2. b.bPtr = Null => b.bSize = 0
    BY <1>1, BufferFields
  <2>3. got = Commit(f, n)
    OBVIOUS
  <2> HIDE DEF f, got
  <2>4. CASE b.bPtr # Null
    <3>1. got = [f EXCEPT !.bSize = @ + n]
      BY <2>1, <2>3, <2>4 DEF Commit
    <3>2. got.aSize = f.aSize
      BY <2>1, <3>1 DEF Buffers
    <3>3. QED BY <2>1, <2>4, <3>2
  <2>5. CASE b.bPtr = Null
    <3>1. got = [f EXCEPT !.aSize = @ + n]
      BY <2>1, <2>3, <2>5 DEF Commit
    <3>2. got.bSize = f.bSize
      BY <2>1, <3>1 DEF Buffers
    <3>3. QED BY <2>1, <2>2, <2>5, <3>2
  <2>6. QED BY <2>4, <2>5
<1> HIDE DEF got
<1>9. /\ got.aSize \in Nat /\ got.bSize \in Nat /\ got.aPtr \in Nat /\ got.aPtr + got.aSize <= Cap
      /\ got.aSize = 0 => got.bSize = 0
  BY <1>6, BufferFields
<1>10. GetStoredSize(got) = m + n /\ got.aSize + got.bSize = m + n
  <2>1. Len(Contents(got)) = got.aSize + got.bSize
    BY <1>6, ContentsAt
  <2>2. PICK k \in Nat : k = m + n
    BY <1>2, <1>3
  <2>3. Contents(got) = [i \in 1..k |-> e + i]
    BY <1>7, <2>2
  <2>4. [i \in 1..k |-> e + i] \in [1..k -> Nat]
    <3> HIDE DEF e, m
    <3>1. QED BY <1>2, <2>2
  <2>5. Len(Contents(got)) = k
    BY <2>3, <2>4, FunctionIsSeq
  <2>6. QED BY <2>1, <2>2, <2>5 DEF GetStoredSize
<1> HIDE DEF m, e
<1>11. got.aSize > 0
  BY <1>2, <1>3, <1>9, <1>10
<1>12. stream' = [at |-> got.aPtr, len |-> got.aSize]
  BY <1>0, <1>11 DEF GetBufferStart, GetContiguiousBytes
<1>13. Contiguous' /\ FirstHandled'
  BY <1>0 DEF IInv, Contiguous, FirstHandled, Follows
<1>14. Buffered'
  <2>1. EndOf(sent') = EndOf(sent) /\ GetStoredSize(mRecvBuffer') = m + n
    BY <1>0, <1>10
  <2>2. /\ arrived' \in Nat /\ arrived' <= EndOf(sent) /\ m + n <= arrived'
        /\ arrived' - (m + n) = e
    BY <1>0, <1>1, <1>2, <1>3, <1>4
  <2>3. QED BY <1>0, <1>6, <1>7, <2>1, <2>2 DEF Buffered
<1>15. Typed'
  <2>1. got.aPtr \in 0..Cap /\ got.aSize \in 0..Cap
    BY <1>9, CapAssumption
  <2>2. /\ stream' \in [at : 0..Cap, len : 0..Cap]
        /\ stream'.len = got.aSize /\ stream'.at = got.aPtr
    BY <1>12, <2>1
  <2>3. QED BY <1>0, <1>1, <1>9, <2>2 DEF Typed
<1>16. ASSUME InStep'
       PROVE  Stored' /\ StreamIsA' /\ Waits'
  <2>1. InStep
    BY <1>0, <1>16 DEF InStep
  <2>2. Stored /\ Waits /\ CutsAPacket
    BY <1>0, <2>1 DEF IInv, Waits
  <2>3. EndOf(handled) \in Nat
    BY <2>1, Places DEF IInv
  <2>4. m = arrived - EndOf(handled)
    BY <2>2 DEF Stored, m
  <2>5. Stored'
    <3>1. GetStoredSize(mRecvBuffer') = arrived' - EndOf(handled)
      BY <1>0, <1>1, <1>2, <1>3, <1>10, <2>3, <2>4
    <3>2. QED BY <1>0, <3>1 DEF Stored
  <2>6. StreamIsA'
    BY <1>0, <1>12 DEF StreamIsA
  <2>7. got.bSize > 0 => CutsAPacket'
    <3>1. got.bSize > 0 => got.aSize = b.aSize
      BY <1>8
    <3>2. QED BY <1>0, <2>2, <3>1 DEF CutsAPacket
  <2>8. Waits'
    BY <1>0, <2>7 DEF Waits
  <2>9. QED BY <2>5, <2>6, <2>8
<1>17. QED
  BY <1>13, <1>14, <1>15, <1>16 DEF IInv

\* In step, and while the stream is not at its end, the parser looks at the next
\* packet.
LEMMA ParserLooksAtNext ==
  ASSUME IInv, InStep, phase = "parse", stream.len > 0
  PROVE  /\ Len(handled) < Len(sent)
         /\ NextPackets = {sent[Len(handled) + 1]}
         /\ stream.len = mRecvBuffer.aSize
         /\ stream.at = mRecvBuffer.aPtr
<1> DEFINE b == mRecvBuffer
           e == EndOf(handled)
<1>1. /\ BufferOK(b) /\ arrived \in Nat /\ arrived <= EndOf(sent)
      /\ b.aSize + b.bSize = arrived - e
  BY DEF IInv, Buffered, Stored, GetStoredSize
<1>2. stream.len = b.aSize /\ stream.at = b.aPtr
  BY DEF IInv, StreamIsA
<1>3. b.aSize \in Nat /\ b.bSize \in Nat /\ b.aPtr \in Nat
  BY <1>1, BufferFields
<1>4. e \in Nat /\ EndOf(sent) \in Nat /\ e < arrived
  <2>1. e \in Nat /\ EndOf(sent) \in Nat
    BY Places DEF IInv
  <2> HIDE DEF e, b
  <2>2. QED BY <1>1, <1>2, <1>3, <2>1
<1>5. Len(handled) < Len(sent)
  <2>1. /\ Len(handled) \in Nat /\ Len(sent) \in Nat /\ Len(handled) <= Len(sent)
        /\ Len(handled) = Len(sent) => e = EndOf(sent)
    BY Places DEF IInv
  <2> HIDE DEF e, b
  <2>2. QED BY <1>1, <1>4, <2>1
<1>6. b.mem[b.aPtr] = e + 1
  <2>1. PICK m \in Nat : m = GetStoredSize(b) /\ m = b.aSize + b.bSize
    BY <1>3 DEF GetStoredSize
  <2>2. Contents(b) = [i \in 1..m |-> (arrived - m) + i]
    BY <2>1 DEF IInv, Buffered
  <2>3. arrived - m = e
    BY <1>1, <1>4, <2>1
  <2>4. 1 \in 1..m /\ 1 <= b.aSize
    BY <1>2, <1>3, <2>1
  <2>5. Contents(b)[1] = ByteAt(b, 1)
    BY <1>1, <2>1, <2>4, ContentsAt
  <2>6. ByteAt(b, 1) = b.mem[b.aPtr + 1 - 1]
    BY <2>4 DEF ByteAt
  <2>7. b.aPtr + 1 - 1 = b.aPtr
    BY <1>3
  <2> HIDE DEF b, e
  <2>8. QED BY <2>2, <2>3, <2>4, <2>5, <2>6, <2>7
<1>7. NextPackets = {sent[Len(handled) + 1]}
  BY <1>2, <1>5, <1>6, ParserFindsNext DEF IInv, NextPackets
<1>8. QED BY <1>2, <1>5, <1>7

\* What Remove leaves of a buffer without region B.
LEMMA RemoveFromA ==
  ASSUME NEW b, BufferOK(b), b.bSize = 0, NEW n \in 1..b.aSize
  PROVE  /\ Remove(b, n).aSize = b.aSize - n
         /\ Remove(b, n).bSize = 0
         /\ Remove(b, n).aPtr = b.aPtr + n \/ b.aSize - n = 0
<1>1. b \in Buffers /\ b.aSize \in Nat /\ b.aPtr \in Nat /\ n \in Nat
  BY BufferFields
<1>2. Lesser(n, b.aSize) = n
  BY <1>1 DEF Lesser
<1>3. CASE n < b.aSize
  <2>1. Remove(b, n) = [b EXCEPT !.aPtr = @ + n, !.aSize = @ - n]
    BY <1>2, <1>3 DEF Remove
  <2>2. QED BY <1>1, <2>1 DEF Buffers
<1>4. CASE ~(n < b.aSize)
  <2>1. n = b.aSize /\ n - n = 0
    BY <1>1, <1>4
  <2>2. Lesser(n - n, b.bSize) = 0 /\ b.bSize - 0 = 0
    BY <2>1 DEF Lesser
  <2>3. Remove(b, n).aSize = 0 /\ Remove(b, n).bSize = 0
    BY <1>2, <1>4, <2>2 DEF Remove
  <2>4. QED BY <2>1, <2>3
<1>5. QED BY <1>3, <1>4

\* In step, a packet is handled only when it lies in region A as a whole: there is no
\* region B then, the packet is the next one, and its bytes are the first stored.
LEMMA HandledFromA ==
  ASSUME IInv, InStep, phase = "parse", HasHeader, NEW p \in NextPackets, HasPayload(p)
  PROVE  /\ Len(handled) < Len(sent) /\ p = sent[Len(handled) + 1]
         /\ p.at = EndOf(handled) /\ EndOf(handled) \in Nat
         /\ HeaderSize + Skipped(p) \in 1..mRecvBuffer.aSize
         /\ mRecvBuffer.bSize = 0
         /\ stream.len = mRecvBuffer.aSize /\ stream.at = mRecvBuffer.aPtr
<1> DEFINE n == HeaderSize + Skipped(p)
           e == EndOf(handled)
<1>1. stream.len \in Nat /\ HeaderSize \in Nat /\ HeaderSize > 0 /\ stream.len > 0
  BY HeaderAssumption, CapAssumption DEF IInv, Typed, HasHeader
<1>2. /\ Len(handled) < Len(sent) /\ p = sent[Len(handled) + 1]
      /\ stream.len = mRecvBuffer.aSize /\ stream.at = mRecvBuffer.aPtr
  BY <1>1, ParserLooksAtNext
<1>3. p \in Packets /\ p.at = e /\ e \in Nat
  BY <1>2, Places DEF IInv
<1>4. n \in Nat /\ n >= 1 /\ n <= stream.len /\ PacketEnd(p) = e + n
  <2>1. /\ p.mSize \in Int /\ Skipped(p) \in Nat
        /\ p.mSize >= 0 => Skipped(p) = p.mSize
        /\ p.mSize < 0 => Skipped(p) = 0
        /\ PacketEnd(p) = p.at + HeaderSize + Skipped(p)
    BY <1>3, PacketNumbers
  <2>2. stream.len >= HeaderSize /\ stream.len - HeaderSize >= p.mSize
    BY DEF HasHeader, HasPayload
  <2> HIDE DEF e
  <2>3. QED BY <1>1, <1>3, <2>1, <2>2
<1>5. mRecvBuffer.aSize \in Nat /\ mRecvBuffer.bSize \in Nat
  BY BufferFields DEF IInv, Buffered
<1>6. mRecvBuffer.bSize = 0
  <2>1. mRecvBuffer.bSize > 0 => e + mRecvBuffer.aSize < PacketEnd(p)
    BY <1>2 DEF IInv, Waits, CutsAPacket
  <2> HIDE DEF n, e
  <2>2. QED BY <1>2, <1>3, <1>4, <1>5, <2>1
<1>7. QED BY <1>2, <1>3, <1>4, <1>5, <1>6

\* What Remove leaves behind any packet: the last bytes that came in.
LEMMA SuffixIsLeft ==
  ASSUME IInv, NEW c \in Nat, NEW r, r = Remove(mRecvBuffer, c)
  PROVE  /\ BufferOK(r)
         /\ GetStoredSize(r) <= arrived
         /\ Contents(r) = [i \in 1..GetStoredSize(r) |-> (arrived - GetStoredSize(r)) + i]
<1>1. PICK b : b = mRecvBuffer
  OBVIOUS
<1>2. PICK m : m = GetStoredSize(b) /\ m = b.aSize + b.bSize
  BY DEF GetStoredSize
<1>3. /\ BufferOK(b) /\ arrived \in Nat /\ m <= arrived
      /\ Contents(b) = [i \in 1..m |-> (arrived - m) + i]
  BY <1>1, <1>2 DEF IInv, Buffered
<1>4. m \in Nat
  BY <1>2, <1>3, BufferFields
<1>5. BufferOK(r)
  BY <1>1, <1>3, RemoveOK
<1>6. PICK k : k = Lesser(c, m)
  OBVIOUS
<1>7. k \in 0..m /\ Contents(r) = SubSeq(Contents(b), k + 1, m)
  <2>1. k = Lesser(c, b.aSize + b.bSize)
    BY <1>2, <1>6
  <2>2. /\ k \in 0..(b.aSize + b.bSize)
        /\ Contents(Remove(b, c)) = SubSeq(Contents(b), k + 1, b.aSize + b.bSize)
    BY <1>3, <2>1, RemoveContents
  <2>3. QED BY <1>1, <1>2, <2>2
<1>8. Contents(r) = [i \in 1..(m - k) |-> (arrived - m) + k + i]
  <2>1. PICK e \in Nat : e = arrived - m
    BY <1>3, <1>4
  <2>2. SubSeq([i \in 1..m |-> e + i], k + 1, m) = [i \in 1..(m - k) |-> e + k + i]
    BY <1>4, <1>7, <2>1, RunIsLeft
  <2>3. QED BY <1>3, <1>7, <2>1, <2>2
<1>9. GetStoredSize(r) = m - k
  <2>1. Len(Contents(r)) = r.aSize + r.bSize
    BY <1>5, ContentsAt
  <2>2. [i \in 1..(m - k) |-> (arrived - m) + k + i] \in [1..(m - k) -> Nat] /\ m - k \in Nat
    BY <1>3, <1>4, <1>7
  <2>3. Len(Contents(r)) = m - k
    BY <1>8, <2>2, FunctionIsSeq
  <2>4. QED BY <2>1, <2>3 DEF GetStoredSize
<1>10. (arrived - m) + k = arrived - (m - k) /\ m - k <= arrived
  BY <1>3, <1>4, <1>7
<1>11. QED BY <1>5, <1>8, <1>9, <1>10

\* A count as a size_t: a natural number, and itself if it fits.
LEMMA CountIsNat ==
  ASSUME NEW n \in Int, NEW w \in Nat, w > 0
  PROVE  n % w \in Nat
OBVIOUS

LEMMA CountFits ==
  ASSUME NEW n \in Nat, NEW w \in Nat, n < w
  PROVE  n % w = n
OBVIOUS

LEMMA HandlePacketStep ==
  ASSUME IInv, phase = "parse", HasHeader, NEW p \in NextPackets, HandlePacket(p)
  PROVE  IInv'
<1>0. PICK n, c, r :
        /\ n = HeaderSize + Skipped(p) /\ c = (HeaderSize + p.mSize) % SizeT
        /\ r = Remove(mRecvBuffer, c)
        /\ HasPayload(p)
        /\ handled' = Append(handled, p)
        /\ mConnected' = (mConnected /\ p.kind = "good")
        /\ mRecvBuffer' = r
        /\ stream' = [at |-> stream.at + n, len |-> stream.len - n]
        /\ sent' = sent /\ phase' = phase /\ arrived' = arrived
  BY DEF HandlePacket, Takes
<1>1. /\ stream \in [at : 0..Cap, len : 0..Cap] /\ stream.at + stream.len <= Cap
      /\ HeaderSize \in Nat /\ HeaderSize > 0 /\ stream.len >= HeaderSize
      /\ stream.len - HeaderSize >= p.mSize
      /\ Cap \in Nat /\ SizeT \in Nat /\ Cap < SizeT
  BY <1>0, HeaderAssumption, CapAssumption, SizeAssumption
  DEF IInv, Typed, HasHeader, HasPayload
<1>2. p \in Packets
  <2>1. mRecvBuffer.mem \in [0..(Cap - 1) -> Nat]
    BY BufferFields DEF IInv, Buffered
  <2>2. stream.at \in 0..(Cap - 1)
    BY <1>1
  <2>3. mRecvBuffer.mem[stream.at] \in Nat
    BY <2>1, <2>2
  <2>4. QED BY <2>3, ParserFindsPackets DEF IInv, NextPackets
<1>3. /\ p.mSize \in Int /\ Skipped(p) \in Nat
      /\ p.mSize >= 0 => Skipped(p) = p.mSize
      /\ p.mSize < 0 => Skipped(p) = 0
  BY <1>2, PacketNumbers
<1>4. n \in Nat /\ n >= 1 /\ n <= stream.len /\ c \in Nat
  <2>1. n \in Nat /\ n >= 1 /\ n <= stream.len
    <3>1. n = HeaderSize + Skipped(p)
      BY <1>0
    <3>2. stream.len \in Nat
      BY <1>1
    <3>3. CASE p.mSize >= 0
      BY <1>1, <1>3, <3>1, <3>2, <3>3
    <3>4. CASE p.mSize < 0
      BY <1>1, <1>3, <3>1, <3>2, <3>4
    <3>5. QED BY <1>3, <3>3, <3>4
  <2>2. HeaderSize + p.mSize \in Int
    BY <1>1, <1>3
  <2>3. QED BY <1>0, <1>1, <2>1, <2>2, CountIsNat
<1>5. /\ handled \in Seq(Packets) /\ Len(handled) \in Nat /\ DOMAIN handled = 1..Len(handled)
      /\ handled' \in Seq(Packets) /\ Len(handled') = Len(handled) + 1
      /\ \A j \in 1..Len(handled) : handled'[j] = handled[j]
      /\ handled'[Len(handled) + 1] = p
  <2>1. handled \in Seq(Packets)
    BY DEF IInv, FirstHandled
  <2>2. QED BY <1>0, <1>2, <2>1, AppendProperties
<1>6. Contiguous'
  BY <1>0 DEF IInv, Contiguous
<1>7. FirstHandled'
  <2>1. ASSUME NEW k \in 1..(Len(handled) + 1),
               \A j \in 1..(k - 1) : handled'[j].mSize >= 0
        PROVE  k <= Len(sent) /\ handled'[k] = sent[k]
    <3>1. \A j \in 1..(k - 1) : j \in 1..Len(handled)
      BY <1>5
    <3>2. \A j \in 1..(k - 1) : handled[j].mSize >= 0
      BY <1>5, <2>1, <3>1
    <3>3. CASE k \in 1..Len(handled)
      <4>1. Follows(k)
        BY <3>3 DEF IInv, FirstHandled
      <4>2. QED BY <1>5, <3>2, <3>3, <4>1 DEF Follows
    <3>4. CASE k = Len(handled) + 1
      <4>1. k - 1 = Len(handled)
        BY <1>5, <3>4
      <4>2. InStep
        BY <1>5, <3>2, <4>1 DEF InStep
      <4>3. Len(handled) < Len(sent) /\ p = sent[k]
        BY <1>0, <3>4, <4>2, HandledFromA
      <4>4. Len(sent) \in Nat
        BY DEF IInv, Contiguous
      <4>5. QED BY <1>5, <3>4, <4>3, <4>4
    <3>5. QED BY <1>5, <2>1, <3>3, <3>4
  <2>2. \A k \in 1..(Len(handled) + 1) : Follows(k)'
    BY <1>0, <2>1 DEF Follows
  <2>3. QED BY <1>5, <2>2 DEF FirstHandled
<1>8. Buffered'
  <2>1. /\ BufferOK(r) /\ GetStoredSize(r) <= arrived
        /\ Contents(r) = [i \in 1..GetStoredSize(r) |-> (arrived - GetStoredSize(r)) + i]
    BY <1>0, <1>4, SuffixIsLeft
  <2>2. arrived \in Nat /\ arrived <= EndOf(sent)
    BY DEF IInv, Buffered
  <2>3. mRecvBuffer' = r /\ arrived' = arrived /\ EndOf(sent') = EndOf(sent)
    BY <1>0
  <2>4. QED BY <2>1, <2>2, <2>3 DEF Buffered
<1>9. Typed'
  <2>1. /\ stream' \in [at : 0..Cap, len : 0..Cap]
        /\ stream'.at = stream.at + n /\ stream'.len = stream.len - n
    BY <1>0, <1>1, <1>4
  <2>2. stream'.at + stream'.len <= Cap
    BY <1>1, <1>4, <2>1
  <2>3. QED BY <1>0, <2>1, <2>2 DEF Typed
<1>10. ASSUME InStep'
       PROVE  Stored' /\ StreamIsA' /\ Waits'
  <2>1. InStep /\ p.mSize >= 0
    <3>1. \A j \in 1..(Len(handled) + 1) : handled'[j].mSize >= 0
      BY <1>5, <1>10 DEF InStep
    <3>2. \A j \in 1..Len(handled) : j \in 1..(Len(handled) + 1)
      BY <1>5
    <3>3. \A j \in 1..Len(handled) : handled[j].mSize >= 0
      BY <1>5, <3>1, <3>2
    <3>4. Len(handled) + 1 \in 1..(Len(handled) + 1)
      BY <1>5
    <3>5. QED BY <1>5, <3>1, <3>3, <3>4 DEF InStep
  <2>2. PICK a, e : a = mRecvBuffer.aSize /\ e = EndOf(handled)
    OBVIOUS
  <2>3. /\ p.at = e /\ e \in Nat /\ n \in 1..a /\ mRecvBuffer.bSize = 0
        /\ stream.len = a /\ stream.at = mRecvBuffer.aPtr
    BY <1>0, <2>1, <2>2, HandledFromA
  <2>4. c = n
    <3>1. HeaderSize + p.mSize = n /\ n < SizeT
      <4>1. n = HeaderSize + Skipped(p) /\ Skipped(p) = p.mSize
        BY <1>0, <1>3, <2>1
      <4>2. stream.len \in 0..Cap
        BY <1>1
      <4>3. n <= Cap
        BY <1>1, <1>4, <4>2
      <4>4. QED BY <1>1, <1>4, <4>1, <4>3
    <3>2. QED BY <1>0, <1>1, <1>4, <3>1, CountFits
  <2>5. BufferOK(mRecvBuffer) /\ arrived \in Nat /\ a = arrived - e
    <3>1. BufferOK(mRecvBuffer) /\ arrived \in Nat /\ GetStoredSize(mRecvBuffer) = arrived - e
      BY <2>1, <2>2 DEF IInv, Buffered, Stored
    <3>2. a \in Nat
      BY <2>2, <3>1, BufferFields
    <3>3. QED BY <2>2, <2>3, <3>1, <3>2 DEF GetStoredSize
  <2>6. r.aSize = a - n /\ r.bSize = 0 /\ (r.aPtr = mRecvBuffer.aPtr + n \/ a - n = 0)
    <3>1. r = Remove(mRecvBuffer, n)
      BY <1>0, <2>4
    <3>2. n \in 1..mRecvBuffer.aSize
      BY <2>2, <2>3
    <3>3. QED BY <2>2, <2>3, <2>5, <3>1, <3>2, RemoveFromA
  <2>7. EndOf(handled') = e + n
    <3>1. handled' # << >>
      BY <1>5, EmptySeq
    <3>2. EndOf(handled') = PacketEnd(p)
      BY <1>5, <3>1 DEF EndOf
    <3>3. QED BY <1>0, <1>1, <1>3, <2>3, <3>2 DEF PacketEnd
  <2>8. Stored'
    <3>1. GetStoredSize(r) = arrived - (e + n)
      BY <1>4, <2>3, <2>5, <2>6 DEF GetStoredSize
    <3>2. QED BY <1>0, <2>7, <3>1 DEF Stored
  <2>9. StreamIsA'
    <3>1. stream'.at = mRecvBuffer.aPtr + n /\ stream'.len = a - n
      BY <1>0, <2>3
    <3>2. QED BY <1>0, <2>6, <3>1 DEF StreamIsA
  <2>10. Waits'
    BY <1>0, <2>6 DEF Waits
  <2>11. QED BY <2>8, <2>9, <2>10
<1>11. QED
  BY <1>6, <1>7, <1>8, <1>9, <1>10 DEF IInv

LEMMA RejectPacketStep == ASSUME IInv, NEW p, RejectPacket(p) PROVE IInv'
<1>1. /\ Contiguous' /\ FirstHandled' /\ Buffered'
      /\ InStep' => InStep /\ Stored' /\ StreamIsA /\ Waits
      /\ CutsAPacket => CutsAPacket'
  BY NothingMoves DEF RejectPacket
<1>2. Typed'
  <2>1. NoStream \in [at : 0..Cap, len : 0..Cap]
    BY CapAssumption DEF NoStream
  <2>2. QED BY <2>1 DEF RejectPacket, Typed
<1>3. ASSUME Waits PROVE StreamIsA' /\ Waits'
  BY <1>1, <1>3 DEF RejectPacket, StreamIsA, Waits
<1>4. QED BY <1>1, <1>2, <1>3 DEF IInv

\* The parser leaves its loop for more bytes only when region A cuts a packet.
LEMMA AwaitMoreStep ==
  ASSUME IInv, phase = "parse", AwaitMore,
         ~HasHeader \/ \E p \in NextPackets : ~HasPayload(p)
  PROVE  IInv'
<1>0. phase' = "preRecv" /\ mRecvBuffer' = mRecvBuffer
  BY DEF AwaitMore
<1>1. /\ Contiguous' /\ FirstHandled' /\ Buffered'
      /\ InStep' => InStep /\ Stored' /\ StreamIsA /\ Waits
      /\ CutsAPacket => CutsAPacket'
  BY NothingMoves DEF AwaitMore
<1>2. Typed'
  <2>1. NoStream \in [at : 0..Cap, len : 0..Cap]
    BY CapAssumption DEF NoStream
  <2>2. mConnected \in BOOLEAN
    BY DEF IInv, Typed
  <2>3. QED BY <2>1, <2>2 DEF AwaitMore, Typed
<1>3. ASSUME InStep PROVE CutsAPacket
  <2> SUFFICES ASSUME Len(handled) < Len(sent)
               PROVE  EndOf(handled) + mRecvBuffer.aSize < PacketEnd(sent[Len(handled) + 1])
    BY DEF CutsAPacket
  <2>1. PICK p : p = sent[Len(handled) + 1]
    OBVIOUS
  <2>2. p \in Packets /\ p.at = EndOf(handled) /\ EndOf(handled) \in Nat
    BY <1>3, <2>1, Places DEF IInv
  <2>3. /\ PacketEnd(p) = p.at + HeaderSize + Skipped(p) /\ Skipped(p) \in Nat
        /\ p.mSize \in Int
        /\ p.mSize >= 0 => Skipped(p) = p.mSize
        /\ HeaderSize \in Nat /\ HeaderSize > 0
    BY <2>2, PacketNumbers
  <2>4. stream.len \in Nat /\ stream.len = mRecvBuffer.aSize
    BY <1>3, CapAssumption DEF IInv, StreamIsA, Typed
  <2>5. stream.len < HeaderSize + Skipped(p)
    <3>1. CASE stream.len < HeaderSize
      BY <2>3, <2>4, <3>1
    <3>2. CASE ~(stream.len < HeaderSize)
      <4>1. stream.len > 0 /\ HasHeader
        BY <2>3, <2>4, <3>2 DEF HasHeader
      <4>2. NextPackets = {p}
        BY <1>3, <2>1, <4>1, ParserLooksAtNext
      <4>3. ~(stream.len - HeaderSize >= p.mSize)
        BY <4>1, <4>2 DEF HasPayload
      <4>4. QED BY <2>3, <2>4, <3>2, <4>3
    <3>3. QED BY <3>1, <3>2
  <2>6. QED BY <2>1, <2>2, <2>3, <2>4, <2>5
<1>4. ASSUME InStep PROVE StreamIsA' /\ Waits'
  BY <1>0, <1>1, <1>3, <1>4 DEF StreamIsA, Waits
<1>5. QED BY <1>1, <1>2, <1>4 DEF IInv

LEMMA OnReceiveStep == ASSUME IInv, OnReceive PROVE IInv'
<1>1. phase = "parse"
  BY DEF OnReceive
<1>2. CASE HasHeader /\ \E p \in NextPackets : HandlePacket(p)
  BY <1>1, <1>2, HandlePacketStep
<1>3. CASE \E p \in NextPackets : RejectPacket(p)
  BY <1>3, RejectPacketStep
<1>4. CASE AwaitMore /\ (~HasHeader \/ \E p \in NextPackets : ~HasPayload(p))
  BY <1>1, <1>4, AwaitMoreStep
<1>5. QED BY <1>2, <1>3, <1>4 DEF OnReceive

LEMMA NextOK == IInv /\ [Next]_vars => IInv'
<1> SUFFICES ASSUME IInv, [Next]_vars PROVE IInv'
  OBVIOUS
<1>1. CASE \E size \in PayloadSizes, kind \in Kinds : ServerSends(size, kind)
  BY <1>1, ServerSendsStep
<1>2. CASE \E n \in 1..Cap : RecvCompletion(n)
  BY <1>2, RecvCompletionStep
<1>3. CASE OnReceive
  BY <1>3, OnReceiveStep
<1>4. CASE DisconnectRequest \/ PreRecv \/ PostRecv \/ RecvFails
  BY <1>4, DisconnectStep, PreRecvStep, PostRecvStep, RecvFailsStep
<1>5. CASE UNCHANGED vars
  <2>1. /\ Contiguous' /\ FirstHandled' /\ Buffered'
        /\ InStep' => InStep /\ Stored' /\ StreamIsA /\ Waits
        /\ CutsAPacket => CutsAPacket'
    BY <1>5, NothingMoves DEF vars
  <2>2. /\ mRecvBuffer' = mRecvBuffer /\ phase' = phase /\ stream' = stream
        /\ mConnected' = mConnected
    BY <1>5 DEF vars
  <2>3. Typed'
    BY <2>2 DEF IInv, Typed
  <2>4. ASSUME StreamIsA, Waits PROVE StreamIsA' /\ Waits'
    BY <2>1, <2>2, <2>4 DEF StreamIsA, Waits
  <2>5. QED BY <2>1, <2>3, <2>4 DEF IInv
<1>6. QED
  BY <1>1, <1>2, <1>3, <1>4, <1>5 DEF Next

LEMMA Invariant == Spec => []IInv
  BY InitOK, NextOK, PTL DEF Spec

-----------------------------------------------------------------------------
\* The state keeps its type for every capacity, header size and signed payload
\* size, in step or not: whatever count a size makes for Skip and Remove, the regions
\* stay in the memory and the stream within its end.
THEOREM StreamIsTyped == Spec => []TypeOK
<1>1. IInv => TypeOK
  BY DEF IInv, Contiguous, FirstHandled, Buffered, BufferOK, Typed, TypeOK
<1>2. QED BY Invariant, <1>1, PTL

\* The handlers see the server's packets in order, none twice, none skipped,
\* wherever the network and the regions of the buffer cut the stream, up to and with
\* the first whose size is negative.
THEOREM PacketsInOrder == Spec => []HandledInOrder
<1>1. IInv => HandledInOrder
  <2> SUFFICES ASSUME IInv PROVE HandledInOrder
    OBVIOUS
  <2>1. DOMAIN handled = 1..Len(handled) /\ \A k \in 1..Len(handled) : Follows(k)
    BY DEF IInv, FirstHandled
  <2>2. QED BY <2>1 DEF HandledInOrder, Follows
<1>2. QED BY Invariant, <1>1, PTL

\* The buffer holds the last bytes that came in, whatever the sizes say; as long as no
\* size was negative, none of the bytes of a packet that waits is lost.
THEOREM NothingIsDropped == Spec => []UnhandledBytesAreStored
<1>1. IInv => UnhandledBytesAreStored
  BY DEF IInv, Buffered, Stored, UnhandledBytesAreStored
<1>2. QED BY Invariant, <1>1, PTL

\* As long as no size was negative, the stream the parser reads stays at the bytes of
\* the buffer while the loop removes packets from under it.
THEOREM StreamFollowsBuffer == Spec => []RemovesAsReadInStep
<1>1. IInv => RemovesAsReadInStep
  <2> SUFFICES ASSUME IInv, InStep, phase = "parse", stream.len > 0
               PROVE  /\ stream.at = GetBufferStart(mRecvBuffer)
                      /\ stream.len = GetContiguiousBytes(mRecvBuffer)
    BY DEF RemovesAsReadInStep, RemovesAsRead
  <2>1. QED BY ParserLooksAtNext DEF GetBufferStart, GetContiguiousBytes
<1>2. QED BY Invariant, <1>1, PTL

\* A packet that is here waits only when both regions of the buffer hold a part of
\* it, whatever the sizes: there is no other way for the parser to miss a packet.
THEOREM OnlyTheSplitWaits == Spec => []OnlySplitPacketsWait
<1>1. IInv => OnlySplitPacketsWait
  <2> SUFFICES ASSUME IInv, Waiting, NextIsHere
               PROVE  /\ mRecvBuffer.bSize > 0
                      /\ mRecvBuffer.aSize <
                           PacketEnd(sent[Len(handled) + 1]) - EndOf(handled)
    BY DEF OnlySplitPacketsWait
  <2>0. InStep
    BY DEF NextIsHere
  <2>1. PICK p : p = sent[Len(handled) + 1]
    OBVIOUS
  <2>2. Len(handled) < Len(sent) /\ PacketEnd(p) <= arrived
    BY <2>1 DEF NextIsHere
  <2>3. p \in Packets /\ EndOf(handled) \in Nat /\ PacketEnd(p) \in Nat
    BY <2>0, <2>1, <2>2, Places, PacketNumbers DEF IInv
  <2>4. EndOf(handled) + mRecvBuffer.aSize < PacketEnd(p)
    BY <2>0, <2>1, <2>2 DEF IInv, Waits, CutsAPacket, Waiting
  <2>5. mRecvBuffer.aSize \in Nat /\ mRecvBuffer.bSize \in Nat
    BY BufferFields DEF IInv, Buffered
  <2>6. arrived \in Nat /\ mRecvBuffer.aSize + mRecvBuffer.bSize = arrived - EndOf(handled)
    BY <2>0 DEF IInv, Buffered, Stored, GetStoredSize
  <2>7. QED BY <2>1, <2>2, <2>3, <2>4, <2>5, <2>6
<1>2. QED BY Invariant, <1>1, PTL
=============================================================================
