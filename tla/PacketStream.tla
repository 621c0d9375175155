---------------------------- MODULE PacketStream ----------------------------
(***************************************************************************)
(* How a dummy client of Homework7/DummyClients turns the bytes of its     *)
(* server into packets: the receiving half of its session (PreRecv,        *)
(* PostRecv, RecvCompletion) and the parser DummyClientSession::OnReceive, *)
(* on the session's mRecvBuffer.  A packet is a header and a payload; the  *)
(* network may cut the stream anywhere.  The session has one receive at a  *)
(* time, so that its buffer and its parser run in one thread; only         *)
(* mConnected is shared.  A byte is its place in the server's stream.      *)
(***************************************************************************)
EXTENDS CircularBuffer, Functions

CONSTANTS HeaderSize,    \* HEADER_SIZE
          PayloadSizes,  \* the values of mSize: a signed short of the network
          SizeT,         \* 2^w, where w is the width of size_t
          MaxPackets     \* bound: how many packets the server sends

ASSUME HeaderAssumption  == HeaderSize \in Nat \ {0}
ASSUME PayloadAssumption == PayloadSizes \subseteq Int
ASSUME SizeAssumption    == SizeT \in Nat /\ Cap < SizeT
ASSUME PacketsAssumption == MaxPackets \in Nat

VARIABLES sent,          \* environment: the packets of the server, in order
          mConnected,
          mRecvBuffer,
          phase,         \* which of the handlers below comes next
          stream,        \* what codedInputStream has not read yet: place and length
          arrived,       \* history: how many bytes of the stream came in
          handled        \* history: the packets dispatched to their handler

vars == <<sent, mConnected, mRecvBuffer, phase, stream, arrived, handled>>

\* A packet by what OnReceive does with it: its type has a handler that can parse
\* it, or one that cannot, or there is no such type.
Kinds   == {"good", "unparsable", "badType"}
Packets == [at : Nat, mSize : PayloadSizes, kind : Kinds]

\* What Skip(mSize) passes over: it refuses a negative count.
Skipped(p) == IF p.mSize < 0 THEN 0 ELSE p.mSize

\* Behind the bytes of a packet; one with a negative size is a header.
PacketEnd(p) == p.at + HeaderSize + Skipped(p)

\* The end of the bytes sent, or handled, so far.
EndOf(packets) == IF packets = << >> THEN 0 ELSE PacketEnd(packets[Len(packets)])

NoStream == [at |-> 0, len |-> 0]

Init ==
  /\ sent = << >>
  /\ mConnected = TRUE
  /\ mRecvBuffer = BufferReset
  /\ phase = "preRecv"
  /\ stream = NoStream
  /\ arrived = 0
  /\ handled = << >>

-----------------------------------------------------------------------------
(* The environment.                                                          *)

\* The server sends a packet.
ServerSends(size, kind) ==
  /\ Len(sent) < MaxPackets
  /\ sent' = Append(sent, [at |-> EndOf(sent), mSize |-> size, kind |-> kind])
  /\ UNCHANGED <<mConnected, mRecvBuffer, phase, stream, arrived, handled>>

\* Any other thread closes the session: a send failed, or the program ends.
DisconnectRequest ==
  /\ mConnected
  /\ mConnected' = FALSE
  /\ UNCHANGED <<sent, mRecvBuffer, phase, stream, arrived, handled>>

-----------------------------------------------------------------------------
(* The receive cycle.                                                        *)

\* Session::PreRecv: the zero-byte receive; a closed session, or a refusal of
\* the system, ends the cycle, and DoIocpJob closes the session.
PreRecv ==
  /\ phase = "preRecv"
  /\ \/ mConnected /\ phase' = "armed" /\ UNCHANGED mConnected
     \/ phase' = "ended" /\ mConnected' = FALSE
  /\ UNCHANGED <<sent, mRecvBuffer, stream, arrived, handled>>

\* Session::PostRecv when the zero-byte receive completes: there is something to
\* read, or the connection is broken.
PostRecv ==
  /\ phase = "armed"
  /\ arrived < EndOf(sent) \/ ~mConnected
  /\ mRecvBuffer' = IF mConnected THEN AfterProbe(mRecvBuffer) ELSE mRecvBuffer
  /\ \/ /\ mConnected
        /\ GetFreeSpaceSize(mRecvBuffer) > 0
        /\ phase' = "posted"
        /\ UNCHANGED mConnected
     \/ phase' = "ended" /\ mConnected' = FALSE
  /\ UNCHANGED <<sent, stream, arrived, handled>>

\* Session::RecvCompletion up to the loop of OnReceive, whose stream is the first
\* run of stored bytes.
RecvCompletion(n) ==
  LET bytes == [i \in 1..n |-> arrived + i]
      got   == Commit(Fill(mRecvBuffer, GetBuffer(mRecvBuffer), bytes), n)
  IN  /\ phase = "posted"
      /\ n <= Lesser(GetFreeSpaceSize(mRecvBuffer), EndOf(sent) - arrived)
      /\ mRecvBuffer' = got
      /\ arrived' = arrived + n
      /\ stream' = [at |-> GetBufferStart(got), len |-> GetContiguiousBytes(got)]
      /\ phase' = "parse"
      /\ UNCHANGED <<sent, mConnected, handled>>

\* A receive that fails, or brings nothing, closes the session.
RecvFails ==
  /\ phase = "posted"
  /\ phase' = "ended"
  /\ mConnected' = FALSE
  /\ UNCHANGED <<sent, mRecvBuffer, stream, arrived, handled>>

-----------------------------------------------------------------------------
(* DummyClientSession::OnReceive, one turn of its loop per step.             *)

\* The packets whose header starts with byte b.  A parser that is out of step with
\* the packets takes any bytes for a header.
PacketsAt(b) ==
  LET begun == {p \in Range(sent) : p.at + 1 = b}
  IN  IF begun # {} THEN begun ELSE [at : {b}, mSize : PayloadSizes, kind : Kinds]

HasHeader == stream.len >= HeaderSize

NextPackets == PacketsAt(mRecvBuffer.mem[stream.at])

HasAny(p) == TRUE                                                    \* mutant

\* GetDirectBufferPointer found the payload; any stream is long enough for a
\* negative size.
HasPayload(p) == stream.len - HeaderSize >= p.mSize

TakesWithoutHeader(p) == Remove(mRecvBuffer, p.mSize % SizeT)         \* mutant

\* What mRecvBuffer.Remove, which takes a size_t, leaves behind a packet: for a
\* negative size it removes less than the header, or wraps around to more than
\* there is.
Takes(p) == Remove(mRecvBuffer, (HeaderSize + p.mSize) % SizeT)

HandleOnePacket(p) ==                                                \* mutant
  /\ HasPayload(p)
  /\ p.kind # "badType"
  /\ handled' = Append(handled, p)
  /\ mRecvBuffer' = Takes(p)
  /\ phase' = "preRecv"
  /\ stream' = NoStream
  /\ UNCHANGED <<sent, mConnected, arrived>>

\* A handler that cannot parse its payload closes the session; the loop goes on.
HandlePacket(p) ==
  LET n == HeaderSize + Skipped(p)
  IN  /\ HasPayload(p)
      /\ p.kind # "badType"
      /\ handled' = Append(handled, p)
      /\ mConnected' = (mConnected /\ p.kind = "good")
      /\ mRecvBuffer' = Takes(p)
      /\ stream' = [at |-> stream.at + n, len |-> stream.len - n]
      /\ UNCHANGED <<sent, phase, arrived>>

\* A packet of no known type stays in the buffer and closes the session.
RejectPacket(p) ==
  /\ HasPayload(p)
  /\ p.kind = "badType"
  /\ mConnected' = FALSE
  /\ phase' = "preRecv"
  /\ stream' = NoStream
  /\ UNCHANGED <<sent, mRecvBuffer, arrived, handled>>

\* The stream ends within a packet: its bytes stay in mRecvBuffer.
AwaitMore ==
  /\ phase' = "preRecv"
  /\ stream' = NoStream
  /\ UNCHANGED <<sent, mConnected, mRecvBuffer, arrived, handled>>

OnReceive ==
  /\ phase = "parse"
  /\ \/ HasHeader /\ \E p \in NextPackets :
          HandlePacket(p) \/ RejectPacket(p) \/ (~HasPayload(p) /\ AwaitMore)
     \/ ~HasHeader /\ AwaitMore

-----------------------------------------------------------------------------
Next ==
  \/ \E size \in PayloadSizes, kind \in Kinds : ServerSends(size, kind)
  \/ DisconnectRequest
  \/ PreRecv \/ PostRecv
  \/ \E n \in 1..Cap : RecvCompletion(n)
  \/ RecvFails
  \/ OnReceive

Spec == Init /\ [][Next]_vars

-----------------------------------------------------------------------------
TypeOK ==
  /\ sent \in Seq(Packets) /\ handled \in Seq(Packets)
  /\ mConnected \in BOOLEAN
  /\ mRecvBuffer \in Buffers
  /\ phase \in {"preRecv", "armed", "posted", "parse", "ended"}
  /\ stream \in [at : 0..Cap, len : 0..Cap]
  /\ arrived \in Nat

\* Every size so far was a size.  Nothing in the code looks at the sign of mSize:
\* behind a packet with a negative one, stream and buffer are out of step, and what
\* the parser makes of the rest is anybody's guess.
InStep == \A k \in DOMAIN handled : handled[k].mSize >= 0

\* The handlers see the packets of the server: all of them in order, none twice,
\* none invented, wherever the network and the two regions of the buffer cut the
\* stream (PacketHandler.cpp:57-84), up to and with the first of negative size.
HandledInOrder ==
  \A k \in DOMAIN handled :
    (\A j \in 1..(k - 1) : handled[j].mSize >= 0) =>
      k <= Len(sent) /\ handled[k] = sent[k]

\* mRecvBuffer always holds the last bytes that came in, without a gap, whatever
\* is removed from it.  In step, these are the bytes that no packet was handled
\* with: the parser never drops a byte of a packet it has to wait for.
UnhandledBytesAreStored ==
  LET stored == GetStoredSize(mRecvBuffer)
  IN  /\ Contents(mRecvBuffer) = [i \in 1..stored |-> (arrived - stored) + i]
      /\ InStep => stored = arrived - EndOf(handled)

\* "Advance by what was read and remove it from the buffer" (PacketHandler.cpp:80):
\* codedInputStream, which reads the memory of mRecvBuffer while the loop removes
\* from it, has still to read what the buffer holds in its first run.  It has not
\* behind a packet of negative size: Skip refuses to go back, and Remove counts it
\* all the same.
RemovesAsRead ==
  phase = "parse" /\ stream.len > 0 =>
    /\ stream.at = GetBufferStart(mRecvBuffer)
    /\ stream.len = GetContiguiousBytes(mRecvBuffer)

\* In step the stream stays at the bytes of the buffer, wherever the regions cut it
\* and whatever Remove moves.
RemovesAsReadInStep == InStep => RemovesAsRead

\* The next packet of a server is here, header and payload.
NextIsHere ==
  /\ InStep
  /\ Len(handled) < Len(sent) /\ PacketEnd(sent[Len(handled) + 1]) <= arrived

Waiting == mConnected /\ phase \in {"armed", "posted"}

\* Of the packets that are here, only one that lies in both regions of the
\* buffer is not handled before the session waits for more.
OnlySplitPacketsWait ==
  Waiting /\ NextIsHere =>
    LET size == PacketEnd(sent[Len(handled) + 1]) - EndOf(handled)
    IN  mRecvBuffer.bSize > 0 /\ mRecvBuffer.aSize < size

\* "Check the size of the packet body" (PacketHandler.cpp:64): the loop is left
\* when the packet is not complete yet.  The code leaves it for a complete packet,
\* too, whose bytes lie in both regions of the buffer: the session waits for more.
CompletePacketsAreHandled == Waiting => ~NextIsHere
=============================================================================
