--------------------------- MODULE MCPacketStream ---------------------------
(* PacketStream for TLC: headers of two bytes, so that a header can be cut.  *)
EXTENDS PacketStream

\* Two negative sizes: one takes a part of the header back, and one more than the
\* header, so that the count of Remove wraps around.
SignedSizes == {-3, -1, 0, 1, 2}
=============================================================================
