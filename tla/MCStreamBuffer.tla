--------------------------- MODULE MCStreamBuffer ---------------------------
(* StreamBuffer for TLC: a few bytes of memory, two different byte values.  *)
EXTENDS StreamBuffer
=============================================================================
