----------------------------- MODULE ByteQueue -----------------------------
(***************************************************************************)
(* What a stream buffer of the server promises to its users: a bounded     *)
(* first-in first-out queue of bytes.  CircularBuffer is one way to keep   *)
(* the promise; StreamBuffer checks that it does.                          *)
(***************************************************************************)
EXTENDS Integers, Sequences

CONSTANTS Byte,   \* the bytes that may be stored
          Cap     \* how many bytes the queue may hold at most

VARIABLE queue

QueueInit == queue = << >>

\* Store a block of bytes behind the bytes already stored.
Enqueue(bytes) ==
  /\ Len(queue) + Len(bytes) <= Cap
  /\ queue' = queue \o bytes

\* Drop the n oldest bytes.
Dequeue(n) ==
  /\ n <= Len(queue)
  /\ queue' = SubSeq(queue, n + 1, Len(queue))

Clear == queue' = << >>

Blocks == UNION {[1..k -> Byte] : k \in 1..Cap}

QueueNext ==
  \/ \E bytes \in Blocks : Enqueue(bytes)
  \/ \E n \in 0..Cap : Dequeue(n)
  \/ Clear

QueueSpec == QueueInit /\ [][QueueNext]_queue
=============================================================================
