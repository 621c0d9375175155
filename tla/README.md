# TLA+ models of the GSP game server

GSP ("Game Server Programming, Step by Step") is a series of seven homework
stages of one Windows IOCP server. The stages repeat and extend each other; the
last complete server is `Homework5/EduServer_IOCP`. Homework6 keeps its session
layer line for line and adds a database thread pool whose hand-overs are open
exercises; Homework7 adds test clients that talk in packets. The models are of
the server of Homework5, of the allocators and the lock of Homework4, and of the
clients of Homework7.

## The system

| component | state | operations | hard behaviour |
|---|---|---|---|
| stream buffer (`CircularBuffer`) | two regions A and B in one block of memory | `GetFreeSpaceSize`, `GetBuffer`, `Commit`, `GetContiguiousBytes`, `GetBufferStart`, `Remove`, `BufferReset` | a query that opens a region, unsigned subtractions, a move of bytes while others are appended |
| session (`Session`, `ClientSession`, `OverlappedIOContext`) | `mConnected`, `mRefCount`, `mSendPendingCount`, `mSendBuffer` and its lock, `mRecvBuffer` | requests (`PreRecv`, `PostRecv`, `PostSend`, `FlushSend`, `DisconnectRequest`), completions, `AddRef`/`ReleaseRef`, `SessionReset` | all of them from any worker; calls that fail at once; the last reference |
| pool and accept loop (`ClientSessionManager`, `IocpManager::StartAccept`) | `mFreeSessionList`, two counters, `mLock` | `AcceptClientSessions`, `ReturnClientSession` | the counters stand for the list |
| workers (`WorkerThread`) | the completion in hand, `LSendRequestSessionList` | `DoIocpJob`, `DoSendJob` | sessions in the list without a reference; a loop that waits for another worker |
| completion port, sockets, clients | operations in flight | complete, fail, disconnect | any order, any time |
| object pool of contexts (`ObjectPool`) | a list chained through the free blocks, two counts, the class's lock | `operator new`, `operator delete` from any thread | pointers in the memory that is handed out |
| Homework4: write lock (`FastSpinlock`) | `mLockFlag`, a sum of flags | `EnterWriteLock`, `LeaveWriteLock` | attempts that fail and are taken back while others hold, leave and try |
| Homework4: memory pool (`MemoryPool`) | a table of pools by size, an interlocked list and a count each, a size in front of each block | `Allocate`, `Deallocate`, `Pop`, `Push` | no lock; the size is mark and key at once; seams between size classes |
| Homework5: spinlocks, server session, DBHelper | | | see "Not modelled" |
| Homework4: lock order checker, timer, dispatcher, players | | | see "Not modelled" |
| Homework6: database thread pool, players | | | see "Not modelled" |
| Homework7: dummy clients (`SessionManager`, `DummyClientSession`, `IocpManager::StopIoThreads`, `_tmain`) | the sessions as above, two counters | `ConnectRequest`, `ConnectCompletion`, `Login`, `DisconnectSessions`, `StopIoThreads` | connections that fail or complete late, the end of the program while operations are in flight |
| Homework7: packet parser (`PacketHandler.cpp`) | `mRecvBuffer`, the stream on its first region | `OnReceive` | packets and headers cut anywhere; a stream that reads what the loop removes |

**Interaction.** The main thread prepares the sessions, starts the workers and
then, every 100 ms, issues every free session to `AcceptEx`. The completion of
an operation is dequeued by whichever worker is waiting; it runs the handler,
which starts the next operation of the session, and then deletes the completed
context, which releases the context's reference. Every context counts one
reference, issuing counts one. The last release resets the session and puts it
back into the pool, in the worker that happened to do it. Received bytes are
echoed: `EchoBack` copies them to the send buffer and notes the session in a
thread-local list, which `DoSendJob` works off after each completion.

**What makes it correct.** A session goes round free, accepting, connected,
closing, free, and is in nobody's hands when it is free; the reference count is
the number of references; the pool never runs dry by mistake; a client gets back
what it sent, in order and complete, and nothing of anybody else; memory given
to the system stays untouched; closed sessions return; workers do not wait for
each other. The file `PROJECT.json` lists the hazards, each at its line.

## Modules

| module | what it is |
|---|---|
| `ByteQueue` | abstract: a bounded FIFO queue of bytes |
| `CircularBuffer` | the methods of `CircularBuffer.{h,cpp}` as operators on a record; pointers are offsets, `nullptr` is -1 |
| `StreamBuffer` | one buffer and the calls made on it; implements `ByteQueue` with `queue <- Contents(buf)`, on states: a step may be any step of the queue that leads to the same contents |
| `SessionPool` | abstract: the life cycle of sessions |
| `IocpServer` | the session layer; composes sessions, pool, workers, buffers and the environment; implements `SessionPool` |
| `BlockAllocator` | abstract: a block has one holder at a time |
| `WriteLock` | the write side of Homework4's `FastSpinlock`; what a critical section does is left to the module that extends it |
| `ObjectPool` | `operator new` and `delete` of `ObjectPool.h` under that lock; implements `BlockAllocator` |
| `MemoryPool` | Homework4's `MemoryPool`; implements `BlockAllocator` |
| `PacketStream` | the receiving half of a dummy client's session and its packet parser, on `CircularBuffer` |
| `DummyClients` | the dummy client program: main thread, workers, sessions, environment |
| `MCStreamBuffer`, `MCIocpServer`, `MCObjectPool`, `MCMemoryPool`, `MCPacketStream`, `MCDummyClients` | instances for TLC |
| `StreamBufferProofs`, `IocpServerProofs`, `ObjectPoolProofs`, `MemoryPoolProofs`, `PacketStreamProofs`, `DummyClientsProofs` | theorems about the module they are named after, checked by TLAPS |
| `BufferLemmas` | what the operators of `CircularBuffer` keep and what they do to the bytes, for the proofs of the buffer, of the parser and of the server |
| `ListLemmas` | induction over a set of numbers, and lists without repetition, for the proofs of the two allocators |

### How IocpServer corresponds to the code

Variables have the names of the members; `pc`, `ctx`, `ret` and `sendList` are a
worker's program counter, the completed context it handles, where
`ReturnClientSession` returns to, and `LSendRequestSessionList`. `ios`, `sock`
and `stamp` are the environment. `gen`, `issued`, `rcvd`, `wire` and
`resurrected` are history: no action tests them, except that a context carries
`gen` so that two operations of one session stay distinct members of `ios`.

One action is one interlocked operation, one critical section, or one run of
statements on data that no other thread can touch, together with the system call
it ends in. `DisconnectRequest`, for example, is `DisconnectRequest` (the
exchange of `mConnected`) and `DisconnectCall` (`DisconnectEx`); between them
other workers act. These steps are merged, and why that loses nothing:

- a new context's `AddRef` with the call it is for: until the call the context is
  the worker's own, and another worker sees the count one step later, while the
  worker still holds a reference that keeps it above zero. The exception is
  `FlushSend`, which may hold none: there the count goes up in the same critical
  section, and the case is followed (`resurrected`, `FlushRelease`);
- a refused call's `AddRef` and `ReleaseRef`, under the same condition (`Refused`);
- a completion with its dequeuing: a completed operation nobody has dequeued is
  visible to no thread. So bytes of a receive arrive when it is dequeued;
- `PostSend`'s critical section with `EchoBack`'s removal from `mRecvBuffer`,
  which only this worker uses (`OneReceiver` checks this);
- a timeout of `GetQueuedCompletionStatus`: the send list is empty then, so that
  it is a stutter;
- the statements of `SessionReset` after its critical section, under `mLock`;
- the calls of `AcceptCompletion` on its socket (`AcceptSetup`): they touch nothing
  but the socket, and any of them that fails leads to the same `DisconnectRequest`.

The environment: a receive completes with 1 to `len` bytes, a send with all of
them (or fewer with the fault `PartialSend`), both with a failure once the peer
may close (`PeerClose`) or the socket is down; a zero-byte receive completes
when bytes are there, or with the connection. A call may fail at once as far as
`Faults` says, and a `WSARecv` or `WSASend` may fail on a socket that
`DisconnectEx` has taken down. A socket's completions are queued to the port it is associated with,
and a client's socket is associated by the last of the calls of `AcceptCompletion`
(`ClientSession.cpp:116`). `sock` therefore tells a `"new"` socket from an `"open"`
one: a `DisconnectEx` of a new one makes it `"lost"`, and its `IO_DISCONNECT` is
dequeued by nobody, unless another worker's `AcceptSetup` associates the socket
before it completes. The completion of the accept itself comes through the
listening socket. Bytes are numbered in the order a session's
peers send them, over all its connections, so that a byte of the wrong place or
the wrong client shows.

**Revival.** A worker past the `IsConnected` test of `FlushSend` may take a
released session's count from 0 to 1. From then on assertions fail and nothing
can be promised. The ghost `resurrected` marks the step, the properties of
sessions say "unless `resurrected`", and the runs `return_assertion` and `connection`
show that it happens and that it is the only cause: everything that goes wrong
with a session goes wrong after it.

### How WriteLock, ObjectPool and MemoryPool correspond to the code

`mLockFlag` is counted in units of `LF_WRITE_FLAG`. The mask holds bits 20 to 30,
bit 31 is outside it, so that the sum is kept modulo `2 * MaskSize` and tested
modulo `MaskSize` (2^11 in the code). No reader adds to the bits below, because
`EnterReadLock` never returns. The locks modelled have the order `LO_DONT_CARE`,
so that the lock order checker is not called.

`ObjectPool` extends `WriteLock`: a thread's `pc` runs through the lock's labels,
then `locked`, the statements of the call, and `leave`. Inside the critical
section each access to shared memory is a step, `mFreeList = *pAvailable` in
particular, so that the lock has something to protect: with a broken lock
(the mutant `AddTestsPresence`) blocks are handed out twice. The making of a
chunk is one step, since only its first block is reachable, through `mFreeList`,
by threads the lock keeps out. A block is a number; `link` is its first
bytes, a block's number in the chain, `Null` at its end and `Data` in an object.
Each allocation takes the next `AllocCount` numbers: the addresses a heap would
choose do not matter. `obj` is a local, and reset when the call returns.

A step of `MemoryPool` is one interlocked operation, with the statements before
it that touch a block no other thread can reach. `InterlockedPushEntrySList`,
`InterlockedPopEntrySList` and `_aligned_malloc` are modelled by what Windows
promises of them: an atomic stack, and memory in nobody's use. A call's result is
given to the program in its last step. The header has 16 bytes,
as the comment at `MemoryPool.h:25` says; that is the layout of the 32-bit build, and
`SLIST_ENTRY` and the alignment of an x64 build make it 32, which moves the sizes at
which the classes meet but nothing else. The table is
built as the constructor's three loops build it, for all 4096 indices; the pools
in `mFreeList` are those the sizes of the instance can reach. A program frees
each block once: the second free of a block is what the assertions are for, and
no caller in the repository does it.

### How PacketStream and DummyClients correspond to the code

Both are of one program, at two levels of detail. `PacketStream` is one session's
way from `WSARecv` to the handlers, byte by byte; `phase` is the position in the
cycle `PreRecv`, `PostRecv`, `RecvCompletion`, and one turn of the loop of
`OnReceive` is one step. A byte is its number in the server's stream, a header
is recognised by its first byte, and a packet's type is what the parser does
with it (`Kinds`): protobuf's parsing of the payload is not modelled. `mSize` is
signed, as in `PacketInterface.h:12`: a packet with a negative one is a header, `Skip`
passes over nothing behind it (`Skipped`), and `Remove` takes the sum of
header and size modulo 2^w (`SizeT`; `Takes`). Behind it the parser is out of step and
takes any stored byte for the start of a header; what that header says is
then any packet at all (`PacketsAt`). `stream` is
what `codedInputStream` has not read yet, as an interval of the buffer's memory:
it reads what is there at the time, not a copy. That the cycle runs in one
thread at a time is `DummyClients!OneReceiver`.

`DummyClients` has all threads, and of the bytes only how much of a login is
still to be sent. Where `PacketStream` decides by the bytes (`PostRecv` finds the
buffer full, `OnReceive` closes the session) it may do either. The steps are cut
as in `IocpServer`, with three more merged: `OnRelease` (an interlocked count) is
part of the release; a critical section of `mSendBufferLock` is one step, since a
session sends once in its life and no other thread wants the lock; the main
thread's `mLock` is left out because only the main thread takes it. `Remote(Main)`
is `target`, so that `DisconnectCall` serves the main thread too. The completion
port holds completions and `CK_STOP_NOW`s in any order, which includes the order
they came in. The order of `mReadySessionList` is abstracted.

## Properties and runs

| run | instance | what it shows |
|---|---|---|
| `stream_buffer` | 5 bytes, 2 values | `TypeOK`, `RegionsDisjoint`, `NoOrphanB`, and the refinement `IsByteQueue` |
| `connection` | 1 session, 2 workers, 2 connections, 4 bytes, buffers of 2, all faults | `TypeOK`, `RefCountIsReferences`, `OnlyRevivalCrashes`, `FreeSessionsAreClean`, `ContextsAreCurrent`, `OneReceiver`, `InFlightRegionsStable`, `EchoesInOrder`, `EchoesComplete`, `OneSend`, `UnsentBytesHaveFlusher`, `ImplementsSessionPool` |
| `recycle` | 1 session, 2 workers, 3 connections, 1 byte, all faults but AcceptEx and DisconnectEx, fair | `NeverPopsEmptyList`, and `ClosedSessionsReturn`, of sockets whose completion can arrive |
| `return_assertion` | 1 session, 2 workers, 1 byte | violates `ReturnAssertionHolds`: finding 1 |
| `stale_pending` | 1 session, 1 worker, 1 byte, 2 connections | violates `PendingSendExists`: finding 2 |
| `spin` | 1 session, 2 workers, 3 bytes, no faults, fair | violates `WorkersNeverBlock`: finding 3 |
| `packets` | up to 3 packets, headers of 2 bytes, sizes -3, -1, 0, 1, 2, a buffer of 7, `size_t` modulo 16 | `TypeOK`, `HandledInOrder`, `UnhandledBytesAreStored`, `RemovesAsReadInStep`, `OnlySplitPacketsWait` |
| `split_packet` | up to 4 packets, sizes 0 to 2, the same otherwise | violates `CompletePacketsAreHandled`: finding 4 |
| `negative_size` | as `packets` | violates `RemovesAsRead`: finding 5 |
| `dummies` | 1 session, 2 workers, all faults, fair | `TypeOK`, `RefCountIsReferences`, `ReturnsAreCounted`, `NeverCrashes`, `OneReceiver`, `Terminates`, `ClosedSessionsAreReleased` |
| `object_pool` | 3 threads, 2 blocks to a chunk, 4 objects, fair | `TypeOK`, `MutualExclusion`, `FreeListIsTheRest`, `SomebodyEnters`, and the refinement `ImplementsBlockAllocator` |
| `memory_pool` | 3 threads, 3 blocks, sizes 16, 17, 1008, 1009, 2032, 2033, 4080, 4081 | `TypeOK`, `NeverCrashes`, `BlocksFit`, `BlocksAreSomewhere`, and the refinement `ImplementsBlockAllocator` |

**Bounds.** `MaxIssue` (how often sessions are issued in all) and `MaxBytes` (how
many bytes the peers of one session send in all) make the state space finite;
both only stop the main thread or the peers, never a worker. Two workers are
enough for every race of the code: each involves a worker that acts and one that
comes between. One session is enough for everything inside a session, and to empty the
pool and fill it again. Sessions share only the pool, its lock and a worker's list;
`NeverPopsEmptyList` and the refinement `ImplementsSessionPool` also hold with two sessions,
three issues, one byte each and peers that close (670 000 states up to symmetry), left
out for the time it takes, and are proved for any number. Buffers of 2 bytes with 4 bytes of traffic open
region B, refuse a block (`PostSend` returns false), use A up with B present and
let a send complete partially; with two connections one client's bytes could
reach another. Three connections (`recycle`) let a session be reused after it was
reused. The workers are interchangeable in the runs `connection` and
`return_assertion` (`SYMMETRY`).
`CHECK_DEADLOCK` is off in the server's runs: the process may end (a failed
`AcceptEx`, an assertion), clients may stay silent, and the bounds stop it.

In `packets`, `MaxPackets` bounds what the server sends. Headers of two bytes can
be cut; seven bytes of memory hold less than two of the largest packets, so that
region B opens with a cut packet in A, and three packets take the buffer through
B and back. Of the negative sizes one leaves `Remove` a part of the header (-1) and
one makes its count wrap around to more than the buffer holds (-3). `DummyClients` has no bound: its state space is finite. Sessions
share only the two counters and the worker's list, which one login each does
not fill; the invariants also hold with two sessions and one, or two, workers
(385 000 and 7.3 million states, without `SetSockOpt`), left out for their time.
`CHECK_DEADLOCK` is off in these runs because sessions end and programs return.

In `object_pool`, `MaxInUse` bounds what the program has at a time; with two
blocks to a chunk, the list is empty, then refilled, then chained in any order
of deletion. Of three threads one can hold the lock while another fails and a
third sees the failed flag; `MaskSize` is one more than the threads, the least
the assumption allows. In `memory_pool`, `MaxBlocks` bounds the heap; the sizes
are, header included, the last of one class and the first of the next: at the end
of the first class, where the constructor's loops meet (1024 and 2048) and at the
end of the table, with a size too large for any pool. Two threads race for a pool's list while a third is
between the exchange of the size and its push. `CHECK_DEADLOCK` is off in both because nobody
has to make another call, in `memory_pool` also because the heap is bounded.

**Fairness** (`FairSpec`). Threads are scheduled: each worker's next step, and
the main thread's, is weakly fair. Sends, disconnects, and operations on a
socket that is being disconnected complete, and some worker dequeues them, if
workers are there to do it. A client owes nothing. Taking `mLock` is strongly
fair: the waiting worker polls every 10 ms at most (`FastSpinlock.cpp:24`) and
the main thread leaves the lock free for 100 ms at a time (`IocpManager.cpp:150`).

In `DummyClients` the same holds, connecting included, and the completion port
does not hold a `CK_STOP_NOW` back for ever: it is a queue, and while workers go
on dequeuing, the message comes to its front (strong fairness of "some worker
takes one"). Nobody has to hit the key. `Terminates` has one exception, a
`CK_STOP_NOW` that could not be posted (`StopLost`).

In `ObjectPool` each thread's next step inside a call is weakly fair, and no
thread has to make a call. That is enough for `SomebodyEnters`; no thread is
promised the lock, since others may overtake it for ever (`FastSpinlock.cpp:26`).

`ClosedSessionsReturn` is about sockets that are `"down"`: taken down by a
`DisconnectEx` whose completion has a port to go to. Its formula excuses what
finding 1 does (`resurrected`), and one more case, named `SelfLocked`: the clean-up of a
refused `WSASend` releases a reference with `mSendBufferLock` held (`Session.cpp:156`), and
if that was the last one, because the session was disconnected meanwhile,
`SessionReset` waits for the same lock in the same thread, for ever, with the pool's
`mLock` held. (It happens in the instance: without this excuse the property fails.
It is not the loop of finding 3, which has no part in an instance with one byte.)
Two ways to lose a session are outside it, because no document of the code promises otherwise: `DisconnectEx` itself fails
(`Session.cpp:30`), and `DisconnectEx` is called on a socket that is not associated with
the port (`sock` is `"lost"`), because a call of `AcceptCompletion` failed
(`ClientSession.cpp:84-131`) or because another worker, with an old entry of a send
list, closed the session before the association. In both the session never returns to
the pool. The run has the fault `AcceptSetup`, so that the rest of what such a failure
does is in it. It runs with one byte per session, which keeps the loop of
finding 3 out of the instance: with more bytes all workers can end up there, and
then nothing completes at all.

### Findings

1. `Session.cpp:120`, `ClientSessionManager.cpp:39`: a session in a send list has
   no reference for it; a flush between the last release and the assertion of
   `ReturnClientSession` makes the assertion fail.
2. `ClientSession.cpp:20`: `mSendPendingCount` survives `SessionReset` and is not
   counted down when a send fails: the next client of the session is never
   answered.
3. `WorkerThread.cpp:131`: `DoSendJob` does not return to the completion port while
   an earlier send is pending; all workers can wait there for a completion that
   one of them would have to dequeue.
4. `PacketHandler.cpp:52` (Homework7): `OnReceive` looks at the first region of
   `mRecvBuffer` only. A packet received into both regions is never complete for
   it; the session stops handling packets until its buffer is full and it is
   closed. `OnlySplitPacketsWait` shows that nothing else keeps a packet waiting.
5. `PacketHandler.cpp:82` (Homework7): a negative `mSize` passes every check. `Skip` refuses it
   and `Remove` counts it, as a `size_t`: too few bytes are removed, or all. Until
   such a packet is handled, stream and buffer are in step (`RemovesAsReadInStep`), and it is
   the last one that is sure to be the server's (`HandledInOrder`).

## Proofs

Every theorem is about the specification for all values of its constants. The
assumptions are the named `ASSUME`s of the modules and no others: capacities,
sizes of blocks and bounds are natural numbers, sizes of packets are integers, a
`size_t` can count the bytes of a buffer, sets of threads and sessions are finite,
not empty and disjoint, and there are fewer threads than flags fit under the
mask of the write lock (2047 in the code). No bound of a run enters a proof.

| module | theorems |
|---|---|
| `StreamBufferProofs` | `RegionsAreSafe` and `BufferIsTyped` (`TypeOK`, `RegionsDisjoint`, `NoOrphanB`), `NoRegionIsOrphaned`, `BufferIsAQueue` (`IsByteQueue`) |
| `IocpServerProofs` | `CountersTellListLength` (`NeverPopsEmptyList`), `SendsDoNotOvertake` (`OneSend`), `ReferencesAreExact` (`RefCountIsReferences`), `AssertionsFailOnlyAfterRevival` (`OnlyRevivalCrashes`), `NoStaleContexts` (`ContextsAreCurrent`), `FreeSessionsStartClean` (`FreeSessionsAreClean`), `OneReceiverAtATime` (`OneReceiver`), `SessionsGoRound` (`ImplementsSessionPool`), `RegionsStayPut` (`InFlightRegionsStable`), `EchoKeepsOrder` (`EchoesInOrder`), `EchoLosesNothing` (`EchoesComplete`), `WakeUpsAreKept` (`UnsentBytesHaveFlusher`), `TypesUntilRevival` (`~resurrected => TypeOK`) |
| `ObjectPoolProofs` | `LockExcludes` (`MutualExclusion`), `TypeCorrect` (`TypeOK`), `PoolAllocates` (`ImplementsBlockAllocator`), `FreeListIsSound` (`FreeListIsTheRest`) |
| `MemoryPoolProofs` | `AssertionsHold` (`NeverCrashes`), `RoomForTheObject` (`BlocksFit`), `NoBlockIsLost` (`BlocksAreSomewhere`), `PoolsAllocate` (`ImplementsBlockAllocator`), `TypesAndCounts` (`TypeOK`) |
| `PacketStreamProofs` | `StreamIsTyped` (`TypeOK`), `PacketsInOrder` (`HandledInOrder`), `NothingIsDropped` (`UnhandledBytesAreStored`), `StreamFollowsBuffer` (`RemovesAsReadInStep`), `OnlyTheSplitWaits` (`OnlySplitPacketsWait`) |
| `DummyClientsProofs` | `TypesAndSizes` (`TypeOK`), `CountsReferences` (`RefCountIsReferences`), `ReturnsOnce` (`ReturnsAreCounted`), `AssertionsHold` (`NeverCrashes`), `OneReceiverAtATime` (`OneReceiver`) |

**Stream buffer.** `TypeOK`, `RegionsDisjoint` and `NoOrphanB` are inductive
together and none is alone: `GetBFreeSpace` is only meaningful when B lies before
A, and that B moves into an empty A at the start of the memory is what keeps it
so. Each method has a lemma on an arbitrary sound buffer, in `BufferLemmas`. A
second set of lemmas says what a method does to the bytes: `Contents` after a
write is what it was with the new bytes behind it (`WriteContents`), after a
removal it is the rest, whether the removal ends in A, takes A and part of B, or
moves B (`RemoveContents`), and a query changes nothing (`ProbeContents`). With
these each step of the buffer is one of the queue.

**Server: the pool's counters.** `NeverPopsEmptyList` is not inductive. `IInv`
adds that `Len(mFreeSessionList) + mCurrentIssueCount = N + mCurrentReturnCount`
(`PoolInv`), from which it follows by arithmetic, and, because a step that
returns a session must append an element of `Sessions`, that a worker outside its
waiting loop always has a session: a context, or a non-empty send list
(`ControlInv`). It holds with revivals and failed assertions too.

**Server: the references.** The invariant `RefInv` has two layers. `Base` holds
always: `IInv`, which kind of context a worker has at which label (`Kinds`), and
that a session has one send, in flight or at its completion, and only while it is
pending (`SendInv`, whence `OneSend`). `Live` holds until a revival: the count is
the number of references (`Counted`); a session that is in the list or on its
way there is so once, and with the count 0 (`Idle`); being accepted, connected and being
disconnected exclude each other, and a session in one of them has the reference
of issuing (`Stages`); one operation or handler is on the receive side
(`Receives`), and one is if the session is connected (`Listening`); contexts are
of the present client (`Current`); a session in the list is clean (`Clean`).
None of these can be left out: that a release is not the last needs `Counted`
and the reference still held, that a returned session is not being worked on
needs `Idle`, and that the handlers of a connection meet in the right order needs
`Stages`. Where the code takes the count from 0 to 1, `resurrected` becomes true
and nothing is claimed any more: that there is just one such place is what the
proof shows. Most steps only move a worker from one label to another, and one
lemma (`WalkSets`) says what such a step does to the sets the parts speak of.
`SessionsGoRound` follows from `RefInv` in both states of a step: each step
leaves the stage of every session, or takes one session to the next stage
(`PoolMoves`).

**Server: the bytes.** `EchoesComplete` speaks of a session with no completion in
hand, so it is not inductive. `Bytes` says where the bytes are at every moment
until a revival. `Stream`: what a session received is what it sent, then what its
send buffer will hold (`Left`: a worker in `SendCompletion` has still to remove
what was sent), then what its receive buffer will hold (`Came`: a worker in
`RecvCompletion` has still to commit what came). `SendSide`: a send in flight is
for the first bytes of region A. `RecvSide`: a receive in flight is for the free
space, in the region the buffer had chosen when it was posted, and no later query
chooses another. From `RefInv` come one send and one receiver, so that each end of
a buffer has one reader or writer: the writer behind and the reader in front meet
in the middle, where `BufferLemmas` says that a removal and a write commute on the
bytes (`RemoveBeforeWrite`) and that a write does not move region A's start or
shorten its run (`FrontStays`). `InUse` bounds `Stream`: between the reset of the
first buffer and that of the second nothing holds, and nobody looks.

**Server: the wake-ups.** `UnsentBytesHaveFlusher` compares two numbers, but at most
two runs of bytes ever wait: what region A holds beyond the send in flight
(`WaitsA`) and region B (`WaitsB`). `Awake` therefore counts nothing: if one waits
there is an entry of a list that still asks for a flush, if both wait there are two
different ones (`Enough`). A write lengthens one of the two and appends an entry
(`EnoughWithOneMore`); a flush is done with its entry when it sends A, or finds
nothing to send, and goes back to its entry when a send is pending; a completion
may swap the regions, and whoever closes the session is excused (`Calm`). For
each, one must know what `Bytes` says of the send in flight: that it is for the
first bytes of A, and that B is empty when A is. `Fresh` adds that a session that
has received nothing stores nothing, without which a session might become
connected with bytes nobody was told of. Entries are finite in number because
each list is bounded (`ListsBounded`), and only the theorem, not the induction,
uses it.

**Object pool.** Mutual exclusion is not inductive, because a thread that adds
its flag judges by a number, not by who is inside. `LockInv` says what the number
is: `mLockFlag` counts exactly the threads between their addition and their
subtraction (`Flagged`), whether they got the lock or not. Their count stays
below `MaskSize`, so that neither the mask nor the width changes it, and a thread
that reads 1 after adding is the only one of them. Under the lock, the invariant
of the list (`Chained`) says, without recursion, that there is a sequence without
repetition of just the free blocks, each linked to the next and the last to
`Null`; free are the blocks that no object is in and no thread has in hand
(`Free`, `Apart`). `FreeListIsTheRest` follows the pointers
instead, by recursion; that both see the same list is an induction over the
sequence, done with `SetInduction`.

**Memory pool.** No lock: the invariant says for every block where it is
(`SomePlace`), that no block is in two hands (`HandsApart`) or twice in the lists
(`ListsApart`), and what its header says there (`Headers`): zero in a list and in
the hand of a thread that has popped it or is about to push it, the size of the
request with its holder. That the pool found by that size is the pool the block
came from, and that the object fits, is arithmetic on the table the constructor
builds (`WantedFacts`), which is the same for every set of sizes.

**Packet parser.** The packets sent lie one behind the other in the stream
(`Contiguous`), those handled are the first of them (`FirstHandled`), and the
buffer stores the bytes from there to the last that came in (`Stored`), as
`BufferLemmas` lets us say after each commit and removal. Then what the parser
finds at the start of region A is the next packet's header. All of this holds while
no packet of negative size was handled (`InStep`). Nothing of the proof assumes
that sizes are not negative: what holds without it, the types and that the buffer stores
the last bytes that came in, is carried through any removal of any count. `OnlySplitPacketsWait`
needs one thing more (`Waits`): while there is a region B, region A ends inside
the next packet. B is only opened by a receive, a receive only posted when the
parser has found no whole packet in A, and the bytes go on going to B.

**Dummy clients.** The invariant places each kind of operation of a session: it
connects, then receives, and it sends its login and disconnects at most once, each
in flight or with one worker or with the main thread, and never both (`Stages`,
`Receives`, `Sends`, `Logins`); a session the main thread has still to visit is
untouched (`Untouched`). The count of references is part of the same invariant,
and so is the count of returns, until a revival. References need no such
exception here, because no reset follows the last release.

### What is only model-checked

- All liveness, `ClosedSessionsReturn`, `Terminates`, `ClosedSessionsAreReleased` and
  `SomebodyEnters`: it needs fairness and `ENABLED`, which the prover does not have.
- `IocpServer!TypeOK` after a revival. Two connections may then use one buffer at
  once, and a commit go past its capacity, so that no proof for all constants can be
  expected; within the bounds of the runs it holds. Until a revival it is
  `TypesUntilRevival`; the parts that are not about bytes, buffers or the pieces of
  them that contexts name (`ControlInv`, `PoolInv`, `Fields`, `SendInv`, `Owned`) hold
  after it too.
- Disagreements found (`ReturnAssertionHolds`, `PendingSendExists`,
  `WorkersNeverBlock`, `CompletePacketsAreHandled`, `RemovesAsRead`): they do not hold.

## Not modelled

- **Finalize and start-up** of `IocpManager`: straight-line system calls; the model
  starts after them, and ends when the accept loop does.
- **FastSpinlock**'s exchange loop: locks appear as owners.
- **ServerSession**: nothing creates one.
- What happens to operations in flight when the dummy clients' `main` deletes the
  sessions and returns: the model ends there, with the workers.
- **DBHelper, SQL**: ODBC calls; several bodies are left as exercises.
- **Homework6 database threads, Homework4 timer, dispatcher, players, read lock, lock
  order check**: the functions that would connect their parts are empty in the
  repository (`todo`), so there is no behaviour to translate.
- **Log, Exception, StackWalker**: diagnostics and third-party code.
- **Homework1 to Homework3** servers: earlier forms of the same classes, most of
  their bodies still exercises. The allocators of Homework3 are those of
  Homework4 with their interlocked calls left open; its session is Homework4's.
- **Homework4's echo session**: the one of Homework5 with one buffer for both
  directions. Its receive, send and next receive follow each other, the buffer is
  empty between two echoes, and every handler holds a reference: what is hard in
  Homework5 (flushes without a reference, pending sends, both regions in use) came with the
  send list, and is modelled there.
- **Protobuf and generated packets**: the vendored library and its output are more
  than nine tenths of the lines of the repository, and none of its logic.

## Plan

1. A ghost that ties a send-list entry to the connection it was made for. A worker
   that reads `mConnected` as 0 in `FlushSend` (`Session.cpp:120`) and is held up
   until the session has another client closes that one: the model has the
   steps, and a property that names them is to come.
2. Shorter proofs: the lemmas `BytesOf...` and `AwakeOf...` of `IocpServerProofs` repeat
   what a step leaves alone, action by action.
