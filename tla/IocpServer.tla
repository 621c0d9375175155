----------------------------- MODULE IocpServer -----------------------------
(***************************************************************************)
(* The session layer of Homework5/EduServer_IOCP: the pool of client       *)
(* sessions and the accept loop of the main thread (ClientSessionManager,  *)
(* IocpManager::StartAccept), the I/O worker threads (WorkerThread), the   *)
(* sessions with their reference counts and stream buffers (Session,       *)
(* ClientSession), and, as environment, the completion port and the        *)
(* sockets.                                                                *)
(*                                                                         *)
(* A worker's pc names the statement it executes next; one step is one     *)
(* interlocked operation, one critical section, or one run of statements   *)
(* on data no other thread can touch, together with the system call it     *)
(* ends in.  DoIocpJob, the completion handlers, DisconnectRequest,        *)
(* DeleteIoContext, ReturnClientSession and FlushSend are each cut into    *)
(* such steps.                                                             *)
(***************************************************************************)
EXTENDS Integers, Sequences, FiniteSets, CircularBuffer

CONSTANTS
  Sessions,    \* the MAX_CONNECTION sessions of PrepareClientSessions
  Workers,     \* the I/O worker threads
  Main,        \* the main thread, which accepts
  Nobody,      \* the owner of a free lock
  Faults,      \* which failures the environment may produce
  MaxIssue,    \* bound: how many times a session is issued in all
  MaxBytes     \* bound: how many bytes the peers of each session send in all

FaultKinds ==
  { "PeerClose",      \* a peer closes or resets its connection
    "AcceptEx", "WSARecv", "WSASend", "DisconnectEx",   \* the call fails at once
    "AcceptSetup",    \* a setsockopt or the like fails in AcceptCompletion
    "PartialSend" }   \* a send completes with fewer bytes than asked for

ASSUME ThreadsAssumption ==
  /\ Main \notin Workers
  /\ Nobody \notin Workers \cup {Main}
ASSUME SessionsAssumption == IsFiniteSet(Sessions) /\ Sessions # {}
ASSUME WorkersAssumption  == IsFiniteSet(Workers) /\ Workers # {}
ASSUME BoundsAssumption ==
  MaxIssue \in Nat /\ MaxBytes \in Nat /\ Faults \subseteq FaultKinds

VARIABLES
  status,               \* "running", "crashed" (a CRASH_ASSERT) or "exited"
  mFreeSessionList, mLock, mCurrentIssueCount, mCurrentReturnCount,
  mainPc,               \* "accept" (outside) or "loop" (inside AcceptClientSessions)
  mConnected, mRefCount, mSendPendingCount,
  mSendBufferLock, mSendBuffer, mRecvBuffer,
  pc,                   \* per worker: what it executes next
  ctx,                  \* per worker: the context of the completion in hand
  ret,                  \* per worker: where ReturnClientSession returns to
  sendList,             \* per worker: LSendRequestSessionList
  ios,                  \* environment: the contexts of the I/O operations in flight
  sock,                 \* environment: the sockets, see SocketStates
  stamp,                \* environment: per session, bytes its peers have sent
  (* history *)
  gen,                  \* how many times the session was issued
  issued,               \* the reference taken at issuing is not yet released
  rcvd, wire,           \* this connection's bytes, as received and as sent back
  resurrected           \* a FlushSend took a session's count from 0 to 1

poolVars    == <<mFreeSessionList, mLock, mCurrentIssueCount, mCurrentReturnCount>>
countVars   == <<mConnected, mRefCount>>
sendVars    == <<mSendPendingCount, mSendBufferLock, mSendBuffer>>
workerVars  == <<pc, ctx, ret, sendList>>
historyVars == <<gen, issued, resurrected>>
byteVars    == <<stamp, rcvd, wire>>
vars == <<status, poolVars, mainPc, countVars, sendVars, mRecvBuffer, workerVars,
          ios, sock, historyVars, byteVars>>

-----------------------------------------------------------------------------
IOTypes == {"IO_SEND", "IO_RECV", "IO_RECV_ZERO", "IO_ACCEPT", "IO_DISCONNECT"}

\* A socket is "new" until AcceptCompletion associates it with the completion port,
\* and then "open"; DisconnectEx makes it "down", or "lost" if its completion has no
\* port to go to.
SocketStates == {"new", "open", "down", "lost"}

Disconnected(s) == sock[s] \in {"down", "lost"}

\* An overlapped context: the operation, its session, the piece of the session's
\* buffer it works on, and dwTransferred once it has completed.
Context(type, s, at, len) ==
  [type |-> type, sess |-> s, gen |-> gen[s], at |-> at, len |-> len, n |-> 0]

NoContext == [type |-> "IO_NONE"]

Remote(w) == IF ctx[w] # NoContext THEN ctx[w].sess ELSE Head(sendList[w])

Goto(w, label) == pc' = [pc EXCEPT ![w] = label]

\* To continue with DoSendJob is to have deleted the context.
Resume(w, label) ==
  /\ Goto(w, label)
  /\ ctx' = IF label = "sendJob" THEN [ctx EXCEPT ![w] = NoContext] ELSE ctx

\* Session::IsConnected.
IsConnected(s) == mConnected[s] = 1

PostUncounted(w, type, at, len) ==                                   \* mutant
  ios' = ios \cup {Context(type, Remote(w), at, len)} /\ UNCHANGED mRefCount

\* A new context is handed to the system: its constructor counted a reference.
Post(w, type, at, len) ==
  LET s == Remote(w)
  IN  /\ ios' = ios \cup {Context(type, s, at, len)}
      /\ mRefCount' = [mRefCount EXCEPT ![s] = @ + 1]

\* A system call refused a new context, which is deleted again.  The worker holds
\* the completed context's reference (or, in a FlushSend that just closed the
\* session, the one of issuing is still held), so that the count stays above
\* zero: up and down again in one step.
Refused == UNCHANGED <<ios, mRefCount>>

ReleaseRefEarly(w, s, next) ==                                       \* mutant
  /\ mRefCount' = [mRefCount EXCEPT ![s] = @ - 1]
  /\ UNCHANGED status
  /\ IF mRefCount[s] = 2
     THEN Goto(w, "return") /\ ret' = [ret EXCEPT ![w] = next] /\ UNCHANGED ctx
     ELSE Resume(w, next) /\ UNCHANGED ret

\* Session::ReleaseRef; the last reference returns the session to the pool.
ReleaseRef(w, s, next) ==
  /\ mRefCount' = [mRefCount EXCEPT ![s] = @ - 1]
  /\ status' = IF mRefCount[s] < 1 THEN "crashed" ELSE status
  /\ IF mRefCount[s] = 1
     THEN Goto(w, "return") /\ ret' = [ret EXCEPT ![w] = next] /\ UNCHANGED ctx
     ELSE Resume(w, next) /\ UNCHANGED ret

-----------------------------------------------------------------------------
(* The main thread: StartAccept calls AcceptClientSessions every 100 ms.     *)

NotAboveMaximum ==                                                   \* mutant
  mCurrentIssueCount - mCurrentReturnCount \in 0..Cardinality(Sessions)

\* mCurrentIssueCount - mCurrentReturnCount < MAX_CONNECTION, on uint64_t: a
\* negative difference would be a huge number.
BelowMaximum ==
  mCurrentIssueCount - mCurrentReturnCount \in 0..(Cardinality(Sessions) - 1)

AcceptEnter ==
  /\ mainPc = "accept"
  /\ mLock = Nobody
  /\ mLock' = Main
  /\ mainPc' = "loop"
  /\ UNCHANGED <<status, mFreeSessionList, mCurrentIssueCount, mCurrentReturnCount,
                 countVars, sendVars, mRecvBuffer, workerVars, ios, sock,
                 historyVars, byteVars>>

\* One turn of the loop: the last free session gets its reference for issuing, and
\* PostAccept one for the context it hands to AcceptEx.  If AcceptEx fails, the
\* loop, StartAccept and with them the process end.
AcceptIssue ==
  LET last == Len(mFreeSessionList)
      s    == mFreeSessionList[last]
  IN  /\ mainPc = "loop"
      /\ BelowMaximum
      /\ mCurrentIssueCount < MaxIssue
      /\ mFreeSessionList' = SubSeq(mFreeSessionList, 1, last - 1)
      /\ mCurrentIssueCount' = mCurrentIssueCount + 1
      /\ gen' = [gen EXCEPT ![s] = @ + 1]
      /\ issued' = [issued EXCEPT ![s] = TRUE]
      /\ rcvd' = [rcvd EXCEPT ![s] = << >>]
      /\ wire' = [wire EXCEPT ![s] = << >>]
      /\ \/ /\ ios' = ios \cup {[Context("IO_ACCEPT", s, 0, 0) EXCEPT !.gen = @ + 1]}
            /\ mRefCount' = [mRefCount EXCEPT ![s] = @ + 2]
            /\ UNCHANGED <<status, mLock, mainPc>>
         \/ /\ "AcceptEx" \in Faults
            /\ mRefCount' = [mRefCount EXCEPT ![s] = @ + 1]
            /\ mLock' = Nobody
            /\ mainPc' = "accept"
            /\ status' = "exited"
            /\ UNCHANGED ios
      /\ UNCHANGED <<mCurrentReturnCount, mConnected, sendVars, mRecvBuffer,
                     workerVars, sock, resurrected, stamp>>

AcceptLeave ==
  /\ mainPc = "loop"
  /\ ~BelowMaximum \/ mCurrentIssueCount >= MaxIssue
  /\ mLock' = Nobody
  /\ mainPc' = "accept"
  /\ UNCHANGED <<status, mFreeSessionList, mCurrentIssueCount, mCurrentReturnCount,
                 countVars, sendVars, mRecvBuffer, workerVars, ios, sock,
                 historyVars, byteVars>>

-----------------------------------------------------------------------------
(* The environment's part of a completion.                                   *)

Broken(s) == Disconnected(s) \/ "PeerClose" \in Faults

\* How many bytes the peers of a session may still send.
Unsent(s) == MaxBytes - stamp[s]

\* The values of dwTransferred with which an operation can complete now.  For a
\* send or a receive 0 stands for a failed completion too (ret == 0).
Outcomes(c) ==
  CASE c.type = "IO_RECV" ->
         1..Lesser(c.len, Unsent(c.sess)) \cup (IF Broken(c.sess) THEN {0} ELSE {})
    [] c.type = "IO_RECV_ZERO" ->
         IF Unsent(c.sess) > 0 \/ Broken(c.sess) THEN {0} ELSE {}
    [] c.type = "IO_SEND" ->
         {c.len} \cup (IF "PartialSend" \in Faults THEN 1..c.len ELSE {})
                 \cup (IF Broken(c.sess) THEN {0} ELSE {})
    [] OTHER -> {0}

\* What the peer sends next: bytes that carry their place in its stream.
NextBytes(s, n) == [i \in 1..n |-> stamp[s] + i]

\* The memory a completed operation was given is written, or has been read.
Transfer(c, n) ==
  /\ IF c.type = "IO_RECV"
     THEN /\ mRecvBuffer' = [mRecvBuffer EXCEPT ![c.sess] = Fill(@, c.at, NextBytes(c.sess, n))]
          /\ rcvd' = [rcvd EXCEPT ![c.sess] = @ \o NextBytes(c.sess, n)]
          /\ stamp' = [stamp EXCEPT ![c.sess] = @ + n]
     ELSE UNCHANGED <<mRecvBuffer, rcvd, stamp>>
  /\ wire' = IF c.type = "IO_SEND"
             THEN [wire EXCEPT ![c.sess] = @ \o Window(mSendBuffer[c.sess], c.at, n)]
             ELSE wire

\* A completion is queued to the port its socket is associated with.  (AcceptEx
\* completes on the listening socket, and nothing is received or sent before the
\* association.)
Arrives(c) == c.type = "IO_DISCONNECT" => sock[c.sess] # "lost"

\* The switch of DoIocpJob, after its test for failed sends and receives.
Handler(c, n) ==
  IF c.type \in {"IO_RECV", "IO_SEND"} /\ n = 0
  THEN "disconnect"
  ELSE CASE c.type = "IO_ACCEPT"     -> "acceptCompletion"
         [] c.type = "IO_DISCONNECT" -> "disconnectCompletion"
         [] c.type = "IO_RECV_ZERO"  -> "postRecv"
         [] c.type = "IO_SEND"       -> "sendCompletion"
         [] c.type = "IO_RECV"       -> "recvCompletion"

\* GetQueuedCompletionStatus.  (A wait that times out changes nothing: the list
\* DoSendJob looks at is empty then.)
Dequeue(w, c) ==
  /\ pc[w] = "gqcs"
  /\ Arrives(c)
  /\ \E n \in Outcomes(c) :
       /\ Transfer(c, n)
       /\ ctx' = [ctx EXCEPT ![w] = [c EXCEPT !.n = n]]
       /\ Goto(w, Handler(c, n))
  /\ ios' = ios \ {c}
  /\ UNCHANGED <<status, poolVars, mainPc, countVars, sendVars, ret, sendList, sock,
                 historyVars>>

GetQueuedCompletionStatus(w) == \E c \in ios : Dequeue(w, c)

-----------------------------------------------------------------------------
(* The completion handlers.                                                  *)

\* ClientSession::AcceptCompletion: its interlocked test.
AcceptCompletion(w) ==
  LET s == Remote(w)
  IN  /\ pc[w] = "acceptCompletion"
      /\ mConnected' = [mConnected EXCEPT ![s] = 1]
      /\ status' = IF IsConnected(s) THEN "crashed" ELSE status
      /\ Goto(w, "acceptSetup")
      /\ UNCHANGED <<poolVars, mainPc, mRefCount, sendVars, mRecvBuffer, ctx, ret,
                     sendList, ios, sock, historyVars, byteVars>>

\* The socket once it is associated with the port: a DisconnectEx that somebody else
\* called before is still under way, or has completed unnoticed.
Associated(state) ==
  CASE state = "new"  -> {"open"}
    [] state = "lost" -> {"down", "lost"}
    [] OTHER          -> {state}

\* Its calls on the socket, of which CreateIoCompletionPort is the last: whichever
\* fails, the socket is not associated.
AcceptSetup(w) ==
  LET s == Remote(w)
  IN  /\ pc[w] = "acceptSetup"
      /\ \/ /\ \E state \in Associated(sock[s]) : sock' = [sock EXCEPT ![s] = state]
            /\ Goto(w, "preRecv")
         \/ "AcceptSetup" \in Faults /\ Goto(w, "disconnect") /\ UNCHANGED sock
      /\ UNCHANGED <<status, poolVars, mainPc, countVars, sendVars, mRecvBuffer, ctx, ret,
                     sendList, ios, historyVars, byteVars>>

AfterPreRecvIgnored(w, ok) == "drop"                                  \* mutant

\* What follows PreRecv: AcceptCompletion ignores its result, DoIocpJob does not.
AfterPreRecv(w, ok) ==
  IF ok \/ ctx[w].type = "IO_ACCEPT" THEN "drop" ELSE "disconnect"

\* Session::PreRecv, its test, and then its zero-byte WSARecv.
PreRecv(w) ==
  /\ pc[w] = "preRecv"
  /\ Goto(w, IF IsConnected(Remote(w)) THEN "preRecvCall" ELSE AfterPreRecv(w, FALSE))
  /\ UNCHANGED <<status, poolVars, mainPc, countVars, sendVars, mRecvBuffer, ctx, ret,
                 sendList, ios, sock, historyVars, byteVars>>

\* A WSARecv fails at will, or because another worker has disconnected the socket.
WSARecvFails(w) == "WSARecv" \in Faults \/ Disconnected(Remote(w))

PreRecvCall(w) ==
  /\ pc[w] = "preRecvCall"
  /\ \/ Post(w, "IO_RECV_ZERO", 0, 0) /\ Goto(w, AfterPreRecv(w, TRUE))
     \/ WSARecvFails(w) /\ Refused /\ Goto(w, AfterPreRecv(w, FALSE))
  /\ UNCHANGED <<status, poolVars, mainPc, mConnected, sendVars, mRecvBuffer, ctx, ret,
                 sendList, sock, historyVars, byteVars>>

\* Session::PostRecv, its two tests, and then its WSARecv into the free space.
PostRecv(w) ==
  LET s == Remote(w)
  IN  /\ pc[w] = "postRecv"
      /\ IF IsConnected(s)
         THEN /\ mRecvBuffer' = [mRecvBuffer EXCEPT ![s] = AfterProbe(@)]
              /\ Goto(w, IF GetFreeSpaceSize(mRecvBuffer[s]) = 0
                         THEN "disconnect" ELSE "postRecvCall")
         ELSE Goto(w, "disconnect") /\ UNCHANGED mRecvBuffer
      /\ UNCHANGED <<status, poolVars, mainPc, countVars, sendVars, ctx, ret, sendList,
                     ios, sock, historyVars, byteVars>>

PostRecvCall(w) ==
  LET buffer == mRecvBuffer[Remote(w)]
  IN  /\ pc[w] = "postRecvCall"
      /\ \/ Post(w, "IO_RECV", GetBuffer(buffer), GetFreeSpaceSize(buffer)) /\ Goto(w, "drop")
         \/ WSARecvFails(w) /\ Refused /\ Goto(w, "disconnect")
      /\ UNCHANGED <<status, poolVars, mainPc, mConnected, sendVars, mRecvBuffer, ctx, ret,
                     sendList, sock, historyVars, byteVars>>

SendCompletionArmsReceive(w) ==                                      \* mutant
  LET s == Remote(w)
  IN  /\ pc[w] = "sendCompletion"
      /\ mSendBuffer' = [mSendBuffer EXCEPT ![s] = Remove(@, ctx[w].n)]
      /\ mSendPendingCount' = [mSendPendingCount EXCEPT ![s] = @ - 1]
      /\ Goto(w, "preRecv")
      /\ UNCHANGED <<status, poolVars, mainPc, countVars, mSendBufferLock, mRecvBuffer, ctx,
                     ret, sendList, ios, sock, historyVars, byteVars>>

\* Session::SendCompletion; a partial send closes the session.
SendCompletion(w) ==
  LET s == Remote(w)
  IN  /\ pc[w] = "sendCompletion"
      /\ mSendBufferLock[s] = Nobody
      /\ mSendBuffer' = [mSendBuffer EXCEPT ![s] = Remove(@, ctx[w].n)]
      /\ mSendPendingCount' = [mSendPendingCount EXCEPT ![s] = @ - 1]
      /\ Goto(w, IF ctx[w].n = ctx[w].len THEN "drop" ELSE "disconnect")
      /\ UNCHANGED <<status, poolVars, mainPc, countVars, mSendBufferLock, mRecvBuffer, ctx,
                     ret, sendList, ios, sock, historyVars, byteVars>>

\* Session::RecvCompletion, and EchoBack up to PostSend's test.
RecvCompletion(w) ==
  LET s == Remote(w)
  IN  /\ pc[w] = "recvCompletion"
      /\ mRecvBuffer' = [mRecvBuffer EXCEPT ![s] = Commit(@, ctx[w].n)]
      /\ Goto(w, IF IsConnected(s) THEN "postSend" ELSE "preRecv")
      /\ UNCHANGED <<status, poolVars, mainPc, countVars, sendVars, ctx, ret, sendList, ios,
                     sock, historyVars, byteVars>>

\* PostSend takes a block whole or not at all.
Fits(buffer, len) == GetFreeSpaceSize(buffer) >= len

EchoLeavesNothing(got, len, sent) == Remove(got, len)                 \* mutant

\* What EchoBack leaves in mRecvBuffer: all of it if PostSend refused.
EchoLeaves(got, len, sent) == IF sent THEN Remove(got, len) ELSE got

\* The critical section of PostSend, called with the first run of received bytes,
\* and the rest of EchoBack.
PostSend(w) ==
  LET s    == Remote(w)
      got  == mRecvBuffer[s]
      len  == GetContiguiousBytes(got)
      out  == AfterProbe(mSendBuffer[s])
      data == Window(got, GetBufferStart(got), len)
      sent == Fits(mSendBuffer[s], len)
  IN  /\ pc[w] = "postSend"
      /\ mSendBufferLock[s] = Nobody
      /\ sendList' = IF sent THEN [sendList EXCEPT ![w] = Append(@, s)] ELSE sendList
      /\ mSendBuffer' = [mSendBuffer EXCEPT ![s] =
                           IF sent THEN Commit(Fill(out, GetBuffer(out), data), len) ELSE out]
      /\ mRecvBuffer' = [mRecvBuffer EXCEPT ![s] = EchoLeaves(got, len, sent)]
      /\ Goto(w, "preRecv")
      /\ UNCHANGED <<status, poolVars, mainPc, countVars, mSendPendingCount, mSendBufferLock,
                     ctx, ret, ios, sock, historyVars, byteVars>>

\* Session::DisconnectCompletion releases the reference of issuing.
DisconnectCompletion(w) ==
  /\ pc[w] = "disconnectCompletion"
  /\ ReleaseRef(w, Remote(w), "drop")
  /\ issued' = [issued EXCEPT ![Remote(w)] = FALSE]
  /\ UNCHANGED <<poolVars, mainPc, mConnected, sendVars, mRecvBuffer, sendList, ios, sock,
                 gen, resurrected, byteVars>>

-----------------------------------------------------------------------------
(* Closing a session and returning it to the pool.                           *)

AfterDisconnectLeaks(w) == IF ctx[w] # NoContext THEN "sendJob" ELSE "flushed"   \* mutant

\* DisconnectRequest returns to DoIocpJob, which deletes the context in hand, or
\* to FlushSend, which has none.
AfterDisconnect(w) == IF ctx[w] # NoContext THEN "drop" ELSE "flushed"

DisconnectRequestDecrements(w) ==                                    \* mutant
  /\ pc[w] = "disconnect"
  /\ mConnected' = [mConnected EXCEPT ![Remote(w)] = @ - 1]
  /\ Goto(w, IF IsConnected(Remote(w)) THEN "disconnectCall" ELSE AfterDisconnect(w))
  /\ UNCHANGED <<status, poolVars, mainPc, mRefCount, sendVars, mRecvBuffer, ctx, ret,
                 sendList, ios, sock, historyVars, byteVars>>

\* Session::DisconnectRequest: only the first caller finds mConnected = 1.
DisconnectRequest(w) ==
  LET s == Remote(w)
  IN  /\ pc[w] = "disconnect"
      /\ mConnected' = [mConnected EXCEPT ![s] = 0]
      /\ Goto(w, IF IsConnected(s) THEN "disconnectCall" ELSE AfterDisconnect(w))
      /\ UNCHANGED <<status, poolVars, mainPc, mRefCount, sendVars, mRecvBuffer, ctx, ret,
                     sendList, ios, sock, historyVars, byteVars>>

\* Its DisconnectEx, which completes somewhere or nowhere.
DisconnectCall(w) ==
  /\ pc[w] = "disconnectCall"
  /\ \/ /\ Post(w, "IO_DISCONNECT", 0, 0)
        /\ sock' = [sock EXCEPT ![Remote(w)] = IF @ \in {"new", "lost"} THEN "lost" ELSE "down"]
     \/ "DisconnectEx" \in Faults /\ Refused /\ UNCHANGED sock
  /\ Goto(w, AfterDisconnect(w))
  /\ UNCHANGED <<status, poolVars, mainPc, mConnected, sendVars, mRecvBuffer, ctx, ret,
                 sendList, historyVars, byteVars>>

\* DeleteIoContext of the context in hand, at the end of DoIocpJob.
DeleteIoContext(w) ==
  /\ pc[w] = "drop"
  /\ ReleaseRef(w, Remote(w), "sendJob")
  /\ UNCHANGED <<poolVars, mainPc, mConnected, sendVars, mRecvBuffer, sendList, ios, sock,
                 historyVars, byteVars>>

\* ClientSession::OnRelease, ClientSessionManager::ReturnClientSession: take mLock,
\* and the assertion that the session is closed and has no reference.
ReturnClientSession(w) ==
  LET s == Remote(w)
  IN  /\ pc[w] = "return"
      /\ mLock = Nobody
      /\ mLock' = w
      /\ status' = IF mConnected[s] = 0 /\ mRefCount[s] = 0 THEN status ELSE "crashed"
      /\ Goto(w, "sessionReset")
      /\ UNCHANGED <<mFreeSessionList, mCurrentIssueCount, mCurrentReturnCount, mainPc,
                     countVars, sendVars, mRecvBuffer, ctx, ret, sendList, ios, sock,
                     historyVars, byteVars>>

SessionResetKeepsBytes(w) ==                                         \* mutant
  /\ pc[w] = "sessionReset"
  /\ Goto(w, "sessionResetSend")
  /\ UNCHANGED <<status, poolVars, mainPc, countVars, mRecvBuffer, sendVars, ctx, ret,
                 sendList, ios, sock, historyVars, byteVars>>

\* ClientSession::SessionReset, up to the acquisition of mSendBufferLock.
SessionReset(w) ==
  LET s == Remote(w)
  IN  /\ pc[w] = "sessionReset"
      /\ mConnected' = [mConnected EXCEPT ![s] = 0]
      /\ mRefCount' = [mRefCount EXCEPT ![s] = 0]
      /\ mRecvBuffer' = [mRecvBuffer EXCEPT ![s] = BufferReset]
      /\ Goto(w, "sessionResetSend")
      /\ UNCHANGED <<status, poolVars, mainPc, sendVars, ctx, ret, sendList, ios, sock,
                     historyVars, byteVars>>

SessionResetSendKeepsBytes(w) ==                                     \* mutant
  LET s == Remote(w)
  IN  /\ pc[w] = "sessionResetSend"
      /\ mSendBufferLock[s] = Nobody
      /\ sock' = [sock EXCEPT ![s] = "new"]
      /\ mFreeSessionList' = Append(mFreeSessionList, s)
      /\ mCurrentReturnCount' = mCurrentReturnCount + 1
      /\ mLock' = Nobody
      /\ Resume(w, ret[w])
      /\ ret' = [ret EXCEPT ![w] = "sendJob"]
      /\ UNCHANGED <<status, mCurrentIssueCount, mainPc, countVars, sendVars,
                     mRecvBuffer, sendList, ios, historyVars, byteVars>>

\* Its critical section, the new socket, and the rest of ReturnClientSession.
SessionResetSend(w) ==
  LET s == Remote(w)
  IN  /\ pc[w] = "sessionResetSend"
      /\ mSendBufferLock[s] = Nobody
      /\ mSendBuffer' = [mSendBuffer EXCEPT ![s] = BufferReset]
      /\ sock' = [sock EXCEPT ![s] = "new"]
      /\ mFreeSessionList' = Append(mFreeSessionList, s)
      /\ mCurrentReturnCount' = mCurrentReturnCount + 1
      /\ mLock' = Nobody
      /\ Resume(w, ret[w])
      /\ ret' = [ret EXCEPT ![w] = "sendJob"]
      /\ UNCHANGED <<status, mCurrentIssueCount, mainPc, countVars, mSendPendingCount,
                     mSendBufferLock, mRecvBuffer, sendList, ios, historyVars, byteVars>>

-----------------------------------------------------------------------------
(* WorkerThread::DoSendJob: FlushSend is called until the list is empty.     *)

SendJob(w) ==
  /\ pc[w] = "sendJob"
  /\ Goto(w, IF sendList[w] = << >> THEN "gqcs"
             ELSE IF IsConnected(Head(sendList[w])) THEN "flush" ELSE "disconnect")
  /\ UNCHANGED <<status, poolVars, mainPc, countVars, sendVars, mRecvBuffer, ctx, ret,
                 sendList, ios, sock, historyVars, byteVars>>

NoSendPending(s) == FALSE                                            \* mutant

\* "When the previous send is not completed yet" (Session.cpp:139).
SendPending(s) == mSendPendingCount[s] > 0

FlushNothingGivesUp(w) ==                                            \* mutant
  LET s == Remote(w)
  IN  /\ pc[w] = "flush"
      /\ mSendBufferLock[s] = Nobody
      /\ GetContiguiousBytes(mSendBuffer[s]) = 0 \/ SendPending(s)
      /\ Goto(w, "flushed")
      /\ UNCHANGED <<status, poolVars, mainPc, countVars, sendVars, mRecvBuffer, ctx, ret,
                     sendList, ios, sock, historyVars, byteVars>>

\* The critical section of FlushSend when there is nothing it can send: it
\* returns FALSE as long as an earlier send is pending, and DoSendJob tries again.
FlushNothing(w) ==
  LET s == Remote(w)
  IN  /\ pc[w] = "flush"
      /\ mSendBufferLock[s] = Nobody
      /\ GetContiguiousBytes(mSendBuffer[s]) = 0 \/ SendPending(s)
      /\ Goto(w, IF mSendPendingCount[s] = 0 THEN "flushed" ELSE "sendJob")
      /\ UNCHANGED <<status, poolVars, mainPc, countVars, sendVars, mRecvBuffer, ctx, ret,
                     sendList, ios, sock, historyVars, byteVars>>

\* The critical section when there is: one WSASend of the first run of bytes.  A
\* WSASend that fails is cleaned up with mSendBufferLock held.
FlushSend(w) ==
  LET s      == Remote(w)
      buffer == mSendBuffer[s]
  IN  /\ pc[w] = "flush"
      /\ mSendBufferLock[s] = Nobody
      /\ GetContiguiousBytes(buffer) > 0
      /\ ~SendPending(s)
      /\ resurrected' = (resurrected \/ mRefCount[s] = 0)
      /\ \/ /\ Post(w, "IO_SEND", GetBufferStart(buffer), GetContiguiousBytes(buffer))
            /\ mSendPendingCount' = [mSendPendingCount EXCEPT ![s] = @ + 1]
            /\ Goto(w, IF mSendPendingCount[s] = 0 THEN "flushed" ELSE "sendJob")
            /\ UNCHANGED mSendBufferLock
         \/ /\ "WSASend" \in Faults \/ Disconnected(s)
            /\ mRefCount' = [mRefCount EXCEPT ![s] = @ + 1]
            /\ mSendBufferLock' = [mSendBufferLock EXCEPT ![s] = w]
            /\ Goto(w, "flushRelease")
            /\ UNCHANGED <<mSendPendingCount, ios>>
      /\ UNCHANGED <<status, poolVars, mainPc, mConnected, mSendBuffer, mRecvBuffer, ctx,
                     ret, sendList, sock, gen, issued, byteVars>>

\* DeleteIoContext of the refused send context, then DisconnectRequest.
FlushRelease(w) ==
  /\ pc[w] = "flushRelease"
  /\ ReleaseRef(w, Remote(w), "disconnect")
  /\ UNCHANGED <<poolVars, mainPc, mConnected, sendVars, mRecvBuffer, sendList, ios, sock,
                 historyVars, byteVars>>

\* FlushSend returned TRUE: its guard releases the lock, if it was taken, and
\* DoSendJob drops the session from the list.
Flushed(w) ==
  LET s == Remote(w)
  IN  /\ pc[w] = "flushed"
      /\ sendList' = [sendList EXCEPT ![w] = Tail(@)]
      /\ mSendBufferLock' = [mSendBufferLock EXCEPT ![s] = IF @ = w THEN Nobody ELSE @]
      /\ Goto(w, "sendJob")
      /\ UNCHANGED <<status, poolVars, mainPc, countVars, mSendPendingCount, mSendBuffer,
                     mRecvBuffer, ctx, ret, ios, sock, historyVars, byteVars>>

-----------------------------------------------------------------------------
\* After PrepareClientSessions and StartIoThreads.
Init ==
  /\ status = "running"
  /\ mFreeSessionList \in
       {q \in [1..Cardinality(Sessions) -> Sessions] : \A i, j \in DOMAIN q : q[i] = q[j] => i = j}
  /\ mLock = Nobody
  /\ mCurrentIssueCount = 0 /\ mCurrentReturnCount = 0
  /\ mainPc = "accept"
  /\ mConnected        = [s \in Sessions |-> 0]
  /\ mRefCount         = [s \in Sessions |-> 0]
  /\ mSendPendingCount = [s \in Sessions |-> 0]
  /\ mSendBufferLock   = [s \in Sessions |-> Nobody]
  /\ mSendBuffer       = [s \in Sessions |-> BufferReset]
  /\ mRecvBuffer       = [s \in Sessions |-> BufferReset]
  /\ pc       = [w \in Workers |-> "gqcs"]
  /\ ctx      = [w \in Workers |-> NoContext]
  /\ ret      = [w \in Workers |-> "sendJob"]
  /\ sendList = [w \in Workers |-> << >>]
  /\ ios = {}
  /\ sock   = [s \in Sessions |-> "new"]
  /\ stamp  = [s \in Sessions |-> 0]
  /\ gen    = [s \in Sessions |-> 0]
  /\ issued = [s \in Sessions |-> FALSE]
  /\ rcvd   = [s \in Sessions |-> << >>]
  /\ wire   = [s \in Sessions |-> << >>]
  /\ resurrected = FALSE

Accept == AcceptEnter \/ AcceptIssue \/ AcceptLeave

\* Everything a worker does by itself, without waiting for a completion.
Step(w) ==
  \/ AcceptCompletion(w) \/ AcceptSetup(w)
  \/ PreRecv(w) \/ PreRecvCall(w) \/ PostRecv(w) \/ PostRecvCall(w)
  \/ SendCompletion(w) \/ RecvCompletion(w) \/ PostSend(w) \/ DisconnectCompletion(w)
  \/ DisconnectRequest(w) \/ DisconnectCall(w) \/ DeleteIoContext(w)
  \/ ReturnClientSession(w) \/ SessionReset(w) \/ SessionResetSend(w)
  \/ SendJob(w) \/ FlushNothing(w) \/ FlushSend(w) \/ FlushRelease(w) \/ Flushed(w)

\* A failed assertion, and the return of main, end the process.
Next ==
  /\ status = "running"
  /\ \/ Accept
     \/ \E w \in Workers : GetQueuedCompletionStatus(w) \/ Step(w)

Spec == Init /\ [][Next]_vars

-----------------------------------------------------------------------------
Labels ==
  { "gqcs", "acceptCompletion", "acceptSetup", "preRecv", "preRecvCall", "postRecv",
    "postRecvCall", "sendCompletion", "recvCompletion", "postSend", "disconnectCompletion",
    "disconnect", "disconnectCall", "drop", "return", "sessionReset", "sessionResetSend",
    "sendJob", "flush", "flushRelease", "flushed" }

Owners == Workers \cup {Main, Nobody}

Contexts ==
  [type : IOTypes, sess : Sessions, gen : Nat, at : Nat, len : Nat, n : Nat]

\* Type invariant.
TypeOK ==
  /\ status \in {"running", "crashed", "exited"}
  /\ mFreeSessionList \in Seq(Sessions)
  /\ mLock \in Owners
  /\ mCurrentIssueCount \in Nat /\ mCurrentReturnCount \in Nat
  /\ mainPc \in {"accept", "loop"}
  /\ mConnected \in [Sessions -> {0, 1}]
  /\ mRefCount \in [Sessions -> Int]
  /\ mSendPendingCount \in [Sessions -> Int]
  /\ mSendBufferLock \in [Sessions -> Owners]
  /\ mSendBuffer \in [Sessions -> Buffers]
  /\ mRecvBuffer \in [Sessions -> Buffers]
  /\ pc \in [Workers -> Labels]
  /\ ctx \in [Workers -> Contexts \cup {NoContext}]
  /\ ret \in [Workers -> {"sendJob", "drop", "disconnect"}]
  /\ sendList \in [Workers -> Seq(Sessions)]
  /\ ios \subseteq Contexts
  /\ sock \in [Sessions -> SocketStates]
  /\ stamp \in [Sessions -> Nat]
  /\ gen \in [Sessions -> Nat]
  /\ issued \in [Sessions -> BOOLEAN]
  /\ rcvd \in [Sessions -> Seq(Nat)]
  /\ wire \in [Sessions -> Seq(Nat)]
  /\ resurrected \in BOOLEAN

-----------------------------------------------------------------------------
(* Who refers to a session.                                                  *)

Returning(w) == pc[w] \in {"return", "sessionReset", "sessionResetSend"}

\* The workers that hold a context of s whose reference is not yet released.
Handlers(s) ==
  {w \in Workers : /\ ctx[w] # NoContext
                   /\ ctx[w].sess = s
                   /\ ~(Returning(w) /\ ret[w] = "sendJob")}

InFlight(s) == {c \in ios : c.sess = s}

Flushers(s) == {w \in Workers : pc[w] = "flushRelease" /\ Head(sendList[w]) = s}

BeingAccepted(s) ==
  \/ \E c \in InFlight(s) : c.type = "IO_ACCEPT"
  \/ \E w \in Handlers(s) : pc[w] = "acceptCompletion"

References(s) ==
  (IF issued[s] THEN 1 ELSE 0) + Cardinality(InFlight(s)) + Cardinality(Handlers(s))
    + Cardinality(Flushers(s))

\* The reference count of a session is at every moment the number of its
\* references: the one of issuing, one per I/O operation in flight, one per
\* completion a worker is handling (Session.cpp:194-208, OverlappedIOContext.cpp).
\* This is the whole argument for the life time of a session; it holds as long as
\* no FlushSend, which runs without a reference, revives a released session.
RefCountIsReferences ==
  status # "crashed" /\ ~resurrected =>
    \A s \in Sessions : mRefCount[s] = References(s)

\* The assertions of the code (CRASH_ASSERT in ReleaseRef, AcceptCompletion and
\* ReturnClientSession) can fail only after such a revival.
OnlyRevivalCrashes == status = "crashed" => resurrected

\* A session in mFreeSessionList is there once, is closed, has no reference and
\* no operation in flight, its buffers are empty and its socket is a new one,
\* whatever the previous client left there (ClientSession.cpp:20-44).  What else a
\* client may leave, mSendPendingCount, is not reset: see PendingSendExists.
FreeSessionsAreClean ==
  ~resurrected =>
    \A i \in DOMAIN mFreeSessionList :
      LET s == mFreeSessionList[i]
      IN  /\ \A j \in DOMAIN mFreeSessionList : mFreeSessionList[j] = s => j = i
          /\ mConnected[s] = 0 /\ References(s) = 0 /\ sock[s] = "new"
          /\ mSendBuffer[s] = BufferReset /\ mRecvBuffer[s] = BufferReset

\* AcceptClientSessions (ClientSessionManager.cpp:52-55) decides by the two
\* counters whether it may take back() of the list: the list is never empty then.
NeverPopsEmptyList ==
  mainPc = "loop" /\ BelowMaximum => mFreeSessionList # << >>

\* The operations and handlers on the receiving side of a session.
Receivers(s) ==
  Cardinality({c \in InFlight(s) : c.type \in {"IO_ACCEPT", "IO_RECV_ZERO", "IO_RECV"}})
    + Cardinality({w \in Handlers(s) :
        /\ ctx[w].type \in {"IO_ACCEPT", "IO_RECV_ZERO", "IO_RECV"}
        /\ pc[w] # "drop" /\ ~Returning(w)})

\* No operation outlives its client: what is in flight or being handled for a
\* session was started for the client that has it now, so that no late completion
\* closes, reads for, or writes to another one (Session.cpp:194-208).
ContextsAreCurrent ==
  ~resurrected =>
    \A s \in Sessions :
      /\ \A c \in InFlight(s) : c.gen = gen[s]
      /\ \A w \in Handlers(s) : ctx[w].gen = gen[s]

\* mRecvBuffer and the alternation of zero-byte and real receives need no lock
\* because one operation or handler at a time works on a session's receive side;
\* and a connected session is listening: whichever handlers meet, and whatever
\* fails, one of them has posted, or is about to post, its next receive or its
\* disconnect.  The one exception is a client of which nothing was read yet:
\* AcceptCompletion ignores that its PreRecv failed (ClientSession.cpp:135).
OneReceiver ==
  ~resurrected =>
    \A s \in Sessions :
      /\ Receivers(s) <= 1
      /\ IsConnected(s) /\ ~BeingAccepted(s) =>
           Receivers(s) = 1 \/ ("WSARecv" \in Faults /\ rcvd[s] = << >>)

-----------------------------------------------------------------------------
(* The bytes of a connection.                                                *)

\* The memory given to an operation in flight stays what it was given: the bytes
\* being sent are still the first run of mSendBuffer, and received bytes will land
\* exactly where RecvCompletion will commit them (Session.cpp:75, 148, 180-190).
InFlightRegionsStable ==
  ~resurrected =>
    \A c \in ios :
      /\ c.type = "IO_SEND" =>
           /\ c.at = GetBufferStart(mSendBuffer[c.sess])
           /\ c.len <= GetContiguiousBytes(mSendBuffer[c.sess])
      /\ c.type = "IO_RECV" =>
           /\ c.at = GetBuffer(mRecvBuffer[c.sess])
           /\ c.len = GetFreeSpaceSize(mRecvBuffer[c.sess])

\* What a client gets back is what it sent, in order, nothing twice, and nothing
\* of an earlier client of the session.
EchoesInOrder ==
  ~resurrected =>
    \A s \in Sessions :
      Len(wire[s]) <= Len(rcvd[s]) /\ wire[s] = SubSeq(rcvd[s], 1, Len(wire[s]))

\* Nothing is lost either: between two completions of a connection, every byte it
\* received has been sent back, or waits in mSendBuffer, or in mRecvBuffer.
EchoesComplete ==
  \A s \in Sessions :
    ~resurrected /\ mConnected[s] = 1 /\ (\A w \in Handlers(s) : ctx[w].type \notin {"IO_SEND", "IO_RECV"}) =>
      rcvd[s] = wire[s] \o Contents(mSendBuffer[s]) \o Contents(mRecvBuffer[s])

\* A session has at most one send in flight, so that the pieces of its stream
\* cannot overtake each other (Session.cpp:139-141).
OneSend ==
  ~resurrected => \A s \in Sessions : Cardinality({c \in InFlight(s) : c.type = "IO_SEND"}) <= 1

\* The send whose bytes are not yet removed from the buffer, in flight or done.
Sending(s) ==
  {c \in InFlight(s) : c.type = "IO_SEND"}
    \cup {ctx[w] : w \in {v \in Handlers(s) : pc[v] = "sendCompletion"}}

\* The runs of bytes of mSendBuffer that no send has taken yet, by their region.
UnsentRuns(s) ==
  LET b     == mSendBuffer[s]
      taken == IF Sending(s) = {} THEN 0 ELSE (CHOOSE c \in Sending(s) : TRUE).len
  IN  (IF b.aSize > taken THEN {"A"} ELSE {}) \cup (IF b.bSize > 0 THEN {"B"} ELSE {})

\* The entries of send lists that still ask for a FlushSend of s.
FlushesDue(s) ==
  UNION {{<<w, i>> : i \in {j \in DOMAIN sendList[w] :
             sendList[w][j] = s /\ ~(j = 1 /\ pc[w] = "flushed")}} : w \in Workers}

\* No wake-up is lost.  One FlushSend sends one run of bytes and reports that it
\* is done (Session.cpp:147-167), another finds a send pending and tries again:
\* still there are always as many flushes to come as there are runs to send,
\* unless a worker is about to close the session.
UnsentBytesHaveFlusher ==
  \A s \in Sessions :
    ~resurrected /\ IsConnected(s) /\ (\A w \in Workers : pc[w] = "disconnect" => Remote(w) # s) =>
      Cardinality(UnsentRuns(s)) <= Cardinality(FlushesDue(s))

-----------------------------------------------------------------------------
(* The life of a session: IocpServer implements SessionPool.                 *)

InFreeList(s) == \E i \in DOMAIN mFreeSessionList : mFreeSessionList[i] = s

Life(s) ==
  CASE InFreeList(s)    -> "free"
    [] BeingAccepted(s) -> "accepting"
    [] IsConnected(s)   -> "connected"
    [] OTHER            -> "closing"

Pool == INSTANCE SessionPool WITH
  life <- [s \in Sessions |-> Life(s)],
  busy <- {s \in Sessions : References(s) > 0},
  open <- status = "running"

\* Without a revived session, every step is one of the pool: no session is
\* connected twice without having been returned and issued in between, none is
\* returned while somebody refers to it, and none skips a stage.
ImplementsSessionPool ==
  Pool!PoolInit /\ [][Pool!PoolNext \/ resurrected']_(Pool!poolSpecVars)

-----------------------------------------------------------------------------
(* Fairness and liveness.                                                    *)

\* Operations the system is bound to complete: sends and disconnects, and
\* receives on a socket that is being taken down.  Clients owe nothing.
Due(c) == c.type \in {"IO_SEND", "IO_DISCONNECT"} \/ Disconnected(c.sess)

DueCompletion == \E w \in Workers : \E c \in ios : Due(c) /\ Dequeue(w, c)

\* Threads are scheduled and due operations complete.  A worker waiting for mLock
\* polls it every 10 ms at most (FastSpinlock.cpp:24) while the main thread leaves
\* it free for 100 ms at a time (IocpManager.cpp:150): it gets it eventually.
Fairness ==
  /\ WF_vars(status = "running" /\ Accept)
  /\ WF_vars(status = "running" /\ DueCompletion)
  /\ \A w \in Workers :
       /\ WF_vars(status = "running" /\ Step(w))
       /\ SF_vars(status = "running" /\ ReturnClientSession(w))

FairSpec == Spec /\ Fairness

\* A worker waits for a mSendBufferLock that it holds itself: DeleteIoContext in
\* FlushSend (Session.cpp:156) released the last reference of the session.
SelfLocked(w) == pc[w] = "sessionResetSend" /\ mSendBufferLock[Remote(w)] = w

\* A session whose socket DisconnectEx has taken down, and whose completion can
\* arrive, returns to the pool: no path through the handlers forgets a reference,
\* and nobody waits for a lock for ever.  There are two exceptions, both of
\* FlushSend working on a session to which it has no reference: it revives the
\* session, or locks itself out.  Not claimed, because it is not so, is that every
\* session that is closed returns: it stays out when DisconnectEx itself fails, and
\* when the socket was not associated with the port yet ("lost"), because a call
\* of AcceptCompletion failed (ClientSession.cpp:84-131) or another worker closed
\* the session before.
ClosedSessionsReturn ==
  \A s \in Sessions :
    sock[s] = "down" ~> InFreeList(s) \/ resurrected \/ \E w \in Workers : SelfLocked(w)

-----------------------------------------------------------------------------
(* What the code says of itself and does not keep.                           *)

\* The assertion of ClientSessionManager.cpp:39: a session that is returned is
\* closed and nobody refers to it.
ReturnAssertionHolds ==
  \A w \in Workers : pc[w] = "sessionReset" => status # "crashed"

\* Session.cpp:139 takes a positive mSendPendingCount for "the previous send is
\* not completed yet": there is a send of this session then, in flight or being
\* handled, whose completion will count it down.
PendingSendExists ==
  \A s \in Sessions :
    mConnected[s] = 1 /\ mSendPendingCount[s] > 0 =>
      \/ \E c \in InFlight(s) : c.type = "IO_SEND"
      \/ \E w \in Handlers(s) : ctx[w].type = "IO_SEND"

\* The workers do asynchronous, non-blocking I/O (README.md:31): each of them
\* always comes back to wait for completions.
WorkersNeverBlock ==
  \A w \in Workers : []<>(pc[w] = "gqcs" \/ status # "running")
=============================================================================
