---------------------------- MODULE DummyClients ----------------------------
(***************************************************************************)
(* The load generator of Homework7/DummyClients: the main thread connects  *)
(* the sessions of SessionManager, waits for a key, disconnects them, stops *)
(* the I/O workers and waits for their end; the workers handle completions *)
(* as the server's do.  A session lives once: its connection is not        *)
(* reused, and it sends one packet, its login.                             *)
(*                                                                         *)
(* Steps are cut as in IocpServer.  What differs: a session starts with    *)
(* ConnectEx, OnRelease only counts, a worker stops on CK_STOP_NOW.  What  *)
(* is received is abstracted (PacketStream models it): PostRecv may find   *)
(* the buffer full, OnReceive may close the session.  A critical section   *)
(* of mSendBufferLock is one step: only the login is ever protected by it. *)
(***************************************************************************)
EXTENDS Integers, Sequences, FiniteSets

CONSTANTS
  Sessions,    \* mReadySessionList, whose order is abstracted
  Workers,     \* the I/O worker threads
  Main,        \* the main thread
  Faults,      \* which failures the environment may produce
  LoginSize    \* the bytes of a login packet

FaultKinds ==
  { "PeerClose", "PartialSend",                            \* as in IocpServer
    "ConnectEx", "WSARecv", "WSASend", "DisconnectEx",     \* the call fails at once
    "Connect",        \* the connection is refused
    "SetSockOpt",     \* an option of a new connection cannot be set
    "PostQueued" }    \* PostQueuedCompletionStatus fails

ASSUME ThreadsAssumption ==
  Main \notin Workers /\ IsFiniteSet(Workers) /\ IsFiniteSet(Sessions)
ASSUME FaultsAssumption == Faults \subseteq FaultKinds /\ LoginSize \in Nat \ {0}

VARIABLES
  status,               \* "running", "crashed" (an assertion about the sessions),
                        \* "aborted" (CRASH_ASSERT(false) on a failed call), "exited"
  todo,                 \* the sessions the main thread's loop has still to visit
  target,               \* the session it disconnects
  mCurrentConnectCount, mCurrentReturnCount,
  mConnected, mRefCount, mSendPendingCount,
  mSendBuffer,          \* per session: how many bytes wait to be sent
  pc,                   \* per thread: what it executes next
  ctx,                  \* per worker: the context of the completion in hand
  sendList,             \* per worker: LSendRequestSessionList
  ios,                  \* environment: the contexts of the operations in flight
  stops,                \* environment: the CK_STOP_NOW in the completion port
  sock,                 \* environment: "idle", "established", "refused" or "down"
  (* history *)
  issued,               \* the reference of ConnectSessions is not yet released
  revived               \* a FlushSend took a session's count from 0 to 1

mainVars == <<todo, target>>
sendVars == <<mSendPendingCount, mSendBuffer>>
portVars == <<ios, stops>>
vars == <<status, mainVars, mCurrentConnectCount, mCurrentReturnCount, mConnected,
          mRefCount, sendVars, pc, ctx, sendList, portVars, sock, issued, revived>>

-----------------------------------------------------------------------------
Context(type, s, len) == [type |-> type, sess |-> s, len |-> len, n |-> 0]

NoContext == [type |-> "IO_NONE"]

\* The session a thread works on.
Remote(t) ==
  IF t = Main THEN target
  ELSE IF ctx[t] # NoContext THEN ctx[t].sess ELSE Head(sendList[t])

Goto(t, label) == pc' = [pc EXCEPT ![t] = label]

IsConnected(s) == mConnected[s] = 1

PostUncounted(type, s, len) ==                                       \* mutant
  ios' = ios \cup {Context(type, s, len)} /\ UNCHANGED mRefCount

\* A new context, whose constructor counts a reference, is handed to the system,
\* or, when the call fails, deleted again (which never takes the count to zero).
Post(type, s, len) ==
  /\ ios' = ios \cup {Context(type, s, len)}
  /\ mRefCount' = [mRefCount EXCEPT ![s] = @ + 1]

Refused == UNCHANGED <<ios, mRefCount>>

ReleaseRefEarly(s) ==                                                \* mutant
  /\ mRefCount' = [mRefCount EXCEPT ![s] = @ - 1]
  /\ mCurrentReturnCount' = mCurrentReturnCount + (IF mRefCount[s] <= 2 THEN 1 ELSE 0)
  /\ UNCHANGED status

\* Session::ReleaseRef, and OnRelease for the last reference.
ReleaseRef(s) ==
  /\ mRefCount' = [mRefCount EXCEPT ![s] = @ - 1]
  /\ mCurrentReturnCount' = mCurrentReturnCount + (IF mRefCount[s] = 1 THEN 1 ELSE 0)
  /\ status' = IF mRefCount[s] < 1 THEN "crashed" ELSE status

-----------------------------------------------------------------------------
(* The main thread.                                                          *)

\* One turn of ConnectSessions: the reference of issuing, and ConnectRequest.  A
\* ConnectEx that fails is forgotten, and the session with it.
ConnectRequest(s) ==
  /\ pc[Main] = "connect"
  /\ s \in todo
  /\ todo' = todo \ {s}
  /\ issued' = [issued EXCEPT ![s] = TRUE]
  /\ status' = IF IsConnected(s) THEN "crashed" ELSE status
  /\ \/ /\ mRefCount' = [mRefCount EXCEPT ![s] = @ + 2]
        /\ ios' = ios \cup {Context("IO_CONNECT", s, 0)}
     \/ /\ "ConnectEx" \in Faults
        /\ mRefCount' = [mRefCount EXCEPT ![s] = @ + 1]
        /\ UNCHANGED ios
  /\ UNCHANGED <<target, mCurrentConnectCount, mCurrentReturnCount, mConnected, sendVars,
                 pc, ctx, sendList, stops, sock, revived>>

\* The loop of ConnectSessions is over: getchar, until somebody hits a key.
GetChar ==
  /\ pc[Main] = "connect" /\ todo = {}
  /\ Goto(Main, "disconnectSessions")
  /\ todo' = Sessions
  /\ UNCHANGED <<status, target, mCurrentConnectCount, mCurrentReturnCount, mConnected,
                 mRefCount, sendVars, ctx, sendList, portVars, sock, issued, revived>>

\* One turn of DisconnectSessions; its test of IsConnected and the exchange of
\* DisconnectRequest have the effect of the exchange alone.
DisconnectSession(s) ==
  /\ pc[Main] = "disconnectSessions"
  /\ s \in todo
  /\ todo' = todo \ {s}
  /\ target' = s
  /\ mConnected' = [mConnected EXCEPT ![s] = 0]
  /\ Goto(Main, IF IsConnected(s) THEN "disconnectCall" ELSE "disconnectSessions")
  /\ UNCHANGED <<status, mCurrentConnectCount, mCurrentReturnCount, mRefCount, sendVars,
                 ctx, sendList, portVars, sock, issued, revived>>

\* StopIoThreads posts as many CK_STOP_NOW as there are workers.
StopMessages == Cardinality(Workers)

\* A post that fails is only reported.
StopIoThreads ==
  /\ pc[Main] = "disconnectSessions" /\ todo = {}
  /\ \/ stops' = StopMessages
     \/ "PostQueued" \in Faults /\ stops' \in 0..(StopMessages - 1)
  /\ Goto(Main, "wait")
  /\ UNCHANGED <<status, mainVars, mCurrentConnectCount, mCurrentReturnCount, mConnected,
                 mRefCount, sendVars, ctx, sendList, ios, sock, issued, revived>>

\* WaitForMultipleObjects, and the rest of main, which deletes the sessions.
Exit ==
  /\ pc[Main] = "wait"
  /\ \A w \in Workers : pc[w] = "ended"
  /\ Goto(Main, "ended")
  /\ status' = "exited"
  /\ UNCHANGED <<mainVars, mCurrentConnectCount, mCurrentReturnCount, mConnected, mRefCount,
                 sendVars, ctx, sendList, portVars, sock, issued, revived>>

-----------------------------------------------------------------------------
(* WorkerThread::DoIocpJob up to the handler.                                *)

Broken(s) == sock[s] = "down" \/ "PeerClose" \in Faults

\* dwTransferred, as far as anything depends on it: 0 for a send or a receive that
\* failed, how much of the login was sent, 1 for a receive that brought bytes.
Outcomes(c) ==
  CASE c.type = "IO_RECV" -> {1} \cup (IF Broken(c.sess) THEN {0} ELSE {})
    [] c.type = "IO_SEND" ->
         {c.len} \cup (IF "PartialSend" \in Faults THEN 1..c.len ELSE {})
                 \cup (IF Broken(c.sess) THEN {0} ELSE {})
    [] OTHER -> {0}

Handler(c, n) ==
  IF c.type \in {"IO_RECV", "IO_SEND"} /\ n = 0
  THEN "disconnect"
  ELSE CASE c.type = "IO_CONNECT"    -> "connectCompletion"
         [] c.type = "IO_DISCONNECT" -> "disconnectCompletion"
         [] c.type = "IO_RECV_ZERO"  -> "postRecv"
         [] c.type = "IO_SEND"       -> "sendCompletion"
         [] c.type = "IO_RECV"       -> "recvCompletion"

\* A completion; that of ConnectEx tells by the socket how it went.
Dequeue(w, c) ==
  /\ pc[w] = "gqcs"
  /\ \E n \in Outcomes(c) :
       /\ ctx' = [ctx EXCEPT ![w] = [c EXCEPT !.n = n]]
       /\ Goto(w, Handler(c, n))
  /\ IF c.type = "IO_CONNECT"
     THEN \E to \in {"established"} \cup (IF "Connect" \in Faults THEN {"refused"} ELSE {}) :
            sock' = [sock EXCEPT ![c.sess] = to]
     ELSE UNCHANGED sock
  /\ ios' = ios \ {c}
  /\ UNCHANGED <<status, mainVars, mCurrentConnectCount, mCurrentReturnCount, mConnected,
                 mRefCount, sendVars, sendList, stops, issued, revived>>

\* CK_STOP_NOW ends the loop of Run.
StopNow(w) ==
  /\ pc[w] = "gqcs"
  /\ stops > 0
  /\ stops' = stops - 1
  /\ Goto(w, "ended")
  /\ UNCHANGED <<status, mainVars, mCurrentConnectCount, mCurrentReturnCount, mConnected,
                 mRefCount, sendVars, ctx, sendList, ios, sock, issued, revived>>

-----------------------------------------------------------------------------
(* The handlers.                                                             *)

\* ConnectCompletion up to its exchange of mConnected: a refused connection ends
\* here; an option that cannot be set ends the program; a session must not be
\* connected already.
ConnectCompletion(w) ==
  LET s == Remote(w)
  IN  /\ pc[w] = "connectCompletion"
      /\ \/ sock[s] = "refused" /\ Goto(w, "drop") /\ UNCHANGED <<status, mConnected>>
         \/ /\ sock[s] # "refused"
            /\ mConnected' = [mConnected EXCEPT ![s] = 1]
            /\ status' = IF IsConnected(s) THEN "crashed" ELSE status
            /\ Goto(w, "preRecv")
         \/ /\ sock[s] # "refused" /\ "SetSockOpt" \in Faults
            /\ status' = "aborted"
            /\ UNCHANGED <<mConnected, pc>>
      /\ UNCHANGED <<mainVars, mCurrentConnectCount, mCurrentReturnCount, mRefCount, sendVars,
                     ctx, sendList, portVars, sock, issued, revived>>

LogsInAgain(w, ok) == IF ok THEN "established" ELSE "disconnect"     \* mutant

\* What follows PreRecv in ConnectCompletion, or in DoIocpJob after a receive.
AfterPreRecv(w, ok) ==
  IF ctx[w].type = "IO_CONNECT"
  THEN IF ok THEN "established" ELSE "unconnect"
  ELSE IF ok THEN "drop" ELSE "disconnect"

WSARecvFails(s) == "WSARecv" \in Faults \/ sock[s] = "down"

\* Session::PreRecv, its test, and then its zero-byte WSARecv.
PreRecv(w) ==
  /\ pc[w] = "preRecv"
  /\ Goto(w, IF IsConnected(Remote(w)) THEN "preRecvCall" ELSE AfterPreRecv(w, FALSE))
  /\ UNCHANGED <<status, mainVars, mCurrentConnectCount, mCurrentReturnCount, mConnected,
                 mRefCount, sendVars, ctx, sendList, portVars, sock, issued, revived>>

PreRecvCall(w) ==
  LET s == Remote(w)
  IN  /\ pc[w] = "preRecvCall"
      /\ \/ Post("IO_RECV_ZERO", s, 0) /\ Goto(w, AfterPreRecv(w, TRUE))
         \/ WSARecvFails(s) /\ Refused /\ Goto(w, AfterPreRecv(w, FALSE))
      /\ UNCHANGED <<status, mainVars, mCurrentConnectCount, mCurrentReturnCount, mConnected,
                     sendVars, ctx, sendList, stops, sock, issued, revived>>

\* ConnectCompletion gives a session up whose first PreRecv failed: no
\* DisconnectEx, and so nobody who releases the reference of issuing.
Unconnect(w) ==
  /\ pc[w] = "unconnect"
  /\ mConnected' = [mConnected EXCEPT ![Remote(w)] = 0]
  /\ Goto(w, "drop")
  /\ UNCHANGED <<status, mainVars, mCurrentConnectCount, mCurrentReturnCount, mRefCount,
                 sendVars, ctx, sendList, portVars, sock, issued, revived>>

\* IncreaseClientSession, Login, and the test of SendRequest ...
Established(w) ==
  /\ pc[w] = "established"
  /\ mCurrentConnectCount' = mCurrentConnectCount + 1
  /\ Goto(w, IF IsConnected(Remote(w)) THEN "sendRequest" ELSE "drop")
  /\ UNCHANGED <<status, mainVars, mCurrentReturnCount, mConnected, mRefCount, sendVars, ctx,
                 sendList, portVars, sock, issued, revived>>

\* ... and its critical section: the buffer is empty and has room for a login.
SendRequest(w) ==
  LET s == Remote(w)
  IN  /\ pc[w] = "sendRequest"
      /\ mSendBuffer' = [mSendBuffer EXCEPT ![s] = @ + LoginSize]
      /\ sendList' = [sendList EXCEPT ![w] = Append(@, s)]
      /\ Goto(w, "drop")
      /\ UNCHANGED <<status, mainVars, mCurrentConnectCount, mCurrentReturnCount, mConnected,
                     mRefCount, mSendPendingCount, ctx, portVars, sock, issued, revived>>

\* Session::PostRecv, its two tests, and then its WSARecv.
PostRecv(w) ==
  /\ pc[w] = "postRecv"
  /\ \/ IsConnected(Remote(w)) /\ Goto(w, "postRecvCall")
     \/ Goto(w, "disconnect")
  /\ UNCHANGED <<status, mainVars, mCurrentConnectCount, mCurrentReturnCount, mConnected,
                 mRefCount, sendVars, ctx, sendList, portVars, sock, issued, revived>>

PostRecvCall(w) ==
  LET s == Remote(w)
  IN  /\ pc[w] = "postRecvCall"
      /\ \/ Post("IO_RECV", s, 1) /\ Goto(w, "drop")
         \/ WSARecvFails(s) /\ Refused /\ Goto(w, "disconnect")
      /\ UNCHANGED <<status, mainVars, mCurrentConnectCount, mCurrentReturnCount, mConnected,
                     sendVars, ctx, sendList, stops, sock, issued, revived>>

\* Session::RecvCompletion: whether OnReceive closes the session depends on what
\* came in.  If it does, the PreRecv of DoIocpJob and its own DisconnectRequest
\* find the session closed and do nothing.
RecvCompletion(w) ==
  /\ pc[w] = "recvCompletion"
  /\ Goto(w, "preRecv") \/ Goto(w, "disconnect")
  /\ UNCHANGED <<status, mainVars, mCurrentConnectCount, mCurrentReturnCount, mConnected,
                 mRefCount, sendVars, ctx, sendList, portVars, sock, issued, revived>>

SendCompletionArmsReceive(w) ==                                      \* mutant
  LET s == Remote(w)
  IN  /\ pc[w] = "sendCompletion"
      /\ mSendBuffer' = [mSendBuffer EXCEPT ![s] = @ - ctx[w].n]
      /\ mSendPendingCount' = [mSendPendingCount EXCEPT ![s] = @ - 1]
      /\ Goto(w, "preRecv")
      /\ UNCHANGED <<status, mainVars, mCurrentConnectCount, mCurrentReturnCount, mConnected,
                     mRefCount, ctx, sendList, portVars, sock, issued, revived>>

\* Session::SendCompletion; a partial send closes the session.
SendCompletion(w) ==
  LET s == Remote(w)
  IN  /\ pc[w] = "sendCompletion"
      /\ mSendBuffer' = [mSendBuffer EXCEPT ![s] = @ - ctx[w].n]
      /\ mSendPendingCount' = [mSendPendingCount EXCEPT ![s] = @ - 1]
      /\ Goto(w, IF ctx[w].n = ctx[w].len THEN "drop" ELSE "disconnect")
      /\ UNCHANGED <<status, mainVars, mCurrentConnectCount, mCurrentReturnCount, mConnected,
                     mRefCount, ctx, sendList, portVars, sock, issued, revived>>

DisconnectCompletionLeaks(w) ==                                      \* mutant
  /\ pc[w] = "disconnectCompletion"
  /\ Goto(w, "drop")
  /\ UNCHANGED <<status, mainVars, mCurrentConnectCount, mCurrentReturnCount, mConnected,
                 mRefCount, sendVars, ctx, sendList, portVars, sock, issued, revived>>

\* Session::DisconnectCompletion releases the reference of ConnectSessions.
DisconnectCompletion(w) ==
  /\ pc[w] = "disconnectCompletion"
  /\ ReleaseRef(Remote(w))
  /\ issued' = [issued EXCEPT ![Remote(w)] = FALSE]
  /\ Goto(w, "drop")
  /\ UNCHANGED <<mainVars, mCurrentConnectCount, mConnected, sendVars, ctx, sendList,
                 portVars, sock, revived>>

-----------------------------------------------------------------------------
(* Closing a session.                                                        *)

\* DisconnectRequest returns to DisconnectSessions, or to DoIocpJob, which deletes
\* the context in hand, or to FlushSend, which has none.
AfterDisconnect(t) ==
  IF t = Main THEN "disconnectSessions" ELSE IF ctx[t] # NoContext THEN "drop" ELSE "flushed"

\* Session::DisconnectRequest in a worker: only the first caller finds
\* mConnected = 1.
DisconnectRequest(w) ==
  LET s == Remote(w)
  IN  /\ pc[w] = "disconnect"
      /\ mConnected' = [mConnected EXCEPT ![s] = 0]
      /\ Goto(w, IF IsConnected(s) THEN "disconnectCall" ELSE AfterDisconnect(w))
      /\ UNCHANGED <<status, mainVars, mCurrentConnectCount, mCurrentReturnCount, mRefCount,
                     sendVars, ctx, sendList, portVars, sock, issued, revived>>

\* Its DisconnectEx, in any thread.
DisconnectCall(t) ==
  LET s == Remote(t)
  IN  /\ pc[t] = "disconnectCall"
      /\ \/ Post("IO_DISCONNECT", s, 0) /\ sock' = [sock EXCEPT ![s] = "down"]
         \/ "DisconnectEx" \in Faults /\ Refused /\ UNCHANGED sock
      /\ Goto(t, AfterDisconnect(t))
      /\ UNCHANGED <<status, mainVars, mCurrentConnectCount, mCurrentReturnCount, mConnected,
                     sendVars, ctx, sendList, stops, issued, revived>>

\* DeleteIoContext of the context in hand, at the end of DoIocpJob.
DeleteIoContext(w) ==
  /\ pc[w] = "drop"
  /\ ReleaseRef(Remote(w))
  /\ ctx' = [ctx EXCEPT ![w] = NoContext]
  /\ Goto(w, "sendJob")
  /\ UNCHANGED <<mainVars, mCurrentConnectCount, mConnected, sendVars, sendList, portVars,
                 sock, issued, revived>>

-----------------------------------------------------------------------------
(* WorkerThread::DoSendJob.                                                  *)

SendJob(w) ==
  /\ pc[w] = "sendJob"
  /\ Goto(w, IF sendList[w] = << >> THEN "gqcs"
             ELSE IF IsConnected(Head(sendList[w])) THEN "flush" ELSE "disconnect")
  /\ UNCHANGED <<status, mainVars, mCurrentConnectCount, mCurrentReturnCount, mConnected,
                 mRefCount, sendVars, ctx, sendList, portVars, sock, issued, revived>>

\* The critical section of FlushSend when there is nothing it can send.
FlushNothing(w) ==
  LET s == Remote(w)
  IN  /\ pc[w] = "flush"
      /\ mSendBuffer[s] = 0 \/ mSendPendingCount[s] > 0
      /\ Goto(w, IF mSendPendingCount[s] = 0 THEN "flushed" ELSE "sendJob")
      /\ UNCHANGED <<status, mainVars, mCurrentConnectCount, mCurrentReturnCount, mConnected,
                     mRefCount, sendVars, ctx, sendList, portVars, sock, issued, revived>>

\* The critical section when there is: the send context counts a reference, which
\* may be the first again; when WSASend refuses it, it is deleted.
FlushSend(w) ==
  LET s == Remote(w)
  IN  /\ pc[w] = "flush"
      /\ mSendBuffer[s] > 0 /\ mSendPendingCount[s] = 0
      /\ revived' = (revived \/ mRefCount[s] = 0)
      /\ \/ /\ Post("IO_SEND", s, mSendBuffer[s])
            /\ mSendPendingCount' = [mSendPendingCount EXCEPT ![s] = @ + 1]
            /\ Goto(w, "flushed")
         \/ /\ "WSASend" \in Faults \/ sock[s] = "down"
            /\ mRefCount' = [mRefCount EXCEPT ![s] = @ + 1]
            /\ Goto(w, "flushRelease")
            /\ UNCHANGED <<ios, mSendPendingCount>>
      /\ UNCHANGED <<status, mainVars, mCurrentConnectCount, mCurrentReturnCount, mConnected,
                     mSendBuffer, ctx, sendList, stops, sock, issued>>

FlushRelease(w) ==
  /\ pc[w] = "flushRelease"
  /\ ReleaseRef(Remote(w))
  /\ Goto(w, "disconnect")
  /\ UNCHANGED <<mainVars, mCurrentConnectCount, mConnected, sendVars, ctx, sendList,
                 portVars, sock, issued, revived>>

FlushedKeepsSession(w) ==                                            \* mutant
  /\ pc[w] = "flushed"
  /\ Goto(w, "sendJob")
  /\ UNCHANGED <<status, mainVars, mCurrentConnectCount, mCurrentReturnCount, mConnected,
                 mRefCount, sendVars, ctx, sendList, portVars, sock, issued, revived>>

\* FlushSend returned TRUE: DoSendJob drops the session from the list.
Flushed(w) ==
  /\ pc[w] = "flushed"
  /\ sendList' = [sendList EXCEPT ![w] = Tail(@)]
  /\ Goto(w, "sendJob")
  /\ UNCHANGED <<status, mainVars, mCurrentConnectCount, mCurrentReturnCount, mConnected,
                 mRefCount, sendVars, ctx, portVars, sock, issued, revived>>

-----------------------------------------------------------------------------
\* After PrepareClientSessions and StartIoThreads.
Init ==
  /\ status = "running"
  /\ todo = Sessions
  /\ target \in Sessions
  /\ mCurrentConnectCount = 0 /\ mCurrentReturnCount = 0
  /\ mConnected        = [s \in Sessions |-> 0]
  /\ mRefCount         = [s \in Sessions |-> 0]
  /\ mSendPendingCount = [s \in Sessions |-> 0]
  /\ mSendBuffer       = [s \in Sessions |-> 0]
  /\ pc = [t \in Workers \cup {Main} |-> IF t = Main THEN "connect" ELSE "gqcs"]
  /\ ctx      = [w \in Workers |-> NoContext]
  /\ sendList = [w \in Workers |-> << >>]
  /\ ios = {}
  /\ stops = 0
  /\ sock = [s \in Sessions |-> "idle"]
  /\ issued = [s \in Sessions |-> FALSE]
  /\ revived = FALSE

MainStep ==
  \/ \E s \in Sessions : ConnectRequest(s) \/ DisconnectSession(s)
  \/ StopIoThreads \/ DisconnectCall(Main) \/ Exit

\* Everything a worker does by itself, without waiting for a completion.
Step(w) ==
  \/ ConnectCompletion(w) \/ PreRecv(w) \/ PreRecvCall(w) \/ Unconnect(w)
  \/ Established(w) \/ SendRequest(w) \/ PostRecv(w) \/ PostRecvCall(w)
  \/ RecvCompletion(w) \/ SendCompletion(w) \/ DisconnectCompletion(w)
  \/ DisconnectRequest(w) \/ DisconnectCall(w) \/ DeleteIoContext(w)
  \/ SendJob(w) \/ FlushNothing(w) \/ FlushSend(w) \/ FlushRelease(w) \/ Flushed(w)

\* A failed assertion, and the return of main, end the process.
Next ==
  /\ status = "running"
  /\ \/ MainStep \/ GetChar
     \/ \E w \in Workers : Step(w) \/ StopNow(w) \/ \E c \in ios : Dequeue(w, c)

Spec == Init /\ [][Next]_vars

-----------------------------------------------------------------------------
MainLabels == {"connect", "disconnectSessions", "disconnectCall", "wait", "ended"}

WorkerLabels ==
  { "gqcs", "connectCompletion", "preRecv", "preRecvCall", "unconnect", "established",
    "sendRequest", "postRecv", "postRecvCall", "recvCompletion", "sendCompletion",
    "disconnectCompletion", "disconnect", "disconnectCall", "drop", "sendJob", "flush",
    "flushRelease", "flushed", "ended" }

Contexts ==
  [type : {"IO_CONNECT", "IO_DISCONNECT", "IO_RECV_ZERO", "IO_RECV", "IO_SEND"},
   sess : Sessions, len : 0..LoginSize, n : 0..LoginSize]

\* Type invariant.
TypeOK ==
  /\ status \in {"running", "crashed", "aborted", "exited"}
  /\ todo \subseteq Sessions /\ target \in Sessions
  /\ mCurrentConnectCount \in Nat /\ mCurrentReturnCount \in Nat
  /\ mConnected \in [Sessions -> {0, 1}]
  /\ mRefCount \in [Sessions -> Int]
  /\ mSendPendingCount \in [Sessions -> 0..1]
  /\ mSendBuffer \in [Sessions -> 0..LoginSize]
  /\ pc \in [Workers \cup {Main} -> MainLabels \cup WorkerLabels]
  /\ ctx \in [Workers -> Contexts \cup {NoContext}]
  /\ sendList \in [Workers -> Seq(Sessions)]
  /\ ios \subseteq Contexts
  /\ stops \in 0..Cardinality(Workers)
  /\ sock \in [Sessions -> {"idle", "established", "refused", "down"}]
  /\ issued \in [Sessions -> BOOLEAN]
  /\ revived \in BOOLEAN

InFlight(s) == {c \in ios : c.sess = s}
Handlers(s) == {w \in Workers : ctx[w] # NoContext /\ Remote(w) = s}
Flushers(s) == {w \in Workers : pc[w] = "flushRelease" /\ Remote(w) = s}

References(s) ==
  (IF issued[s] THEN 1 ELSE 0) + Cardinality(InFlight(s)) + Cardinality(Handlers(s))
    + Cardinality(Flushers(s))

\* The reference count of a session is at every moment the number of its
\* references, of which the one taken by ConnectSessions outlives every failure of
\* connecting and is released by DisconnectCompletion alone.  Unlike in the
\* server this holds even for a session that a FlushSend has revived, because
\* nothing resets a count.
RefCountIsReferences == \A s \in Sessions : mRefCount[s] = References(s)

\* mCurrentReturnCount counts the sessions that nobody refers to any more, each
\* once, unless a FlushSend without a reference revives one: OnRelease is not
\* called early, and never twice (Session.cpp:225-234).
ReturnsAreCounted ==
  ~revived =>
    mCurrentReturnCount =
      Cardinality({s \in Sessions : References(s) = 0 /\ ~(pc[Main] = "connect" /\ s \in todo)})

\* The assertions about sessions hold: a session is not connected when it is told
\* to connect (DummyClientSession.cpp:49-54), nor when its connection is complete
\* (:106-109), and its count never becomes negative (Session.cpp:228).
NeverCrashes == status # "crashed"

Receiving == {"IO_CONNECT", "IO_RECV_ZERO", "IO_RECV"}

\* One operation or handler at a time works on the receiving side of a session:
\* mRecvBuffer has no lock.  PacketStream rests on this.
OneReceiver ==
  \A s \in Sessions :
    Cardinality({c \in InFlight(s) : c.type \in Receiving})
      + Cardinality({w \in Handlers(s) :
          ctx[w].type \in Receiving /\ pc[w] \notin {"established", "sendRequest", "drop"}}) <= 1

-----------------------------------------------------------------------------
\* As in IocpServer; servers owe nothing but to accept or refuse.
Due(c) == c.type \in {"IO_CONNECT", "IO_SEND", "IO_DISCONNECT"} \/ sock[c.sess] = "down"

DueCompletion == \E w \in Workers : \E c \in ios : Due(c) /\ Dequeue(w, c)

\* Threads are scheduled, due operations complete, and the port, a queue, does not
\* hold a CK_STOP_NOW back for ever.  Nobody has to hit a key.
Fairness ==
  /\ WF_vars(status = "running" /\ MainStep)
  /\ WF_vars(status = "running" /\ DueCompletion)
  /\ SF_vars(status = "running" /\ \E w \in Workers : StopNow(w))
  /\ \A w \in Workers : WF_vars(status = "running" /\ Step(w))

FairSpec == Spec /\ Fairness

Stopping == pc[Main] \in {"wait", "ended"}

\* A CK_STOP_NOW that could not be posted will be missing.
StopLost ==
  pc[Main] = "wait" /\ stops + Cardinality({w \in Workers : pc[w] = "ended"}) < Cardinality(Workers)

\* Once the key is hit the program comes to its end, whatever the workers and the
\* connections are doing at that moment: every worker gets its CK_STOP_NOW, none
\* is caught in DoSendJob waiting for a completion nobody dequeues any more
\* (DummyClients.cpp:79-94, IocpManager.cpp:110-126).  A CK_STOP_NOW that cannot be
\* posted is the one exception: a worker then waits for it for ever.
Terminates == pc[Main] = "disconnectSessions" ~> status # "running" \/ StopLost

\* A session whose socket DisconnectEx has taken down loses its last reference,
\* unless the workers are being stopped before that.
ClosedSessionsAreReleased ==
  \A s \in Sessions : sock[s] = "down" ~> mRefCount[s] = 0 \/ Stopping \/ status # "running"
=============================================================================
