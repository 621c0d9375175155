-------------------------- MODULE IocpServerProofs --------------------------
(***************************************************************************)
(* Proofs about IocpServer, for any number of sessions and workers, any    *)
(* faults and any bounds.                                                  *)
(***************************************************************************)
EXTENDS IocpServer, BufferLemmas, FiniteSetTheorems, SequenceTheorems, TLAPS

N == Cardinality(Sessions)

\* Control: labels, contexts and lists are what they should be, and a worker that
\* is not idle has a session to work on (Remote is defined).
Sound(c) ==
  /\ c.type \in IOTypes /\ c.sess \in Sessions
  /\ c = [type |-> c.type, sess |-> c.sess, gen |-> c.gen, at |-> c.at, len |-> c.len,
          n |-> c.n]

LEMMA SoundContext ==
  ASSUME NEW c, Sound(c)
  PROVE  /\ c # NoContext /\ c.type \in IOTypes /\ c.sess \in Sessions
         /\ \A k : Sound([c EXCEPT !.n = k])
<1>1. c # NoContext
  BY DEF Sound, NoContext, IOTypes
<1>2. ASSUME NEW k PROVE Sound([c EXCEPT !.n = k])
  <2> DEFINE d == [type |-> c.type, sess |-> c.sess, gen |-> c.gen, at |-> c.at,
                   len |-> c.len, n |-> k]
  <2>1. [c EXCEPT !.n = k] = d
    BY DEF Sound
  <2>2. Sound(d)
    BY DEF Sound
  <2> HIDE DEF d
  <2>3. QED BY <2>1, <2>2
<1>3. QED BY <1>1, <1>2 DEF Sound

\* Between two completions, and in FlushSend, a worker has no context in hand.
WithoutContext == {"gqcs", "sendJob", "flush", "flushRelease", "flushed"}

ControlInv ==
  /\ pc \in [Workers -> Labels]
  /\ ret \in [Workers -> {"sendJob", "drop", "disconnect"}]
  /\ sendList \in [Workers -> Seq(Sessions)]
  /\ ctx = [w \in Workers |-> ctx[w]]
  /\ \A w \in Workers : ctx[w] = NoContext \/ Sound(ctx[w])
  /\ \A c \in ios : Sound(c)
  /\ \A w \in Workers :
       /\ pc[w] \notin {"gqcs", "sendJob"} => ctx[w] # NoContext \/ sendList[w] # << >>
       /\ pc[w] \in WithoutContext => ctx[w] = NoContext

\* The two counters tell how long the free list is.
PoolInv ==
  /\ mFreeSessionList \in Seq(Sessions)
  /\ mCurrentIssueCount \in Nat /\ mCurrentReturnCount \in Nat
  /\ Len(mFreeSessionList) + mCurrentIssueCount = N + mCurrentReturnCount

IInv == ControlInv /\ PoolInv

LEMMA NIsNat == N \in Nat \ {0}
  BY SessionsAssumption, FS_CardinalityType, FS_EmptySet DEF N

\* A worker that is not idle works on a session.
LEMMA RemoteIsSession ==
  ASSUME ControlInv, NEW w \in Workers, pc[w] \notin {"gqcs", "sendJob"}
  PROVE  Remote(w) \in Sessions
<1>1. CASE ctx[w] # NoContext
  BY <1>1, SoundContext DEF ControlInv, Remote
<1>2. CASE ctx[w] = NoContext
  BY <1>2 DEF ControlInv, Remote
<1>3. QED BY <1>1, <1>2

\* While a worker goes on in its current job, with its context and its list, only
\* its label and the contexts in flight matter.
LEMMA ContinueControl ==
  ASSUME ControlInv, NEW w \in Workers, NEW l \in Labels,
         pc[w] \notin {"gqcs", "sendJob"} \/ sendList[w] # << >> \/ l = "gqcs",
         l \notin WithoutContext \/ ctx[w] = NoContext, Goto(w, l), UNCHANGED <<ctx, ret, sendList>>,
         \A c \in ios' : c \in ios \/ Sound(c)
  PROVE  ControlInv'
  BY DEF ControlInv, Goto, WithoutContext

LEMMA InitIInv == Init => IInv
<1> SUFFICES ASSUME Init PROVE IInv
  OBVIOUS
<1>1. PICK q \in [1..N -> Sessions] : mFreeSessionList = q
  BY DEF Init, N
<1>2. q \in Seq(Sessions) /\ Len(q) = N
  BY NIsNat
<1>3. PoolInv
  BY <1>1, <1>2, NIsNat DEF PoolInv, Init
<1>4. ControlInv
  BY DEF ControlInv, Init, Labels, WithoutContext
<1>5. QED BY <1>3, <1>4 DEF IInv

\* The accept loop takes a session off the list and counts one more issue.
LEMMA AcceptKeepsIInv == ASSUME IInv, Accept PROVE IInv'
<1>1. CASE AcceptEnter
  BY <1>1 DEF AcceptEnter, IInv, ControlInv, PoolInv, workerVars
<1>2. CASE AcceptLeave
  BY <1>2 DEF AcceptLeave, IInv, ControlInv, PoolInv, workerVars
<1>3. CASE AcceptIssue
  <2> DEFINE last == Len(mFreeSessionList)
             s    == mFreeSessionList[last]
  <2>1. last \in Nat \ {0}
    BY <1>3, NIsNat DEF AcceptIssue, BelowMaximum, IInv, PoolInv, N
  <2>2. s \in Sessions
    BY <2>1 DEF IInv, PoolInv
  <2>3. PoolInv'
    <3>1. mFreeSessionList' = SubSeq(mFreeSessionList, 1, last - 1)
      BY <1>3 DEF AcceptIssue
    <3>2. mFreeSessionList' \in Seq(Sessions) /\ Len(mFreeSessionList') = last - 1
      <4>1. \A i \in 1..(last - 1) : mFreeSessionList[i] \in Sessions
        BY <2>1 DEF IInv, PoolInv
      <4>2. last - 1 \in Int /\ 1 \in Int
        BY <2>1
      <4> HIDE DEF last
      <4>3. QED BY <2>1, <3>1, <4>1, <4>2, SubSeqProperties
    <3>3. mCurrentIssueCount' = mCurrentIssueCount + 1 /\ UNCHANGED mCurrentReturnCount
      BY <1>3 DEF AcceptIssue
    <3>4. QED
      BY <2>1, <3>2, <3>3, NIsNat DEF IInv, PoolInv
  <2>4. \A c \in ios' : c \in ios \/ Sound(c)
    <3>1. ASSUME NEW g, NEW a, NEW l, NEW k
          PROVE  Sound([type |-> "IO_ACCEPT", sess |-> s, gen |-> g, at |-> a, len |-> l, n |-> k])
      BY <2>2 DEF Sound, IOTypes
    <3>2. [Context("IO_ACCEPT", s, 0, 0) EXCEPT !.gen = @ + 1] =
            [type |-> "IO_ACCEPT", sess |-> s, gen |-> gen[s] + 1, at |-> 0, len |-> 0, n |-> 0]
      BY DEF Context
    <3> HIDE DEF s
    <3>3. QED BY <1>3, <3>1, <3>2 DEF AcceptIssue, s
  <2>5. UNCHANGED workerVars
    BY <1>3 DEF AcceptIssue
  <2>6. ControlInv'
    BY <2>4, <2>5 DEF IInv, ControlInv, workerVars
  <2>7. QED BY <2>3, <2>6 DEF IInv
<1>4. QED BY <1>1, <1>2, <1>3 DEF Accept

\* Every step of a worker inside its job leaves the pool alone.
LEMMA DequeueKeepsIInv ==
  ASSUME IInv, NEW w \in Workers, NEW c \in ios, Dequeue(w, c)
  PROVE  IInv'
<1>1. PICK n \in Outcomes(c) :
        /\ ctx' = [ctx EXCEPT ![w] = [c EXCEPT !.n = n]]
        /\ Goto(w, Handler(c, n))
  BY DEF Dequeue
<1>2. Sound(c) /\ Handler(c, n) \in Labels \ WithoutContext
  BY SoundContext DEF IInv, ControlInv, Handler, Labels, IOTypes, WithoutContext
<1>3. Sound([c EXCEPT !.n = n]) /\ [c EXCEPT !.n = n] # NoContext
  BY <1>2, SoundContext
<1>4. UNCHANGED <<ret, sendList, poolVars>> /\ ios' = ios \ {c}
  BY DEF Dequeue
<1>5. ControlInv'
  BY <1>1, <1>2, <1>3, <1>4 DEF IInv, ControlInv, Goto, WithoutContext
<1>6. QED BY <1>4, <1>5 DEF IInv, PoolInv, poolVars

\* A worker that only changes its label, and possibly posts a context.
LEMMA PostIsSound ==
  ASSUME ControlInv, NEW w \in Workers, pc[w] \notin {"gqcs", "sendJob"},
         NEW type \in IOTypes, NEW at, NEW len, Post(w, type, at, len)
  PROVE  \A c \in ios' : c \in ios \/ Sound(c)
<1>1. Remote(w) \in Sessions
  BY RemoteIsSession
<1>2. Sound(Context(type, Remote(w), at, len))
  BY <1>1 DEF Sound, Context
<1>3. QED BY <1>2 DEF Post

LEMMA ContinueKeepsIInv ==
  ASSUME IInv, NEW w \in Workers, NEW l \in Labels,
         pc[w] \notin {"gqcs", "sendJob"}, Goto(w, l),
         l \notin WithoutContext \/ ctx[w] = NoContext,
         UNCHANGED <<ctx, ret, sendList>>,
         UNCHANGED <<mFreeSessionList, mCurrentIssueCount, mCurrentReturnCount>>,
         \A c \in ios' : c \in ios \/ Sound(c)
  PROVE  IInv'
  BY ContinueControl DEF IInv, PoolInv

\* Releasing a reference leads to the pool or to where the caller goes on.
LEMMA ReleaseKeepsIInv ==
  ASSUME IInv, NEW w \in Workers, NEW s,
         NEW next \in {"sendJob", "drop", "disconnect"},
         pc[w] \notin {"gqcs", "sendJob"}, ReleaseRef(w, s, next),
         UNCHANGED <<poolVars, sendList, ios>>
  PROVE  IInv'
<1>1. CASE mRefCount[s] = 1
  <2>1. Goto(w, "return") /\ ret' = [ret EXCEPT ![w] = next] /\ UNCHANGED ctx
    BY <1>1 DEF ReleaseRef
  <2>2. "return" \in Labels
    BY DEF Labels
  <2>3. ControlInv'
    BY <2>1, <2>2 DEF IInv, ControlInv, Goto, WithoutContext
  <2>4. QED BY <2>3 DEF IInv, PoolInv, poolVars
<1>2. CASE mRefCount[s] # 1
  <2>1. Resume(w, next) /\ UNCHANGED ret
    BY <1>2 DEF ReleaseRef
  <2>2. next \in Labels
    BY DEF Labels
  <2>3. ControlInv'
    BY <2>1, <2>2 DEF IInv, ControlInv, Goto, Resume, WithoutContext
  <2>4. QED BY <2>3 DEF IInv, PoolInv, poolVars
<1>3. QED BY <1>1, <1>2

\* A session that comes back lengthens the list and counts one more return.
LEMMA ReturnKeepsIInv ==
  ASSUME IInv, NEW w \in Workers, SessionResetSend(w)
  PROVE  IInv'
<1>1. Remote(w) \in Sessions
  BY RemoteIsSession DEF IInv, SessionResetSend
<1>2. /\ mFreeSessionList' = Append(mFreeSessionList, Remote(w))
      /\ mCurrentReturnCount' = mCurrentReturnCount + 1
      /\ UNCHANGED <<mCurrentIssueCount, sendList, ios>>
      /\ Resume(w, ret[w]) /\ ret' = [ret EXCEPT ![w] = "sendJob"]
      /\ pc[w] = "sessionResetSend"
  BY DEF SessionResetSend
<1>3. PoolInv'
  BY <1>1, <1>2, NIsNat DEF IInv, PoolInv
<1>4. ret[w] \in Labels
  BY DEF IInv, ControlInv, Labels
<1>5. ControlInv'
  BY <1>2, <1>4 DEF IInv, ControlInv, Resume, Goto, WithoutContext
<1>6. QED BY <1>3, <1>5 DEF IInv

\* The worker's own list grows in PostSend and shrinks in Flushed.
LEMMA PostSendKeepsIInv ==
  ASSUME IInv, NEW w \in Workers, PostSend(w)
  PROVE  IInv'
<1>1. Remote(w) \in Sessions
  BY RemoteIsSession DEF IInv, PostSend
<1>2. /\ pc[w] = "postSend" /\ Goto(w, "preRecv")
      /\ UNCHANGED <<poolVars, ctx, ret, ios>>
      /\ \/ sendList' = [sendList EXCEPT ![w] = Append(@, Remote(w))]
         \/ UNCHANGED sendList
  BY DEF PostSend
<1>3. sendList' \in [Workers -> Seq(Sessions)] /\ (sendList[w] # << >> => sendList'[w] # << >>)
      /\ \A v \in Workers \ {w} : sendList'[v] = sendList[v]
  <2>1. sendList[w] \in Seq(Sessions) /\ sendList \in [Workers -> Seq(Sessions)]
    BY DEF IInv, ControlInv
  <2>2. CASE sendList' = [sendList EXCEPT ![w] = Append(@, Remote(w))]
    <3>1. Append(sendList[w], Remote(w)) \in Seq(Sessions)
          /\ Append(sendList[w], Remote(w)) # << >>
      BY <2>1, <1>1
    <3>2. QED BY <2>1, <2>2, <3>1
  <2>3. CASE UNCHANGED sendList
    BY <2>1, <2>3
  <2>4. QED BY <1>2, <2>2, <2>3
<1>4. "preRecv" \in Labels
  BY DEF Labels
<1>5. ControlInv'
  BY <1>2, <1>3, <1>4 DEF IInv, ControlInv, Goto, WithoutContext
<1>6. QED BY <1>2, <1>5 DEF IInv, PoolInv, poolVars

LEMMA FlushedKeepsIInv ==
  ASSUME IInv, NEW w \in Workers, Flushed(w)
  PROVE  IInv'
<1>1. /\ pc[w] = "flushed" /\ Goto(w, "sendJob")
      /\ UNCHANGED <<poolVars, ctx, ret, ios>>
      /\ sendList' = [sendList EXCEPT ![w] = Tail(@)]
  BY DEF Flushed
<1>2. ctx[w] = NoContext /\ sendList[w] \in Seq(Sessions) /\ sendList[w] # << >>
  BY <1>1 DEF IInv, ControlInv, WithoutContext
<1>3. Tail(sendList[w]) \in Seq(Sessions)
  BY <1>2
<1>4. sendList' \in [Workers -> Seq(Sessions)] /\ \A v \in Workers \ {w} : sendList'[v] = sendList[v]
  BY <1>1, <1>3 DEF IInv, ControlInv
<1>5. "sendJob" \in Labels
  BY DEF Labels
<1>6. ControlInv'
  BY <1>1, <1>2, <1>4, <1>5 DEF IInv, ControlInv, Goto, WithoutContext
<1>7. QED BY <1>1, <1>6 DEF IInv, PoolInv, poolVars

\* One step per action of a worker.
LEMMA StepKeepsIInv ==
  ASSUME IInv, NEW w \in Workers, Step(w)
  PROVE  IInv'
<1> USE DEF Labels, WithoutContext, poolVars
<1>1. CASE AcceptCompletion(w)
  BY <1>1, ContinueKeepsIInv DEF AcceptCompletion
<1>1a. CASE AcceptSetup(w)
  BY <1>1a, ContinueKeepsIInv DEF AcceptSetup
<1>2. CASE PreRecv(w)
  BY <1>2, ContinueKeepsIInv DEF PreRecv, AfterPreRecv
<1>3. CASE PreRecvCall(w)
  BY <1>3, ContinueKeepsIInv, PostIsSound DEF PreRecvCall, AfterPreRecv, Refused, IInv, IOTypes
<1>4. CASE PostRecv(w)
  BY <1>4, ContinueKeepsIInv DEF PostRecv
<1>5. CASE PostRecvCall(w)
  BY <1>5, ContinueKeepsIInv, PostIsSound DEF PostRecvCall, Refused, IInv, IOTypes
<1>6. CASE SendCompletion(w)
  BY <1>6, ContinueKeepsIInv DEF SendCompletion
<1>7. CASE RecvCompletion(w)
  BY <1>7, ContinueKeepsIInv DEF RecvCompletion
<1>8. CASE PostSend(w)
  BY <1>8, PostSendKeepsIInv
<1>9. CASE DisconnectCompletion(w)
  BY <1>9, ReleaseKeepsIInv DEF DisconnectCompletion
<1>10. CASE DisconnectRequest(w)
  BY <1>10, ContinueKeepsIInv DEF DisconnectRequest, AfterDisconnect
<1>11. CASE DisconnectCall(w)
  BY <1>11, ContinueKeepsIInv, PostIsSound
     DEF DisconnectCall, AfterDisconnect, Refused, IInv, IOTypes
<1>12. CASE DeleteIoContext(w)
  BY <1>12, ReleaseKeepsIInv DEF DeleteIoContext
<1>13. CASE ReturnClientSession(w)
  BY <1>13, ContinueKeepsIInv DEF ReturnClientSession
<1>14. CASE SessionReset(w)
  BY <1>14, ContinueKeepsIInv DEF SessionReset
<1>15. CASE SessionResetSend(w)
  BY <1>15, ReturnKeepsIInv
<1>16. CASE SendJob(w)
  BY <1>16, ContinueControl DEF SendJob, IInv, ControlInv, PoolInv
<1>17. CASE FlushNothing(w)
  BY <1>17, ContinueKeepsIInv DEF FlushNothing, IInv, ControlInv
<1>18. CASE FlushSend(w)
  BY <1>18, ContinueKeepsIInv, PostIsSound DEF FlushSend, IInv, ControlInv, IOTypes
<1>19. CASE FlushRelease(w)
  BY <1>19, ReleaseKeepsIInv DEF FlushRelease
<1>20. CASE Flushed(w)
  BY <1>20, FlushedKeepsIInv
<1>21. QED
  BY <1>1, <1>1a, <1>2, <1>3, <1>4, <1>5, <1>6, <1>7, <1>8, <1>9, <1>10, <1>11, <1>12,
     <1>13, <1>14, <1>15, <1>16, <1>17, <1>18, <1>19, <1>20 DEF Step

\* AcceptClientSessions never takes a session off an empty list, although it
\* only looks at its two counters: they differ from MAX_CONNECTION by exactly
\* the length of the list, at every moment.
THEOREM CountersTellListLength == Spec => []NeverPopsEmptyList
<1>1. IInv /\ [Next]_vars => IInv'
  <2> SUFFICES ASSUME IInv, [Next]_vars PROVE IInv'
    OBVIOUS
  <2>1. CASE Accept
    BY <2>1, AcceptKeepsIInv
  <2>2. ASSUME NEW w \in Workers, GetQueuedCompletionStatus(w) PROVE IInv'
    BY <2>2, DequeueKeepsIInv DEF GetQueuedCompletionStatus
  <2>3. ASSUME NEW w \in Workers, Step(w) PROVE IInv'
    BY <2>3, StepKeepsIInv
  <2>4. CASE UNCHANGED vars
    BY <2>4 DEF vars, workerVars, poolVars, IInv, ControlInv, PoolInv
  <2>5. QED BY <2>1, <2>2, <2>3, <2>4 DEF Next
<1>2. IInv => NeverPopsEmptyList
  BY NIsNat DEF IInv, PoolInv, NeverPopsEmptyList, BelowMaximum, N
<1>3. QED BY InitIInv, <1>1, <1>2, PTL DEF Spec

-----------------------------------------------------------------------------
(***************************************************************************)
(* References: the reference count of a session is the number of its       *)
(* references, and what follows from it, as long as no FlushSend has       *)
(* revived a released session.                                             *)
(***************************************************************************)

(* The inductive invariant.                                                  *)

\* The handlers that have a context in hand, and the operations it can be of.
Holding ==
  { "acceptCompletion", "acceptSetup", "preRecv", "preRecvCall", "postRecv",
    "postRecvCall", "sendCompletion", "recvCompletion", "postSend",
    "disconnectCompletion", "drop" }

KindOf(label) ==
  CASE label \in {"acceptCompletion", "acceptSetup"} -> {"IO_ACCEPT"}
    [] label \in {"preRecv", "preRecvCall"}   -> {"IO_ACCEPT", "IO_RECV"}
    [] label \in {"postRecv", "postRecvCall"} -> {"IO_RECV_ZERO"}
    [] label = "sendCompletion"              -> {"IO_SEND"}
    [] label \in {"recvCompletion", "postSend"} -> {"IO_RECV"}
    [] label = "disconnectCompletion"        -> {"IO_DISCONNECT"}
    [] OTHER                                 -> IOTypes

\* The worker will delete the context, or is working on it.
Holds(w) == pc[w] \in Holding \/ (Returning(w) /\ ret[w] = "drop")

Kinds ==
  /\ IsFiniteSet(ios)
  /\ \A w \in Workers :
       /\ Holds(w) => ctx[w] # NoContext
       /\ ctx[w] # NoContext => ctx[w].type \in KindOf(pc[w])

Fields ==
  /\ mConnected \in [Sessions -> {0, 1}]
  /\ mRefCount \in [Sessions -> Int]
  /\ issued \in [Sessions -> BOOLEAN]
  /\ gen \in [Sessions -> Nat]
  /\ sock \in [Sessions -> SocketStates]
  /\ mSendBuffer = [s \in Sessions |-> mSendBuffer[s]]
  /\ mRecvBuffer = [s \in Sessions |-> mRecvBuffer[s]]
  /\ rcvd = [s \in Sessions |-> rcvd[s]]

\* At most one operation in flight, or one worker.
AtMostOne(A, B) ==
  /\ \A x, y \in A : x = y
  /\ \A x, y \in B : x = y
  /\ A = {} \/ B = {}

\* The send of a session is in flight or at its completion; then it is pending.
SendIos(s)     == {c \in ios : c.sess = s /\ c.type = "IO_SEND"}
SendWorkers(s) == {w \in Workers : pc[w] = "sendCompletion" /\ Remote(w) = s}

SendInv ==
  /\ mSendPendingCount \in [Sessions -> {0, 1}]
  /\ \A s \in Sessions :
       /\ AtMostOne(SendIos(s), SendWorkers(s))
       /\ mSendPendingCount[s] = 0 => SendIos(s) = {} /\ SendWorkers(s) = {}

Base == IInv /\ Kinds /\ Fields /\ SendInv

\* A client's session is being accepted, or is connected, or is being disconnected.
StageIos(s) == {c \in ios : c.sess = s /\ c.type \in {"IO_ACCEPT", "IO_DISCONNECT"}}
StageWorkers(s) ==
  {w \in Workers : /\ pc[w] \in {"acceptCompletion", "disconnectCall", "disconnectCompletion"}
                   /\ Remote(w) = s}

Stages ==
  \A s \in Sessions :
    /\ AtMostOne(StageIos(s), StageWorkers(s))
    /\ mConnected[s] = 1 => StageIos(s) = {} /\ StageWorkers(s) = {}
    /\ mConnected[s] = 1 \/ StageIos(s) # {} \/ StageWorkers(s) # {} => issued[s]
    /\ sock[s] \in {"down", "lost"} =>
         /\ mConnected[s] = 0
         /\ \A c \in StageIos(s) : c.type # "IO_ACCEPT"
         /\ \A w \in StageWorkers(s) : pc[w] # "acceptCompletion"

\* Who works on the receive side of a session.
ReceiveTypes == {"IO_ACCEPT", "IO_RECV_ZERO", "IO_RECV"}
ReceiveIos(s) == {c \in ios : c.sess = s /\ c.type \in ReceiveTypes}
ReceiveWorkers(s) ==
  {w \in Handlers(s) : ctx[w].type \in ReceiveTypes /\ pc[w] # "drop" /\ ~Returning(w)}

Receives == \A s \in Sessions : AtMostOne(ReceiveIos(s), ReceiveWorkers(s))

Listening ==
  \A s \in Sessions :
    /\ IsConnected(s) /\ ReceiveIos(s) = {} /\ ReceiveWorkers(s) = {} =>
         "WSARecv" \in Faults /\ rcvd[s] = << >>
    /\ \A c \in ReceiveIos(s) : c.type = "IO_ACCEPT" => rcvd[s] = << >>
    /\ \A w \in ReceiveWorkers(s) : ctx[w].type = "IO_ACCEPT" => rcvd[s] = << >>

Counted == \A s \in Sessions : mRefCount[s] = References(s)

\* A session is in the list, or on its way there, at most once, and nobody refers
\* to it then.
Returners(s) == {w \in Workers : Returning(w) /\ Remote(w) = s}

Idle ==
  /\ \A i, j \in DOMAIN mFreeSessionList : mFreeSessionList[i] = mFreeSessionList[j] => i = j
  /\ \A s \in Sessions :
       /\ \A v, w \in Returners(s) : v = w
       /\ InFreeList(s) => Returners(s) = {}
       /\ InFreeList(s) \/ Returners(s) # {} => mRefCount[s] = 0
  /\ \A w \in Workers : Returning(w) => (ctx[w] # NoContext <=> ret[w] = "sendJob")

Current ==
  /\ \A c \in ios : c.gen = gen[c.sess]
  /\ \A s \in Sessions : \A w \in Handlers(s) : ctx[w].gen = gen[s]

Clean ==
  \A s \in Sessions :
    /\ InFreeList(s) =>
         sock[s] = "new" /\ mSendBuffer[s] = BufferReset /\ mRecvBuffer[s] = BufferReset
    /\ \A w \in Returners(s) : pc[w] = "sessionResetSend" => mRecvBuffer[s] = BufferReset

Live ==
  /\ status # "crashed"
  /\ Counted /\ Idle /\ Stages /\ Receives /\ Listening /\ Current /\ Clean

RefInv == Base /\ (~resurrected => Live)

-----------------------------------------------------------------------------
(* Lemmas on the parts.                                                      *)

\* How the two sets of an AtMostOne may change.
LEMMA FewerIsFine ==
  ASSUME NEW A, NEW B, NEW C, NEW D, AtMostOne(A, B), C \subseteq A, D \subseteq B
  PROVE  AtMostOne(C, D)
  BY DEF AtMostOne

LEMMA LeftToRight ==
  ASSUME NEW A, NEW B, NEW C, NEW D, NEW x \in A, NEW y, AtMostOne(A, B),
         C \subseteq A \ {x}, D \subseteq B \cup {y}
  PROVE  AtMostOne(C, D)
  BY DEF AtMostOne

LEMMA RightToLeft ==
  ASSUME NEW A, NEW B, NEW C, NEW D, NEW y \in B, NEW x, AtMostOne(A, B),
         C \subseteq A \cup {x}, D \subseteq B \ {y}
  PROVE  AtMostOne(C, D)
  BY DEF AtMostOne

\* The sets of references are finite.
LEMMA ReferencesAreCounted ==
  ASSUME Base, NEW s \in Sessions
  PROVE  /\ IsFiniteSet(InFlight(s)) /\ IsFiniteSet(Handlers(s)) /\ IsFiniteSet(Flushers(s))
         /\ Cardinality(InFlight(s)) \in Nat /\ Cardinality(Handlers(s)) \in Nat
         /\ Cardinality(Flushers(s)) \in Nat
         /\ References(s) \in Nat
         /\ References(s) = 0 =>
              ~issued[s] /\ InFlight(s) = {} /\ Handlers(s) = {} /\ Flushers(s) = {}
<1>1. InFlight(s) \subseteq ios /\ Handlers(s) \subseteq Workers /\ Flushers(s) \subseteq Workers
  BY DEF InFlight, Handlers, Flushers
<1>2. IsFiniteSet(InFlight(s)) /\ IsFiniteSet(Handlers(s)) /\ IsFiniteSet(Flushers(s))
  BY <1>1, FS_Subset, WorkersAssumption DEF Base, Kinds
<1>3. /\ Cardinality(InFlight(s)) \in Nat /\ Cardinality(Handlers(s)) \in Nat
      /\ Cardinality(Flushers(s)) \in Nat
  BY <1>2, FS_CardinalityType
<1>4. References(s) \in Nat
  BY <1>3 DEF References
<1>5. ASSUME References(s) = 0
      PROVE  ~issued[s] /\ InFlight(s) = {} /\ Handlers(s) = {} /\ Flushers(s) = {}
  <2>1. /\ ~issued[s] /\ Cardinality(InFlight(s)) = 0 /\ Cardinality(Handlers(s)) = 0
        /\ Cardinality(Flushers(s)) = 0
    BY <1>3, <1>5 DEF References
  <2>2. QED BY <2>1, <1>2, FS_EmptySet
<1>6. QED BY <1>2, <1>3, <1>4, <1>5

\* While somebody refers to a session, it is neither free nor being returned.
LEMMA ReferredIsBusy ==
  ASSUME Base, Live, NEW s \in Sessions,
         issued[s] \/ InFlight(s) # {} \/ Handlers(s) # {} \/ Flushers(s) # {}
  PROVE  mRefCount[s] \in Nat \ {0} /\ ~InFreeList(s) /\ Returners(s) = {}
<1>1. References(s) \in Nat /\ References(s) # 0
  BY ReferencesAreCounted
<1>2. QED BY <1>1 DEF Live, Counted, Idle

LEMMA IdleIsUnreferred ==
  ASSUME Base, Live, NEW s \in Sessions, InFreeList(s) \/ Returners(s) # {}
  PROVE  /\ ~issued[s] /\ InFlight(s) = {} /\ Handlers(s) = {} /\ Flushers(s) = {}
         /\ mRefCount[s] = 0 /\ References(s) = 0 /\ mConnected[s] = 0
<1>1. ~issued[s] /\ InFlight(s) = {} /\ Handlers(s) = {} /\ Flushers(s) = {}
  BY ReferredIsBusy
<1>2. mRefCount[s] = 0 /\ References(s) = 0
  BY DEF Live, Counted, Idle
<1>3. mConnected[s] = 0
  BY <1>1 DEF Live, Stages, Base, Fields
<1>4. QED BY <1>1, <1>2, <1>3

-----------------------------------------------------------------------------
(* A step of one worker.                                                     *)

ReturnLabels == {"return", "sessionReset", "sessionResetSend"}
StageLabels  == {"acceptCompletion", "disconnectCall", "disconnectCompletion"}

Others(w) ==
  \A v \in Workers \ {w} :
    pc'[v] = pc[v] /\ ctx'[v] = ctx[v] /\ ret'[v] = ret[v] /\ sendList'[v] = sendList[v]

LEMMA OthersStay ==
  ASSUME NEW w \in Workers, Others(w), NEW v \in Workers \ {w}, NEW s
  PROVE  /\ v \in Handlers(s)' <=> v \in Handlers(s)
         /\ v \in Flushers(s)' <=> v \in Flushers(s)
         /\ v \in Returners(s)' <=> v \in Returners(s)
         /\ v \in StageWorkers(s)' <=> v \in StageWorkers(s)
         /\ v \in SendWorkers(s)' <=> v \in SendWorkers(s)
         /\ v \in ReceiveWorkers(s)' <=> v \in ReceiveWorkers(s)
<1>1. pc'[v] = pc[v] /\ ctx'[v] = ctx[v] /\ ret'[v] = ret[v] /\ sendList'[v] = sendList[v]
  BY DEF Others
<1>2. Remote(v)' = Remote(v) /\ Returning(v)' = Returning(v)
  BY <1>1 DEF Remote, Returning
<1>3. v \in Handlers(s)' <=> v \in Handlers(s)
  BY <1>1, <1>2 DEF Handlers
<1>4. v \in ReceiveWorkers(s)' <=> v \in ReceiveWorkers(s)
  BY <1>1, <1>2, <1>3 DEF ReceiveWorkers
<1>5. v \in Flushers(s)' <=> v \in Flushers(s)
  BY <1>1 DEF Flushers
<1>6. QED
  BY <1>1, <1>2, <1>3, <1>4, <1>5 DEF Returners, StageWorkers, SendWorkers

\* The worker goes on in its job: another label, the same context and session.
Walk(w, l) ==
  /\ pc' = [pc EXCEPT ![w] = l]
  /\ UNCHANGED <<ctx, ret>>
  /\ Remote(w)' = Remote(w)
  /\ \A v \in Workers \ {w} : sendList'[v] = sendList[v]

\* It is not about to return a session, nor to give up a context of FlushSend.
Plain(l) == l \notin ReturnLabels \cup {"flushRelease"}

LEMMA WalkSets ==
  ASSUME Base, NEW w \in Workers, NEW l, Walk(w, l), Plain(pc[w]), Plain(l), NEW s
  PROVE  /\ Handlers(s)' = Handlers(s)
         /\ Flushers(s)' = Flushers(s)
         /\ Returners(s)' = Returners(s)
         /\ \A v \in StageWorkers(s)' :
               (v \in StageWorkers(s) /\ v # w) \/ (v = w /\ l \in StageLabels /\ Remote(w) = s)
         /\ \A v \in SendWorkers(s)' :
               (v \in SendWorkers(s) /\ v # w) \/ (v = w /\ l = "sendCompletion" /\ Remote(w) = s)
         /\ \A v : v \in ReceiveWorkers(s)' <=>
               \/ v \in ReceiveWorkers(s) /\ v # w
               \/ v = w /\ l # "drop" /\ w \in Handlers(s) /\ ctx[w].type \in ReceiveTypes
<1>0. pc \in [Workers -> Labels]
  BY DEF Base, IInv, ControlInv
<1>1. pc'[w] = l /\ ctx' = ctx /\ ret' = ret /\ Remote(w)' = Remote(w)
  BY <1>0 DEF Walk
<1>2. Others(w)
  BY <1>0 DEF Walk, Others
<1>3. ~Returning(w) /\ ~Returning(w)' /\ pc[w] # "flushRelease" /\ l # "flushRelease"
  BY <1>1 DEF Plain, Returning, ReturnLabels
<1>4. w \in Handlers(s)' <=> w \in Handlers(s)
  BY <1>1, <1>3 DEF Handlers
<1>5. Handlers(s)' = Handlers(s)
  <2>1. Handlers(s)' \subseteq Workers /\ Handlers(s) \subseteq Workers
    BY DEF Handlers
  <2>2. QED BY <2>1, <1>4, <1>2, OthersStay
<1>6. Flushers(s)' = Flushers(s)
  <2>1. Flushers(s)' \subseteq Workers /\ Flushers(s) \subseteq Workers
        /\ w \notin Flushers(s) /\ w \notin Flushers(s)'
    BY <1>1, <1>3 DEF Flushers
  <2>2. QED BY <2>1, <1>2, OthersStay
<1>7. Returners(s)' = Returners(s)
  <2>1. Returners(s)' \subseteq Workers /\ Returners(s) \subseteq Workers
        /\ w \notin Returners(s) /\ w \notin Returners(s)'
    BY <1>3 DEF Returners
  <2>2. QED BY <2>1, <1>2, OthersStay
<1>8. ASSUME NEW v \in StageWorkers(s)'
      PROVE  (v \in StageWorkers(s) /\ v # w) \/ (v = w /\ l \in StageLabels /\ Remote(w) = s)
  <2>1. v \in Workers
    BY DEF StageWorkers
  <2>2. CASE v = w
    BY <2>2, <1>1 DEF StageWorkers, StageLabels
  <2>3. QED BY <2>1, <2>2, <1>2, OthersStay
<1>9. ASSUME NEW v \in SendWorkers(s)'
      PROVE  (v \in SendWorkers(s) /\ v # w) \/ (v = w /\ l = "sendCompletion" /\ Remote(w) = s)
  <2>1. v \in Workers
    BY DEF SendWorkers
  <2>2. CASE v = w
    BY <2>2, <1>1 DEF SendWorkers
  <2>3. QED BY <2>1, <2>2, <1>2, OthersStay
<1>10. ASSUME NEW v
       PROVE  v \in ReceiveWorkers(s)' <=>
               \/ v \in ReceiveWorkers(s) /\ v # w
               \/ v = w /\ l # "drop" /\ w \in Handlers(s) /\ ctx[w].type \in ReceiveTypes
  <2>1. CASE v = w
    BY <2>1, <1>1, <1>3, <1>5 DEF ReceiveWorkers
  <2>2. CASE v \in Workers \ {w}
    BY <2>2, <1>2, OthersStay
  <2>3. CASE v \notin Workers
    BY <2>3 DEF ReceiveWorkers, Handlers
  <2>4. QED BY <2>1, <2>2, <2>3
<1>11. QED BY <1>5, <1>6, <1>7, <1>8, <1>9, <1>10

\* Such a step that starts and ends no operation leaves the references alone.
LEMMA WalkKeepsCounts ==
  ASSUME Base, Live, NEW w \in Workers, NEW l, Walk(w, l), Plain(pc[w]), Plain(l),
         UNCHANGED <<ios, mRefCount, issued, gen, mFreeSessionList>>
  PROVE  Counted' /\ Idle' /\ Current'
<1>1. \A s : Handlers(s)' = Handlers(s) /\ Flushers(s)' = Flushers(s) /\ Returners(s)' = Returners(s)
  BY WalkSets
<1>2. \A s : InFlight(s)' = InFlight(s) /\ InFreeList(s)' = InFreeList(s)
  BY DEF InFlight, InFreeList
<1>3. Counted'
  <2>1. \A s : References(s)' = References(s)
    BY <1>1, <1>2 DEF References
  <2>2. QED BY <2>1 DEF Live, Counted
<1>4. \A v \in Workers : Returning(v)' => Returning(v) /\ ctx'[v] = ctx[v] /\ ret'[v] = ret[v]
  BY DEF Walk, Returning, Plain, ReturnLabels, Base, IInv, ControlInv
<1>5. Idle'
  BY <1>1, <1>2, <1>4 DEF Live, Idle
<1>6. Current'
  <2>1. ctx' = ctx /\ ios' = ios /\ gen' = gen
    BY DEF Walk
  <2>2. QED BY <2>1, <1>1 DEF Live, Current
<1>7. QED BY <1>3, <1>5, <1>6

\* Posting a context that is new adds one reference and one operation in flight.
LEMMA PostKeepsCounts ==
  ASSUME Base, Live, NEW w \in Workers, NEW l, Walk(w, l), Plain(pc[w]), Plain(l),
         NEW s \in Sessions, Remote(w) = s, mRefCount[s] # 0,
         NEW type, NEW at, NEW len, Post(w, type, at, len),
         Context(type, s, at, len) \notin ios,
         UNCHANGED <<issued, gen, mFreeSessionList>>
  PROVE  Counted' /\ Idle' /\ Current'
<1> DEFINE c == Context(type, s, at, len)
<1>0. c.sess = s /\ c.gen = gen[s]
  BY DEF Context
<1> HIDE DEF c
<1>1. \A t : Handlers(t)' = Handlers(t) /\ Flushers(t)' = Flushers(t) /\ Returners(t)' = Returners(t)
  BY WalkSets
<1>2. ios' = ios \cup {c} /\ c \notin ios /\ mRefCount' = [mRefCount EXCEPT ![s] = @ + 1]
  BY DEF Post, c
<1>3. \A t : InFreeList(t)' = InFreeList(t)
  BY DEF InFreeList
<1>4. Counted'
  <2>1. ASSUME NEW t \in Sessions, t # s
        PROVE  References(t)' = References(t) /\ mRefCount'[t] = mRefCount[t]
    <3>1. InFlight(t)' = InFlight(t)
      BY <1>0, <1>2, <2>1 DEF InFlight
    <3>2. QED BY <3>1, <1>1, <1>2, <2>1 DEF References
  <2>2. References(s)' = References(s) + 1 /\ mRefCount'[s] = mRefCount[s] + 1
    <3>1. InFlight(s)' = InFlight(s) \cup {c} /\ c \notin InFlight(s)
      BY <1>0, <1>2 DEF InFlight
    <3>2. Cardinality(InFlight(s)') = Cardinality(InFlight(s)) + 1
      BY <3>1, FS_AddElement, ReferencesAreCounted
    <3>3. References(s)' = References(s) + 1
      BY <3>2, <1>1, ReferencesAreCounted DEF References
    <3>4. QED BY <3>3, <1>2 DEF Base, Fields
  <2>3. QED BY <2>1, <2>2 DEF Live, Counted
<1>5. \A v \in Workers : Returning(v)' => Returning(v) /\ ctx'[v] = ctx[v] /\ ret'[v] = ret[v]
  BY DEF Walk, Returning, Plain, ReturnLabels, Base, IInv, ControlInv
<1>6. Idle'
  <2>1. ~(InFreeList(s) \/ Returners(s) # {})
    BY DEF Live, Idle
  <2>2. \A t \in Sessions : t # s => mRefCount'[t] = mRefCount[t]
    BY <1>2 DEF Base, Fields
  <2>3. QED BY <1>1, <1>3, <1>5, <2>1, <2>2 DEF Live, Idle
<1>7. Current'
  <2>1. ctx' = ctx /\ gen' = gen
    BY DEF Walk
  <2>2. QED BY <2>1, <1>0, <1>1, <1>2 DEF Live, Current
<1>8. QED BY <1>4, <1>6, <1>7

-----------------------------------------------------------------------------
(* What holds whether or not a session was revived.                          *)

LEMMA WalkKeepsKinds ==
  ASSUME Base, NEW w \in Workers, NEW l \in Labels \ ReturnLabels, Walk(w, l),
         l \in Holding => ctx[w] # NoContext,
         ctx[w] # NoContext => ctx[w].type \in KindOf(l), IsFiniteSet(ios')
  PROVE  Kinds'
<1>1. pc \in [Workers -> Labels] /\ pc' = [pc EXCEPT ![w] = l] /\ ctx' = ctx /\ ret' = ret
  BY DEF Base, IInv, ControlInv, Walk
<1>2. ASSUME NEW v \in Workers
      PROVE  /\ Holds(v)' => ctx'[v] # NoContext
             /\ ctx'[v] # NoContext => ctx'[v].type \in KindOf(pc'[v])
  <2>1. CASE v = w
    BY <1>1, <2>1 DEF Holds, Returning, ReturnLabels
  <2>2. CASE v # w
    BY <1>1, <2>2 DEF Base, Kinds, Holds, Returning
  <2>3. QED BY <2>1, <2>2
<1>3. QED BY <1>2 DEF Kinds

\* A context in hand is of the kind its handler is for.
LEMMA KindInHand ==
  ASSUME Base, NEW w \in Workers
  PROVE  /\ pc[w] \in Holding => ctx[w] # NoContext
         /\ ctx[w] # NoContext =>
              /\ ctx[w].type \in IOTypes /\ ctx[w].sess \in Sessions /\ Remote(w) = ctx[w].sess
              /\ ctx[w].type \in KindOf(pc[w])
         /\ ctx[w] = NoContext => Remote(w) = Head(sendList[w])
         /\ pc[w] \notin {"gqcs", "sendJob"} => Remote(w) \in Sessions
         /\ pc[w] \in WithoutContext => ctx[w] = NoContext
<1>1. ctx[w] # NoContext => ctx[w].type \in IOTypes /\ ctx[w].sess \in Sessions
  BY SoundContext DEF Base, IInv, ControlInv
<1>2. pc[w] \notin {"gqcs", "sendJob"} => Remote(w) \in Sessions
  BY RemoteIsSession DEF Base, IInv
<1>3. pc[w] \in Holding => ctx[w] # NoContext
  BY DEF Base, Kinds, Holds
<1>4. QED BY <1>1, <1>2, <1>3 DEF Base, Kinds, Remote, IInv, ControlInv

LEMMA FiniteIos ==
  ASSUME Base, NEW w, NEW type, NEW at, NEW len, Post(w, type, at, len) \/ Refused
  PROVE  IsFiniteSet(ios')
<1>1. CASE Refused
  BY <1>1 DEF Refused, Base, Kinds
<1>2. CASE Post(w, type, at, len)
  BY <1>2, FS_AddElement DEF Post, Base, Kinds
<1>3. QED BY <1>1, <1>2

\* A walk that neither starts a send nor comes to the completion of one.
LEMMA WalkKeepsSends ==
  ASSUME Base, NEW w \in Workers, NEW l, Walk(w, l), Plain(pc[w]), Plain(l),
         l # "sendCompletion", UNCHANGED mSendPendingCount,
         \A c \in ios' : c \in ios \/ c.type # "IO_SEND"
  PROVE  SendInv'
<1>1. ASSUME NEW s \in Sessions
      PROVE  SendIos(s)' \subseteq SendIos(s) /\ SendWorkers(s)' \subseteq SendWorkers(s)
  <2>1. SendIos(s)' \subseteq SendIos(s)
    BY DEF SendIos
  <2>2. SendWorkers(s)' \subseteq SendWorkers(s)
    BY WalkSets
  <2>3. QED BY <2>1, <2>2
<1>2. ASSUME NEW s \in Sessions
      PROVE  /\ AtMostOne(SendIos(s), SendWorkers(s))'
             /\ mSendPendingCount[s] = 0 => SendIos(s)' = {} /\ SendWorkers(s)' = {}
  <2>1. AtMostOne(SendIos(s)', SendWorkers(s)')
    BY <1>1, FewerIsFine DEF Base, SendInv
  <2>2. AtMostOne(SendIos(s), SendWorkers(s))'
    BY <2>1 DEF AtMostOne
  <2>3. mSendPendingCount[s] = 0 => SendIos(s)' = {} /\ SendWorkers(s)' = {}
    BY <1>1 DEF Base, SendInv
  <2>4. QED BY <2>2, <2>3
<1>3. QED BY <1>2 DEF Base, SendInv

\* The walks: by what label they lead where.
LEMMA WalkOf ==
  ASSUME Base, NEW w \in Workers, NEW l, Goto(w, l), UNCHANGED <<ctx, ret, sendList>>
  PROVE  Walk(w, l)
  BY DEF Goto, Walk, Remote

LEMMA PlainLabels ==
  \A l : l \in Holding \cup {"gqcs", "disconnect", "disconnectCall", "sendJob", "flush", "flushed"} =>
           l \in Labels /\ Plain(l)
  BY DEF Holding, Labels, Plain, ReturnLabels

LEMMA BaseOfWalk ==
  ASSUME Base, IInv', NEW w \in Workers, NEW l, Walk(w, l), Plain(pc[w]),
         l \in Holding \cup {"disconnect", "disconnectCall", "sendJob", "flush", "flushed", "gqcs"},
         l # "sendCompletion",
         l \in Holding => ctx[w] # NoContext,
         ctx[w] # NoContext => ctx[w].type \in KindOf(l),
         IsFiniteSet(ios'), \A c \in ios' : c \in ios \/ c.type # "IO_SEND",
         UNCHANGED mSendPendingCount, Fields'
  PROVE  Base'
<1>1. l \in Labels \ ReturnLabels /\ Plain(l)
  BY PlainLabels DEF Plain
<1>2. Kinds'
  BY <1>1, WalkKeepsKinds
<1>3. SendInv'
  BY <1>1, WalkKeepsSends
<1>4. QED BY <1>2, <1>3 DEF Base

LEMMA OthersKeepKinds ==
  ASSUME Base, NEW w \in Workers, Others(w), Holds(w)' => ctx'[w] # NoContext,
         ctx'[w] # NoContext => ctx'[w].type \in KindOf(pc'[w]), IsFiniteSet(ios')
  PROVE  Kinds'
<1>1. \A v \in Workers \ {w} : pc'[v] = pc[v] /\ ctx'[v] = ctx[v] /\ ret'[v] = ret[v]
  BY DEF Others
<1>2. ASSUME NEW v \in Workers
      PROVE  /\ Holds(v)' => ctx'[v] # NoContext
             /\ ctx'[v] # NoContext => ctx'[v].type \in KindOf(pc'[v])
  <2>1. CASE v = w
    BY <2>1
  <2>2. CASE v # w
    BY <1>1, <2>2 DEF Base, Kinds, Holds, Returning
  <2>3. QED BY <2>1, <2>2
<1>3. QED BY <1>2 DEF Kinds

LEMMA OthersKeepSends ==
  ASSUME Base, NEW w \in Workers, Others(w), pc'[w] # "sendCompletion",
         UNCHANGED mSendPendingCount, \A c \in ios' : c \in ios \/ c.type # "IO_SEND"
  PROVE  SendInv'
<1>1. ASSUME NEW s \in Sessions
      PROVE  SendIos(s)' \subseteq SendIos(s) /\ SendWorkers(s)' \subseteq SendWorkers(s)
  <2>1. SendIos(s)' \subseteq SendIos(s)
    BY DEF SendIos
  <2>2. SendWorkers(s)' \subseteq Workers /\ w \notin SendWorkers(s)'
    BY DEF SendWorkers
  <2>3. SendWorkers(s)' \subseteq SendWorkers(s)
    BY <2>2, OthersStay
  <2>4. QED BY <2>1, <2>3
<1>2. ASSUME NEW s \in Sessions
      PROVE  /\ AtMostOne(SendIos(s), SendWorkers(s))'
             /\ mSendPendingCount[s] = 0 => SendIos(s)' = {} /\ SendWorkers(s)' = {}
  <2>1. AtMostOne(SendIos(s)', SendWorkers(s)')
    BY <1>1, FewerIsFine DEF Base, SendInv
  <2>2. AtMostOne(SendIos(s), SendWorkers(s))'
    BY <2>1 DEF AtMostOne
  <2>3. mSendPendingCount[s] = 0 => SendIos(s)' = {} /\ SendWorkers(s)' = {}
    BY <1>1 DEF Base, SendInv
  <2>4. QED BY <2>2, <2>3
<1>3. QED BY <1>2 DEF Base, SendInv

\* What ReleaseRef and the three actions that call it do to the worker.
LEMMA ReleaseEffect ==
  ASSUME Base, NEW w \in Workers, NEW s \in Sessions,
         NEW next \in {"sendJob", "drop", "disconnect"},
         next = "drop" => ctx[w] # NoContext,
         ReleaseRef(w, s, next), UNCHANGED sendList
  PROVE  /\ Others(w)
         /\ mRefCount' = [mRefCount EXCEPT ![s] = @ - 1]
         /\ mRefCount[s] = 1 => pc'[w] = "return" /\ ret'[w] = next /\ ctx' = ctx
         /\ mRefCount[s] # 1 =>
              /\ pc'[w] = next /\ ret' = ret
              /\ ctx'[w] = IF next = "sendJob" THEN NoContext ELSE ctx[w]
         /\ mRefCount[s] \in Nat \ {0} => UNCHANGED status
         /\ pc'[w] \in {"return", next}
         /\ Holds(w)' => ctx'[w] # NoContext
         /\ ctx'[w] # NoContext => ctx'[w] = ctx[w] /\ ctx[w] # NoContext
<1>1. pc \in [Workers -> Labels] /\ ctx = [v \in Workers |-> ctx[v]]
      /\ ret \in [Workers -> {"sendJob", "drop", "disconnect"}]
  BY DEF Base, IInv, ControlInv
<1>2. "return" \notin Holding /\ "sendJob" \notin Holding /\ "disconnect" \notin Holding
  BY DEF Holding
<1>3. mRefCount' = [mRefCount EXCEPT ![s] = @ - 1]
      /\ (mRefCount[s] \in Nat \ {0} => UNCHANGED status)
  BY DEF ReleaseRef
<1>4. CASE mRefCount[s] = 1
  <2>1. /\ pc' = [pc EXCEPT ![w] = "return"] /\ ret' = [ret EXCEPT ![w] = next] /\ ctx' = ctx
    BY <1>4 DEF ReleaseRef, Goto
  <2>2. Others(w) /\ pc'[w] = "return" /\ ret'[w] = next
    BY <2>1, <1>1 DEF Others
  <2>3. Holds(w)' => ctx'[w] # NoContext
    BY <2>1, <2>2, <1>2 DEF Holds
  <2>4. QED BY <2>1, <2>2, <2>3, <1>3, <1>4
<1>5. CASE mRefCount[s] # 1
  <2>1. /\ pc' = [pc EXCEPT ![w] = next] /\ ret' = ret
        /\ ctx' = IF next = "sendJob" THEN [ctx EXCEPT ![w] = NoContext] ELSE ctx
    BY <1>5 DEF ReleaseRef, Resume, Goto
  <2>2. Others(w) /\ pc'[w] = next /\ ctx'[w] = IF next = "sendJob" THEN NoContext ELSE ctx[w]
    BY <2>1, <1>1 DEF Others
  <2>3. Holds(w)' => ctx'[w] # NoContext
    BY <2>1, <2>2, <1>2 DEF Holds, Returning
  <2>4. QED BY <2>1, <2>2, <2>3, <1>3, <1>5
<1>6. QED BY <1>4, <1>5

LEMMA BaseOfRelease ==
  ASSUME Base, IInv', NEW w \in Workers, NEW s \in Sessions,
         NEW next \in {"sendJob", "drop", "disconnect"},
         next = "drop" => ctx[w] # NoContext,
         ReleaseRef(w, s, next), UNCHANGED <<sendList, ios, mSendPendingCount>>, Fields'
  PROVE  Base'
<1>1. /\ Others(w) /\ pc'[w] \in {"return", next}
      /\ Holds(w)' => ctx'[w] # NoContext
      /\ ctx'[w] # NoContext => ctx'[w] = ctx[w] /\ ctx[w] # NoContext
  BY ReleaseEffect
<1>2. ctx'[w] # NoContext => ctx'[w].type \in KindOf(pc'[w])
  <2>1. pc'[w] \in {"return", "sendJob", "drop", "disconnect"}
    BY <1>1
  <2>2. KindOf(pc'[w]) = IOTypes
    BY <2>1 DEF KindOf
  <2>3. QED BY <2>2, <1>1, KindInHand
<1>3. Kinds'
  BY <1>1, <1>2, OthersKeepKinds DEF Base, Kinds
<1>4. SendInv'
  <2>1. pc'[w] # "sendCompletion"
    BY <1>1
  <2>2. QED BY <2>1, <1>1, OthersKeepSends
<1>5. QED BY <1>3, <1>4 DEF Base

\* The send that completes is the pending one.
LEMMA BaseOfSendCompletion ==
  ASSUME Base, IInv', NEW w \in Workers, SendCompletion(w)
  PROVE  Base'
<1> DEFINE s == Remote(w)
<1>1. pc[w] = "sendCompletion" /\ s \in Sessions /\ ctx[w] # NoContext
  BY KindInHand DEF SendCompletion, Holding
<1>2. PICK l \in {"drop", "disconnect"} : Walk(w, l)
  <2>1. PICK l \in {"drop", "disconnect"} : Goto(w, l) /\ UNCHANGED <<ctx, ret, sendList>>
    BY DEF SendCompletion
  <2>2. QED BY <2>1, WalkOf
<1>3. Plain(pc[w]) /\ Plain(l) /\ l \in Labels \ ReturnLabels
  BY <1>1, PlainLabels DEF Holding, Plain
<1>4. Kinds'
  <2>1. ctx[w].type \in KindOf(l)
    BY <1>1, <1>2, KindInHand DEF KindOf
  <2>2. IsFiniteSet(ios')
    BY DEF SendCompletion, Base, Kinds
  <2>3. QED BY <1>1, <1>2, <1>3, <2>1, <2>2, WalkKeepsKinds
<1>5. Fields'
  BY DEF SendCompletion, Base, Fields, countVars, historyVars, byteVars
<1>6. ios' = ios /\ mSendPendingCount' = [mSendPendingCount EXCEPT ![s] = @ - 1]
  BY DEF SendCompletion
<1>7. w \in SendWorkers(s)
  BY <1>1 DEF SendWorkers
<1> HIDE DEF s
<1>8. mSendPendingCount[s] = 1 /\ mSendPendingCount' \in [Sessions -> {0, 1}]
  BY <1>1, <1>6, <1>7 DEF Base, SendInv
<1>9. ASSUME NEW t \in Sessions
      PROVE  /\ SendIos(t)' \subseteq SendIos(t) /\ SendWorkers(t)' \subseteq SendWorkers(t) \ {w}
             /\ t = s => SendIos(t)' = {} /\ SendWorkers(t)' = {}
  <2>1. SendIos(t)' = SendIos(t)
    BY <1>6 DEF SendIos
  <2>2. SendWorkers(t)' \subseteq SendWorkers(t) \ {w}
    BY <1>2, <1>3, WalkSets
  <2>3. CASE t = s
    BY <2>1, <2>2, <2>3, <1>7 DEF Base, SendInv, AtMostOne
  <2>4. QED BY <2>1, <2>2, <2>3
<1>10. ASSUME NEW t \in Sessions
       PROVE  /\ AtMostOne(SendIos(t), SendWorkers(t))'
              /\ mSendPendingCount'[t] = 0 => SendIos(t)' = {} /\ SendWorkers(t)' = {}
  <2>1. AtMostOne(SendIos(t)', SendWorkers(t)')
    BY <1>9, FewerIsFine DEF Base, SendInv
  <2>2. t # s => mSendPendingCount'[t] = mSendPendingCount[t]
    BY <1>6 DEF Base, SendInv
  <2>3. mSendPendingCount'[t] = 0 => SendIos(t)' = {} /\ SendWorkers(t)' = {}
    BY <1>9, <2>2 DEF Base, SendInv
  <2>4. QED BY <2>1, <2>3 DEF AtMostOne
<1>11. SendInv'
  BY <1>8, <1>10 DEF SendInv
<1>12. QED BY <1>4, <1>5, <1>11 DEF Base

\* A new send is posted only while none is pending.
LEMMA BaseOfFlushSend ==
  ASSUME Base, IInv', NEW w \in Workers, FlushSend(w)
  PROVE  Base'
<1> DEFINE s == Remote(w)
           at == GetBufferStart(mSendBuffer[s])
           len == GetContiguiousBytes(mSendBuffer[s])
<1>1. pc[w] = "flush" /\ s \in Sessions /\ ctx[w] = NoContext /\ mSendPendingCount[s] = 0
  BY KindInHand DEF FlushSend, SendPending, WithoutContext, Base, SendInv
<1>2. UNCHANGED <<ctx, ret, sendList>>
  BY DEF FlushSend
<1>3. PICK l \in {"flushed", "flushRelease"} : Goto(w, l)
  BY <1>1 DEF FlushSend
<1>4. l \in Labels \ ReturnLabels /\ l \notin Holding
  BY DEF Holding, Labels, ReturnLabels
<1>5. Walk(w, l)
  BY <1>2, <1>3, WalkOf
<1>6. Fields'
  BY DEF FlushSend, Post, Base, Fields, byteVars
<1>7. IsFiniteSet(ios')
  BY FiniteIos DEF FlushSend, Base, Kinds
<1>8. Kinds'
  BY <1>1, <1>4, <1>5, <1>7, WalkKeepsKinds
<1>9. Others(w) /\ pc'[w] # "sendCompletion"
  BY <1>2, <1>3 DEF Others, Goto, Base, IInv, ControlInv
<1>10. CASE Post(w, "IO_SEND", at, len)
            /\ mSendPendingCount' = [mSendPendingCount EXCEPT ![s] = @ + 1]
  <2> DEFINE c == Context("IO_SEND", s, at, len)
  <2>1. c.sess = s /\ c.type = "IO_SEND" /\ ios' = ios \cup {c}
    BY <1>10 DEF Context, Post
  <2> HIDE DEF c, s
  <2>2. ASSUME NEW t \in Sessions
        PROVE  /\ t = s => SendIos(t)' \subseteq {c} /\ SendWorkers(t)' = {} /\ mSendPendingCount'[t] = 1
               /\ t # s => /\ SendIos(t)' = SendIos(t) /\ SendWorkers(t)' \subseteq SendWorkers(t)
                           /\ mSendPendingCount'[t] = mSendPendingCount[t]
    <3>1. SendWorkers(t)' \subseteq SendWorkers(t)
      <4>1. SendWorkers(t)' \subseteq Workers /\ w \notin SendWorkers(t)'
        BY <1>9 DEF SendWorkers
      <4>2. QED BY <4>1, <1>9, OthersStay
    <3>2. CASE t = s
      <4>1. SendIos(t) = {} /\ SendWorkers(t) = {}
        BY <1>1, <3>2 DEF Base, SendInv
      <4>2. SendIos(t)' \subseteq {c}
        BY <4>1, <2>1 DEF SendIos
      <4>3. mSendPendingCount'[t] = 1
        BY <1>1, <3>2, <1>10 DEF Base, SendInv
      <4>4. QED BY <3>1, <3>2, <4>1, <4>2, <4>3
    <3>3. CASE t # s
      BY <3>1, <3>3, <2>1, <1>10 DEF SendIos, Base, SendInv
    <3>4. QED BY <3>2, <3>3
  <2>3. ASSUME NEW t \in Sessions
        PROVE  /\ AtMostOne(SendIos(t), SendWorkers(t))'
               /\ mSendPendingCount'[t] = 0 => SendIos(t)' = {} /\ SendWorkers(t)' = {}
    <3>1. CASE t = s
      BY <3>1, <2>2 DEF AtMostOne
    <3>2. CASE t # s
      BY <3>2, <2>2 DEF AtMostOne, Base, SendInv
    <3>3. QED BY <3>1, <3>2
  <2>4. mSendPendingCount' \in [Sessions -> {0, 1}]
    BY <1>1, <1>10 DEF Base, SendInv, s
  <2>5. SendInv'
    BY <2>3, <2>4 DEF SendInv
  <2>6. QED BY <2>5, <1>6, <1>8 DEF Base
<1>11. CASE UNCHANGED <<mSendPendingCount, ios>>
  <2>1. SendInv'
    BY <1>9, <1>11, OthersKeepSends
  <2>2. QED BY <2>1, <1>6, <1>8 DEF Base
<1>12. QED BY <1>10, <1>11 DEF FlushSend

\* A worker takes a completion: the context moves from ios to its hand.
LEMMA DequeueEffect ==
  ASSUME Base, NEW w \in Workers, NEW c \in ios, Dequeue(w, c)
  PROVE  /\ pc[w] = "gqcs" /\ ctx[w] = NoContext /\ c.type \in IOTypes /\ c.sess \in Sessions
         /\ Others(w) /\ ios' = ios \ {c}
         /\ ctx'[w] # NoContext /\ ctx'[w].type = c.type /\ ctx'[w].sess = c.sess
         /\ ctx'[w].gen = c.gen /\ Remote(w)' = c.sess
         /\ pc'[w] \in (Holding \ {"drop"}) \cup {"disconnect"}
         /\ c.type \in KindOf(pc'[w])
         /\ pc'[w] = "acceptCompletion" <=> c.type = "IO_ACCEPT"
         /\ pc'[w] = "disconnectCompletion" <=> c.type = "IO_DISCONNECT"
         /\ pc'[w] = "sendCompletion" => c.type = "IO_SEND"
         /\ c.type = "IO_RECV" \/ UNCHANGED rcvd
<1>0. pc \in [Workers -> Labels] /\ ctx = [v \in Workers |-> ctx[v]] /\ Sound(c)
  BY DEF Base, IInv, ControlInv
<1>1. PICK n \in Outcomes(c) :
        /\ Transfer(c, n) /\ ctx' = [ctx EXCEPT ![w] = [c EXCEPT !.n = n]]
        /\ Goto(w, Handler(c, n))
  BY DEF Dequeue
<1>2. PICK d : d = [c EXCEPT !.n = n]
  OBVIOUS
<1>3. d # NoContext /\ d.type = c.type /\ d.sess = c.sess /\ d.gen = c.gen
  <2>1. Sound(d)
    BY <1>0, <1>2, SoundContext
  <2>2. d.type = c.type /\ d.sess = c.sess /\ d.gen = c.gen
    BY <1>2, <1>0 DEF Sound
  <2>3. QED BY <2>1, <2>2, SoundContext
<1>4. ctx'[w] = d /\ pc'[w] = Handler(c, n) /\ Others(w)
  BY <1>0, <1>1, <1>2 DEF Goto, Others, Dequeue
<1>5. pc[w] = "gqcs" /\ ctx[w] = NoContext /\ ios' = ios \ {c}
  BY KindInHand DEF Dequeue, WithoutContext
<1>6. c.type \in IOTypes /\ c.sess \in Sessions
  BY <1>0 DEF Sound
<1>7. Remote(w)' = c.sess
  BY <1>3, <1>4 DEF Remote
<1>8. /\ Handler(c, n) \in (Holding \ {"drop"}) \cup {"disconnect"}
      /\ c.type \in KindOf(Handler(c, n))
      /\ Handler(c, n) = "acceptCompletion" <=> c.type = "IO_ACCEPT"
      /\ Handler(c, n) = "disconnectCompletion" <=> c.type = "IO_DISCONNECT"
      /\ Handler(c, n) = "sendCompletion" => c.type = "IO_SEND"
  <2>1. CASE c.type \in {"IO_RECV", "IO_SEND"} /\ n = 0
    BY <2>1 DEF Handler, KindOf, Holding, IOTypes
  <2>2. CASE c.type = "IO_ACCEPT"
    BY <2>2 DEF Handler, KindOf, Holding
  <2>3. CASE c.type = "IO_DISCONNECT"
    BY <2>3 DEF Handler, KindOf, Holding
  <2>4. CASE c.type = "IO_RECV_ZERO"
    BY <2>4 DEF Handler, KindOf, Holding
  <2>5. CASE c.type = "IO_SEND" /\ n # 0
    BY <2>5 DEF Handler, KindOf, Holding
  <2>6. CASE c.type = "IO_RECV" /\ n # 0
    BY <2>6 DEF Handler, KindOf, Holding
  <2>7. QED BY <2>1, <2>2, <2>3, <2>4, <2>5, <2>6, <1>6 DEF IOTypes
<1>9. c.type = "IO_RECV" \/ UNCHANGED rcvd
  BY <1>1 DEF Transfer
<1>10. QED BY <1>3, <1>4, <1>5, <1>6, <1>7, <1>8, <1>9

LEMMA BaseOfDequeue ==
  ASSUME Base, IInv', NEW w \in Workers, NEW c \in ios, Dequeue(w, c)
  PROVE  Base'
<1>1. /\ Others(w) /\ ios' = ios \ {c} /\ ctx'[w] # NoContext /\ ctx'[w].type = c.type
      /\ Remote(w)' = c.sess /\ c.type \in KindOf(pc'[w])
      /\ pc'[w] = "sendCompletion" => c.type = "IO_SEND"
  BY DequeueEffect
<1>2. Kinds'
  <2>1. IsFiniteSet(ios')
    BY <1>1, FS_RemoveElement DEF Base, Kinds
  <2>2. QED BY <1>1, <2>1, OthersKeepKinds
<1>3. Fields'
  <2>1. UNCHANGED <<mConnected, mRefCount, issued, gen, sock, mSendBuffer>>
    BY DEF Dequeue, countVars, sendVars, historyVars
  <2>2. PICK n \in Outcomes(c) : Transfer(c, n)
    BY DEF Dequeue
  <2>3. mRecvBuffer' = [s \in Sessions |-> mRecvBuffer'[s]] /\ rcvd' = [s \in Sessions |-> rcvd'[s]]
    BY <2>2 DEF Transfer, Base, Fields
  <2>4. QED BY <2>1, <2>3 DEF Base, Fields
<1>4. UNCHANGED mSendPendingCount
  BY DEF Dequeue, sendVars
<1>5. ASSUME NEW s \in Sessions
      PROVE  /\ AtMostOne(SendIos(s), SendWorkers(s))'
             /\ mSendPendingCount'[s] = 0 => SendIos(s)' = {} /\ SendWorkers(s)' = {}
  <2>1. SendIos(s)' = SendIos(s) \ {c}
    BY <1>1 DEF SendIos
  <2>2. ASSUME NEW v \in SendWorkers(s)', v # w
        PROVE  v \in SendWorkers(s)
    <3>1. v \in Workers
      BY DEF SendWorkers
    <3>2. QED BY <3>1, <2>2, <1>1, OthersStay
  <2>3. CASE c \in SendIos(s)
    <3>1. SendWorkers(s)' \subseteq SendWorkers(s) \cup {w}
      BY <2>2
    <3>2. AtMostOne(SendIos(s)', SendWorkers(s)')
      BY <2>1, <2>3, <3>1, LeftToRight DEF Base, SendInv
    <3>3. mSendPendingCount'[s] # 0
      BY <2>3, <1>4 DEF Base, SendInv
    <3>4. QED BY <3>2, <3>3 DEF AtMostOne
  <2>4. CASE c \notin SendIos(s)
    <3>1. w \notin SendWorkers(s)'
      BY <2>4, <1>1 DEF SendWorkers, SendIos
    <3>2. SendWorkers(s)' \subseteq SendWorkers(s) /\ SendIos(s)' \subseteq SendIos(s)
      BY <3>1, <2>1, <2>2
    <3>3. AtMostOne(SendIos(s)', SendWorkers(s)')
      BY <3>2, FewerIsFine DEF Base, SendInv
    <3>4. mSendPendingCount'[s] = 0 => SendIos(s)' = {} /\ SendWorkers(s)' = {}
      BY <3>2, <1>4 DEF Base, SendInv
    <3>5. QED BY <3>3, <3>4 DEF AtMostOne
  <2>5. QED BY <2>3, <2>4
<1>6. SendInv'
  BY <1>4, <1>5 DEF Base, SendInv
<1>7. QED BY <1>2, <1>3, <1>6 DEF Base

LEMMA BaseOfAccept == ASSUME Base, IInv', Accept PROVE Base'
<1>1. UNCHANGED <<pc, ctx, ret, sendList>> /\ UNCHANGED mSendPendingCount
  BY DEF Accept, AcceptEnter, AcceptIssue, AcceptLeave, workerVars, sendVars
<1>2. \A v \in Workers : Remote(v)' = Remote(v)
  BY <1>1 DEF Remote
<1>3. IsFiniteSet(ios') /\ \A c \in ios' : c \in ios \/ c.type = "IO_ACCEPT"
  <2>1. CASE UNCHANGED ios
    BY <2>1 DEF Base, Kinds
  <2>2. CASE AcceptIssue
    <3>1. PICK s : \/ UNCHANGED ios
                   \/ ios' = ios \cup {[Context("IO_ACCEPT", s, 0, 0) EXCEPT !.gen = @ + 1]}
      BY <2>2 DEF AcceptIssue
    <3>2. [Context("IO_ACCEPT", s, 0, 0) EXCEPT !.gen = @ + 1].type = "IO_ACCEPT"
      BY DEF Context
    <3>3. QED BY <3>1, <3>2, <2>1, FS_AddElement DEF Base, Kinds
  <2>3. QED BY <2>1, <2>2 DEF Accept, AcceptEnter, AcceptLeave
<1>4. Kinds'
  BY <1>1, <1>3 DEF Base, Kinds, Holds, Returning
<1>5. SendInv'
  <2>1. ASSUME NEW s
        PROVE  SendIos(s)' \subseteq SendIos(s) /\ SendWorkers(s)' \subseteq SendWorkers(s)
    BY <1>1, <1>2, <1>3 DEF SendIos, SendWorkers
  <2>2. \A s \in Sessions : AtMostOne(SendIos(s)', SendWorkers(s)')
    BY <2>1, FewerIsFine DEF Base, SendInv
  <2>3. QED BY <1>1, <2>1, <2>2 DEF Base, SendInv, AtMostOne
<1>6. Fields'
  <2>1. CASE AcceptIssue
    <3>1. PICK s : /\ gen' = [gen EXCEPT ![s] = @ + 1] /\ issued' = [issued EXCEPT ![s] = TRUE]
                   /\ rcvd' = [rcvd EXCEPT ![s] = << >>]
                   /\ \/ mRefCount' = [mRefCount EXCEPT ![s] = @ + 2]
                      \/ mRefCount' = [mRefCount EXCEPT ![s] = @ + 1]
      BY <2>1 DEF AcceptIssue
    <3>2. UNCHANGED <<mConnected, sock, mSendBuffer, mRecvBuffer>>
      BY <2>1 DEF AcceptIssue, sendVars
    <3>3. gen' \in [Sessions -> Nat] /\ issued' \in [Sessions -> BOOLEAN]
      <4>1. gen \in [Sessions -> Nat] /\ issued \in [Sessions -> BOOLEAN]
        BY DEF Base, Fields
      <4>2. gen' \in [Sessions -> Nat]
        <5>1. CASE s \in Sessions
          BY <3>1, <4>1, <5>1
        <5>2. CASE s \notin Sessions
          BY <3>1, <4>1, <5>2
        <5>3. QED BY <5>1, <5>2
      <4>3. issued' \in [Sessions -> BOOLEAN]
        BY <3>1, <4>1
      <4>4. QED BY <4>2, <4>3
    <3>4. mRefCount' \in [Sessions -> Int]
      BY <3>1 DEF Base, Fields
    <3>5. rcvd' = [t \in Sessions |-> rcvd'[t]]
      BY <3>1 DEF Base, Fields
    <3>6. QED BY <3>2, <3>3, <3>4, <3>5 DEF Base, Fields
  <2>2. CASE AcceptEnter \/ AcceptLeave
    BY <2>2 DEF AcceptEnter, AcceptLeave, Base, Fields, countVars, sendVars, historyVars, byteVars
  <2>3. QED BY <2>1, <2>2 DEF Accept
<1>7. QED BY <1>4, <1>5, <1>6 DEF Base

LEMMA FieldsOfRelease ==
  ASSUME Base, NEW w, NEW s \in Sessions, NEW next, ReleaseRef(w, s, next),
         UNCHANGED <<mConnected, gen, sock, mSendBuffer, mRecvBuffer, rcvd>>,
         issued' \in [Sessions -> BOOLEAN]
  PROVE  Fields'
<1>1. mRefCount' = [mRefCount EXCEPT ![s] = @ - 1]
  BY DEF ReleaseRef
<1>2. mRefCount' \in [Sessions -> Int]
  BY <1>1 DEF Base, Fields
<1>3. QED BY <1>2 DEF Base, Fields

LEMMA FieldsOfPost ==
  ASSUME Base, NEW w \in Workers, pc[w] \notin {"gqcs", "sendJob"},
         NEW type, NEW at, NEW len, Post(w, type, at, len) \/ Refused,
         UNCHANGED <<mConnected, issued, gen, mSendBuffer, mRecvBuffer, rcvd>>,
         sock' \in [Sessions -> SocketStates]
  PROVE  Fields'
<1>1. mRefCount' \in [Sessions -> Int]
  BY DEF Post, Refused, Base, Fields
<1>2. QED BY <1>1 DEF Base, Fields

\* A worker posts a context other than a send, or fails to, and goes on.
LEMMA BaseOfPost ==
  ASSUME Base, IInv', NEW w \in Workers, NEW l, Goto(w, l), UNCHANGED <<ctx, ret, sendList>>,
         pc[w] \in Holding \cup {"disconnectCall"},
         l \in {"drop", "disconnect", "flushed"}, l = "drop" => ctx[w] # NoContext,
         l = "flushed" => ctx[w] = NoContext,
         NEW type, NEW at, NEW len, Post(w, type, at, len) \/ Refused, type # "IO_SEND",
         UNCHANGED <<mSendPendingCount, mConnected, issued, gen, mSendBuffer, mRecvBuffer, rcvd>>,
         sock' \in [Sessions -> SocketStates]
  PROVE  Base'
<1>1. Walk(w, l)
  BY WalkOf
<1>2. pc[w] \notin {"gqcs", "sendJob"} /\ Plain(pc[w])
  BY DEF Holding, Plain, ReturnLabels
<1>3. Fields'
  BY <1>2, FieldsOfPost
<1>4. IsFiniteSet(ios')
  BY FiniteIos
<1>5. \A c \in ios' : c \in ios \/ c.type # "IO_SEND"
  BY DEF Post, Refused, Context
<1>6. ctx[w] # NoContext => ctx[w].type \in KindOf(l)
  BY KindInHand DEF KindOf
<1>7. l \in Holding => ctx[w] # NoContext
  BY DEF Holding
<1>8. l \in Holding \cup {"disconnect", "disconnectCall", "sendJob", "flush", "flushed", "gqcs"}
  BY DEF Holding
<1>9. QED BY <1>1, <1>2, <1>3, <1>4, <1>5, <1>6, <1>7, <1>8, BaseOfWalk

\* A worker goes on without starting or ending an operation.
LEMMA BaseOfQuietWalk ==
  ASSUME Base, IInv', NEW w \in Workers, NEW l, Walk(w, l), Plain(pc[w]),
         l \in Holding \cup {"disconnect", "disconnectCall", "sendJob", "flush", "flushed", "gqcs"},
         l # "sendCompletion",
         l \in Holding => ctx[w] # NoContext,
         ctx[w] # NoContext => ctx[w].type \in KindOf(l),
         UNCHANGED <<ios, mSendPendingCount>>, Fields'
  PROVE  Base'
<1>1. IsFiniteSet(ios') /\ \A c \in ios' : c \in ios \/ c.type # "IO_SEND"
  BY DEF Base, Kinds
<1>2. QED BY <1>1, BaseOfWalk

\* One step per action of a worker.
LEMMA StepKeepsBase ==
  ASSUME Base, NEW w \in Workers, Step(w)
  PROVE  Base'
<1>0. IInv'
  BY StepKeepsIInv DEF Base
<1> USE DEF historyVars, byteVars, countVars, sendVars
<1>1. CASE AcceptCompletion(w)
  <2> DEFINE l == "acceptSetup"
  <2>1. Goto(w, l)
    BY <1>1 DEF AcceptCompletion
  <2>2. Walk(w, l) /\ UNCHANGED <<ios, mSendPendingCount>>
    BY <1>1, <2>1, WalkOf DEF AcceptCompletion
  <2>3. pc[w] = "acceptCompletion" /\ Plain(pc[w]) /\ ctx[w] # NoContext /\ ctx[w].type = "IO_ACCEPT"
    BY <1>1, KindInHand DEF AcceptCompletion, Holding, KindOf, Plain, ReturnLabels
  <2>4. ctx[w].type \in KindOf(l) /\ l # "sendCompletion"
        /\ l \in Holding \cup {"disconnect", "disconnectCall", "sendJob", "flush", "flushed", "gqcs"}
    BY <2>3 DEF KindOf, Holding, IOTypes
  <2>5. Fields'
    BY <1>1 DEF AcceptCompletion, Base, Fields
  <2>6. QED BY <1>0, <2>2, <2>3, <2>4, <2>5, BaseOfQuietWalk
<1>1a. CASE AcceptSetup(w)
  <2>1. PICK l \in {"preRecv", "disconnect"} : Goto(w, l)
    BY <1>1a DEF AcceptSetup
  <2>2. Walk(w, l) /\ UNCHANGED <<ios, mSendPendingCount>>
    BY <1>1a, <2>1, WalkOf DEF AcceptSetup
  <2>3. pc[w] = "acceptSetup" /\ Plain(pc[w]) /\ ctx[w] # NoContext /\ ctx[w].type = "IO_ACCEPT"
    BY <1>1a, KindInHand DEF AcceptSetup, Holding, KindOf, Plain, ReturnLabels
  <2>4. ctx[w].type \in KindOf(l) /\ l # "sendCompletion"
        /\ l \in Holding \cup {"disconnect", "disconnectCall", "sendJob", "flush", "flushed", "gqcs"}
    BY <2>3 DEF KindOf, Holding, IOTypes
  <2>5. UNCHANGED <<mConnected, mRefCount, issued, gen, mSendBuffer, mRecvBuffer, rcvd>>
    BY <1>1a DEF AcceptSetup
  <2>6. sock' \in [Sessions -> SocketStates]
    <3>1. \/ UNCHANGED sock
          \/ \E x \in Associated(sock[Remote(w)]) : sock' = [sock EXCEPT ![Remote(w)] = x]
      BY <1>1a DEF AcceptSetup
    <3>2. Remote(w) \in Sessions /\ sock[Remote(w)] \in SocketStates
      BY <1>1a, KindInHand DEF AcceptSetup, Base, Fields
    <3>3. Associated(sock[Remote(w)]) \subseteq SocketStates
      BY <3>2 DEF Associated, SocketStates
    <3>4. QED BY <3>1, <3>3 DEF Base, Fields
  <2>7. Fields'
    BY <2>5, <2>6 DEF Base, Fields
  <2>8. QED BY <1>0, <2>2, <2>3, <2>4, <2>7, BaseOfQuietWalk
<1>2. CASE PreRecv(w)
  <2>1. PICK l \in {"preRecvCall", "drop", "disconnect"} : Goto(w, l)
    BY <1>2 DEF PreRecv, AfterPreRecv
  <2>2. Walk(w, l) /\ UNCHANGED <<ios, mSendPendingCount>>
    BY <1>2, <2>1, WalkOf DEF PreRecv
  <2>3. pc[w] = "preRecv" /\ Plain(pc[w]) /\ ctx[w] # NoContext /\ ctx[w].type \in {"IO_ACCEPT", "IO_RECV"}
    BY <1>2, KindInHand DEF PreRecv, Holding, KindOf, Plain, ReturnLabels
  <2>4. ctx[w].type \in KindOf(l) /\ l # "sendCompletion"
        /\ l \in Holding \cup {"disconnect", "disconnectCall", "sendJob", "flush", "flushed", "gqcs"}
    BY <2>3 DEF KindOf, Holding, IOTypes
  <2>5. Fields'
    BY <1>2 DEF PreRecv, Base, Fields
  <2>6. QED BY <1>0, <2>2, <2>3, <2>4, <2>5, BaseOfQuietWalk
<1>3. CASE PreRecvCall(w)
  <2>1. PICK l \in {"drop", "disconnect"} :
          Goto(w, l) /\ (Post(w, "IO_RECV_ZERO", 0, 0) \/ Refused)
    BY <1>3 DEF PreRecvCall, AfterPreRecv
  <2>2. pc[w] \in Holding /\ ctx[w] # NoContext
    BY <1>3, KindInHand DEF PreRecvCall, Holding
  <2>3. UNCHANGED <<ctx, ret, sendList, mSendPendingCount, mConnected, issued, gen, sock,
                    mSendBuffer, mRecvBuffer, rcvd>>
    BY <1>3 DEF PreRecvCall
  <2>4. sock' \in [Sessions -> SocketStates]
    BY <2>3 DEF Base, Fields
  <2>5. QED BY <1>0, <2>1, <2>2, <2>3, <2>4, BaseOfPost
<1>4. CASE PostRecv(w)
  <2>1. PICK l \in {"postRecvCall", "disconnect"} : Goto(w, l)
    BY <1>4 DEF PostRecv
  <2>2. Walk(w, l) /\ UNCHANGED <<ios, mSendPendingCount>>
    BY <1>4, <2>1, WalkOf DEF PostRecv
  <2>3. pc[w] = "postRecv" /\ Plain(pc[w]) /\ ctx[w] # NoContext /\ ctx[w].type = "IO_RECV_ZERO"
    BY <1>4, KindInHand DEF PostRecv, Holding, KindOf, Plain, ReturnLabels
  <2>4. ctx[w].type \in KindOf(l) /\ l # "sendCompletion"
        /\ l \in Holding \cup {"disconnect", "disconnectCall", "sendJob", "flush", "flushed", "gqcs"}
    BY <2>3 DEF KindOf, Holding, IOTypes
  <2>5. mRecvBuffer' = [s \in Sessions |-> mRecvBuffer'[s]]
    BY <1>4 DEF PostRecv, Base, Fields
  <2>6. UNCHANGED <<mConnected, mRefCount, issued, gen, sock, mSendBuffer, rcvd>>
    BY <1>4 DEF PostRecv
  <2>7. Fields'
    BY <2>5, <2>6 DEF Base, Fields
  <2>8. QED BY <1>0, <2>2, <2>3, <2>4, <2>7, BaseOfQuietWalk
<1>5. CASE PostRecvCall(w)
  <2> DEFINE at  == GetBuffer(mRecvBuffer[Remote(w)])
             len == GetFreeSpaceSize(mRecvBuffer[Remote(w)])
  <2>1. PICK l \in {"drop", "disconnect"} :
          Goto(w, l) /\ (Post(w, "IO_RECV", at, len) \/ Refused)
    BY <1>5 DEF PostRecvCall
  <2> HIDE DEF at, len
  <2>2. pc[w] \in Holding /\ ctx[w] # NoContext
    BY <1>5, KindInHand DEF PostRecvCall, Holding
  <2>3. UNCHANGED <<ctx, ret, sendList, mSendPendingCount, mConnected, issued, gen, sock,
                    mSendBuffer, mRecvBuffer, rcvd>>
    BY <1>5 DEF PostRecvCall
  <2>4. sock' \in [Sessions -> SocketStates]
    BY <2>3 DEF Base, Fields
  <2>5. QED BY <1>0, <2>1, <2>2, <2>3, <2>4, BaseOfPost
<1>6. CASE SendCompletion(w)
  BY <1>0, <1>6, BaseOfSendCompletion
<1>7. CASE RecvCompletion(w)
  <2>1. PICK l \in {"postSend", "preRecv"} : Goto(w, l)
    BY <1>7 DEF RecvCompletion
  <2>2. Walk(w, l) /\ UNCHANGED <<ios, mSendPendingCount>>
    BY <1>7, <2>1, WalkOf DEF RecvCompletion
  <2>3. pc[w] = "recvCompletion" /\ Plain(pc[w]) /\ ctx[w] # NoContext /\ ctx[w].type = "IO_RECV"
    BY <1>7, KindInHand DEF RecvCompletion, Holding, KindOf, Plain, ReturnLabels
  <2>4. ctx[w].type \in KindOf(l) /\ l # "sendCompletion"
        /\ l \in Holding \cup {"disconnect", "disconnectCall", "sendJob", "flush", "flushed", "gqcs"}
    BY <2>3 DEF KindOf, Holding, IOTypes
  <2>5. mRecvBuffer' = [s \in Sessions |-> mRecvBuffer'[s]]
    BY <1>7 DEF RecvCompletion, Base, Fields
  <2>6. UNCHANGED <<mConnected, mRefCount, issued, gen, sock, mSendBuffer, rcvd>>
    BY <1>7 DEF RecvCompletion
  <2>7. Fields'
    BY <2>5, <2>6 DEF Base, Fields
  <2>8. QED BY <1>0, <2>2, <2>3, <2>4, <2>7, BaseOfQuietWalk
<1>8. CASE PostSend(w)
  <2>1. pc[w] = "postSend" /\ Goto(w, "preRecv") /\ UNCHANGED <<ctx, ret, ios, mSendPendingCount>>
    BY <1>8 DEF PostSend
  <2>2. Plain(pc[w]) /\ ctx[w] # NoContext /\ ctx[w].type = "IO_RECV"
    BY <2>1, KindInHand DEF Holding, KindOf, Plain, ReturnLabels
  <2>3. Remote(w)' = Remote(w)
    BY <2>1, <2>2 DEF Remote
  <2>4. PICK s : \/ sendList' = [sendList EXCEPT ![w] = Append(@, s)]
                 \/ sendList' = sendList
    BY <1>8 DEF PostSend
  <2>5. \A v \in Workers \ {w} : sendList'[v] = sendList[v]
    BY <2>4 DEF Base, IInv, ControlInv
  <2>6. Walk(w, "preRecv")
    BY <2>1, <2>3, <2>5 DEF Walk, Goto
  <2>7. ctx[w].type \in KindOf("preRecv") /\ "preRecv" \in Holding
    BY <2>2 DEF KindOf, Holding
  <2>8. PICK t, x, y : /\ mSendBuffer' = [mSendBuffer EXCEPT ![t] = x]
                       /\ mRecvBuffer' = [mRecvBuffer EXCEPT ![t] = y]
    BY <1>8 DEF PostSend
  <2>9. mSendBuffer' = [r \in Sessions |-> mSendBuffer'[r]]
        /\ mRecvBuffer' = [r \in Sessions |-> mRecvBuffer'[r]]
    BY <2>8 DEF Base, Fields
  <2>10. UNCHANGED <<mConnected, mRefCount, issued, gen, sock, rcvd>>
    BY <1>8 DEF PostSend
  <2>11. Fields'
    BY <2>9, <2>10 DEF Base, Fields
  <2>12. QED BY <1>0, <2>1, <2>2, <2>6, <2>7, <2>11, BaseOfQuietWalk
<1>9. CASE DisconnectCompletion(w)
  <2>1. ctx[w] # NoContext /\ Remote(w) \in Sessions
    BY <1>9, KindInHand DEF DisconnectCompletion, Holding
  <2>2. /\ ReleaseRef(w, Remote(w), "drop")
        /\ UNCHANGED <<mConnected, gen, sock, mSendBuffer, mRecvBuffer, rcvd, sendList, ios,
                       mSendPendingCount>>
    BY <1>9 DEF DisconnectCompletion
  <2>3. issued' \in [Sessions -> BOOLEAN]
    BY <1>9 DEF DisconnectCompletion, Base, Fields
  <2>4. Fields'
    BY <2>1, <2>2, <2>3, FieldsOfRelease
  <2>5. QED BY <1>0, <2>1, <2>2, <2>4, BaseOfRelease
<1>10. CASE DisconnectRequest(w)
  <2>1. PICK l \in {"disconnectCall", "drop", "flushed"} :
          Goto(w, l) /\ (l = "drop" => ctx[w] # NoContext) /\ (l = "flushed" => ctx[w] = NoContext)
    BY <1>10 DEF DisconnectRequest, AfterDisconnect
  <2>2. Walk(w, l) /\ UNCHANGED <<ios, mSendPendingCount>>
    BY <1>10, <2>1, WalkOf DEF DisconnectRequest
  <2>3. pc[w] = "disconnect" /\ Plain(pc[w]) /\ (ctx[w] # NoContext => ctx[w].type \in IOTypes)
    BY <1>10, KindInHand DEF DisconnectRequest, Plain, ReturnLabels
  <2>4. /\ ctx[w] # NoContext => ctx[w].type \in KindOf(l)
        /\ l # "sendCompletion" /\ (l \in Holding => ctx[w] # NoContext)
        /\ l \in Holding \cup {"disconnect", "disconnectCall", "sendJob", "flush", "flushed", "gqcs"}
    BY <2>1, <2>3 DEF KindOf, Holding
  <2>5. Fields'
    BY <1>10 DEF DisconnectRequest, Base, Fields
  <2>6. QED BY <1>0, <2>2, <2>3, <2>4, <2>5, BaseOfQuietWalk
<1>11. CASE DisconnectCall(w)
  <2>1. PICK l \in {"drop", "flushed"} :
          /\ Goto(w, l) /\ (l = "drop" => ctx[w] # NoContext) /\ (l = "flushed" => ctx[w] = NoContext)
          /\ Post(w, "IO_DISCONNECT", 0, 0) \/ Refused
    BY <1>11 DEF DisconnectCall, AfterDisconnect
  <2>2. UNCHANGED <<ctx, ret, sendList, mSendPendingCount, mConnected, issued, gen,
                    mSendBuffer, mRecvBuffer, rcvd>> /\ pc[w] = "disconnectCall"
    BY <1>11 DEF DisconnectCall
  <2>3. sock' \in [Sessions -> SocketStates]
    BY <1>11 DEF DisconnectCall, Base, Fields, SocketStates
  <2>4. QED BY <1>0, <2>1, <2>2, <2>3, BaseOfPost
<1>12. CASE DeleteIoContext(w)
  <2>1. Remote(w) \in Sessions
    BY <1>12, KindInHand DEF DeleteIoContext
  <2>2. /\ ReleaseRef(w, Remote(w), "sendJob")
        /\ UNCHANGED <<mConnected, gen, sock, mSendBuffer, mRecvBuffer, rcvd, sendList, ios,
                       mSendPendingCount, issued>>
    BY <1>12 DEF DeleteIoContext
  <2>3. Fields'
    BY <2>1, <2>2, FieldsOfRelease DEF Base, Fields
  <2>4. QED BY <1>0, <2>1, <2>2, <2>3, BaseOfRelease
<1>13. CASE ReturnClientSession(w)
  <2>0. pc[w] = "return"
    BY <1>13 DEF ReturnClientSession
  <2>1. Goto(w, "sessionReset") /\ UNCHANGED <<ctx, ret, sendList, ios, mSendPendingCount>>
    BY <1>13 DEF ReturnClientSession
  <2>2. Others(w) /\ pc'[w] = "sessionReset" /\ ctx' = ctx
    BY <2>1 DEF Others, Goto, Base, IInv, ControlInv
  <2>3. Kinds'
    <3>1. Holds(w)' => ctx'[w] # NoContext
      BY <2>1, <2>2, <2>0 DEF Holds, Returning, Holding, Base, Kinds
    <3>2. ctx'[w] # NoContext => ctx'[w].type \in KindOf(pc'[w])
      BY <2>2, KindInHand DEF KindOf
    <3>3. QED BY <2>1, <2>2, <3>1, <3>2, OthersKeepKinds DEF Base, Kinds
  <2>4. SendInv'
    BY <2>1, <2>2, OthersKeepSends
  <2>5. Fields'
    BY <1>13 DEF ReturnClientSession, Base, Fields
  <2>6. QED BY <1>0, <2>3, <2>4, <2>5 DEF Base
<1>14. CASE SessionReset(w)
  <2>0. pc[w] = "sessionReset"
    BY <1>14 DEF SessionReset
  <2>1. Goto(w, "sessionResetSend") /\ UNCHANGED <<ctx, ret, sendList, ios, mSendPendingCount>>
    BY <1>14 DEF SessionReset
  <2>2. Others(w) /\ pc'[w] = "sessionResetSend" /\ ctx' = ctx
    BY <2>1 DEF Others, Goto, Base, IInv, ControlInv
  <2>3. Kinds'
    <3>1. Holds(w)' => ctx'[w] # NoContext
      BY <2>1, <2>2, <2>0 DEF Holds, Returning, Holding, Base, Kinds
    <3>2. ctx'[w] # NoContext => ctx'[w].type \in KindOf(pc'[w])
      BY <2>2, KindInHand DEF KindOf
    <3>3. QED BY <2>1, <2>2, <3>1, <3>2, OthersKeepKinds DEF Base, Kinds
  <2>4. SendInv'
    BY <2>1, <2>2, OthersKeepSends
  <2>5. mConnected' \in [Sessions -> {0, 1}] /\ mRefCount' \in [Sessions -> Int]
    <3>1. PICK r \in Sessions : /\ mConnected' = [mConnected EXCEPT ![r] = 0]
                                /\ mRefCount' = [mRefCount EXCEPT ![r] = 0]
      BY <1>14, KindInHand DEF SessionReset
    <3>2. mConnected \in [Sessions -> {0, 1}] /\ mRefCount \in [Sessions -> Int]
      BY DEF Base, Fields
    <3>3. mConnected' \in [Sessions -> {0, 1}]
      BY <3>1, <3>2
    <3>4. mRefCount' \in [Sessions -> Int]
      BY <3>1, <3>2
    <3>5. QED BY <3>3, <3>4
  <2>6. mRecvBuffer' = [r \in Sessions |-> mRecvBuffer'[r]]
    BY <1>14 DEF SessionReset, Base, Fields
  <2>7. UNCHANGED <<issued, gen, sock, mSendBuffer, rcvd>>
    BY <1>14 DEF SessionReset
  <2>8. Fields'
    BY <2>5, <2>6, <2>7 DEF Base, Fields
  <2>9. QED BY <1>0, <2>3, <2>4, <2>8 DEF Base
<1>15. CASE SessionResetSend(w)
  <2>1. Resume(w, ret[w]) /\ ret' = [ret EXCEPT ![w] = "sendJob"]
        /\ UNCHANGED <<sendList, ios, mSendPendingCount>> /\ pc[w] = "sessionResetSend"
    BY <1>15 DEF SessionResetSend
  <2>2. /\ Others(w) /\ pc'[w] = ret[w] /\ ret[w] \in {"sendJob", "drop", "disconnect"}
        /\ ctx'[w] = IF ret[w] = "sendJob" THEN NoContext ELSE ctx[w]
    BY <2>1 DEF Others, Resume, Goto, Base, IInv, ControlInv
  <2>3. Holds(w)' => ctx'[w] # NoContext
    BY <2>1, <2>2 DEF Holds, Returning, Holding, Base, Kinds
  <2>4. ctx'[w] # NoContext => ctx'[w].type \in KindOf(pc'[w])
    BY <2>2, KindInHand DEF KindOf
  <2>5. Kinds'
    BY <2>1, <2>2, <2>3, <2>4, OthersKeepKinds DEF Base, Kinds
  <2>6. SendInv'
    BY <2>1, <2>2, OthersKeepSends
  <2>7. Fields'
    BY <1>15 DEF SessionResetSend, Base, Fields, SocketStates
  <2>8. QED BY <1>0, <2>5, <2>6, <2>7 DEF Base
<1>16. CASE SendJob(w)
  <2>1. PICK l \in {"gqcs", "flush", "disconnect"} : Goto(w, l)
    BY <1>16 DEF SendJob
  <2>2. Walk(w, l) /\ UNCHANGED <<ios, mSendPendingCount>>
    BY <1>16, <2>1, WalkOf DEF SendJob
  <2>3. pc[w] = "sendJob" /\ Plain(pc[w]) /\ ctx[w] = NoContext
    BY <1>16, KindInHand DEF SendJob, WithoutContext, Plain, ReturnLabels
  <2>4. l \notin Holding /\ l # "sendCompletion"
        /\ l \in Holding \cup {"disconnect", "disconnectCall", "sendJob", "flush", "flushed", "gqcs"}
    BY DEF Holding
  <2>5. Fields'
    BY <1>16 DEF SendJob, Base, Fields
  <2>6. QED BY <1>0, <2>2, <2>3, <2>4, <2>5, BaseOfQuietWalk
<1>17. CASE FlushNothing(w)
  <2>1. PICK l \in {"flushed", "sendJob"} : Goto(w, l)
    BY <1>17 DEF FlushNothing
  <2>2. Walk(w, l) /\ UNCHANGED <<ios, mSendPendingCount>>
    BY <1>17, <2>1, WalkOf DEF FlushNothing
  <2>3. pc[w] = "flush" /\ Plain(pc[w]) /\ ctx[w] = NoContext
    BY <1>17, KindInHand DEF FlushNothing, WithoutContext, Plain, ReturnLabels
  <2>4. l \notin Holding /\ l # "sendCompletion"
        /\ l \in Holding \cup {"disconnect", "disconnectCall", "sendJob", "flush", "flushed", "gqcs"}
    BY DEF Holding
  <2>5. Fields'
    BY <1>17 DEF FlushNothing, Base, Fields
  <2>6. QED BY <1>0, <2>2, <2>3, <2>4, <2>5, BaseOfQuietWalk
<1>18. CASE FlushSend(w)
  BY <1>0, <1>18, BaseOfFlushSend
<1>19. CASE FlushRelease(w)
  <2>1. Remote(w) \in Sessions
    BY <1>19, KindInHand DEF FlushRelease
  <2>2. /\ ReleaseRef(w, Remote(w), "disconnect")
        /\ UNCHANGED <<mConnected, gen, sock, mSendBuffer, mRecvBuffer, rcvd, sendList, ios,
                       mSendPendingCount, issued>>
    BY <1>19 DEF FlushRelease
  <2>3. Fields'
    BY <2>1, <2>2, FieldsOfRelease DEF Base, Fields
  <2>4. QED BY <1>0, <2>1, <2>2, <2>3, BaseOfRelease
<1>20. CASE Flushed(w)
  <2>1. Goto(w, "sendJob") /\ sendList' = [sendList EXCEPT ![w] = Tail(@)]
        /\ UNCHANGED <<ctx, ret, ios, mSendPendingCount>> /\ pc[w] = "flushed"
    BY <1>20 DEF Flushed
  <2>2. Others(w) /\ pc'[w] = "sendJob" /\ ctx'[w] = NoContext
    BY <2>1, KindInHand DEF Others, Goto, Base, IInv, ControlInv, WithoutContext
  <2>3. Kinds'
    BY <2>1, <2>2, OthersKeepKinds DEF Holds, Returning, Holding, Base, Kinds
  <2>4. SendInv'
    BY <2>1, <2>2, OthersKeepSends
  <2>5. Fields'
    BY <1>20 DEF Flushed, Base, Fields
  <2>6. QED BY <1>0, <2>3, <2>4, <2>5 DEF Base
<1>21. QED
  BY <1>1, <1>1a, <1>2, <1>3, <1>4, <1>5, <1>6, <1>7, <1>8, <1>9, <1>10, <1>11, <1>12, <1>13,
     <1>14, <1>15, <1>16, <1>17, <1>18, <1>19, <1>20 DEF Step

LEMMA BaseIsInductive ==
  /\ Init => Base
  /\ Base /\ [Next]_vars => Base'
<1>1. ASSUME Init PROVE Base
  <2>1. IInv
    BY <1>1, InitIInv
  <2>2. Kinds
    BY <1>1, FS_EmptySet DEF Init, Kinds, Holds, Holding, Returning
  <2>3. Fields
    BY <1>1 DEF Init, Fields, SocketStates
  <2>4. SendInv
    BY <1>1 DEF Init, SendInv, SendIos, SendWorkers, AtMostOne
  <2>5. QED BY <2>1, <2>2, <2>3, <2>4 DEF Base
<1>2. ASSUME Base, [Next]_vars PROVE Base'
  <2>1. CASE Accept
    BY <1>2, <2>1, AcceptKeepsIInv, BaseOfAccept DEF Base
  <2>2. ASSUME NEW w \in Workers, NEW c \in ios, Dequeue(w, c) PROVE Base'
    BY <1>2, <2>2, DequeueKeepsIInv, BaseOfDequeue DEF Base
  <2>3. ASSUME NEW w \in Workers, Step(w) PROVE Base'
    BY <1>2, <2>3, StepKeepsBase
  <2>4. CASE UNCHANGED vars
    <3>1. IInv'
      BY <1>2, <2>4 DEF vars, workerVars, poolVars, Base, IInv, ControlInv, PoolInv
    <3>2. Kinds'
      BY <1>2, <2>4 DEF vars, workerVars, Base, Kinds, Holds, Returning
    <3>3. Fields'
      BY <1>2, <2>4 DEF vars, countVars, historyVars, byteVars, sendVars, Base, Fields
    <3>4. SendInv'
      BY <1>2, <2>4 DEF vars, workerVars, sendVars, Base, SendInv, SendIos, SendWorkers, AtMostOne, Remote
    <3>5. QED BY <3>1, <3>2, <3>3, <3>4 DEF Base
  <2>5. QED BY <1>2, <2>1, <2>2, <2>3, <2>4 DEF Next, GetQueuedCompletionStatus
<1>3. QED BY <1>1, <1>2

LEMMA SmallSets ==
  ASSUME NEW S, \A x, y \in S : x = y
  PROVE  Cardinality(S) \in {0, 1} /\ (Cardinality(S) = 0 <=> S = {})
<1>1. CASE S = {}
  BY <1>1, FS_EmptySet
<1>2. CASE S # {}
  <2>1. PICK x \in S : TRUE
    BY <1>2
  <2>2. S = {x}
    BY <2>1
  <2>3. QED BY <2>2, FS_Singleton
<1>3. QED BY <1>1, <1>2

\* A session has at most one send in flight: FlushSend posts one only while
\* mSendPendingCount is zero, and each send in flight is counted there.
THEOREM SendsDoNotOvertake == Spec => []OneSend
<1>1. ASSUME Base, NEW s \in Sessions
      PROVE  Cardinality({c \in InFlight(s) : c.type = "IO_SEND"}) <= 1
  <2>1. {c \in InFlight(s) : c.type = "IO_SEND"} = SendIos(s)
    BY DEF InFlight, SendIos
  <2>2. \A x, y \in SendIos(s) : x = y
    BY <1>1 DEF Base, SendInv, AtMostOne
  <2>3. Cardinality(SendIos(s)) \in {0, 1}
    BY <2>2, SmallSets
  <2>4. QED BY <2>1, <2>3
<1>2. Base => OneSend
  BY <1>1 DEF OneSend
<1>3. QED BY <1>2, BaseIsInductive, PTL DEF Spec

-----------------------------------------------------------------------------
(* What a walk leaves alone while no session has been revived.               *)

\* It does not touch the stages of a session's life.
LEMMA WalkKeepsStages ==
  ASSUME Base, Live, NEW w \in Workers, NEW l, Walk(w, l), Plain(pc[w]), Plain(l),
         l \notin StageLabels,
         \A c \in ios' : c \in ios \/ c.type \notin {"IO_ACCEPT", "IO_DISCONNECT"},
         UNCHANGED <<mConnected, issued>>,
         \A s \in Sessions : sock'[s] \in {"down", "lost"} => sock[s] \in {"down", "lost"}
  PROVE  Stages'
<1>1. ASSUME NEW s \in Sessions
      PROVE  /\ StageIos(s)' \subseteq StageIos(s)
             /\ \A v \in StageWorkers(s)' : v \in StageWorkers(s) /\ pc'[v] = pc[v]
  <2>1. StageIos(s)' \subseteq StageIos(s)
    BY DEF StageIos
  <2>2. \A v \in StageWorkers(s)' : v \in StageWorkers(s) /\ v # w
    BY WalkSets
  <2>3. \A v : v # w => pc'[v] = pc[v]
    BY DEF Walk, Base, IInv, ControlInv
  <2>4. QED BY <2>1, <2>2, <2>3
<1>2. ASSUME NEW s \in Sessions
      PROVE  AtMostOne(StageIos(s)', StageWorkers(s)')
  BY <1>1, FewerIsFine DEF Live, Stages
<1>3. QED BY <1>1, <1>2 DEF Live, Stages, AtMostOne

\* It does not come to the receive side of a session from elsewhere.
LEMMA WalkKeepsReceives ==
  ASSUME Base, Live, NEW w \in Workers, NEW l, Walk(w, l), Plain(pc[w]), Plain(l),
         pc[w] # "drop", \A c \in ios' : c \in ios \/ c.type \notin ReceiveTypes
  PROVE  Receives'
<1>1. ASSUME NEW s \in Sessions
      PROVE  ReceiveIos(s)' \subseteq ReceiveIos(s) /\ ReceiveWorkers(s)' \subseteq ReceiveWorkers(s)
  <2>1. ReceiveIos(s)' \subseteq ReceiveIos(s)
    BY DEF ReceiveIos
  <2>2. w \in Handlers(s) /\ ctx[w].type \in ReceiveTypes => w \in ReceiveWorkers(s)
    BY DEF ReceiveWorkers, Plain, Returning, ReturnLabels
  <2>3. ReceiveWorkers(s)' \subseteq ReceiveWorkers(s)
    BY <2>2, WalkSets
  <2>4. QED BY <2>1, <2>3
<1>2. \A s \in Sessions : AtMostOne(ReceiveIos(s)', ReceiveWorkers(s)')
  BY <1>1, FewerIsFine DEF Live, Receives
<1>3. QED BY <1>2 DEF Receives, AtMostOne

\* It passes the receive side on to an operation in flight.
LEMMA PostKeepsReceives ==
  ASSUME Base, Live, NEW w \in Workers, NEW l, Walk(w, l), Plain(pc[w]), l = "drop",
         NEW s \in Sessions, w \in ReceiveWorkers(s), Remote(w) = s,
         NEW c, c.sess = s, ios' = ios \cup {c}
  PROVE  Receives'
<1>1. Plain(l)
  BY PlainLabels DEF Holding
<1>2. ASSUME NEW t \in Sessions
      PROVE  AtMostOne(ReceiveIos(t)', ReceiveWorkers(t)')
  <2>1. ReceiveWorkers(t)' \subseteq ReceiveWorkers(t) \ {w}
    BY <1>1, WalkSets
  <2>2. CASE t = s
    <3>1. ReceiveIos(t)' \subseteq ReceiveIos(t) \cup {c}
      BY DEF ReceiveIos
    <3>2. QED BY <2>1, <2>2, <3>1, RightToLeft DEF Live, Receives
  <2>3. CASE t # s
    <3>1. ReceiveIos(t)' \subseteq ReceiveIos(t)
      BY <2>3 DEF ReceiveIos
    <3>2. QED BY <2>1, <3>1, FewerIsFine DEF Live, Receives
  <2>4. QED BY <2>2, <2>3
<1>3. QED BY <1>2 DEF Receives, AtMostOne

\* It may leave a session unwatched only if that session is closed.
LEMMA WalkKeepsListening ==
  ASSUME Base, Live, NEW w \in Workers, NEW l, Walk(w, l), Plain(pc[w]), Plain(l),
         pc[w] # "drop", NEW s \in Sessions, UNCHANGED rcvd,
         \A t \in Sessions : t # s => w \notin Handlers(t),
         \A c \in ios' : c \in ios \/ (c.sess = s /\ c.type # "IO_ACCEPT"), ios \subseteq ios',
         \A t \in Sessions : t # s => mConnected'[t] = mConnected[t],
         mConnected'[s] = 1 /\ ReceiveIos(s)' = {} /\ ReceiveWorkers(s)' = {} =>
           "WSARecv" \in Faults /\ rcvd[s] = << >>
  PROVE  Listening'
<1>0. ctx' = ctx
  BY DEF Walk
<1>1. ASSUME NEW t \in Sessions
      PROVE  ReceiveWorkers(t)' \subseteq ReceiveWorkers(t)
  <2>1. w \in Handlers(t) /\ ctx[w].type \in ReceiveTypes => w \in ReceiveWorkers(t)
    BY DEF ReceiveWorkers, Plain, Returning, ReturnLabels
  <2>2. QED BY <2>1, WalkSets
<1>2. ASSUME NEW t \in Sessions
      PROVE  \A c \in ReceiveIos(t)' : c.type = "IO_ACCEPT" => c \in ReceiveIos(t)
  BY DEF ReceiveIos
<1>3. ASSUME NEW t \in Sessions, t # s
      PROVE  ReceiveIos(t)' = ReceiveIos(t) /\ ReceiveWorkers(t)' = ReceiveWorkers(t)
  <2>1. ReceiveIos(t)' = ReceiveIos(t)
    BY <1>3 DEF ReceiveIos
  <2>2. w \notin Handlers(t)
    BY <1>3
  <2>3. w \notin ReceiveWorkers(t)
    BY <2>2 DEF ReceiveWorkers
  <2>4. \A v : v \in ReceiveWorkers(t)' <=> v \in ReceiveWorkers(t)
    BY <2>2, <2>3, WalkSets
  <2>5. ReceiveWorkers(t)' = ReceiveWorkers(t)
    <3>1. ReceiveWorkers(t)' \subseteq Workers /\ ReceiveWorkers(t) \subseteq Workers
      BY DEF ReceiveWorkers, Handlers
    <3>2. QED BY <2>4, <3>1, Zenon
  <2>6. QED BY <2>1, <2>5
<1>4. ASSUME NEW t \in Sessions
      PROVE  mConnected'[t] = 1 /\ ReceiveIos(t)' = {} /\ ReceiveWorkers(t)' = {} =>
               "WSARecv" \in Faults /\ rcvd[t] = << >>
  <2>1. CASE t = s
    BY <2>1
  <2>2. CASE t # s
    BY <2>2, <1>3 DEF Live, Listening, IsConnected
  <2>3. QED BY <2>1, <2>2
<1>5. ASSUME NEW t \in Sessions
      PROVE  /\ \A c \in ReceiveIos(t)' : c.type = "IO_ACCEPT" => rcvd[t] = << >>
             /\ \A v \in ReceiveWorkers(t)' : ctx[v].type = "IO_ACCEPT" => rcvd[t] = << >>
  BY <1>1, <1>2 DEF Live, Listening
<1>6. QED BY <1>0, <1>4, <1>5 DEF Listening, IsConnected

\* It does not touch the buffers and the socket of a session nobody has.
LEMMA WalkKeepsClean ==
  ASSUME Base, Live, NEW w \in Workers, NEW l, Walk(w, l), Plain(pc[w]), Plain(l),
         UNCHANGED mFreeSessionList,
         \A s \in Sessions : InFreeList(s) \/ Returners(s) # {} =>
           mRecvBuffer'[s] = mRecvBuffer[s] /\ mSendBuffer'[s] = mSendBuffer[s] /\ sock'[s] = sock[s]
  PROVE  Clean'
<1>1. \A s : InFreeList(s)' = InFreeList(s) /\ Returners(s)' = Returners(s)
  BY WalkSets DEF InFreeList
<1>2. \A s : \A v \in Returners(s) : pc'[v] = pc[v]
  BY DEF Walk, Base, IInv, ControlInv, Returners, Returning, Plain, ReturnLabels
<1>3. QED BY <1>1, <1>2 DEF Live, Clean

-----------------------------------------------------------------------------
(* One lemma per action: no step makes a reference that is not counted.      *)

\* A worker with a context in hand refers to its session, which is busy then.
LEMMA InHand ==
  ASSUME Base, Live, NEW w \in Workers, ctx[w] # NoContext, Plain(pc[w])
  PROVE  /\ Remote(w) \in Sessions /\ Remote(w) = ctx[w].sess
         /\ \A t : w \in Handlers(t) <=> t = Remote(w)
         /\ mRefCount[Remote(w)] \in Nat \ {0}
         /\ ~InFreeList(Remote(w)) /\ Returners(Remote(w)) = {}
         /\ ctx[w].type \in ReceiveTypes /\ pc[w] # "drop" => w \in ReceiveWorkers(Remote(w))
<1>1. Remote(w) \in Sessions /\ Remote(w) = ctx[w].sess
  BY KindInHand
<1>2. ~Returning(w)
  BY DEF Plain, ReturnLabels, Returning
<1>3. \A t : w \in Handlers(t) <=> t = Remote(w)
  BY <1>1, <1>2 DEF Handlers
<1>4. /\ mRefCount[Remote(w)] \in Nat \ {0}
      /\ ~InFreeList(Remote(w)) /\ Returners(Remote(w)) = {}
  BY <1>1, <1>3, ReferredIsBusy
<1>5. ctx[w].type \in ReceiveTypes /\ pc[w] # "drop" => w \in ReceiveWorkers(Remote(w))
  BY <1>2, <1>3 DEF ReceiveWorkers
<1>6. QED BY <1>1, <1>3, <1>4, <1>5

\* A walk that starts and ends nothing, and keeps its side of the session watched.
LEMMA LiveOfSocketWalk ==
  ASSUME Base, Live, NEW w \in Workers, NEW l, Walk(w, l), Plain(pc[w]), Plain(l),
         pc[w] # "drop", l \notin StageLabels,
         NEW s \in Sessions, \A t \in Sessions : t # s => w \notin Handlers(t),
         UNCHANGED <<status, ios, mRefCount, issued, gen, mFreeSessionList, mConnected, rcvd>>,
         \A t \in Sessions : InFreeList(t) \/ Returners(t) # {} =>
           mRecvBuffer'[t] = mRecvBuffer[t] /\ mSendBuffer'[t] = mSendBuffer[t]
             /\ sock'[t] = sock[t],
         \A t \in Sessions : sock'[t] \in {"down", "lost"} => sock[t] \in {"down", "lost"},
         \/ l # "drop" \/ ctx[w] = NoContext \/ ctx[w].type \notin ReceiveTypes
         \/ mConnected[s] = 0 \/ ("WSARecv" \in Faults /\ rcvd[s] = << >>)
  PROVE  Live'
<1>1. Counted' /\ Idle' /\ Current'
  BY WalkKeepsCounts
<1>2. Stages'
  BY WalkKeepsStages
<1>3. Receives'
  BY WalkKeepsReceives
<1>4. mConnected'[s] = 1 /\ ReceiveIos(s)' = {} /\ ReceiveWorkers(s)' = {} =>
        "WSARecv" \in Faults /\ rcvd[s] = << >>
  <2>1. ReceiveIos(s)' = ReceiveIos(s)
    BY DEF ReceiveIos
  <2>2. CASE mConnected[s] = 0 \/ ("WSARecv" \in Faults /\ rcvd[s] = << >>)
    BY <2>2
  <2>3. CASE l # "drop" \/ ctx[w] = NoContext \/ ctx[w].type \notin ReceiveTypes
    <3>1. ASSUME NEW v \in ReceiveWorkers(s) PROVE v \in ReceiveWorkers(s)'
      <4>1. v = w => l # "drop" /\ w \in Handlers(s) /\ ctx[w].type \in ReceiveTypes
        BY <2>3 DEF ReceiveWorkers, Handlers
      <4>2. QED BY <4>1, WalkSets
    <3>2. ReceiveWorkers(s)' = {} => ReceiveWorkers(s) = {}
      BY <3>1
    <3>3. QED BY <2>1, <3>2 DEF Live, Listening, IsConnected
  <2>4. QED BY <2>2, <2>3
<1>5. Listening'
  BY <1>4, WalkKeepsListening
<1>6. Clean'
  BY WalkKeepsClean
<1>7. QED BY <1>1, <1>2, <1>3, <1>5, <1>6 DEF Live

LEMMA LiveOfQuietWalk ==
  ASSUME Base, Live, NEW w \in Workers, NEW l, Walk(w, l), Plain(pc[w]), Plain(l),
         pc[w] # "drop", l \notin StageLabels,
         NEW s \in Sessions, \A t \in Sessions : t # s => w \notin Handlers(t),
         UNCHANGED <<status, ios, mRefCount, issued, gen, mFreeSessionList, mConnected, sock, rcvd>>,
         \A t \in Sessions : InFreeList(t) \/ Returners(t) # {} =>
           mRecvBuffer'[t] = mRecvBuffer[t] /\ mSendBuffer'[t] = mSendBuffer[t],
         \/ l # "drop" \/ ctx[w] = NoContext \/ ctx[w].type \notin ReceiveTypes
         \/ mConnected[s] = 0 \/ ("WSARecv" \in Faults /\ rcvd[s] = << >>)
  PROVE  Live'
<1>1. /\ \A t \in Sessions : sock'[t] = sock[t]
      /\ \A t \in Sessions : sock'[t] \in {"down", "lost"} => sock[t] \in {"down", "lost"}
  OBVIOUS
<1>2. QED BY <1>1, LiveOfSocketWalk

\* A walk that passes the receive side on to a receive in flight.
LEMMA LiveOfReceivePost ==
  ASSUME Base, Live, NEW w \in Workers, Walk(w, "drop"), Plain(pc[w]), pc[w] # "drop",
         NEW s \in Sessions, Remote(w) = s, w \in ReceiveWorkers(s),
         NEW type \in {"IO_RECV_ZERO", "IO_RECV"}, NEW at, NEW len, Post(w, type, at, len),
         UNCHANGED <<status, issued, gen, mFreeSessionList, mConnected, sock, rcvd, mSendBuffer,
                     mRecvBuffer>>
  PROVE  Live'
<1> DEFINE c == Context(type, s, at, len)
<1>1. c.sess = s /\ c.type = type /\ ios' = ios \cup {c}
  BY DEF Context, Post
<1>2. Plain("drop") /\ "drop" \notin StageLabels
  BY DEF Plain, ReturnLabels, StageLabels
<1>3. ReceiveIos(s) = {}
  BY DEF Live, Receives, AtMostOne
<1>4. c \notin ios
  BY <1>1, <1>3 DEF ReceiveIos, ReceiveTypes
<1>5. ctx[w] # NoContext /\ w \in Handlers(s)
  BY DEF ReceiveWorkers, Handlers
<1>6. mRefCount[s] # 0 /\ \A t \in Sessions : t # s => w \notin Handlers(t)
  BY <1>5, InHand
<1>7. Counted' /\ Idle' /\ Current'
  BY <1>2, <1>4, <1>6, PostKeepsCounts
<1> HIDE DEF c
<1>8. Stages'
  BY <1>1, <1>2, WalkKeepsStages
<1>9. Receives'
  BY <1>1, PostKeepsReceives
<1>10. Listening'
  <2>1. c \in ReceiveIos(s)'
    <3>1. c \in ios' /\ c.sess = s /\ c.type \in ReceiveTypes
      BY <1>1 DEF ReceiveTypes
    <3>2. PICK d : d = c
      OBVIOUS
    <3>3. d \in ReceiveIos(s)'
      BY <3>1, <3>2 DEF ReceiveIos
    <3>4. QED BY <3>2, <3>3
  <2>2. ReceiveIos(s)' # {}
    BY <2>1
  <2>3. \A d \in ios' : d \in ios \/ (d.sess = s /\ d.type # "IO_ACCEPT")
    BY <1>1
  <2>4. ios \subseteq ios'
    BY <1>1
  <2>5. QED BY <1>2, <1>6, <2>2, <2>3, <2>4, WalkKeepsListening
<1>11. Clean'
  BY <1>2, WalkKeepsClean
<1>12. QED BY <1>7, <1>8, <1>9, <1>10, <1>11 DEF Live

\* A client has come: its session is connected, and watched by the worker.
LEMMA LiveOfAcceptCompletion ==
  ASSUME Base, Live, NEW w \in Workers, AcceptCompletion(w)
  PROVE  Live'
<1>1. PICK s \in Sessions : s = Remote(w)
  BY KindInHand DEF AcceptCompletion
<1>2. /\ pc[w] = "acceptCompletion" /\ mConnected' = [mConnected EXCEPT ![s] = 1]
      /\ status' = IF IsConnected(s) THEN "crashed" ELSE status
      /\ UNCHANGED <<mFreeSessionList, mRefCount, mSendBuffer, mRecvBuffer, ctx, ret, sendList,
                     ios, sock, gen, issued, rcvd>>
  BY <1>1 DEF AcceptCompletion, poolVars, sendVars, historyVars, byteVars
<1> DEFINE l == "acceptSetup"
<1>3. Goto(w, l)
  BY DEF AcceptCompletion
<1>4. Walk(w, l) /\ Plain(pc[w]) /\ Plain(l) /\ l # "drop" /\ l \notin StageLabels /\ pc[w] # "drop"
  BY <1>2, <1>3, WalkOf DEF Plain, ReturnLabels, StageLabels
<1>5. ctx[w] # NoContext /\ ctx[w].type = "IO_ACCEPT"
  BY <1>2, KindInHand DEF Holding, KindOf
<1>6. w \in StageWorkers(s) /\ w \in ReceiveWorkers(s) /\ (\A t : w \in Handlers(t) <=> t = s)
      /\ ~InFreeList(s) /\ Returners(s) = {}
  <2>1. w \in StageWorkers(s)
    BY <1>1, <1>2 DEF StageWorkers
  <2>2. QED BY <2>1, <1>1, <1>4, <1>5, InHand DEF ReceiveTypes
<1>7. issued[s] /\ mConnected[s] = 0 /\ sock[s] \notin {"down", "lost"} /\ StageIos(s) = {} /\ StageWorkers(s) \subseteq {w}
  <2>1. issued[s]
    BY <1>6 DEF Live, Stages
  <2>2. mConnected[s] = 0
    BY <1>6 DEF Live, Stages, Base, Fields
  <2>3. sock[s] \notin {"down", "lost"}
    BY <1>2, <1>6 DEF Live, Stages, Base, Fields
  <2>4. StageIos(s) = {} /\ StageWorkers(s) \subseteq {w}
    BY <1>6 DEF Live, Stages, AtMostOne
  <2>5. QED BY <2>1, <2>2, <2>3, <2>4
<1>8. status' # "crashed"
  BY <1>2, <1>7 DEF IsConnected, Live
<1>9. Counted' /\ Idle' /\ Current'
  BY <1>2, <1>4, WalkKeepsCounts
<1>10. Stages'
  <2>1. ASSUME NEW t \in Sessions
        PROVE  /\ StageIos(t)' = StageIos(t)
               /\ \A v \in StageWorkers(t)' : v \in StageWorkers(t) /\ v # w /\ pc'[v] = pc[v]
    <3>1. StageIos(t)' = StageIos(t)
      BY <1>2 DEF StageIos
    <3>2. \A v \in StageWorkers(t)' : v \in StageWorkers(t) /\ v # w
      BY <1>4, WalkSets
    <3>3. \A v : v # w => pc'[v] = pc[v]
      BY <1>4 DEF Walk, Base, IInv, ControlInv
    <3>4. QED BY <3>1, <3>2, <3>3
  <2>2. \A t \in Sessions : AtMostOne(StageIos(t)', StageWorkers(t)')
    BY <2>1, FewerIsFine DEF Live, Stages
  <2>3. StageIos(s)' = {} /\ StageWorkers(s)' = {}
    BY <2>1, <1>7
  <2>4. \A t \in Sessions : mConnected'[t] = IF t = s THEN 1 ELSE mConnected[t]
    BY <1>2 DEF Base, Fields
  <2>5. issued' = issued /\ sock' = sock
    BY <1>2
  <2>6. ASSUME NEW t \in Sessions
        PROVE  /\ AtMostOne(StageIos(t), StageWorkers(t))'
               /\ mConnected'[t] = 1 => StageIos(t)' = {} /\ StageWorkers(t)' = {}
               /\ mConnected'[t] = 1 \/ StageIos(t)' # {} \/ StageWorkers(t)' # {} => issued[t]
               /\ sock[t] \in {"down", "lost"} =>
                    /\ mConnected'[t] = 0
                    /\ \A c \in StageIos(t)' : c.type # "IO_ACCEPT"
                    /\ \A v \in StageWorkers(t)' : pc'[v] # "acceptCompletion"
    <3>1. CASE t = s
      BY <3>1, <2>2, <2>3, <1>7 DEF AtMostOne
    <3>2. CASE t # s
      BY <3>2, <2>1, <2>2, <2>4 DEF AtMostOne, Live, Stages
    <3>3. QED BY <3>1, <3>2
  <2>7. QED BY <2>5, <2>6 DEF Stages
<1>11. Receives'
  BY <1>2, <1>4, WalkKeepsReceives
<1>12. Listening'
  <2>1. w \in ReceiveWorkers(s)'
    BY <1>4, <1>5, <1>6, WalkSets DEF ReceiveTypes
  <2>2. ReceiveWorkers(s)' # {}
    BY <2>1
  <2>3. \A t \in Sessions : t # s => mConnected'[t] = mConnected[t] /\ w \notin Handlers(t)
    BY <1>2, <1>6 DEF Base, Fields
  <2>4. QED BY <1>2, <1>4, <2>2, <2>3, WalkKeepsListening
<1>13. Clean'
  BY <1>2, <1>4, WalkKeepsClean
<1>14. QED BY <1>8, <1>9, <1>10, <1>11, <1>12, <1>13 DEF Live

\* The socket of the session is associated with the completion port, or is not.
LEMMA LiveOfAcceptSetup ==
  ASSUME Base, Live, NEW w \in Workers, AcceptSetup(w)
  PROVE  Live'
<1>1. PICK s \in Sessions : s = Remote(w)
  BY KindInHand DEF AcceptSetup
<1>2. /\ pc[w] = "acceptSetup"
      /\ UNCHANGED <<status, mFreeSessionList, mConnected, mRefCount, mSendBuffer, mRecvBuffer,
                     ctx, ret, sendList, ios, gen, issued, rcvd>>
  BY DEF AcceptSetup, poolVars, countVars, sendVars, historyVars, byteVars
<1>3. PICK l \in {"preRecv", "disconnect"} : Goto(w, l)
  BY DEF AcceptSetup
<1>4. Walk(w, l) /\ Plain(pc[w]) /\ Plain(l) /\ l # "drop" /\ l \notin StageLabels /\ pc[w] # "drop"
  BY <1>2, <1>3, WalkOf DEF Plain, ReturnLabels, StageLabels
<1>5. ctx[w] # NoContext
  BY <1>2, KindInHand DEF Holding
<1>6. (\A t : w \in Handlers(t) <=> t = s) /\ ~InFreeList(s) /\ Returners(s) = {}
  BY <1>1, <1>4, <1>5, InHand
<1>7. /\ \A t \in Sessions : t # s => sock'[t] = sock[t]
      /\ sock'[s] \in {"down", "lost"} => sock[s] \in {"down", "lost"}
  <2>1. \/ UNCHANGED sock
        \/ \E x \in Associated(sock[s]) : sock' = [sock EXCEPT ![s] = x]
    BY <1>1 DEF AcceptSetup
  <2>2. \A x \in Associated(sock[s]) : x \in {"down", "lost"} => sock[s] \in {"down", "lost"}
    BY DEF Associated
  <2>3. QED BY <2>1, <2>2 DEF Base, Fields
<1>8. \A t \in Sessions : sock'[t] \in {"down", "lost"} => sock[t] \in {"down", "lost"}
  BY <1>7
<1>9. \A t \in Sessions : InFreeList(t) \/ Returners(t) # {} => sock'[t] = sock[t]
  BY <1>6, <1>7
<1>10. QED BY <1>2, <1>4, <1>6, <1>8, <1>9, LiveOfSocketWalk

\* AcceptCompletion ignores that PreRecv failed, but then nothing was received yet.
LEMMA LiveOfPreRecv ==
  ASSUME Base, Live, NEW w \in Workers, PreRecv(w) \/ PreRecvCall(w)
  PROVE  Live'
<1>1. PICK s \in Sessions : s = Remote(w)
  BY KindInHand DEF PreRecv, PreRecvCall
<1>2. /\ pc[w] \in {"preRecv", "preRecvCall"}
      /\ UNCHANGED <<status, mFreeSessionList, mConnected, mSendBuffer, mRecvBuffer, ctx, ret,
                     sendList, sock, gen, issued, rcvd>>
  BY DEF PreRecv, PreRecvCall, poolVars, countVars, sendVars, historyVars, byteVars
<1>3. Plain(pc[w]) /\ pc[w] # "drop"
  BY <1>2 DEF Plain, ReturnLabels
<1>4. ctx[w] # NoContext /\ ctx[w].type \in {"IO_ACCEPT", "IO_RECV"}
  BY <1>2, KindInHand DEF Holding, KindOf
<1>5. w \in ReceiveWorkers(s) /\ (\A t : w \in Handlers(t) <=> t = s)
  BY <1>1, <1>3, <1>4, InHand DEF ReceiveTypes
<1>6. CASE PreRecvCall(w) /\ Post(w, "IO_RECV_ZERO", 0, 0) /\ Goto(w, AfterPreRecv(w, TRUE))
  <2>1. Walk(w, "drop")
    BY <1>2, <1>6, WalkOf DEF AfterPreRecv
  <2>2. QED BY <1>1, <1>2, <1>3, <1>5, <1>6, <2>1, LiveOfReceivePost
<1>7. ASSUME NEW l \in {"preRecvCall", "disconnect", "drop"}, Goto(w, l), UNCHANGED <<ios, mRefCount>>,
             l = "drop" => ctx[w].type = "IO_ACCEPT"
                           /\ (mConnected[s] = 0 \/ "WSARecv" \in Faults \/ sock[s] \in {"down", "lost"})
      PROVE  Live'
  <2>1. \/ Walk(w, l) /\ Plain(l) /\ l \notin StageLabels
        \/ l \in StageLabels
    BY <1>2, <1>7, WalkOf DEF Plain, ReturnLabels
  <2>2. l \notin StageLabels
    BY <1>7 DEF StageLabels
  <2>3. l = "drop" => mConnected[s] = 0 \/ ("WSARecv" \in Faults /\ rcvd[s] = << >>)
    <3>1. ctx[w].type = "IO_ACCEPT" => rcvd[s] = << >>
      BY <1>5 DEF Live, Listening
    <3>2. sock[s] \in {"down", "lost"} => mConnected[s] = 0
      BY DEF Live, Stages
    <3>3. QED BY <1>7, <3>1, <3>2
  <2>4. \A t \in Sessions : t # s => w \notin Handlers(t)
    BY <1>5
  <2>5. Walk(w, l) /\ Plain(l)
    BY <2>1, <2>2
  <2>6. QED BY <1>2, <1>3, <1>7, <2>2, <2>3, <2>4, <2>5, LiveOfQuietWalk
<1>8. CASE PreRecv(w)
  <2>1. Goto(w, IF IsConnected(s) THEN "preRecvCall" ELSE AfterPreRecv(w, FALSE))
        /\ UNCHANGED <<ios, mRefCount>>
    BY <1>1, <1>8 DEF PreRecv, countVars
  <2>2. CASE IsConnected(s)
    BY <2>1, <2>2, <1>7
  <2>3. CASE ~IsConnected(s)
    <3>1. mConnected[s] = 0
      BY <2>3 DEF IsConnected, Base, Fields
    <3>2. PICK l \in {"disconnect", "drop"} : Goto(w, l) /\ (l = "drop" => ctx[w].type = "IO_ACCEPT")
      BY <2>1, <2>3 DEF AfterPreRecv
    <3>3. QED BY <2>1, <3>1, <3>2, <1>7
  <2>4. QED BY <2>2, <2>3
<1>9. CASE PreRecvCall(w) /\ WSARecvFails(w) /\ Refused /\ Goto(w, AfterPreRecv(w, FALSE))
  <2>1. PICK l \in {"disconnect", "drop"} : Goto(w, l) /\ (l = "drop" => ctx[w].type = "IO_ACCEPT")
    BY <1>9 DEF AfterPreRecv
  <2>2. "WSARecv" \in Faults \/ sock[s] \in {"down", "lost"}
    BY <1>9, <1>1 DEF WSARecvFails, Disconnected
  <2>3. QED BY <2>1, <2>2, <1>9, <1>7 DEF Refused
<1>10. QED BY <1>6, <1>8, <1>9 DEF PreRecvCall

LEMMA LiveOfPostRecv ==
  ASSUME Base, Live, NEW w \in Workers, PostRecv(w) \/ PostRecvCall(w)
  PROVE  Live'
<1>1. PICK s \in Sessions : s = Remote(w)
  BY KindInHand DEF PostRecv, PostRecvCall
<1>2. /\ pc[w] \in {"postRecv", "postRecvCall"}
      /\ UNCHANGED <<status, mFreeSessionList, mConnected, mSendBuffer, ctx, ret,
                     sendList, sock, gen, issued, rcvd>>
  BY DEF PostRecv, PostRecvCall, poolVars, countVars, sendVars, historyVars, byteVars
<1>3. Plain(pc[w]) /\ pc[w] # "drop"
  BY <1>2 DEF Plain, ReturnLabels
<1>4. ctx[w] # NoContext /\ ctx[w].type = "IO_RECV_ZERO"
  BY <1>2, KindInHand DEF Holding, KindOf
<1>5. w \in ReceiveWorkers(s) /\ (\A t : w \in Handlers(t) <=> t = s)
      /\ ~InFreeList(s) /\ Returners(s) = {}
  BY <1>1, <1>3, <1>4, InHand DEF ReceiveTypes
<1>6. CASE PostRecvCall(w) /\ UNCHANGED mRecvBuffer /\ Goto(w, "drop")
           /\ Post(w, "IO_RECV", GetBuffer(mRecvBuffer[s]), GetFreeSpaceSize(mRecvBuffer[s]))
  <2>1. Walk(w, "drop")
    BY <1>2, <1>6, WalkOf
  <2>2. QED BY <1>1, <1>2, <1>3, <1>5, <1>6, <2>1, LiveOfReceivePost
<1>7. ASSUME NEW l \in {"postRecvCall", "disconnect"}, Goto(w, l), UNCHANGED <<ios, mRefCount>>,
             \A t \in Sessions : t # s => mRecvBuffer'[t] = mRecvBuffer[t]
      PROVE  Live'
  <2>1. Walk(w, l) /\ Plain(l)
    BY <1>2, <1>7, WalkOf DEF Plain, ReturnLabels
  <2>2. l \notin StageLabels /\ l # "drop"
    BY <1>7 DEF StageLabels
  <2>3. \A t \in Sessions : InFreeList(t) \/ Returners(t) # {} =>
          mRecvBuffer'[t] = mRecvBuffer[t] /\ mSendBuffer'[t] = mSendBuffer[t]
    BY <1>2, <1>5, <1>7
  <2>4. \A t \in Sessions : t # s => w \notin Handlers(t)
    BY <1>5
  <2>5. QED BY <1>2, <1>3, <1>7, <2>1, <2>2, <2>3, <2>4, LiveOfQuietWalk
<1>8. CASE PostRecv(w)
  <2>1. PICK l \in {"postRecvCall", "disconnect"} : Goto(w, l)
    BY <1>8 DEF PostRecv
  <2>2. UNCHANGED <<ios, mRefCount>>
    BY <1>8 DEF PostRecv, countVars
  <2>3. \A t \in Sessions : t # s => mRecvBuffer'[t] = mRecvBuffer[t]
    <3>1. \/ mRecvBuffer' = [mRecvBuffer EXCEPT ![s] = AfterProbe(@)]
          \/ mRecvBuffer' = mRecvBuffer
      BY <1>1, <1>8 DEF PostRecv
    <3>2. QED BY <3>1 DEF Base, Fields
  <2>4. QED BY <2>1, <2>2, <2>3, <1>7
<1>9. CASE PostRecvCall(w) /\ UNCHANGED mRecvBuffer /\ Refused /\ Goto(w, "disconnect")
  BY <1>9, <1>7 DEF Refused
<1>10. QED BY <1>1, <1>6, <1>8, <1>9 DEF PostRecvCall

\* The handlers that work on the buffers: only those of the session in hand.
LEMMA LiveOfCompletion ==
  ASSUME Base, Live, NEW w \in Workers, SendCompletion(w) \/ RecvCompletion(w) \/ PostSend(w)
  PROVE  Live'
<1>1. PICK s \in Sessions : s = Remote(w)
  BY KindInHand DEF SendCompletion, RecvCompletion, PostSend
<1>2. /\ pc[w] \in {"sendCompletion", "recvCompletion", "postSend"}
      /\ UNCHANGED <<status, mFreeSessionList, mConnected, mRefCount, ctx, ret, ios, sock, gen,
                     issued, rcvd>>
  BY DEF SendCompletion, RecvCompletion, PostSend, poolVars, countVars, historyVars, byteVars
<1>3. Plain(pc[w]) /\ pc[w] # "drop"
  BY <1>2 DEF Plain, ReturnLabels
<1>4. ctx[w] # NoContext /\ (pc[w] = "sendCompletion" => ctx[w].type = "IO_SEND")
  BY <1>2, KindInHand DEF Holding, KindOf
<1>5. (\A t : w \in Handlers(t) <=> t = s) /\ ~InFreeList(s) /\ Returners(s) = {}
  BY <1>1, <1>3, <1>4, InHand
<1>6. PICK l \in {"drop", "disconnect", "postSend", "preRecv"} :
        Goto(w, l) /\ (l = "drop" => pc[w] = "sendCompletion")
  BY DEF SendCompletion, RecvCompletion, PostSend
<1>7. \A v \in Workers \ {w} : sendList'[v] = sendList[v]
  <2>1. CASE PostSend(w)
    <3>1. \/ sendList' = [sendList EXCEPT ![w] = Append(@, s)]
          \/ sendList' = sendList
      BY <1>1, <2>1 DEF PostSend
    <3>2. QED BY <3>1 DEF Base, IInv, ControlInv
  <2>2. QED BY <2>1 DEF SendCompletion, RecvCompletion
<1>8. Walk(w, l) /\ Plain(l) /\ l \notin StageLabels
  <2>1. Remote(w)' = Remote(w)
    BY <1>2, <1>4 DEF Remote
  <2>2. Walk(w, l)
    BY <1>2, <1>6, <1>7, <2>1 DEF Walk, Goto
  <2>3. QED BY <2>2, <1>6 DEF Plain, ReturnLabels, StageLabels
<1>9. \A t \in Sessions : t # s => mRecvBuffer'[t] = mRecvBuffer[t] /\ mSendBuffer'[t] = mSendBuffer[t]
  <2>1. PICK x, y : /\ mSendBuffer' = [mSendBuffer EXCEPT ![s] = x] \/ mSendBuffer' = mSendBuffer
                    /\ mRecvBuffer' = [mRecvBuffer EXCEPT ![s] = y] \/ mRecvBuffer' = mRecvBuffer
    <3>1. CASE SendCompletion(w)
      BY <1>1, <3>1 DEF SendCompletion
    <3>2. CASE RecvCompletion(w)
      BY <1>1, <3>2 DEF RecvCompletion, sendVars
    <3>3. CASE PostSend(w)
      BY <1>1, <3>3 DEF PostSend
    <3>4. QED BY <3>1, <3>2, <3>3
  <2>2. QED BY <2>1 DEF Base, Fields
<1>10. \A t \in Sessions : InFreeList(t) \/ Returners(t) # {} =>
          mRecvBuffer'[t] = mRecvBuffer[t] /\ mSendBuffer'[t] = mSendBuffer[t]
  BY <1>5, <1>9
<1>11. l # "drop" \/ ctx[w].type \notin ReceiveTypes
  BY <1>4, <1>6 DEF ReceiveTypes
<1>12. \A t \in Sessions : t # s => w \notin Handlers(t)
  BY <1>5
<1>13. QED BY <1>2, <1>3, <1>8, <1>10, <1>11, <1>12, LiveOfQuietWalk

\* DoSendJob refers to no session; it only looks at one.
LEMMA LiveOfSendJob ==
  ASSUME Base, Live, NEW w \in Workers, SendJob(w) \/ FlushNothing(w)
  PROVE  Live'
<1>1. PICK s \in Sessions : TRUE
  BY SessionsAssumption
<1>2. /\ pc[w] \in {"sendJob", "flush"}
      /\ UNCHANGED <<status, mFreeSessionList, mConnected, mRefCount, mSendBuffer, mRecvBuffer, ctx,
                     ret, sendList, ios, sock, gen, issued, rcvd>>
  BY DEF SendJob, FlushNothing, poolVars, countVars, sendVars, historyVars, byteVars
<1>3. Plain(pc[w]) /\ pc[w] # "drop"
  BY <1>2 DEF Plain, ReturnLabels
<1>4. ctx[w] = NoContext
  BY <1>2, KindInHand DEF WithoutContext
<1>5. PICK l \in {"gqcs", "flush", "disconnect", "flushed", "sendJob"} : Goto(w, l)
  BY DEF SendJob, FlushNothing
<1>6. Walk(w, l) /\ Plain(l) /\ l \notin StageLabels
  BY <1>2, <1>5, WalkOf DEF Plain, ReturnLabels, StageLabels
<1>7. \A t \in Sessions : w \notin Handlers(t)
  BY <1>4 DEF Handlers
<1>8. QED BY <1>2, <1>3, <1>4, <1>6, <1>7, LiveOfQuietWalk

\* The first DisconnectRequest of a connection goes on to DisconnectEx.
LEMMA LiveOfDisconnectRequest ==
  ASSUME Base, Live, NEW w \in Workers, DisconnectRequest(w)
  PROVE  Live'
<1>1. PICK s \in Sessions : s = Remote(w)
  BY KindInHand DEF DisconnectRequest
<1>2. /\ pc[w] = "disconnect" /\ mConnected' = [mConnected EXCEPT ![s] = 0]
      /\ Goto(w, IF IsConnected(s) THEN "disconnectCall" ELSE AfterDisconnect(w))
      /\ UNCHANGED <<status, mFreeSessionList, mRefCount, mSendBuffer, mRecvBuffer, ctx, ret, sendList,
                     ios, sock, gen, issued, rcvd>>
  BY <1>1 DEF DisconnectRequest, poolVars, sendVars, historyVars, byteVars
<1>3. Plain(pc[w]) /\ pc[w] # "drop"
  BY <1>2 DEF Plain, ReturnLabels
<1>4. \A t \in Sessions : t # s => w \notin Handlers(t)
  BY <1>1, <1>3, InHand DEF Handlers
<1>5. CASE ~IsConnected(s)
  <2>1. mConnected' = mConnected /\ mConnected[s] = 0
    <3>1. mConnected[s] = 0
      BY <1>5 DEF IsConnected, Base, Fields
    <3>2. QED BY <3>1, <1>2 DEF Base, Fields
  <2>2. PICK l \in {"drop", "flushed"} : Goto(w, l)
    BY <1>2, <1>5 DEF AfterDisconnect
  <2>3. Walk(w, l) /\ Plain(l) /\ l \notin StageLabels
    BY <1>2, <2>2, WalkOf DEF Plain, ReturnLabels, StageLabels
  <2>4. QED BY <1>2, <1>3, <1>4, <2>1, <2>3, LiveOfQuietWalk
<1>6. CASE IsConnected(s)
  <2>1. Walk(w, "disconnectCall") /\ Plain("disconnectCall")
    BY <1>2, <1>6, WalkOf DEF Plain, ReturnLabels
  <2>2. mConnected[s] = 1 /\ issued[s] /\ StageIos(s) = {} /\ StageWorkers(s) = {} /\ sock[s] \notin {"down", "lost"}
    BY <1>6 DEF IsConnected, Live, Stages
  <2>3. \A t \in Sessions : mConnected'[t] = IF t = s THEN 0 ELSE mConnected[t]
    BY <1>2 DEF Base, Fields
  <2>4. Counted' /\ Idle' /\ Current'
    BY <1>2, <1>3, <2>1, WalkKeepsCounts
  <2>5. Stages'
    <3>1. \A t \in Sessions : StageIos(t)' = StageIos(t)
      BY <1>2 DEF StageIos
    <3>2. \A t \in Sessions : \A v \in StageWorkers(t)' : (v \in StageWorkers(t) /\ v # w) \/ (v = w /\ t = s)
      BY <1>1, <1>3, <2>1, WalkSets
    <3>3. \A v \in Workers : pc'[v] = IF v = w THEN "disconnectCall" ELSE pc[v]
      BY <2>1 DEF Walk, Base, IInv, ControlInv
    <3>4. issued' = issued /\ sock' = sock
      BY <1>2
    <3>5. ASSUME NEW t \in Sessions
          PROVE  /\ AtMostOne(StageIos(t), StageWorkers(t))'
                 /\ mConnected'[t] = 1 => StageIos(t)' = {} /\ StageWorkers(t)' = {}
                 /\ mConnected'[t] = 1 \/ StageIos(t)' # {} \/ StageWorkers(t)' # {} => issued[t]
                 /\ sock[t] \in {"down", "lost"} =>
                      /\ mConnected'[t] = 0
                      /\ \A c \in StageIos(t)' : c.type # "IO_ACCEPT"
                      /\ \A v \in StageWorkers(t)' : pc'[v] # "acceptCompletion"
      <4>1. CASE t = s
        <5>1. StageIos(t)' = {} /\ StageWorkers(t)' \subseteq {w}
          BY <4>1, <3>1, <3>2, <2>2
        <5>2. QED BY <4>1, <5>1, <2>2, <2>3 DEF AtMostOne
      <4>2. CASE t # s
        <5>1. StageIos(t)' = StageIos(t) /\ StageWorkers(t)' \subseteq StageWorkers(t)
              /\ mConnected'[t] = mConnected[t]
          BY <4>2, <3>1, <3>2, <2>3
        <5>2. AtMostOne(StageIos(t)', StageWorkers(t)')
          BY <5>1, FewerIsFine DEF Live, Stages
        <5>3. \A v \in StageWorkers(t)' : pc'[v] = pc[v]
          BY <4>2, <3>2, <3>3 DEF StageWorkers
        <5>4. QED BY <5>1, <5>2, <5>3 DEF AtMostOne, Live, Stages
      <4>3. QED BY <4>1, <4>2
    <3>6. QED BY <3>4, <3>5 DEF Stages
  <2>6. Receives'
    BY <1>2, <1>3, <2>1, WalkKeepsReceives
  <2>7. Listening'
    <3>1. mConnected'[s] # 1 /\ \A t \in Sessions : t # s => mConnected'[t] = mConnected[t]
      BY <2>3
    <3>2. QED BY <1>2, <1>3, <1>4, <2>1, <3>1, WalkKeepsListening
  <2>8. Clean'
    BY <1>2, <1>3, <2>1, WalkKeepsClean
  <2>9. QED BY <1>2, <2>4, <2>5, <2>6, <2>7, <2>8 DEF Live
<1>7. QED BY <1>5, <1>6

\* DisconnectEx is called once for a connection.
LEMMA LiveOfDisconnectCall ==
  ASSUME Base, Live, NEW w \in Workers, DisconnectCall(w)
  PROVE  Live'
<1>1. PICK s \in Sessions : s = Remote(w)
  BY KindInHand DEF DisconnectCall
<1>2. /\ pc[w] = "disconnectCall"
      /\ UNCHANGED <<status, mFreeSessionList, mConnected, mSendBuffer, mRecvBuffer, ctx, ret, sendList,
                     gen, issued, rcvd>>
  BY DEF DisconnectCall, poolVars, sendVars, historyVars, byteVars
<1>3. Plain(pc[w]) /\ pc[w] # "drop"
  BY <1>2 DEF Plain, ReturnLabels
<1>4. \A t \in Sessions : t # s => w \notin Handlers(t)
  BY <1>1, <1>3, InHand DEF Handlers
<1>5. PICK l \in {"drop", "flushed"} : Goto(w, l)
  BY DEF DisconnectCall, AfterDisconnect
<1>6. Walk(w, l) /\ Plain(l) /\ l \notin StageLabels
  BY <1>2, <1>5, WalkOf DEF Plain, ReturnLabels, StageLabels
<1>7. w \in StageWorkers(s)
  BY <1>1, <1>2 DEF StageWorkers
<1>8. /\ mConnected[s] = 0 /\ issued[s] /\ StageIos(s) = {} /\ StageWorkers(s) \subseteq {w}
      /\ mRefCount[s] # 0 /\ ~InFreeList(s) /\ Returners(s) = {}
  <2>1. mConnected[s] = 0
    BY <1>7 DEF Live, Stages, Base, Fields
  <2>2. issued[s] /\ StageIos(s) = {} /\ StageWorkers(s) \subseteq {w}
    BY <1>7 DEF Live, Stages, AtMostOne
  <2>3. mRefCount[s] # 0 /\ ~InFreeList(s) /\ Returners(s) = {}
    BY <2>2, ReferredIsBusy
  <2>4. QED BY <2>1, <2>2, <2>3
<1>9. CASE UNCHANGED <<ios, mRefCount, sock>>
  BY <1>2, <1>3, <1>4, <1>6, <1>8, <1>9, LiveOfQuietWalk
<1>10. ASSUME NEW x \in {"down", "lost"},
              Post(w, "IO_DISCONNECT", 0, 0), sock' = [sock EXCEPT ![s] = x]
       PROVE  Live'
  <2> DEFINE c == Context("IO_DISCONNECT", s, 0, 0)
  <2>1. c.sess = s /\ c.type = "IO_DISCONNECT" /\ ios' = ios \cup {c}
    BY <1>1, <1>10 DEF Context, Post
  <2>2. c \notin ios
    BY <2>1, <1>8 DEF StageIos
  <2>3. Counted' /\ Idle' /\ Current'
    BY <1>1, <1>2, <1>3, <1>6, <1>8, <1>10, <2>2, PostKeepsCounts
  <2> HIDE DEF c
  <2>4. \A t \in Sessions : sock'[t] = IF t = s THEN x ELSE sock[t]
    BY <1>10 DEF Base, Fields
  <2>5. Stages'
    <3>1. \A t \in Sessions : \A v \in StageWorkers(t)' : v \in StageWorkers(t) /\ v # w
      BY <1>3, <1>6, WalkSets
    <3>2. \A v \in Workers : v # w => pc'[v] = pc[v]
      BY <1>6 DEF Walk, Base, IInv, ControlInv
    <3>3. issued' = issued /\ mConnected' = mConnected
      BY <1>2
    <3>4. ASSUME NEW t \in Sessions
          PROVE  /\ AtMostOne(StageIos(t), StageWorkers(t))'
                 /\ mConnected[t] = 1 => StageIos(t)' = {} /\ StageWorkers(t)' = {}
                 /\ mConnected[t] = 1 \/ StageIos(t)' # {} \/ StageWorkers(t)' # {} => issued[t]
                 /\ sock'[t] \in {"down", "lost"} =>
                      /\ mConnected[t] = 0
                      /\ \A d \in StageIos(t)' : d.type # "IO_ACCEPT"
                      /\ \A v \in StageWorkers(t)' : pc'[v] # "acceptCompletion"
      <4>1. CASE t = s
        <5>1. StageWorkers(t)' = {}
          BY <4>1, <3>1, <1>8
        <5>2. StageIos(t)' \subseteq {c}
          BY <4>1, <1>8, <2>1 DEF StageIos
        <5>3. QED BY <4>1, <5>1, <5>2, <2>1, <1>8 DEF AtMostOne
      <4>2. CASE t # s
        <5>1. StageIos(t)' = StageIos(t)
          BY <4>2, <2>1 DEF StageIos
        <5>2. StageWorkers(t)' \subseteq StageWorkers(t) /\ sock'[t] = sock[t]
          BY <4>2, <3>1, <2>4
        <5>3. AtMostOne(StageIos(t)', StageWorkers(t)')
          BY <5>1, <5>2, FewerIsFine DEF Live, Stages
        <5>4. \A v \in StageWorkers(t)' : pc'[v] = pc[v]
          BY <3>1, <3>2 DEF StageWorkers
        <5>5. QED BY <5>1, <5>2, <5>3, <5>4 DEF AtMostOne, Live, Stages
      <4>3. QED BY <4>1, <4>2
    <3>5. QED BY <3>3, <3>4 DEF Stages
  <2>6. \A d \in ios' : d \in ios \/ (d.sess = s /\ d.type = "IO_DISCONNECT")
    BY <2>1
  <2>7. Receives'
    BY <1>3, <1>6, <2>6, WalkKeepsReceives DEF ReceiveTypes
  <2>8. Listening'
    <3>1. mConnected'[s] # 1 /\ (\A t \in Sessions : t # s => mConnected'[t] = mConnected[t])
          /\ ios \subseteq ios'
      BY <1>2, <1>8, <2>1
    <3>2. QED BY <1>2, <1>3, <1>4, <1>6, <2>6, <3>1, WalkKeepsListening
  <2>9. \A t \in Sessions : InFreeList(t) \/ Returners(t) # {} => sock'[t] = sock[t]
    BY <1>8, <2>4
  <2>10. Clean'
    BY <1>2, <1>3, <1>6, <2>9, WalkKeepsClean
  <2>11. QED BY <1>2, <2>3, <2>5, <2>7, <2>8, <2>10 DEF Live
<1>11. QED BY <1>1, <1>9, <1>10 DEF DisconnectCall, Refused

\* Frames for steps that are no walks: what w contributes to the sets before and
\* after does not matter.
LEMMA OthersKeepStages ==
  ASSUME Base, Live, NEW w \in Workers, Others(w), pc'[w] \notin StageLabels,
         \A c \in ios' : c \in ios \/ c.type \notin {"IO_ACCEPT", "IO_DISCONNECT"},
         UNCHANGED <<mConnected, issued>>,
         \A s \in Sessions : sock'[s] \in {"down", "lost"} => sock[s] \in {"down", "lost"}
  PROVE  Stages'
<1>1. ASSUME NEW s \in Sessions
      PROVE  /\ StageIos(s)' \subseteq StageIos(s)
             /\ \A v \in StageWorkers(s)' : v \in StageWorkers(s) /\ pc'[v] = pc[v]
  <2>1. StageIos(s)' \subseteq StageIos(s)
    BY DEF StageIos
  <2>2. ASSUME NEW v \in StageWorkers(s)'
        PROVE  v \in StageWorkers(s) /\ pc'[v] = pc[v]
    <3>1. v \in Workers /\ v # w
      BY DEF StageWorkers, StageLabels
    <3>2. QED BY <3>1, OthersStay DEF Others
  <2>3. QED BY <2>1, <2>2
<1>2. ASSUME NEW s \in Sessions
      PROVE  AtMostOne(StageIos(s)', StageWorkers(s)')
  BY <1>1, FewerIsFine DEF Live, Stages
<1>3. QED BY <1>1, <1>2 DEF Live, Stages, AtMostOne

LEMMA OthersKeepReceives ==
  ASSUME Base, Live, NEW w \in Workers, Others(w), UNCHANGED <<mConnected, rcvd>>,
         \A s \in Sessions : w \notin ReceiveWorkers(s) /\ w \notin ReceiveWorkers(s)',
         \A c : c.type \in ReceiveTypes => (c \in ios' <=> c \in ios)
  PROVE  Receives' /\ Listening'
<1>1. ASSUME NEW s \in Sessions
      PROVE  /\ ReceiveIos(s)' = ReceiveIos(s) /\ ReceiveWorkers(s)' = ReceiveWorkers(s)
             /\ \A v \in ReceiveWorkers(s) : v \in Workers \ {w}
  <2>1. ReceiveIos(s)' = ReceiveIos(s)
    BY DEF ReceiveIos
  <2>2. ReceiveWorkers(s)' \subseteq Workers /\ ReceiveWorkers(s) \subseteq Workers
    BY DEF ReceiveWorkers, Handlers
  <2>3. ReceiveWorkers(s)' = ReceiveWorkers(s)
    <3>1. \A v \in Workers \ {w} : v \in ReceiveWorkers(s)' <=> v \in ReceiveWorkers(s)
      BY OthersStay
    <3>2. w \notin ReceiveWorkers(s) /\ w \notin ReceiveWorkers(s)'
      OBVIOUS
    <3>3. QED BY <2>2, <3>1, <3>2
  <2>4. QED BY <2>1, <2>2, <2>3
<1>2. \A v \in Workers \ {w} : ctx'[v] = ctx[v]
  BY DEF Others
<1>3. Receives'
  BY <1>1 DEF Live, Receives, AtMostOne
<1>4. Listening'
  BY <1>1, <1>2 DEF Live, Listening, IsConnected
<1>5. QED BY <1>3, <1>4

\* Giving up a reference: the last one makes the worker return the session.
LEMMA LiveOfRelease ==
  ASSUME Base, Live, NEW w \in Workers, NEW s \in Sessions, s = Remote(w),
         NEW next, ReleaseRef(w, s, next),
         \/ pc[w] = "drop" /\ next = "sendJob"
         \/ pc[w] = "flushRelease" /\ next = "disconnect",
         UNCHANGED <<mFreeSessionList, mConnected, mSendBuffer, mRecvBuffer, sendList, ios, sock,
                     gen, issued, rcvd>>
  PROVE  Live'
<1>1. /\ pc[w] = "drop" => ctx[w] # NoContext
      /\ pc[w] = "flushRelease" => ctx[w] = NoContext /\ s = Head(sendList[w])
  BY KindInHand DEF Holding, WithoutContext
<1>2. /\ Others(w)
      /\ mRefCount' = [mRefCount EXCEPT ![s] = @ - 1]
      /\ mRefCount[s] = 1 => pc'[w] = "return" /\ ret'[w] = next /\ ctx' = ctx
      /\ mRefCount[s] # 1 =>
           /\ pc'[w] = next /\ ret' = ret
           /\ ctx'[w] = IF next = "sendJob" THEN NoContext ELSE ctx[w]
      /\ mRefCount[s] \in Nat \ {0} => UNCHANGED status
  BY ReleaseEffect
<1>3. ASSUME NEW t \in Sessions
      PROVE  /\ Handlers(t)' = Handlers(t) \ {w} /\ Flushers(t)' = Flushers(t) \ {w}
             /\ w \in Handlers(t) <=> t = s /\ pc[w] = "drop"
             /\ w \in Flushers(t) <=> t = s /\ pc[w] = "flushRelease"
  <2>1. w \in Handlers(t) <=> t = s /\ pc[w] = "drop"
    BY <1>1 DEF Handlers, Returning, Remote
  <2>2. w \in Flushers(t) <=> t = s /\ pc[w] = "flushRelease"
    BY <1>1 DEF Flushers
  <2>3. w \notin Handlers(t)'
    BY <1>1, <1>2 DEF Handlers, Returning
  <2>4. w \notin Flushers(t)'
    BY <1>2 DEF Flushers
  <2>5. Handlers(t)' \subseteq Workers /\ Handlers(t) \subseteq Workers
        /\ Flushers(t)' \subseteq Workers /\ Flushers(t) \subseteq Workers
    BY DEF Handlers, Flushers
  <2>6. Handlers(t)' = Handlers(t) \ {w}
    BY <2>3, <2>5, <1>2, OthersStay
  <2>7. Flushers(t)' = Flushers(t) \ {w}
    BY <2>4, <2>5, <1>2, OthersStay
  <2>8. QED BY <2>1, <2>2, <2>6, <2>7
<1>4. mRefCount[s] \in Nat \ {0} /\ ~InFreeList(s) /\ Returners(s) = {} /\ status' = status
  <2>1. Handlers(s) # {} \/ Flushers(s) # {}
    BY <1>3
  <2>2. mRefCount[s] \in Nat \ {0} /\ ~InFreeList(s) /\ Returners(s) = {}
    BY <2>1, ReferredIsBusy
  <2>3. QED BY <2>2, <1>2
<1>5. \A t \in Sessions : mRefCount'[t] = IF t = s THEN mRefCount[t] - 1 ELSE mRefCount[t]
  BY <1>2 DEF Base, Fields
<1>6. Counted'
  <2>1. \A t \in Sessions : InFlight(t)' = InFlight(t)
    BY DEF InFlight
  <2>2. \A t \in Sessions : t # s => References(t)' = References(t)
    <3>1. ASSUME NEW t \in Sessions, t # s
          PROVE  References(t)' = References(t)
      <4>1. w \notin Handlers(t) /\ w \notin Flushers(t)
        BY <1>3, <3>1
      <4>2. Handlers(t)' = Handlers(t) /\ Flushers(t)' = Flushers(t)
        BY <1>3, <4>1
      <4>3. QED BY <2>1, <4>2 DEF References
    <3>2. QED BY <3>1
  <2>3. References(s)' = References(s) - 1
    <3>1. CASE pc[w] = "drop"
      <4>1. w \in Handlers(s) /\ Handlers(s)' = Handlers(s) \ {w} /\ Flushers(s)' = Flushers(s)
        BY <3>1, <1>3
      <4>2. Cardinality(Handlers(s)') = Cardinality(Handlers(s)) - 1
        BY <4>1, FS_RemoveElement, ReferencesAreCounted
      <4>3. QED BY <4>1, <4>2, <2>1, ReferencesAreCounted DEF References
    <3>2. CASE pc[w] = "flushRelease"
      <4>1. w \in Flushers(s) /\ Flushers(s)' = Flushers(s) \ {w} /\ Handlers(s)' = Handlers(s)
        BY <3>2, <1>3
      <4>2. Cardinality(Flushers(s)') = Cardinality(Flushers(s)) - 1
        BY <4>1, FS_RemoveElement, ReferencesAreCounted
      <4>3. QED BY <4>1, <4>2, <2>1, ReferencesAreCounted DEF References
    <3>3. QED BY <3>1, <3>2
  <2>4. QED BY <2>2, <2>3, <1>5 DEF Live, Counted
<1>7. /\ ~Returning(w)
      /\ mRefCount[s] = 1 => Returning(w)' /\ Remote(w)' = s /\ ctx'[w] = ctx[w]
      /\ mRefCount[s] # 1 => ~Returning(w)'
  BY <1>2 DEF Returning, Remote
<1>8. ASSUME NEW t \in Sessions
      PROVE  /\ t = s /\ mRefCount[s] = 1 => Returners(t)' = {w}
             /\ t # s \/ mRefCount[s] # 1 => Returners(t)' = Returners(t)
             /\ w \notin Returners(t)
  <2>1. w \notin Returners(t)
    BY <1>7 DEF Returners
  <2>2. w \in Returners(t)' <=> t = s /\ mRefCount[s] = 1
    BY <1>7 DEF Returners
  <2>3. Returners(t)' \subseteq Workers /\ Returners(t) \subseteq Workers
    BY DEF Returners
  <2>4. \A v \in Workers : v # w => (v \in Returners(t)' <=> v \in Returners(t))
    BY <1>2, OthersStay
  <2>5. CASE t = s /\ mRefCount[s] = 1
    BY <2>2, <2>3, <2>4, <2>5, <1>4
  <2>6. CASE t # s \/ mRefCount[s] # 1
    BY <2>1, <2>2, <2>3, <2>4, <2>6
  <2>7. QED BY <2>1, <2>5, <2>6
<1>9. \A t : InFreeList(t)' = InFreeList(t)
  BY DEF InFreeList
<1>10. Idle'
  <2>1. ASSUME NEW t \in Sessions
        PROVE  /\ \A v, u \in Returners(t)' : v = u
               /\ InFreeList(t)' => Returners(t)' = {}
               /\ InFreeList(t)' \/ Returners(t)' # {} => mRefCount'[t] = 0
    <3>1. CASE t = s /\ mRefCount[s] = 1
      BY <3>1, <1>4, <1>5, <1>8, <1>9
    <3>2. CASE t # s
      BY <3>2, <1>5, <1>8, <1>9 DEF Live, Idle
    <3>3. CASE t = s /\ mRefCount[s] # 1
      BY <3>3, <1>4, <1>8, <1>9
    <3>4. QED BY <3>1, <3>2, <3>3
  <2>2. ASSUME NEW v \in Workers, Returning(v)'
        PROVE  ctx'[v] # NoContext <=> ret'[v] = "sendJob"
    <3>1. CASE v = w
      BY <3>1, <2>2, <1>1, <1>2, <1>7
    <3>2. CASE v # w
      <4>1. pc'[v] = pc[v] /\ ctx'[v] = ctx[v] /\ ret'[v] = ret[v]
        BY <3>2, <1>2 DEF Others
      <4>2. QED BY <4>1, <2>2 DEF Live, Idle, Returning
    <3>3. QED BY <3>1, <3>2
  <2>3. QED BY <2>1, <2>2 DEF Live, Idle
<1>11. Stages'
  <2>1. pc'[w] \notin StageLabels
    BY <1>2 DEF StageLabels
  <2>2. QED BY <2>1, <1>2, OthersKeepStages
<1>12. Receives' /\ Listening'
  <2>1. \A t \in Sessions : w \notin ReceiveWorkers(t)
    BY <1>1 DEF ReceiveWorkers, Handlers
  <2>2. \A t \in Sessions : w \notin ReceiveWorkers(t)'
    BY <1>3 DEF ReceiveWorkers
  <2>3. QED BY <2>1, <2>2, <1>2, OthersKeepReceives
<1>13. Current'
  <2>1. \A t \in Sessions : \A v \in Handlers(t)' : v \in Handlers(t) /\ ctx'[v] = ctx[v]
    BY <1>2, <1>3 DEF Others, Handlers
  <2>2. QED BY <2>1 DEF Live, Current
<1>14. Clean'
  <2>1. \A t \in Sessions : \A v \in Returners(t)' :
          pc'[v] = "sessionResetSend" => v \in Returners(t) /\ pc[v] = "sessionResetSend"
    <3>1. pc'[w] # "sessionResetSend"
      BY <1>2
    <3>2. ASSUME NEW t \in Sessions, NEW v \in Returners(t)', v # w
          PROVE  v \in Returners(t) /\ pc'[v] = pc[v]
      <4>1. v \in Workers
        BY DEF Returners
      <4>2. QED BY <4>1, <3>2, <1>2, OthersStay DEF Others
    <3>3. QED BY <3>1, <3>2
  <2>2. QED BY <2>1, <1>9 DEF Live, Clean
<1>15. QED BY <1>4, <1>6, <1>10, <1>11, <1>12, <1>13, <1>14 DEF Live

\* The reference of issuing goes; the one of the context in hand is still there.
LEMMA LiveOfDisconnectCompletion ==
  ASSUME Base, Live, NEW w \in Workers, DisconnectCompletion(w)
  PROVE  Live'
<1>1. PICK s \in Sessions : s = Remote(w)
  BY KindInHand DEF DisconnectCompletion
<1>2. /\ pc[w] = "disconnectCompletion" /\ ReleaseRef(w, s, "drop")
      /\ issued' = [issued EXCEPT ![s] = FALSE]
      /\ UNCHANGED <<mFreeSessionList, mConnected, mSendBuffer, mRecvBuffer, sendList, ios, sock,
                     gen, rcvd>>
  BY <1>1 DEF DisconnectCompletion, poolVars, sendVars, byteVars
<1>3. Plain(pc[w]) /\ pc[w] # "drop" /\ Plain("drop") /\ "drop" \notin StageLabels
  BY <1>2 DEF Plain, ReturnLabels, StageLabels
<1>4. ctx[w] # NoContext /\ ctx[w].type = "IO_DISCONNECT"
  BY <1>2, KindInHand DEF Holding, KindOf
<1>5. (\A t : w \in Handlers(t) <=> t = s) /\ ~InFreeList(s) /\ Returners(s) = {}
  BY <1>1, <1>3, <1>4, InHand
<1>6. w \in StageWorkers(s)
  BY <1>1, <1>2 DEF StageWorkers
<1>7. issued[s] /\ StageIos(s) = {} /\ StageWorkers(s) \subseteq {w} /\ mConnected[s] = 0
  <2>1. issued[s] /\ StageIos(s) = {} /\ StageWorkers(s) \subseteq {w}
    BY <1>6 DEF Live, Stages, AtMostOne
  <2>2. mConnected[s] = 0
    BY <1>6 DEF Live, Stages, Base, Fields
  <2>3. QED BY <2>1, <2>2
<1>8. mRefCount[s] \in Nat /\ mRefCount[s] >= 2
  <2>1. Cardinality(Handlers(s)) # 0
    BY <1>5, ReferencesAreCounted, FS_EmptySet
  <2>2. QED BY <1>7, <2>1, ReferencesAreCounted DEF References, Live, Counted
<1>9. /\ Goto(w, "drop") /\ UNCHANGED <<status, ctx, ret>>
      /\ mRefCount' = [mRefCount EXCEPT ![s] = @ - 1]
  BY <1>2, <1>8 DEF ReleaseRef, Resume
<1>10. Walk(w, "drop")
  BY <1>2, <1>9, WalkOf
<1>11. \A t \in Sessions : /\ mRefCount'[t] = IF t = s THEN mRefCount[t] - 1 ELSE mRefCount[t]
                           /\ issued'[t] <=> issued[t] /\ t # s
  BY <1>2, <1>9 DEF Base, Fields
<1>12. \A t \in Sessions : /\ Handlers(t)' = Handlers(t) /\ Flushers(t)' = Flushers(t)
                           /\ Returners(t)' = Returners(t) /\ InFlight(t)' = InFlight(t)
                           /\ InFreeList(t)' = InFreeList(t)
  BY <1>2, <1>3, <1>10, WalkSets DEF InFlight, InFreeList
<1>13. Counted'
  <2>1. \A t \in Sessions : t # s => References(t)' = References(t)
    BY <1>11, <1>12 DEF References
  <2>2. References(s)' = References(s) - 1
    BY <1>7, <1>11, <1>12, ReferencesAreCounted DEF References
  <2>3. QED BY <2>1, <2>2, <1>11 DEF Live, Counted
<1>14. Idle'
  <2>1. \A v \in Workers : Returning(v)' => Returning(v) /\ ctx'[v] = ctx[v] /\ ret'[v] = ret[v]
    BY <1>2, <1>9 DEF Goto, Returning, Base, IInv, ControlInv
  <2>2. ASSUME NEW t \in Sessions
        PROVE  InFreeList(t) \/ Returners(t) # {} => mRefCount'[t] = 0
    BY <1>5, <1>11 DEF Live, Idle
  <2>3. QED BY <1>2, <1>12, <2>1, <2>2 DEF Live, Idle
<1>15. Current'
  BY <1>2, <1>9, <1>12 DEF Live, Current
<1>16. Stages'
  <2>1. \A t \in Sessions : StageIos(t)' = StageIos(t)
    BY <1>2 DEF StageIos
  <2>2. \A t \in Sessions : \A v \in StageWorkers(t)' : v \in StageWorkers(t) /\ v # w
    BY <1>3, <1>10, WalkSets
  <2>3. \A v \in Workers : v # w => pc'[v] = pc[v]
    BY <1>10 DEF Walk, Base, IInv, ControlInv
  <2>4. mConnected' = mConnected /\ sock' = sock
    BY <1>2
  <2>5. ASSUME NEW t \in Sessions
        PROVE  /\ AtMostOne(StageIos(t), StageWorkers(t))'
               /\ mConnected[t] = 1 => StageIos(t)' = {} /\ StageWorkers(t)' = {}
               /\ mConnected[t] = 1 \/ StageIos(t)' # {} \/ StageWorkers(t)' # {} => issued'[t]
               /\ sock[t] \in {"down", "lost"} =>
                    /\ mConnected[t] = 0
                    /\ \A d \in StageIos(t)' : d.type # "IO_ACCEPT"
                    /\ \A v \in StageWorkers(t)' : pc'[v] # "acceptCompletion"
    <3>1. CASE t = s
      <4>1. StageWorkers(t)' = {} /\ StageIos(t)' = {}
        BY <3>1, <2>1, <2>2, <1>7
      <4>2. QED BY <3>1, <4>1, <1>7 DEF AtMostOne
    <3>2. CASE t # s
      <4>1. StageWorkers(t)' \subseteq StageWorkers(t) /\ (issued'[t] <=> issued[t])
        BY <3>2, <2>2, <1>11
      <4>2. AtMostOne(StageIos(t)', StageWorkers(t)')
        BY <2>1, <4>1, FewerIsFine DEF Live, Stages
      <4>3. \A v \in StageWorkers(t)' : pc'[v] = pc[v]
        BY <2>2, <2>3 DEF StageWorkers
      <4>4. QED BY <2>1, <4>1, <4>2, <4>3 DEF AtMostOne, Live, Stages
    <3>3. QED BY <3>1, <3>2
  <2>6. QED BY <2>4, <2>5 DEF Stages
<1>17. Receives'
  BY <1>2, <1>3, <1>10, WalkKeepsReceives
<1>18. Listening'
  BY <1>2, <1>3, <1>5, <1>7, <1>10, WalkKeepsListening
<1>19. Clean'
  BY <1>2, <1>3, <1>10, WalkKeepsClean
<1>20. QED BY <1>9, <1>13, <1>14, <1>15, <1>16, <1>17, <1>18, <1>19 DEF Live

\* A worker that returns a session refers to nothing.
LEMMA ReturnSets ==
  ASSUME Base, Live, NEW w \in Workers, pc[w] \in ReturnLabels,
         NEW l \in ReturnLabels, Goto(w, l), UNCHANGED <<ctx, ret, sendList>>
  PROVE  /\ Others(w) /\ pc'[w] = l
         /\ \A s : /\ Handlers(s)' = Handlers(s) /\ Flushers(s)' = Flushers(s)
                   /\ Returners(s)' = Returners(s)
                   /\ w \notin ReceiveWorkers(s) /\ w \notin ReceiveWorkers(s)'
         /\ w \in Returners(Remote(w))
<1>1. Others(w) /\ pc'[w] = l
  BY DEF Others, Goto, Base, IInv, ControlInv
<1>2. Returning(w) /\ Returning(w)' /\ Remote(w)' = Remote(w)
  BY <1>1 DEF Returning, ReturnLabels, Remote
<1>3. ASSUME NEW s
      PROVE  /\ Handlers(s)' = Handlers(s) /\ Flushers(s)' = Flushers(s)
             /\ Returners(s)' = Returners(s)
             /\ w \notin ReceiveWorkers(s) /\ w \notin ReceiveWorkers(s)'
  <2>1. w \in Handlers(s)' <=> w \in Handlers(s)
    BY <1>2 DEF Handlers
  <2>2. w \notin Flushers(s) /\ w \notin Flushers(s)'
    BY <1>1 DEF Flushers, ReturnLabels
  <2>3. w \in Returners(s)' <=> w \in Returners(s)
    BY <1>2 DEF Returners
  <2>4. w \notin ReceiveWorkers(s) /\ w \notin ReceiveWorkers(s)'
    BY <1>2 DEF ReceiveWorkers
  <2>5. /\ Handlers(s)' \subseteq Workers /\ Handlers(s) \subseteq Workers
        /\ Flushers(s)' \subseteq Workers /\ Flushers(s) \subseteq Workers
        /\ Returners(s)' \subseteq Workers /\ Returners(s) \subseteq Workers
    BY DEF Handlers, Flushers, Returners
  <2>6. \A v \in Workers \ {w} : /\ v \in Handlers(s)' <=> v \in Handlers(s)
                                 /\ v \in Flushers(s)' <=> v \in Flushers(s)
                                 /\ v \in Returners(s)' <=> v \in Returners(s)
    BY <1>1, OthersStay
  <2>7. Handlers(s)' = Handlers(s)
    BY <2>1, <2>5, <2>6
  <2>8. Flushers(s)' = Flushers(s)
    BY <2>2, <2>5, <2>6
  <2>9. Returners(s)' = Returners(s)
    BY <2>3, <2>5, <2>6
  <2>10. QED BY <2>4, <2>7, <2>8, <2>9
<1>4. w \in Returners(Remote(w))
  BY <1>2 DEF Returners
<1>5. QED BY <1>1, <1>3, <1>4

\* The assertion of ReturnClientSession holds, and SessionReset writes what is there.
LEMMA LiveOfReturn ==
  ASSUME Base, Live, NEW w \in Workers, ReturnClientSession(w) \/ SessionReset(w)
  PROVE  Live'
<1>1. PICK s \in Sessions : s = Remote(w)
  BY KindInHand DEF ReturnClientSession, SessionReset
<1>2. pc[w] \in {"return", "sessionReset"} /\ pc[w] \in ReturnLabels
  BY DEF ReturnClientSession, SessionReset, ReturnLabels
<1>3. PICK l \in {"sessionReset", "sessionResetSend"} :
        Goto(w, l) /\ (l = "sessionResetSend" => SessionReset(w))
  BY DEF ReturnClientSession, SessionReset
<1>4. /\ UNCHANGED <<mFreeSessionList, mSendBuffer, ctx, ret, sendList, ios, sock, gen, issued, rcvd>>
      /\ mRecvBuffer' = [mRecvBuffer EXCEPT ![s] = BufferReset] \/ (~SessionReset(w) /\ mRecvBuffer' = mRecvBuffer)
  BY <1>1, <1>2 DEF ReturnClientSession, SessionReset, poolVars, sendVars, historyVars, byteVars
<1>5. /\ Others(w) /\ pc'[w] = l
      /\ \A t : /\ Handlers(t)' = Handlers(t) /\ Flushers(t)' = Flushers(t)
                /\ Returners(t)' = Returners(t)
                /\ w \notin ReceiveWorkers(t) /\ w \notin ReceiveWorkers(t)'
      /\ w \in Returners(s)
  BY <1>1, <1>2, <1>3, <1>4, ReturnSets DEF ReturnLabels
<1>6. mConnected[s] = 0 /\ mRefCount[s] = 0
  BY <1>5, IdleIsUnreferred
<1>7. UNCHANGED <<status, mConnected, mRefCount>>
  <2>1. CASE ReturnClientSession(w)
    BY <1>1, <1>6, <2>1 DEF ReturnClientSession, countVars
  <2>2. CASE SessionReset(w)
    BY <1>1, <1>6, <2>2 DEF SessionReset, Base, Fields
  <2>3. QED BY <2>1, <2>2
<1>8. \A t : InFlight(t)' = InFlight(t) /\ InFreeList(t)' = InFreeList(t)
  BY <1>4 DEF InFlight, InFreeList
<1>9. Counted'
  BY <1>4, <1>5, <1>7, <1>8 DEF Live, Counted, References
<1>10. Idle'
  <2>1. \A v \in Workers : Returning(v)' => Returning(v) /\ ctx'[v] = ctx[v] /\ ret'[v] = ret[v]
    BY <1>2, <1>4, <1>5 DEF Others, Returning
  <2>2. QED BY <1>4, <1>5, <1>7, <1>8, <2>1 DEF Live, Idle
<1>11. Stages'
  BY <1>4, <1>5, <1>7, OthersKeepStages DEF StageLabels
<1>12. Receives' /\ Listening'
  BY <1>4, <1>5, <1>7, OthersKeepReceives
<1>13. Current'
  BY <1>4, <1>5 DEF Live, Current
<1>14. Clean'
  <2>1. \A t \in Sessions : mRecvBuffer'[t] = mRecvBuffer[t] \/ mRecvBuffer'[t] = BufferReset
    BY <1>4 DEF Base, Fields
  <2>2. ASSUME NEW t \in Sessions, NEW v \in Returners(t), pc'[v] = "sessionResetSend"
        PROVE  mRecvBuffer'[t] = BufferReset
    <3>1. CASE v = w
      <4>1. SessionReset(w) /\ t = s
        BY <1>1, <1>3, <1>5, <2>2, <3>1 DEF Returners
      <4>2. QED BY <4>1, <1>4 DEF Base, Fields
    <3>2. CASE v # w
      <4>1. pc'[v] = pc[v]
        BY <3>2, <1>5 DEF Others, Returners
      <4>2. QED BY <4>1, <2>1, <2>2 DEF Live, Clean
    <3>3. QED BY <3>1, <3>2
  <2>3. QED BY <1>4, <1>5, <1>8, <2>1, <2>2 DEF Live, Clean
<1>15. QED BY <1>7, <1>9, <1>10, <1>11, <1>12, <1>13, <1>14 DEF Live

\* The session is free again, and clean.
LEMMA LiveOfSessionResetSend ==
  ASSUME Base, Live, NEW w \in Workers, SessionResetSend(w)
  PROVE  Live'
<1>1. PICK s \in Sessions : s = Remote(w)
  BY KindInHand DEF SessionResetSend
<1>2. /\ pc[w] = "sessionResetSend" /\ Resume(w, ret[w])
      /\ mFreeSessionList' = Append(mFreeSessionList, s)
      /\ mSendBuffer' = [mSendBuffer EXCEPT ![s] = BufferReset]
      /\ sock' = [sock EXCEPT ![s] = "new"]
      /\ ret' = [ret EXCEPT ![w] = "sendJob"]
      /\ UNCHANGED <<status, mConnected, mRefCount, mRecvBuffer, sendList, ios, gen, issued, rcvd>>
  BY <1>1 DEF SessionResetSend, countVars, historyVars, byteVars
<1>3. Returning(w) /\ w \in Returners(s)
  BY <1>1, <1>2 DEF Returning, Returners
<1>4. ret[w] \in {"sendJob", "disconnect"} /\ (ctx[w] # NoContext <=> ret[w] = "sendJob")
  BY <1>3 DEF Live, Idle, Base, Kinds, Holds, IInv, ControlInv
<1>5. Others(w) /\ pc'[w] = ret[w] /\ ctx'[w] = NoContext
  <2>1. pc \in [Workers -> Labels] /\ ctx = [v \in Workers |-> ctx[v]]
        /\ ret \in [Workers -> {"sendJob", "drop", "disconnect"}]
    BY DEF Base, IInv, ControlInv
  <2>2. pc' = [pc EXCEPT ![w] = ret[w]]
        /\ ctx' = IF ret[w] = "sendJob" THEN [ctx EXCEPT ![w] = NoContext] ELSE ctx
    BY <1>2 DEF Resume, Goto
  <2>3. Others(w) /\ pc'[w] = ret[w]
    BY <1>2, <2>1, <2>2 DEF Others
  <2>4. ctx'[w] = NoContext
    BY <1>4, <2>1, <2>2
  <2>5. QED BY <2>3, <2>4
<1>6. ~Returning(w)'
  BY <1>4, <1>5 DEF Returning
<1>7. ASSUME NEW t
      PROVE  /\ Handlers(t)' = Handlers(t) /\ Flushers(t)' = Flushers(t)
             /\ Returners(t)' = Returners(t) \ {w}
             /\ w \notin ReceiveWorkers(t) /\ w \notin ReceiveWorkers(t)'
  <2>1. w \notin Handlers(t) /\ w \notin Handlers(t)'
    BY <1>3, <1>4, <1>5 DEF Handlers
  <2>2. w \notin Flushers(t) /\ w \notin Flushers(t)'
    BY <1>2, <1>4, <1>5 DEF Flushers
  <2>3. w \notin Returners(t)'
    BY <1>6 DEF Returners
  <2>4. w \notin ReceiveWorkers(t) /\ w \notin ReceiveWorkers(t)'
    BY <2>1 DEF ReceiveWorkers
  <2>5. /\ Handlers(t)' \subseteq Workers /\ Handlers(t) \subseteq Workers
        /\ Flushers(t)' \subseteq Workers /\ Flushers(t) \subseteq Workers
        /\ Returners(t)' \subseteq Workers /\ Returners(t) \subseteq Workers
    BY DEF Handlers, Flushers, Returners
  <2>6. \A v \in Workers \ {w} : /\ v \in Handlers(t)' <=> v \in Handlers(t)
                                 /\ v \in Flushers(t)' <=> v \in Flushers(t)
                                 /\ v \in Returners(t)' <=> v \in Returners(t)
    BY <1>5, OthersStay
  <2>7. Handlers(t)' = Handlers(t)
    BY <2>1, <2>5, <2>6
  <2>8. Flushers(t)' = Flushers(t)
    BY <2>2, <2>5, <2>6
  <2>9. Returners(t)' = Returners(t) \ {w}
    BY <2>3, <2>5, <2>6
  <2>10. QED BY <2>4, <2>7, <2>8, <2>9
<1>8. mRefCount[s] = 0 /\ ~InFreeList(s) /\ \A v \in Returners(s) : v = w
  BY <1>3 DEF Live, Idle
<1>9. /\ mFreeSessionList \in Seq(Sessions)
      /\ mFreeSessionList' \in Seq(Sessions) /\ Len(mFreeSessionList') = Len(mFreeSessionList) + 1
      /\ \A i \in 1..Len(mFreeSessionList) : mFreeSessionList'[i] = mFreeSessionList[i]
      /\ mFreeSessionList'[Len(mFreeSessionList) + 1] = s
  BY <1>2 DEF Base, IInv, PoolInv
<1>10. \A t : InFreeList(t)' <=> InFreeList(t) \/ t = s
  <2>1. \A t : InFreeList(t) => InFreeList(t)'
    BY <1>9 DEF InFreeList
  <2>2. InFreeList(s)'
    BY <1>9 DEF InFreeList
  <2>3. \A t : InFreeList(t)' => InFreeList(t) \/ t = s
    BY <1>9 DEF InFreeList
  <2>4. QED BY <2>1, <2>2, <2>3
<1>11. Counted'
  <2>1. \A t : InFlight(t)' = InFlight(t)
    BY <1>2 DEF InFlight
  <2>2. QED BY <1>2, <1>7, <2>1 DEF Live, Counted, References
<1>12. Idle'
  <2>1. \A i, j \in DOMAIN mFreeSessionList' : mFreeSessionList'[i] = mFreeSessionList'[j] => i = j
    <3>1. \A i \in 1..Len(mFreeSessionList) : mFreeSessionList[i] # s
      BY <1>8, <1>9 DEF InFreeList
    <3>2. \A i, j \in 1..Len(mFreeSessionList) : mFreeSessionList[i] = mFreeSessionList[j] => i = j
      BY <1>9 DEF Live, Idle
    <3>3. DOMAIN mFreeSessionList' = 1..(Len(mFreeSessionList) + 1) /\ Len(mFreeSessionList) \in Nat
      BY <1>9
    <3>4. QED BY <3>1, <3>2, <3>3, <1>9
  <2>2. ASSUME NEW t \in Sessions
        PROVE  /\ \A v, u \in Returners(t)' : v = u
               /\ InFreeList(t)' => Returners(t)' = {}
               /\ InFreeList(t)' \/ Returners(t)' # {} => mRefCount'[t] = 0
    <3>1. CASE t = s
      <4>1. Returners(t)' = {}
        BY <3>1, <1>7, <1>8
      <4>2. QED BY <4>1, <3>1, <1>2, <1>8
    <3>2. CASE t # s
      <4>1. Returners(t)' \subseteq Returners(t) /\ (InFreeList(t)' <=> InFreeList(t))
        BY <3>2, <1>7, <1>10
      <4>2. QED BY <4>1, <1>2 DEF Live, Idle
    <3>3. QED BY <3>1, <3>2
  <2>3. ASSUME NEW v \in Workers, Returning(v)'
        PROVE  ctx'[v] # NoContext <=> ret'[v] = "sendJob"
    <3>1. v # w
      BY <1>6, <2>3
    <3>2. pc'[v] = pc[v] /\ ctx'[v] = ctx[v] /\ ret'[v] = ret[v]
      BY <3>1, <1>5 DEF Others
    <3>3. QED BY <3>2, <2>3 DEF Live, Idle, Returning
  <2>4. QED BY <2>1, <2>2, <2>3 DEF Idle
<1>13. Stages'
  <2>1. \A t \in Sessions : sock'[t] \in {"down", "lost"} => sock[t] \in {"down", "lost"}
    BY <1>2 DEF Base, Fields
  <2>2. pc'[w] \notin StageLabels
    BY <1>4, <1>5 DEF StageLabels
  <2>3. QED BY <2>1, <2>2, <1>2, <1>5, OthersKeepStages
<1>14. Receives' /\ Listening'
  BY <1>2, <1>5, <1>7, OthersKeepReceives
<1>15. Current'
  <2>1. \A t : \A v \in Handlers(t) : v \in Workers /\ v # w
    BY <1>3, <1>4 DEF Handlers
  <2>2. \A t : \A v \in Handlers(t) : ctx'[v] = ctx[v]
    BY <2>1, <1>5 DEF Others
  <2>3. QED BY <1>2, <1>7, <2>2 DEF Live, Current
<1>16. Clean'
  <2>1. mRecvBuffer[s] = BufferReset
    BY <1>2, <1>3 DEF Live, Clean
  <2>2. mSendBuffer'[s] = BufferReset /\ sock'[s] = "new"
        /\ \A t \in Sessions : t # s => mSendBuffer'[t] = mSendBuffer[t] /\ sock'[t] = sock[t]
    BY <1>2 DEF Base, Fields
  <2>3. \A t \in Sessions : \A v \in Returners(t)' : v \in Returners(t) /\ pc'[v] = pc[v]
    BY <1>5, <1>7 DEF Others, Returners
  <2>4. QED BY <1>2, <1>10, <2>1, <2>2, <2>3 DEF Live, Clean
<1>17. QED BY <1>2, <1>11, <1>12, <1>13, <1>14, <1>15, <1>16 DEF Live

\* FlushSend adds a reference to a session that has one, or else revives it.
LEMMA LiveOfFlushSend ==
  ASSUME Base, Live, NEW w \in Workers, FlushSend(w), ~resurrected'
  PROVE  Live'
<1>1. PICK s \in Sessions : s = Remote(w)
  BY KindInHand DEF FlushSend
<1>2. /\ pc[w] = "flush" /\ ~SendPending(s) /\ resurrected' = (resurrected \/ mRefCount[s] = 0)
      /\ UNCHANGED <<status, mFreeSessionList, mConnected, mSendBuffer, mRecvBuffer, ctx,
                     ret, sendList, sock, gen, issued, rcvd>>
  BY <1>1 DEF FlushSend, poolVars, byteVars
<1>3. ctx[w] = NoContext /\ mRefCount[s] # 0 /\ ~InFreeList(s) /\ Returners(s) = {}
  <2>1. ctx[w] = NoContext /\ mRefCount[s] # 0
    BY <1>2, KindInHand DEF WithoutContext
  <2>2. QED BY <2>1 DEF Live, Idle
<1>4. Plain(pc[w]) /\ pc[w] # "drop" /\ Plain("flushed") /\ "flushed" \notin StageLabels
  BY <1>2 DEF Plain, ReturnLabels, StageLabels
<1>5. \A t : w \notin Handlers(t) /\ w \notin ReceiveWorkers(t)
  BY <1>3 DEF Handlers, ReceiveWorkers
<1>6. mSendPendingCount[s] = 0 /\ SendIos(s) = {}
  BY <1>2 DEF SendPending, Base, SendInv
<1>7. CASE Post(w, "IO_SEND", GetBufferStart(mSendBuffer[s]), GetContiguiousBytes(mSendBuffer[s]))
           /\ Goto(w, "flushed")
  <2> DEFINE c == Context("IO_SEND", s, GetBufferStart(mSendBuffer[s]), GetContiguiousBytes(mSendBuffer[s]))
  <2>1. c.sess = s /\ c.type = "IO_SEND" /\ ios' = ios \cup {c}
    BY <1>1, <1>7 DEF Context, Post
  <2>2. c \notin ios
    BY <2>1, <1>6 DEF SendIos
  <2>3. Walk(w, "flushed")
    BY <1>2, <1>7, WalkOf
  <2>4. Counted' /\ Idle' /\ Current'
    BY <1>1, <1>2, <1>3, <1>4, <1>7, <2>2, <2>3, PostKeepsCounts
  <2> HIDE DEF c
  <2>5. \A d \in ios' : d \in ios \/ (d.sess = s /\ d.type = "IO_SEND")
    BY <2>1
  <2>6. Stages'
    BY <1>2, <1>4, <2>3, <2>5, WalkKeepsStages
  <2>7. Receives' /\ Listening'
    <3>1. Others(w)
      BY <1>2, <1>7 DEF Others, Goto, Base, IInv, ControlInv
    <3>2. \A t \in Sessions : w \notin ReceiveWorkers(t)'
      BY <1>2, <1>3 DEF ReceiveWorkers, Handlers
    <3>3. \A d : d.type \in ReceiveTypes => (d \in ios' <=> d \in ios)
      BY <2>1 DEF ReceiveTypes
    <3>4. QED BY <1>2, <1>5, <3>1, <3>2, <3>3, OthersKeepReceives
  <2>8. Clean'
    BY <1>2, <1>4, <2>3, WalkKeepsClean
  <2>9. QED BY <1>2, <2>4, <2>6, <2>7, <2>8 DEF Live
<1>8. CASE /\ mRefCount' = [mRefCount EXCEPT ![s] = @ + 1] /\ Goto(w, "flushRelease") /\ UNCHANGED ios
  <2>1. Others(w) /\ pc'[w] = "flushRelease"
    BY <1>2, <1>8 DEF Others, Goto, Base, IInv, ControlInv
  <2>2. s = Head(sendList[w])
    BY <1>1, <1>3 DEF Remote
  <2>3. ASSUME NEW t
        PROVE  /\ Handlers(t)' = Handlers(t) /\ Returners(t)' = Returners(t)
               /\ Flushers(t)' = IF t = s THEN Flushers(t) \cup {w} ELSE Flushers(t)
               /\ w \notin Flushers(t) /\ w \notin ReceiveWorkers(t)'
               /\ InFlight(t)' = InFlight(t) /\ InFreeList(t)' = InFreeList(t)
    <3>1. /\ w \notin Handlers(t) /\ w \notin Handlers(t)' /\ w \notin ReceiveWorkers(t)'
      BY <1>2, <1>3 DEF Handlers, ReceiveWorkers
    <3>2. w \notin Returners(t) /\ w \notin Returners(t)'
      BY <1>2, <2>1 DEF Returners, Returning
    <3>3. w \notin Flushers(t) /\ (w \in Flushers(t)' <=> t = s)
      BY <1>2, <2>1, <2>2 DEF Flushers
    <3>4. /\ Handlers(t)' \subseteq Workers /\ Handlers(t) \subseteq Workers
          /\ Flushers(t)' \subseteq Workers /\ Flushers(t) \subseteq Workers
          /\ Returners(t)' \subseteq Workers /\ Returners(t) \subseteq Workers
      BY DEF Handlers, Flushers, Returners
    <3>5. \A v \in Workers \ {w} : /\ v \in Handlers(t)' <=> v \in Handlers(t)
                                   /\ v \in Flushers(t)' <=> v \in Flushers(t)
                                   /\ v \in Returners(t)' <=> v \in Returners(t)
      BY <2>1, OthersStay
    <3>6. Handlers(t)' = Handlers(t)
      BY <3>1, <3>4, <3>5
    <3>7. Returners(t)' = Returners(t)
      BY <3>2, <3>4, <3>5
    <3>8. Flushers(t)' = IF t = s THEN Flushers(t) \cup {w} ELSE Flushers(t)
      BY <3>3, <3>4, <3>5
    <3>9. InFlight(t)' = InFlight(t) /\ InFreeList(t)' = InFreeList(t)
      BY <1>2, <1>8 DEF InFlight, InFreeList
    <3>10. QED BY <3>1, <3>3, <3>6, <3>7, <3>8, <3>9
  <2>4. \A t \in Sessions : mRefCount'[t] = IF t = s THEN mRefCount[t] + 1 ELSE mRefCount[t]
    BY <1>8 DEF Base, Fields
  <2>5. Counted'
    <3>1. \A t \in Sessions : t # s => References(t)' = References(t)
      BY <1>2, <2>3 DEF References
    <3>2. References(s)' = References(s) + 1
      <4>1. Flushers(s)' = Flushers(s) \cup {w} /\ w \notin Flushers(s)
        BY <2>3
      <4>2. IsFiniteSet(Flushers(s))
        BY ReferencesAreCounted
      <4>3. Cardinality(Flushers(s)') = Cardinality(Flushers(s)) + 1
        BY <4>1, <4>2, FS_AddElement
      <4>4. QED BY <4>3, <1>2, <2>3, ReferencesAreCounted DEF References
    <3>3. QED BY <2>4, <3>1, <3>2 DEF Live, Counted
  <2>6. Idle'
    <3>1. \A v \in Workers : Returning(v)' => Returning(v) /\ ctx'[v] = ctx[v] /\ ret'[v] = ret[v]
      BY <1>2, <2>1 DEF Others, Returning
    <3>2. ASSUME NEW t \in Sessions
          PROVE  InFreeList(t) \/ Returners(t) # {} => mRefCount'[t] = 0
      BY <1>3, <2>4 DEF Live, Idle
    <3>3. QED BY <1>2, <2>3, <3>1, <3>2 DEF Live, Idle
  <2>7. Current'
    BY <1>2, <1>8, <2>3 DEF Live, Current
  <2>8. Stages'
    BY <1>2, <1>8, <2>1, OthersKeepStages DEF StageLabels
  <2>9. Receives' /\ Listening'
    BY <1>2, <1>5, <1>8, <2>1, <2>3, OthersKeepReceives
  <2>10. Clean'
    <3>1. \A t : \A v \in Returners(t) : pc'[v] = "sessionResetSend" => pc[v] = "sessionResetSend"
      BY <2>1 DEF Others, Returners
    <3>2. QED BY <1>2, <2>3, <3>1 DEF Live, Clean
  <2>11. QED BY <1>2, <2>5, <2>6, <2>7, <2>8, <2>9, <2>10 DEF Live
<1>9. QED
  <2>1. mSendPendingCount[s] = 0
    BY <1>6
  <2>2. QED BY <1>1, <1>7, <1>8, <2>1 DEF FlushSend

LEMMA LiveOfFlushed ==
  ASSUME Base, Live, NEW w \in Workers, Flushed(w)
  PROVE  Live'
<1>1. /\ pc[w] = "flushed" /\ Goto(w, "sendJob") /\ sendList' = [sendList EXCEPT ![w] = Tail(@)]
      /\ UNCHANGED <<status, mFreeSessionList, mConnected, mRefCount, mSendBuffer, mRecvBuffer,
                     ctx, ret, ios, sock, gen, issued, rcvd>>
  BY DEF Flushed, poolVars, countVars, historyVars, byteVars
<1>2. ctx[w] = NoContext
  BY <1>1, KindInHand DEF WithoutContext
<1>3. Others(w) /\ pc'[w] = "sendJob"
  BY <1>1 DEF Others, Goto, Base, IInv, ControlInv
<1>4. ASSUME NEW t
      PROVE  /\ Handlers(t)' = Handlers(t) /\ Returners(t)' = Returners(t)
             /\ Flushers(t)' = Flushers(t)
             /\ w \notin ReceiveWorkers(t) /\ w \notin ReceiveWorkers(t)'
             /\ InFlight(t)' = InFlight(t) /\ InFreeList(t)' = InFreeList(t)
  <2>1. /\ w \notin Handlers(t) /\ w \notin Handlers(t)'
        /\ w \notin ReceiveWorkers(t) /\ w \notin ReceiveWorkers(t)'
    BY <1>1, <1>2 DEF Handlers, ReceiveWorkers
  <2>2. w \notin Returners(t) /\ w \notin Returners(t)' /\ w \notin Flushers(t) /\ w \notin Flushers(t)'
    BY <1>1, <1>3 DEF Returners, Returning, Flushers
  <2>3. /\ Handlers(t)' \subseteq Workers /\ Handlers(t) \subseteq Workers
        /\ Flushers(t)' \subseteq Workers /\ Flushers(t) \subseteq Workers
        /\ Returners(t)' \subseteq Workers /\ Returners(t) \subseteq Workers
    BY DEF Handlers, Flushers, Returners
  <2>4. \A v \in Workers \ {w} : /\ v \in Handlers(t)' <=> v \in Handlers(t)
                                 /\ v \in Flushers(t)' <=> v \in Flushers(t)
                                 /\ v \in Returners(t)' <=> v \in Returners(t)
    BY <1>3, OthersStay
  <2>5. Handlers(t)' = Handlers(t)
    BY <2>1, <2>3, <2>4
  <2>6. Returners(t)' = Returners(t)
    BY <2>2, <2>3, <2>4
  <2>7. Flushers(t)' = Flushers(t)
    BY <2>2, <2>3, <2>4
  <2>8. InFlight(t)' = InFlight(t) /\ InFreeList(t)' = InFreeList(t)
    BY <1>1 DEF InFlight, InFreeList
  <2>9. QED BY <2>1, <2>5, <2>6, <2>7, <2>8
<1>5. Counted'
  BY <1>1, <1>4 DEF Live, Counted, References
<1>6. Idle'
  <2>1. \A v \in Workers : Returning(v)' => Returning(v) /\ ctx'[v] = ctx[v] /\ ret'[v] = ret[v]
    BY <1>1, <1>3 DEF Others, Returning
  <2>2. QED BY <1>1, <1>4, <2>1 DEF Live, Idle
<1>7. Current'
  BY <1>1, <1>4 DEF Live, Current
<1>8. Stages'
  BY <1>1, <1>3, OthersKeepStages DEF StageLabels
<1>9. Receives' /\ Listening'
  BY <1>1, <1>3, <1>4, OthersKeepReceives
<1>10. Clean'
  <2>1. \A t : \A v \in Returners(t) : pc'[v] = "sessionResetSend" => pc[v] = "sessionResetSend"
    BY <1>3 DEF Others, Returners
  <2>2. QED BY <1>1, <1>4, <2>1 DEF Live, Clean
<1>11. QED BY <1>1, <1>5, <1>6, <1>7, <1>8, <1>9, <1>10 DEF Live

\* The reference of an operation in flight becomes that of its handler.
LEMMA LiveOfDequeue ==
  ASSUME Base, Live, NEW w \in Workers, NEW c \in ios, Dequeue(w, c)
  PROVE  Live'
<1>1. /\ pc[w] = "gqcs" /\ ctx[w] = NoContext /\ c.type \in IOTypes /\ c.sess \in Sessions
      /\ Others(w) /\ ios' = ios \ {c}
      /\ ctx'[w] # NoContext /\ ctx'[w].type = c.type /\ ctx'[w].sess = c.sess
      /\ ctx'[w].gen = c.gen /\ Remote(w)' = c.sess
      /\ pc'[w] \in (Holding \ {"drop"}) \cup {"disconnect"}
      /\ pc'[w] = "acceptCompletion" <=> c.type = "IO_ACCEPT"
      /\ pc'[w] = "disconnectCompletion" <=> c.type = "IO_DISCONNECT"
      /\ c.type = "IO_RECV" \/ UNCHANGED rcvd
  BY DequeueEffect
<1>2. PICK s \in Sessions : s = c.sess
  BY <1>1
<1>3. UNCHANGED <<status, mFreeSessionList, mConnected, mRefCount, mSendBuffer, ret, sendList, sock,
                  gen, issued>>
  BY DEF Dequeue, poolVars, countVars, sendVars, historyVars
<1>4. \A t \in Sessions : t # s => mRecvBuffer'[t] = mRecvBuffer[t] /\ rcvd'[t] = rcvd[t]
  <2>1. PICK n \in Outcomes(c) : Transfer(c, n)
    BY DEF Dequeue
  <2>2. PICK x, y : /\ mRecvBuffer' = [mRecvBuffer EXCEPT ![s] = x] \/ mRecvBuffer' = mRecvBuffer
                    /\ rcvd' = [rcvd EXCEPT ![s] = y] \/ rcvd' = rcvd
    BY <2>1, <1>2 DEF Transfer
  <2>3. QED BY <2>2 DEF Base, Fields
<1>5. c \in InFlight(s) /\ ~InFreeList(s) /\ Returners(s) = {}
  <2>1. c \in InFlight(s)
    BY <1>2 DEF InFlight
  <2>2. QED BY <2>1, ReferredIsBusy
<1>6. ~Returning(w) /\ ~Returning(w)' /\ pc'[w] \notin {"drop", "flushRelease", "disconnectCall"}
  BY <1>1 DEF Returning, Holding
<1>7. ASSUME NEW t
      PROVE  /\ Handlers(t)' = IF t = s THEN Handlers(t) \cup {w} ELSE Handlers(t)
             /\ w \notin Handlers(t)
             /\ Flushers(t)' = Flushers(t) /\ Returners(t)' = Returners(t)
             /\ InFlight(t)' = IF t = s THEN InFlight(t) \ {c} ELSE InFlight(t)
             /\ InFreeList(t)' = InFreeList(t)
  <2>1. w \notin Handlers(t) /\ (w \in Handlers(t)' <=> t = s)
    BY <1>1, <1>2, <1>6 DEF Handlers
  <2>2. w \notin Flushers(t) /\ w \notin Flushers(t)' /\ w \notin Returners(t) /\ w \notin Returners(t)'
    BY <1>1, <1>6 DEF Flushers, Returners
  <2>3. /\ Handlers(t)' \subseteq Workers /\ Handlers(t) \subseteq Workers
        /\ Flushers(t)' \subseteq Workers /\ Flushers(t) \subseteq Workers
        /\ Returners(t)' \subseteq Workers /\ Returners(t) \subseteq Workers
    BY DEF Handlers, Flushers, Returners
  <2>4. \A v \in Workers \ {w} : /\ v \in Handlers(t)' <=> v \in Handlers(t)
                                 /\ v \in Flushers(t)' <=> v \in Flushers(t)
                                 /\ v \in Returners(t)' <=> v \in Returners(t)
    BY <1>1, OthersStay
  <2>5. Handlers(t)' = IF t = s THEN Handlers(t) \cup {w} ELSE Handlers(t)
    BY <2>1, <2>3, <2>4
  <2>6. Flushers(t)' = Flushers(t)
    BY <2>2, <2>3, <2>4
  <2>7. Returners(t)' = Returners(t)
    BY <2>2, <2>3, <2>4
  <2>8. InFlight(t)' = IF t = s THEN InFlight(t) \ {c} ELSE InFlight(t)
    BY <1>1, <1>2 DEF InFlight
  <2>9. InFreeList(t)' = InFreeList(t)
    BY <1>3 DEF InFreeList
  <2>10. QED BY <2>1, <2>5, <2>6, <2>7, <2>8, <2>9
<1>8. Counted'
  <2>1. ASSUME NEW t \in Sessions, t # s
        PROVE  References(t)' = References(t)
    BY <2>1, <1>3, <1>7 DEF References
  <2>2. References(s)' = References(s)
    <3>1. Cardinality(InFlight(s)') = Cardinality(InFlight(s)) - 1
      BY <1>5, <1>7, FS_RemoveElement, ReferencesAreCounted
    <3>2. Cardinality(Handlers(s)') = Cardinality(Handlers(s)) + 1
      BY <1>7, FS_AddElement, ReferencesAreCounted
    <3>3. QED BY <3>1, <3>2, <1>3, <1>7, ReferencesAreCounted DEF References
  <2>3. QED BY <2>1, <2>2, <1>3 DEF Live, Counted
<1>9. Idle'
  <2>1. \A v \in Workers : Returning(v)' => Returning(v) /\ ctx'[v] = ctx[v] /\ ret'[v] = ret[v]
    BY <1>1, <1>6 DEF Others, Returning
  <2>2. QED BY <1>3, <1>7, <2>1 DEF Live, Idle
<1>10. Current'
  <2>1. \A d \in ios' : d.gen = gen'[d.sess]
    BY <1>1, <1>3 DEF Live, Current
  <2>2. c.gen = gen[s]
    BY <1>2 DEF Live, Current
  <2>3. ASSUME NEW t \in Sessions, NEW v \in Handlers(t)'
        PROVE  ctx'[v].gen = gen'[t]
    <3>1. CASE v = w
      BY <3>1, <2>2, <2>3, <1>1, <1>3, <1>7
    <3>2. CASE v # w
      <4>1. v \in Handlers(t) /\ ctx'[v] = ctx[v]
        BY <3>2, <2>3, <1>1, <1>7 DEF Others, Handlers
      <4>2. QED BY <4>1, <1>3 DEF Live, Current
    <3>3. QED BY <3>1, <3>2
  <2>4. QED BY <2>1, <2>3 DEF Current
<1>11. Stages'
  <2>1. \A t \in Sessions : StageIos(t)' = StageIos(t) \ {c}
    BY <1>1 DEF StageIos
  <2>2. ASSUME NEW t \in Sessions, NEW v \in StageWorkers(t)', v # w
        PROVE  v \in StageWorkers(t) /\ pc'[v] = pc[v]
    <3>1. v \in Workers
      BY DEF StageWorkers
    <3>2. QED BY <3>1, <2>2, <1>1, OthersStay DEF Others
  <2>3. ASSUME NEW t \in Sessions
        PROVE  w \in StageWorkers(t)' => t = s /\ c \in StageIos(t)
                                         /\ (pc'[w] = "acceptCompletion" => c.type = "IO_ACCEPT")
    BY <1>1, <1>2, <1>6 DEF StageWorkers, StageIos
  <2>4. ASSUME NEW t \in Sessions
        PROVE  /\ AtMostOne(StageIos(t), StageWorkers(t))'
               /\ StageIos(t)' # {} \/ StageWorkers(t)' # {} => StageIos(t) # {} \/ StageWorkers(t) # {}
               /\ sock[t] \in {"down", "lost"} =>
                    /\ \A d \in StageIos(t)' : d.type # "IO_ACCEPT"
                    /\ \A v \in StageWorkers(t)' : pc'[v] # "acceptCompletion"
    <3>1. AtMostOne(StageIos(t)', StageWorkers(t)')
      <4>1. CASE w \in StageWorkers(t)'
        <5>1. StageWorkers(t)' \subseteq StageWorkers(t) \cup {w} /\ c \in StageIos(t)
          BY <4>1, <2>2, <2>3
        <5>2. QED BY <5>1, <2>1, LeftToRight DEF Live, Stages
      <4>2. CASE w \notin StageWorkers(t)'
        <5>1. StageWorkers(t)' \subseteq StageWorkers(t) /\ StageIos(t)' \subseteq StageIos(t)
          BY <4>2, <2>1, <2>2
        <5>2. QED BY <5>1, FewerIsFine DEF Live, Stages
      <4>3. QED BY <4>1, <4>2
    <3>2. StageIos(t)' # {} \/ StageWorkers(t)' # {} => StageIos(t) # {} \/ StageWorkers(t) # {}
      BY <2>1, <2>2, <2>3
    <3>3. ASSUME sock[t] \in {"down", "lost"}
          PROVE  /\ \A d \in StageIos(t)' : d.type # "IO_ACCEPT"
                 /\ \A v \in StageWorkers(t)' : pc'[v] # "acceptCompletion"
      BY <3>3, <2>1, <2>2, <2>3 DEF Live, Stages
    <3>4. QED BY <3>1, <3>2, <3>3 DEF AtMostOne
  <2>5. QED BY <1>3, <2>4 DEF Live, Stages
<1>12. ASSUME NEW t \in Sessions
       PROVE  /\ ReceiveIos(t)' = ReceiveIos(t) \ {c}
              /\ \A v \in ReceiveWorkers(t)' : v # w => v \in ReceiveWorkers(t) /\ ctx'[v] = ctx[v]
              /\ \A v \in ReceiveWorkers(t) : v # w /\ v \in ReceiveWorkers(t)'
              /\ w \in ReceiveWorkers(t)' <=> c \in ReceiveIos(t)
              /\ c \in ReceiveIos(t) => t = s
  <2>1. ReceiveIos(t)' = ReceiveIos(t) \ {c}
    BY <1>1 DEF ReceiveIos
  <2>2. c \in ReceiveIos(t) <=> t = s /\ c.type \in ReceiveTypes
    BY <1>2 DEF ReceiveIos
  <2>3. w \in ReceiveWorkers(t)' <=> t = s /\ c.type \in ReceiveTypes
    BY <1>1, <1>6, <1>7 DEF ReceiveWorkers
  <2>4. w \notin ReceiveWorkers(t)
    BY <1>7 DEF ReceiveWorkers
  <2>5. ReceiveWorkers(t)' \subseteq Workers /\ ReceiveWorkers(t) \subseteq Workers
    BY DEF ReceiveWorkers, Handlers
  <2>6. \A v \in Workers \ {w} : (v \in ReceiveWorkers(t)' <=> v \in ReceiveWorkers(t)) /\ ctx'[v] = ctx[v]
    BY <1>1, OthersStay DEF Others
  <2>7. QED BY <2>1, <2>2, <2>3, <2>4, <2>5, <2>6
<1>13. Receives'
  <2>1. ASSUME NEW t \in Sessions
        PROVE  AtMostOne(ReceiveIos(t)', ReceiveWorkers(t)')
    <3>1. CASE c \in ReceiveIos(t)
      <4>1. ReceiveWorkers(t)' \subseteq ReceiveWorkers(t) \cup {w}
        BY <1>12
      <4>2. QED BY <3>1, <4>1, <1>12, LeftToRight DEF Live, Receives
    <3>2. CASE c \notin ReceiveIos(t)
      <4>1. ReceiveWorkers(t)' \subseteq ReceiveWorkers(t) /\ ReceiveIos(t)' \subseteq ReceiveIos(t)
        BY <3>2, <1>12
      <4>2. QED BY <4>1, FewerIsFine DEF Live, Receives
    <3>3. QED BY <3>1, <3>2
  <2>2. QED BY <2>1 DEF Receives, AtMostOne
<1>14. Listening'
  <2>1. ASSUME NEW t \in Sessions
        PROVE  /\ mConnected[t] = 1 /\ ReceiveIos(t)' = {} /\ ReceiveWorkers(t)' = {} =>
                    "WSARecv" \in Faults /\ rcvd'[t] = << >>
               /\ \A d \in ReceiveIos(t)' : d.type = "IO_ACCEPT" => rcvd'[t] = << >>
               /\ \A v \in ReceiveWorkers(t)' : ctx'[v].type = "IO_ACCEPT" => rcvd'[t] = << >>
    <3>1. CASE c \in ReceiveIos(t)
      <4>1. t = s /\ w \in ReceiveWorkers(t)' /\ ReceiveIos(t)' = {} /\ ReceiveWorkers(t) = {}
        BY <3>1, <1>12 DEF Live, Receives, AtMostOne
      <4>2. \A v \in ReceiveWorkers(t)' : v = w
        BY <4>1, <1>12
      <4>3. c.type = "IO_ACCEPT" => rcvd'[t] = << >>
        BY <3>1, <1>1 DEF Live, Listening
      <4>4. QED BY <4>1, <4>2, <4>3, <1>1
    <3>2. CASE c \notin ReceiveIos(t)
      <4>1. ReceiveIos(t)' = ReceiveIos(t) /\ ReceiveWorkers(t)' = ReceiveWorkers(t)
        BY <3>2, <1>12
      <4>2. rcvd'[t] = rcvd[t]
        <5>1. CASE t = s
          BY <5>1, <3>2, <1>1, <1>2 DEF ReceiveIos, ReceiveTypes
        <5>2. CASE t # s
          BY <5>2, <1>4
        <5>3. QED BY <5>1, <5>2
      <4>3. \A v \in ReceiveWorkers(t) : ctx'[v] = ctx[v]
        BY <4>1, <1>12
      <4>4. QED BY <4>1, <4>2, <4>3 DEF Live, Listening, IsConnected
    <3>3. QED BY <3>1, <3>2
  <2>2. QED BY <2>1, <1>3 DEF Listening, IsConnected
<1>15. Clean'
  <2>1. \A t : \A v \in Returners(t) : pc'[v] = "sessionResetSend" => pc[v] = "sessionResetSend"
    BY <1>1, <1>6 DEF Others, Returners
  <2>2. ASSUME NEW t \in Sessions, InFreeList(t) \/ Returners(t) # {}
        PROVE  mRecvBuffer'[t] = mRecvBuffer[t]
    BY <2>2, <1>4, <1>5
  <2>3. QED BY <1>3, <1>7, <2>1, <2>2 DEF Live, Clean
<1>16. QED BY <1>3, <1>8, <1>9, <1>10, <1>11, <1>13, <1>14, <1>15 DEF Live

\* The accept loop: a step that leaves the session alone, and one that issues it.
LEMMA LiveOfNoIssue ==
  ASSUME Base, Live, status' # "crashed",
         UNCHANGED <<mFreeSessionList, mConnected, mRefCount, mSendBuffer, mRecvBuffer,
                     pc, ctx, ret, sendList, ios, sock, gen, issued, rcvd>>
  PROVE  Live'
<1>1. \A w \in Workers : Remote(w)' = Remote(w) /\ Returning(w)' = Returning(w)
  BY DEF Remote, Returning
<1>2. ASSUME NEW s
      PROVE  /\ Handlers(s)' = Handlers(s) /\ Flushers(s)' = Flushers(s)
             /\ Returners(s)' = Returners(s) /\ StageWorkers(s)' = StageWorkers(s)
             /\ InFlight(s)' = InFlight(s) /\ InFreeList(s)' = InFreeList(s)
             /\ StageIos(s)' = StageIos(s) /\ ReceiveIos(s)' = ReceiveIos(s)
  <2>1. Handlers(s)' = Handlers(s) /\ Flushers(s)' = Flushers(s)
    BY <1>1 DEF Handlers, Flushers
  <2>2. Returners(s)' = Returners(s) /\ StageWorkers(s)' = StageWorkers(s)
    BY <1>1 DEF Returners, StageWorkers
  <2>3. QED BY <2>1, <2>2 DEF InFlight, InFreeList, StageIos, ReceiveIos
<1>3. ASSUME NEW s PROVE ReceiveWorkers(s)' = ReceiveWorkers(s)
  <2>1. Handlers(s) \subseteq Workers
    BY DEF Handlers
  <2>2. \A w : w \in ReceiveWorkers(s)' <=> w \in ReceiveWorkers(s)
    BY <2>1, <1>1, <1>2 DEF ReceiveWorkers
  <2>3. QED BY <2>2
<1>4. Counted'
  BY <1>2 DEF Live, Counted, References
<1>5. Idle'
  BY <1>1, <1>2 DEF Live, Idle
<1>6. Stages'
  <2>1. \A s \in Sessions : AtMostOne(StageIos(s), StageWorkers(s))'
    BY <1>2 DEF Live, Stages, AtMostOne
  <2>2. QED BY <1>2, <2>1 DEF Live, Stages
<1>7. Receives'
  BY <1>2, <1>3 DEF Live, Receives, AtMostOne
<1>8. Listening'
  BY <1>2, <1>3 DEF Live, Listening, IsConnected
<1>9. Current' /\ Clean'
  BY <1>2 DEF Live, Current, Clean
<1>10. QED BY <1>4, <1>5, <1>6, <1>7, <1>8, <1>9 DEF Live

\* What AcceptIssue does to the list and to the session it takes from it.
LEMMA IssueEffect ==
  ASSUME Base, Live, AcceptIssue
  PROVE  \E s \in Sessions :
           /\ InFreeList(s)
           /\ \A t : InFreeList(t)' <=> InFreeList(t) /\ t # s
           /\ \A i, j \in DOMAIN mFreeSessionList' : mFreeSessionList'[i] = mFreeSessionList'[j] => i = j
           /\ gen' = [gen EXCEPT ![s] = @ + 1]
           /\ issued' = [issued EXCEPT ![s] = TRUE]
           /\ rcvd' = [rcvd EXCEPT ![s] = << >>]
           /\ \/ /\ ios' = ios \cup {[Context("IO_ACCEPT", s, 0, 0) EXCEPT !.gen = @ + 1]}
                 /\ mRefCount' = [mRefCount EXCEPT ![s] = @ + 2]
                 /\ UNCHANGED status
              \/ /\ mRefCount' = [mRefCount EXCEPT ![s] = @ + 1]
                 /\ status' = "exited" /\ UNCHANGED ios
           /\ UNCHANGED <<mConnected, mSendBuffer, mRecvBuffer, pc, ctx, ret, sendList, sock>>
<1> DEFINE last == Len(mFreeSessionList)
           s    == mFreeSessionList[last]
<1>1. last \in Nat \ {0} /\ mFreeSessionList \in Seq(Sessions)
  BY NIsNat DEF AcceptIssue, BelowMaximum, Base, IInv, PoolInv, N
<1>2. s \in Sessions /\ last \in DOMAIN mFreeSessionList
  BY <1>1
<1>3. mFreeSessionList' = SubSeq(mFreeSessionList, 1, last - 1)
  BY DEF AcceptIssue
<1>4. /\ DOMAIN mFreeSessionList' = 1..(last - 1)
      /\ \A i \in 1..(last - 1) : mFreeSessionList'[i] = mFreeSessionList[i]
  <2>1. \A i \in 1..(last - 1) : mFreeSessionList[i] \in Sessions
    BY <1>1
  <2>2. last - 1 \in Int /\ 1 \in Int
    BY <1>1
  <2> HIDE DEF last
  <2>3. QED BY <1>1, <1>3, <2>1, <2>2, SubSeqProperties
<1>5. \A i, j \in DOMAIN mFreeSessionList : mFreeSessionList[i] = mFreeSessionList[j] => i = j
  BY DEF Live, Idle
<1>6. DOMAIN mFreeSessionList = 1..last
  BY <1>1
<1>7. InFreeList(s)
  BY <1>2 DEF InFreeList
<1>8. ASSUME NEW t
      PROVE  InFreeList(t)' <=> InFreeList(t) /\ t # s
  <2> HIDE DEF last
  <2>1. \A i \in 1..(last - 1) : mFreeSessionList[i] # s /\ i \in 1..last
    BY <1>1, <1>2, <1>5, <1>6 DEF s
  <2>2. \A i \in 1..last : i = last \/ i \in 1..(last - 1)
    BY <1>1 DEF last
  <2>3. InFreeList(t)' <=> \E i \in 1..(last - 1) : mFreeSessionList[i] = t
    BY <1>4 DEF InFreeList
  <2>4. InFreeList(t) <=> \E i \in 1..last : mFreeSessionList[i] = t
    BY <1>6 DEF InFreeList
  <2>5. mFreeSessionList[last] = s
    OBVIOUS
  <2> HIDE DEF s
  <2>6. QED BY <2>1, <2>2, <2>3, <2>4, <2>5
<1>9. \A i, j \in DOMAIN mFreeSessionList' : mFreeSessionList'[i] = mFreeSessionList'[j] => i = j
  BY <1>4, <1>5, <1>6, <1>1
<1>10. PICK u : u = s
  OBVIOUS
<1>11. /\ gen' = [gen EXCEPT ![u] = @ + 1]
       /\ issued' = [issued EXCEPT ![u] = TRUE]
       /\ rcvd' = [rcvd EXCEPT ![u] = << >>]
       /\ \/ /\ ios' = ios \cup {[Context("IO_ACCEPT", u, 0, 0) EXCEPT !.gen = @ + 1]}
             /\ mRefCount' = [mRefCount EXCEPT ![u] = @ + 2]
             /\ UNCHANGED status
          \/ /\ mRefCount' = [mRefCount EXCEPT ![u] = @ + 1]
             /\ status' = "exited" /\ UNCHANGED ios
       /\ UNCHANGED <<mConnected, mSendBuffer, mRecvBuffer, pc, ctx, ret, sendList, sock>>
  BY <1>10 DEF AcceptIssue, sendVars, workerVars
<1>12. \A t : InFreeList(t)' <=> InFreeList(t) /\ t # u
  BY <1>8, <1>10
<1>13. u \in Sessions /\ InFreeList(u)
  BY <1>2, <1>7, <1>10
<1> HIDE DEF s, last
<1>14. QED BY <1>9, <1>11, <1>12, <1>13

LEMMA LiveOfAccept ==
  ASSUME Base, Live, Accept
  PROVE  Live'
<1>1. CASE AcceptEnter \/ AcceptLeave
  <2>1. UNCHANGED <<status, mFreeSessionList, mConnected, mRefCount, mSendBuffer, mRecvBuffer,
                    pc, ctx, ret, sendList, ios, sock, gen, issued, rcvd>>
    BY <1>1 DEF AcceptEnter, AcceptLeave, countVars, sendVars, workerVars, historyVars, byteVars
  <2>2. QED BY <2>1, LiveOfNoIssue DEF Live
<1>2. CASE AcceptIssue
  <2>1. PICK s \in Sessions :
           /\ InFreeList(s)
           /\ \A t : InFreeList(t)' <=> InFreeList(t) /\ t # s
           /\ \A i, j \in DOMAIN mFreeSessionList' : mFreeSessionList'[i] = mFreeSessionList'[j] => i = j
           /\ gen' = [gen EXCEPT ![s] = @ + 1]
           /\ issued' = [issued EXCEPT ![s] = TRUE]
           /\ rcvd' = [rcvd EXCEPT ![s] = << >>]
           /\ \/ /\ ios' = ios \cup {[Context("IO_ACCEPT", s, 0, 0) EXCEPT !.gen = @ + 1]}
                 /\ mRefCount' = [mRefCount EXCEPT ![s] = @ + 2]
                 /\ UNCHANGED status
              \/ /\ mRefCount' = [mRefCount EXCEPT ![s] = @ + 1]
                 /\ status' = "exited" /\ UNCHANGED ios
           /\ UNCHANGED <<mConnected, mSendBuffer, mRecvBuffer, pc, ctx, ret, sendList, sock>>
    BY <1>2, IssueEffect
  <2>2. /\ ~issued[s] /\ InFlight(s) = {} /\ Handlers(s) = {} /\ Flushers(s) = {}
        /\ mRefCount[s] = 0 /\ References(s) = 0 /\ mConnected[s] = 0
    BY <2>1, IdleIsUnreferred
  <2>3. Returners(s) = {} /\ sock[s] = "new"
    BY <2>1 DEF Live, Idle, Clean
  <2>4. PICK c : /\ c.type = "IO_ACCEPT" /\ c.sess = s /\ c.gen = gen[s] + 1
                 /\ \/ ios' = ios \cup {c} /\ mRefCount' = [mRefCount EXCEPT ![s] = @ + 2] /\ UNCHANGED status
                    \/ /\ mRefCount' = [mRefCount EXCEPT ![s] = @ + 1]
                       /\ status' = "exited" /\ UNCHANGED ios
    <3>1. /\ [Context("IO_ACCEPT", s, 0, 0) EXCEPT !.gen = @ + 1].type = "IO_ACCEPT"
          /\ [Context("IO_ACCEPT", s, 0, 0) EXCEPT !.gen = @ + 1].sess = s
          /\ [Context("IO_ACCEPT", s, 0, 0) EXCEPT !.gen = @ + 1].gen = gen[s] + 1
      BY DEF Context
    <3>2. QED BY <3>1, <2>1
  <2>5. c \notin ios
    BY <2>2, <2>4 DEF InFlight
  <2>6. \A w \in Workers : Remote(w)' = Remote(w) /\ Returning(w)' = Returning(w)
    BY <2>1 DEF Remote, Returning
  <2>7. ASSUME NEW t
        PROVE  /\ Handlers(t)' = Handlers(t) /\ Flushers(t)' = Flushers(t)
               /\ Returners(t)' = Returners(t) /\ StageWorkers(t)' = StageWorkers(t)
    <3>1. Handlers(t)' = Handlers(t) /\ Flushers(t)' = Flushers(t)
      BY <2>1, <2>6 DEF Handlers, Flushers
    <3>2. Returners(t)' = Returners(t) /\ StageWorkers(t)' = StageWorkers(t)
      BY <2>1, <2>6 DEF Returners, StageWorkers
    <3>3. QED BY <3>1, <3>2
  <2>8. ASSUME NEW t
        PROVE  /\ ReceiveWorkers(t)' = ReceiveWorkers(t)
               /\ ReceiveWorkers(s) = {}
    <3>1. Handlers(t) \subseteq Workers
      BY DEF Handlers
    <3>2. \A w : w \in ReceiveWorkers(t)' <=> w \in ReceiveWorkers(t)
      BY <3>1, <2>1, <2>6, <2>7 DEF ReceiveWorkers
    <3>3. ReceiveWorkers(s) = {}
      BY <2>2 DEF ReceiveWorkers
    <3>4. QED BY <3>2, <3>3
  <2>9. ASSUME NEW t
        PROVE  /\ InFlight(t)' = IF t = s /\ ios' # ios THEN InFlight(t) \cup {c} ELSE InFlight(t)
               /\ t # s => StageIos(t)' = StageIos(t) /\ ReceiveIos(t)' = ReceiveIos(t)
               /\ \A d \in StageIos(s)' : d = c
               /\ \A d \in ReceiveIos(s)' : d = c
    <3>1. InFlight(t)' = IF t = s /\ ios' # ios THEN InFlight(t) \cup {c} ELSE InFlight(t)
      BY <2>4, <2>5 DEF InFlight
    <3>2. t # s => StageIos(t)' = StageIos(t) /\ ReceiveIos(t)' = ReceiveIos(t)
      BY <2>4 DEF StageIos, ReceiveIos
    <3>3. \A d \in ios' : d.sess = s => d = c
      BY <2>2, <2>4 DEF InFlight
    <3>4. QED BY <3>1, <3>2, <3>3 DEF StageIos, ReceiveIos
  <2>10. \A t \in Sessions : t # s => /\ mRefCount'[t] = mRefCount[t] /\ issued'[t] = issued[t]
                                      /\ gen'[t] = gen[t] /\ rcvd'[t] = rcvd[t]
    <3>1. \A t \in Sessions : t # s => mRefCount'[t] = mRefCount[t]
      BY <2>4 DEF Base, Fields
    <3>2. \A t \in Sessions : t # s => issued'[t] = issued[t] /\ gen'[t] = gen[t]
      BY <2>1 DEF Base, Fields
    <3>3. \A t \in Sessions : t # s => rcvd'[t] = rcvd[t]
      BY <2>1 DEF Base, Fields
    <3>4. QED BY <3>1, <3>2, <3>3
  <2>11. issued'[s] = TRUE /\ gen'[s] = gen[s] + 1 /\ rcvd'[s] = << >>
    <3>1. issued'[s] = TRUE
      BY <2>1 DEF Base, Fields
    <3>2. gen'[s] = gen[s] + 1
      BY <2>1 DEF Base, Fields
    <3>3. rcvd'[s] = << >>
      BY <2>1 DEF Base, Fields
    <3>4. QED BY <3>1, <3>2, <3>3
  <2>12. Counted'
    <3>1. ASSUME NEW t \in Sessions, t # s
          PROVE  References(t)' = References(t)
      BY <3>1, <2>7, <2>9, <2>10 DEF References
    <3>2. mRefCount'[s] = References(s)'
      <4>1. Handlers(s)' = {} /\ Flushers(s)' = {} /\ Cardinality({}) = 0
        BY <2>2, <2>7, FS_EmptySet
      <4>2. CASE ios' = ios
        <5>1. InFlight(s)' = {} /\ mRefCount'[s] = 1
          BY <4>2, <2>2, <2>4, <2>5, <2>9 DEF Base, Fields
        <5>2. QED BY <4>1, <5>1, <2>11 DEF References
      <4>3. CASE ios' # ios
        <5>1. InFlight(s)' = {c}
          BY <4>3, <2>2, <2>9
        <5>2. mRefCount'[s] = 2
          BY <4>3, <2>2, <2>4 DEF Base, Fields
        <5>3. Cardinality(InFlight(s)') = 1
          BY <5>1, FS_Singleton
        <5>4. QED BY <4>1, <5>2, <5>3, <2>11 DEF References
      <4>4. QED BY <4>2, <4>3
    <3>3. QED BY <3>1, <3>2, <2>10 DEF Live, Counted
  <2>13. Idle'
    <3>1. \A t \in Sessions : /\ \A v, w \in Returners(t)' : v = w
                              /\ InFreeList(t)' => Returners(t)' = {}
                              /\ InFreeList(t)' \/ Returners(t)' # {} => mRefCount'[t] = 0
      BY <2>1, <2>3, <2>7, <2>10 DEF Live, Idle
    <3>2. \A w \in Workers : Returning(w)' => (ctx'[w] # NoContext <=> ret'[w] = "sendJob")
      BY <2>1, <2>6 DEF Live, Idle
    <3>3. QED BY <2>1, <3>1, <3>2 DEF Idle
  <2>14. Current'
    <3>1. ASSUME NEW d \in ios' PROVE d.gen = gen'[d.sess]
      <4>1. CASE d = c
        BY <4>1, <2>4, <2>11
      <4>2. CASE d # c
        <5>1. d \in ios /\ d.sess # s
          BY <4>2, <2>2, <2>4 DEF InFlight
        <5>2. d.sess \in Sessions
          BY <5>1, SoundContext DEF Base, IInv, ControlInv
        <5>3. QED BY <5>1, <5>2, <2>10 DEF Live, Current
      <4>3. QED BY <4>1, <4>2
    <3>2. \A t \in Sessions : \A w \in Handlers(t)' : ctx'[w].gen = gen'[t]
      BY <2>1, <2>2, <2>7, <2>10 DEF Live, Current
    <3>3. QED BY <3>1, <3>2 DEF Current
  <2>15. Stages'
    <3>1. StageWorkers(s) = {}
      BY <2>2 DEF Live, Stages
    <3>2. \A t \in Sessions : AtMostOne(StageIos(t), StageWorkers(t))'
      <4>1. AtMostOne(StageIos(s), StageWorkers(s))'
        BY <3>1, <2>7, <2>9 DEF AtMostOne
      <4>2. ASSUME NEW t \in Sessions, t # s PROVE AtMostOne(StageIos(t), StageWorkers(t))'
        BY <4>2, <2>7, <2>9 DEF Live, Stages, AtMostOne
      <4>3. QED BY <4>1, <4>2
    <3>3. ASSUME NEW t \in Sessions, t # s
          PROVE  /\ mConnected'[t] = 1 => StageIos(t)' = {} /\ StageWorkers(t)' = {}
                 /\ mConnected'[t] = 1 \/ StageIos(t)' # {} \/ StageWorkers(t)' # {} => issued'[t]
                 /\ sock'[t] \in {"down", "lost"} =>
                      /\ mConnected'[t] = 0
                      /\ \A d \in StageIos(t)' : d.type # "IO_ACCEPT"
                      /\ \A w \in StageWorkers(t)' : pc'[w] # "acceptCompletion"
      BY <3>3, <2>1, <2>7, <2>9, <2>10 DEF Live, Stages
    <3>4. mConnected'[s] = 0 /\ issued'[s] /\ sock'[s] = "new"
      BY <2>1, <2>2, <2>3, <2>11
    <3>5. QED BY <3>2, <3>3, <3>4 DEF Stages
  <2>16. Receives'
    <3>1. AtMostOne(ReceiveIos(s), ReceiveWorkers(s))'
      BY <2>8, <2>9 DEF AtMostOne
    <3>2. ASSUME NEW t \in Sessions, t # s PROVE AtMostOne(ReceiveIos(t), ReceiveWorkers(t))'
      BY <3>2, <2>8, <2>9 DEF Live, Receives, AtMostOne
    <3>3. QED BY <3>1, <3>2 DEF Receives
  <2>17. Listening'
    <3>1. ASSUME NEW t \in Sessions, t # s
          PROVE  /\ mConnected'[t] = 1 /\ ReceiveIos(t)' = {} /\ ReceiveWorkers(t)' = {} =>
                       "WSARecv" \in Faults /\ rcvd'[t] = << >>
                 /\ \A d \in ReceiveIos(t)' : d.type = "IO_ACCEPT" => rcvd'[t] = << >>
                 /\ \A w \in ReceiveWorkers(t)' : ctx'[w].type = "IO_ACCEPT" => rcvd'[t] = << >>
      BY <3>1, <2>1, <2>8, <2>9, <2>10 DEF Live, Listening, IsConnected
    <3>2. mConnected'[s] = 0
      BY <2>1, <2>2
    <3>3. QED BY <3>1, <3>2, <2>11 DEF Listening, IsConnected
  <2>18. Clean'
    BY <2>1, <2>7 DEF Live, Clean
  <2>19. status' # "crashed"
    BY <2>1 DEF Live
  <2>20. QED BY <2>12, <2>13, <2>14, <2>15, <2>16, <2>17, <2>18, <2>19 DEF Live
<1>3. QED BY <1>1, <1>2 DEF Accept

-----------------------------------------------------------------------------
(* The inductive invariant of everything above.                              *)

\* Revived once, a session stays so.
LEMMA RevivalLasts == [Next]_vars => (resurrected => resurrected')
<1> SUFFICES ASSUME [Next]_vars, resurrected PROVE resurrected'
  OBVIOUS
<1> USE DEF historyVars
<1>1. CASE Accept
  BY <1>1 DEF Accept, AcceptEnter, AcceptIssue, AcceptLeave
<1>2. ASSUME NEW w \in Workers, NEW c \in ios, Dequeue(w, c) PROVE resurrected'
  BY <1>2 DEF Dequeue
<1>3. ASSUME NEW w \in Workers, Step(w) PROVE resurrected'
  <2>1. CASE FlushSend(w)
    BY <2>1 DEF FlushSend
  <2>2. CASE DisconnectCompletion(w)
    BY <2>2 DEF DisconnectCompletion
  <2>3. CASE \/ AcceptCompletion(w) \/ AcceptSetup(w) \/ PreRecv(w) \/ PreRecvCall(w) \/ PostRecv(w)
             \/ PostRecvCall(w) \/ SendCompletion(w) \/ RecvCompletion(w) \/ PostSend(w)
    BY <2>3 DEF AcceptCompletion, AcceptSetup, PreRecv, PreRecvCall, PostRecv, PostRecvCall,
                SendCompletion, RecvCompletion, PostSend
  <2>4. CASE \/ DisconnectRequest(w) \/ DisconnectCall(w) \/ DeleteIoContext(w)
             \/ ReturnClientSession(w) \/ SessionReset(w) \/ SessionResetSend(w)
             \/ SendJob(w) \/ FlushNothing(w) \/ FlushRelease(w) \/ Flushed(w)
    BY <2>4 DEF DisconnectRequest, DisconnectCall, DeleteIoContext, ReturnClientSession,
                SessionReset, SessionResetSend, SendJob, FlushNothing, FlushRelease, Flushed
  <2>5. QED BY <1>3, <2>1, <2>2, <2>3, <2>4 DEF Step
<1>4. CASE UNCHANGED vars
  BY <1>4 DEF vars
<1>5. QED BY <1>1, <1>2, <1>3, <1>4 DEF Next, GetQueuedCompletionStatus

\* One step per action of a worker.
LEMMA StepKeepsLive ==
  ASSUME Base, Live, NEW w \in Workers, Step(w), ~resurrected'
  PROVE  Live'
<1>1. CASE AcceptCompletion(w)
  BY <1>1, LiveOfAcceptCompletion
<1>1a. CASE AcceptSetup(w)
  BY <1>1a, LiveOfAcceptSetup
<1>2. CASE PreRecv(w) \/ PreRecvCall(w)
  BY <1>2, LiveOfPreRecv
<1>3. CASE PostRecv(w) \/ PostRecvCall(w)
  BY <1>3, LiveOfPostRecv
<1>4. CASE SendCompletion(w) \/ RecvCompletion(w) \/ PostSend(w)
  BY <1>4, LiveOfCompletion
<1>5. CASE DisconnectCompletion(w)
  BY <1>5, LiveOfDisconnectCompletion
<1>6. CASE DisconnectRequest(w)
  BY <1>6, LiveOfDisconnectRequest
<1>7. CASE DisconnectCall(w)
  BY <1>7, LiveOfDisconnectCall
<1>8. CASE DeleteIoContext(w) \/ FlushRelease(w)
  <2>1. PICK s \in Sessions : s = Remote(w)
    BY <1>8, KindInHand DEF DeleteIoContext, FlushRelease
  <2>2. UNCHANGED <<mFreeSessionList, mConnected, mSendBuffer, mRecvBuffer, sendList, ios, sock,
                    gen, issued, rcvd>>
    BY <1>8 DEF DeleteIoContext, FlushRelease, poolVars, sendVars, historyVars, byteVars
  <2>3. \/ pc[w] = "drop" /\ ReleaseRef(w, s, "sendJob")
        \/ pc[w] = "flushRelease" /\ ReleaseRef(w, s, "disconnect")
    BY <1>8, <2>1 DEF DeleteIoContext, FlushRelease
  <2>4. CASE pc[w] = "drop" /\ ReleaseRef(w, s, "sendJob")
    BY <2>1, <2>2, <2>4, LiveOfRelease
  <2>5. CASE pc[w] = "flushRelease" /\ ReleaseRef(w, s, "disconnect")
    BY <2>1, <2>2, <2>5, LiveOfRelease
  <2>6. QED BY <2>3, <2>4, <2>5
<1>9. CASE ReturnClientSession(w) \/ SessionReset(w)
  BY <1>9, LiveOfReturn
<1>10. CASE SessionResetSend(w)
  BY <1>10, LiveOfSessionResetSend
<1>11. CASE SendJob(w) \/ FlushNothing(w)
  BY <1>11, LiveOfSendJob
<1>12. CASE FlushSend(w)
  BY <1>12, LiveOfFlushSend
<1>13. CASE Flushed(w)
  BY <1>13, LiveOfFlushed
<1>14. QED
  BY <1>1, <1>1a, <1>2, <1>3, <1>4, <1>5, <1>6, <1>7, <1>8, <1>9, <1>10, <1>11, <1>12, <1>13
     DEF Step

LEMMA RefInvIsInductive ==
  /\ Init => RefInv
  /\ RefInv /\ [Next]_vars => RefInv'
<1>1. ASSUME Init PROVE RefInv
  <2>1. /\ Base
        /\ \A w \in Workers : pc[w] = "gqcs" /\ ctx[w] = NoContext
        /\ ios = {}
    BY <1>1, BaseIsInductive DEF Init
  <2>2. ASSUME NEW s \in Sessions
        PROVE  /\ Handlers(s) = {} /\ Flushers(s) = {} /\ InFlight(s) = {} /\ Returners(s) = {}
               /\ StageIos(s) = {} /\ StageWorkers(s) = {}
               /\ ReceiveIos(s) = {} /\ ReceiveWorkers(s) = {}
    <3>1. Handlers(s) = {} /\ Flushers(s) = {} /\ InFlight(s) = {}
      BY <2>1 DEF Handlers, Flushers, InFlight
    <3>2. Returners(s) = {} /\ StageIos(s) = {} /\ StageWorkers(s) = {}
      BY <2>1 DEF Returners, Returning, StageIos, StageWorkers
    <3>3. ReceiveIos(s) = {} /\ ReceiveWorkers(s) = {}
      BY <2>1, <3>1 DEF ReceiveIos, ReceiveWorkers
    <3>4. QED BY <3>1, <3>2, <3>3
  <2>3. /\ \A s \in Sessions : /\ mConnected[s] = 0 /\ mRefCount[s] = 0 /\ issued[s] = FALSE
                               /\ sock[s] = "new" /\ mSendBuffer[s] = BufferReset
                               /\ mRecvBuffer[s] = BufferReset
        /\ status = "running"
        /\ \A i, j \in DOMAIN mFreeSessionList : mFreeSessionList[i] = mFreeSessionList[j] => i = j
    BY <1>1 DEF Init
  <2>4. Counted
    BY <2>2, <2>3, FS_EmptySet DEF Counted, References
  <2>5. Idle
    BY <2>1, <2>2, <2>3 DEF Idle, Returning
  <2>6. Stages /\ Receives
    BY <2>2, <2>3 DEF Stages, Receives, AtMostOne
  <2>7. Listening /\ Current /\ Clean
    BY <2>1, <2>2, <2>3 DEF Listening, IsConnected, Current, Clean
  <2>8. QED BY <2>1, <2>3, <2>4, <2>5, <2>6, <2>7 DEF RefInv, Live
<1>2. ASSUME RefInv, [Next]_vars PROVE RefInv'
  <2>1. Base /\ Base'
    BY <1>2, BaseIsInductive DEF RefInv
  <2>2. ASSUME ~resurrected' PROVE Live'
    <3>1. Live
      BY <1>2, <2>2, RevivalLasts DEF RefInv
    <3>2. CASE Accept
      BY <2>1, <3>1, <3>2, LiveOfAccept
    <3>3. ASSUME NEW w \in Workers, NEW c \in ios, Dequeue(w, c) PROVE Live'
      BY <2>1, <3>1, <3>3, LiveOfDequeue
    <3>4. ASSUME NEW w \in Workers, Step(w) PROVE Live'
      BY <2>1, <2>2, <3>1, <3>4, StepKeepsLive
    <3>5. CASE UNCHANGED vars
      <4>1. UNCHANGED <<mFreeSessionList, mConnected, mRefCount, mSendBuffer, mRecvBuffer,
                        pc, ctx, ret, sendList, ios, sock, gen, issued, rcvd, status>>
        BY <3>5 DEF vars, poolVars, countVars, sendVars, workerVars, historyVars, byteVars
      <4>2. QED BY <4>1, <2>1, <3>1, LiveOfNoIssue DEF Live
    <3>6. QED BY <1>2, <3>2, <3>3, <3>4, <3>5 DEF Next, GetQueuedCompletionStatus
  <2>3. QED BY <2>1, <2>2 DEF RefInv
<1>3. QED BY <1>1, <1>2

-----------------------------------------------------------------------------
(* What follows from it.                                                     *)

\* The reference count of a session is the number of its references: the one of
\* issuing, one per operation in flight, one per completion in hand, and the one
\* FlushSend holds of a send that was refused (Session.cpp:194-208,
\* OverlappedIOContext.cpp), as long as no FlushSend has revived a session.
THEOREM ReferencesAreExact == Spec => []RefCountIsReferences
<1>1. RefInv => RefCountIsReferences
  BY DEF RefInv, Live, Counted, RefCountIsReferences
<1>2. QED BY <1>1, RefInvIsInductive, PTL DEF Spec

\* The assertions of ReleaseRef, AcceptCompletion and ReturnClientSession fail
\* only after such a revival: it is the one hole in the argument.
THEOREM AssertionsFailOnlyAfterRevival == Spec => []OnlyRevivalCrashes
<1>1. RefInv => OnlyRevivalCrashes
  BY DEF RefInv, Live, OnlyRevivalCrashes
<1>2. QED BY <1>1, RefInvIsInductive, PTL DEF Spec

\* No operation outlives the client it was started for (Session.cpp:194-208): a
\* session is issued again only when nothing refers to it.
THEOREM NoStaleContexts == Spec => []ContextsAreCurrent
<1>1. RefInv => ContextsAreCurrent
  BY DEF RefInv, Live, Current, ContextsAreCurrent, InFlight
<1>2. QED BY <1>1, RefInvIsInductive, PTL DEF Spec

\* A session in the free list is there once, closed, unreferred to, with empty
\* buffers and an open socket (ClientSession.cpp:20-44, ClientSessionManager.cpp).
THEOREM FreeSessionsStartClean == Spec => []FreeSessionsAreClean
<1>1. ASSUME RefInv PROVE FreeSessionsAreClean
  <2>1. SUFFICES ASSUME ~resurrected, NEW i \in DOMAIN mFreeSessionList, NEW s,
                        s = mFreeSessionList[i]
                 PROVE  /\ \A j \in DOMAIN mFreeSessionList : mFreeSessionList[j] = s => j = i
                        /\ mConnected[s] = 0 /\ References(s) = 0 /\ sock[s] = "new"
                        /\ mSendBuffer[s] = BufferReset /\ mRecvBuffer[s] = BufferReset
    BY DEF FreeSessionsAreClean
  <2>2. Base /\ Live
    BY <1>1, <2>1 DEF RefInv
  <2>3. InFreeList(s) /\ s \in Sessions
    BY <2>1, <2>2 DEF InFreeList, Base, IInv, PoolInv
  <2>4. References(s) = 0 /\ mConnected[s] = 0
    BY <2>2, <2>3, IdleIsUnreferred
  <2>5. QED BY <2>1, <2>2, <2>3, <2>4 DEF Live, Idle, Clean
<1>2. QED BY <1>1, RefInvIsInductive, PTL DEF Spec

\* One operation or handler at a time works on the receive side of a session, and
\* a connected session is listening, but for the client whose first PreRecv
\* failed unnoticed (ClientSession.cpp:135).
THEOREM OneReceiverAtATime == Spec => []OneReceiver
<1>1. ASSUME RefInv PROVE OneReceiver
  <2>1. SUFFICES ASSUME ~resurrected, NEW s \in Sessions
                 PROVE  /\ Receivers(s) <= 1
                        /\ IsConnected(s) => Receivers(s) = 1 \/ ("WSARecv" \in Faults /\ rcvd[s] = << >>)
    BY DEF OneReceiver
  <2>2. Receives /\ Listening
    BY <1>1, <2>1 DEF RefInv, Live
  <2>3. Receivers(s) = Cardinality(ReceiveIos(s)) + Cardinality(ReceiveWorkers(s))
    <3>1. {c \in InFlight(s) : c.type \in {"IO_ACCEPT", "IO_RECV_ZERO", "IO_RECV"}} = ReceiveIos(s)
      BY DEF InFlight, ReceiveIos, ReceiveTypes
    <3>2. {w \in Handlers(s) :
             /\ ctx[w].type \in {"IO_ACCEPT", "IO_RECV_ZERO", "IO_RECV"}
             /\ pc[w] # "drop" /\ ~Returning(w)} = ReceiveWorkers(s)
      BY DEF ReceiveWorkers, ReceiveTypes
    <3>3. QED BY <3>1, <3>2 DEF Receivers
  <2>4. /\ Cardinality(ReceiveIos(s)) \in {0, 1}
        /\ Cardinality(ReceiveIos(s)) = 0 <=> ReceiveIos(s) = {}
        /\ Cardinality(ReceiveWorkers(s)) \in {0, 1}
        /\ Cardinality(ReceiveWorkers(s)) = 0 <=> ReceiveWorkers(s) = {}
        /\ ReceiveIos(s) = {} \/ ReceiveWorkers(s) = {}
    <3>1. AtMostOne(ReceiveIos(s), ReceiveWorkers(s))
      BY <2>2 DEF Receives
    <3>2. \A x, y \in ReceiveIos(s) : x = y
      BY <3>1 DEF AtMostOne
    <3>3. \A x, y \in ReceiveWorkers(s) : x = y
      BY <3>1 DEF AtMostOne
    <3>4. QED BY <3>1, <3>2, <3>3, SmallSets DEF AtMostOne
  <2>5. Receivers(s) <= 1
    BY <2>3, <2>4
  <2>6. Receivers(s) = 0 => ReceiveIos(s) = {} /\ ReceiveWorkers(s) = {}
    BY <2>3, <2>4
  <2>7. Receivers(s) \in {0, 1}
    BY <2>3, <2>4
  <2>8. QED BY <2>2, <2>5, <2>6, <2>7 DEF Listening
<1>2. QED BY <1>1, RefInvIsInductive, PTL DEF Spec

-----------------------------------------------------------------------------
(* The sessions go round as SessionPool says.                                *)

\* A step that concerns one session is a step of the pool, by where the session
\* is in its life before and after it.
LEMMA PoolMoves ==
  ASSUME Base, Live, Base', Live', status = "running", NEW s \in Sessions,
         \A t \in Sessions \ {s} :
           /\ InFreeList(t)' <=> InFreeList(t)
           /\ BeingAccepted(t)' <=> BeingAccepted(t)
           /\ mConnected'[t] = mConnected[t] /\ mRefCount'[t] = mRefCount[t],
         \/ /\ Life(s)' = Life(s) /\ (mRefCount'[s] > 0 <=> mRefCount[s] > 0)
            /\ status' = status
         \/ /\ Life(s) = "free" /\ Life(s)' = "accepting" /\ mRefCount'[s] > 0
            /\ status' = status
         \/ /\ Life(s) = "free" /\ Life(s)' = "closing" /\ mRefCount'[s] > 0
            /\ status' = "exited"
         \/ /\ Life(s) = "accepting" /\ Life(s)' = "connected" /\ mRefCount'[s] = mRefCount[s]
            /\ status' = status
         \/ /\ Life(s) = "connected" /\ Life(s)' = "closing" /\ mRefCount'[s] = mRefCount[s]
            /\ status' = status
         \/ /\ Life(s) = "closing" /\ Life(s)' = "closing" /\ mRefCount'[s] = 0
            /\ status' = status
         \/ /\ Life(s) = "closing" /\ Life(s)' = "free" /\ mRefCount[s] = 0 /\ mRefCount'[s] = 0
            /\ status' = status
  PROVE  Pool!PoolNext \/ UNCHANGED Pool!poolSpecVars
<1> DEFINE life == [t \in Sessions |-> Life(t)]
           busy == {t \in Sessions : References(t) > 0}
           open == status = "running"
<1>1. busy = {t \in Sessions : mRefCount[t] > 0} /\ busy' = {t \in Sessions : mRefCount'[t] > 0}
  <2>1. \A t \in Sessions : mRefCount[t] = References(t) /\ mRefCount'[t] = References(t)'
    BY DEF Live, Counted
  <2>2. QED BY <2>1
<1>2. \A t \in Sessions \ {s} : Life(t)' = Life(t)
  BY DEF Life, IsConnected
<1>3. life'[s] = Life(s)' /\ life[s] = Life(s) /\ life' = [life EXCEPT ![s] = Life(s)']
  BY <1>2
<1>4. /\ mRefCount'[s] > 0 => busy' = busy \cup {s}
      /\ ~(mRefCount'[s] > 0) => busy' = busy \ {s}
      /\ (mRefCount'[s] > 0 <=> mRefCount[s] > 0) => busy' = busy
      /\ s \in busy <=> mRefCount[s] > 0
  BY <1>1
<1>5. open /\ (status' = status => open' = open) /\ (status' = "exited" => open' = FALSE)
  OBVIOUS
<1>6. mRefCount[s] \in Int /\ mRefCount'[s] \in Int
  BY DEF Base, Fields
<1>7. /\ Pool!PoolNext <=> open /\ \E t \in Sessions :
           \/ Pool!Offer(t) \/ Pool!FailOffer(t) \/ Pool!Connect(t) \/ Pool!Close(t)
           \/ Pool!LetGo(t) \/ Pool!Recycle(t)
  BY DEF Pool!PoolNext
<1>8. /\ Pool!Offer(s) <=> /\ life[s] = "free" /\ life' = [life EXCEPT ![s] = "accepting"]
                           /\ busy' = busy \cup {s} /\ open' = open
      /\ Pool!FailOffer(s) <=> /\ life[s] = "free" /\ life' = [life EXCEPT ![s] = "closing"]
                               /\ busy' = busy \cup {s} /\ open' = FALSE
      /\ Pool!Connect(s) <=> /\ life[s] = "accepting" /\ life' = [life EXCEPT ![s] = "connected"]
                             /\ busy' = busy /\ open' = open
      /\ Pool!Close(s) <=> /\ life[s] = "connected" /\ life' = [life EXCEPT ![s] = "closing"]
                           /\ busy' = busy /\ open' = open
      /\ Pool!LetGo(s) <=> /\ life[s] = "closing" /\ busy' = busy \ {s}
                           /\ life' = life /\ open' = open
      /\ Pool!Recycle(s) <=> /\ life[s] = "closing" /\ s \notin busy
                             /\ life' = [life EXCEPT ![s] = "free"]
                             /\ busy' = busy /\ open' = open
  BY DEF Pool!Offer, Pool!FailOffer, Pool!Connect, Pool!Close, Pool!LetGo, Pool!Recycle
<1>9. UNCHANGED Pool!poolSpecVars <=> life' = life /\ busy' = busy /\ open' = open
  BY DEF Pool!poolSpecVars
<1>10. Life(s)' = Life(s) => life' = life
  BY <1>2
<1> HIDE DEF life, busy, open
<1>11. \/ Pool!Offer(s) \/ Pool!FailOffer(s) \/ Pool!Connect(s) \/ Pool!Close(s)
       \/ Pool!LetGo(s) \/ Pool!Recycle(s)
       \/ UNCHANGED Pool!poolSpecVars
  <2>1. CASE Life(s)' = Life(s) /\ (mRefCount'[s] > 0 <=> mRefCount[s] > 0) /\ status' = status
    BY <2>1, <1>4, <1>5, <1>9, <1>10
  <2>2. CASE Life(s) = "free" /\ Life(s)' = "accepting" /\ mRefCount'[s] > 0 /\ status' = status
    BY <2>2, <1>3, <1>4, <1>5, <1>8
  <2>3. CASE Life(s) = "free" /\ Life(s)' = "closing" /\ mRefCount'[s] > 0 /\ status' = "exited"
    BY <2>3, <1>3, <1>4, <1>5, <1>8
  <2>4. CASE Life(s) = "accepting" /\ Life(s)' = "connected" /\ mRefCount'[s] = mRefCount[s] /\ status' = status
    BY <2>4, <1>3, <1>4, <1>5, <1>8
  <2>5. CASE Life(s) = "connected" /\ Life(s)' = "closing" /\ mRefCount'[s] = mRefCount[s] /\ status' = status
    BY <2>5, <1>3, <1>4, <1>5, <1>8
  <2>6. CASE Life(s) = "closing" /\ Life(s)' = "closing" /\ mRefCount'[s] = 0 /\ status' = status
    BY <2>6, <1>3, <1>4, <1>5, <1>8, <1>10
  <2>7. CASE Life(s) = "closing" /\ Life(s)' = "free" /\ mRefCount[s] = 0 /\ mRefCount'[s] = 0 /\ status' = status
    BY <2>7, <1>3, <1>4, <1>5, <1>8
  <2>8. QED BY <2>1, <2>2, <2>3, <2>4, <2>5, <2>6, <2>7
<1>12. QED BY <1>5, <1>7, <1>11
\* Three facts of LifeOf and IdleIsUnreferred as state formulas, to be used of the
\* state after a step.
ReturnedAreUnreferred ==
  \A s \in Sessions :
    Returners(s) # {} => InFlight(s) = {} /\ Handlers(s) = {} /\ mConnected[s] = 0

LEMMA IdleSessions == Base /\ Live => ReturnedAreUnreferred
  BY IdleIsUnreferred DEF ReturnedAreUnreferred

LEMMA AcceptingStays ==
  ASSUME NEW w \in Workers, Others(w), pc[w] # "acceptCompletion", pc'[w] # "acceptCompletion",
         \A c : c.type = "IO_ACCEPT" => (c \in ios' <=> c \in ios), NEW t
  PROVE  BeingAccepted(t)' <=> BeingAccepted(t)
<1>1. (\E c \in InFlight(t)' : c.type = "IO_ACCEPT") <=> \E c \in InFlight(t) : c.type = "IO_ACCEPT"
  BY DEF InFlight
<1>2. \A v \in Workers : v \in Handlers(t)' /\ pc'[v] = "acceptCompletion"
                           <=> v \in Handlers(t) /\ pc[v] = "acceptCompletion"
  BY OthersStay DEF Others
<1>3. Handlers(t) \subseteq Workers /\ Handlers(t)' \subseteq Workers
  BY DEF Handlers
<1>4. QED BY <1>1, <1>2, <1>3 DEF BeingAccepted

\* A worker that neither connects nor closes, nor takes or gives a last reference.
LEMMA PoolOfQuietStep ==
  ASSUME Base, Live, Base', Live', status = "running", NEW w \in Workers, Others(w),
         pc[w] # "acceptCompletion", pc'[w] # "acceptCompletion",
         \A c : c.type = "IO_ACCEPT" => (c \in ios' <=> c \in ios),
         UNCHANGED <<status, mFreeSessionList, mConnected>>,
         NEW s \in Sessions, \A t \in Sessions \ {s} : mRefCount'[t] = mRefCount[t],
         mRefCount'[s] > 0 <=> mRefCount[s] > 0
  PROVE  Pool!PoolNext \/ UNCHANGED Pool!poolSpecVars
<1>1. \A t : (BeingAccepted(t)' <=> BeingAccepted(t)) /\ (InFreeList(t)' <=> InFreeList(t))
  BY AcceptingStays DEF InFreeList
<1>2. Life(s)' = Life(s)
  BY <1>1 DEF Life, IsConnected
<1>3. QED BY <1>1, <1>2, PoolMoves

\* Where a session is that somebody refers to, or that is on its way back.
LEMMA LifeOf ==
  ASSUME Base, Live, NEW s \in Sessions
  PROVE  /\ Returners(s) # {} => Life(s) = "closing"
         /\ InFreeList(s) => Life(s) = "free"
         /\ mConnected[s] = 1 => Life(s) = "connected"
         /\ mRefCount[s] # 0 => ~InFreeList(s)
<1>1. ASSUME InFreeList(s) PROVE Life(s) = "free"
  <2>1. InFlight(s) = {} /\ Handlers(s) = {} /\ mConnected[s] = 0
    BY <1>1, IdleIsUnreferred
  <2>2. ~BeingAccepted(s) /\ ~IsConnected(s)
    BY <2>1 DEF BeingAccepted, IsConnected
  <2>3. QED BY <1>1, <2>2 DEF Life
<1>2. ASSUME Returners(s) # {} PROVE Life(s) = "closing"
  <2>1. ~InFreeList(s) /\ InFlight(s) = {} /\ Handlers(s) = {} /\ mConnected[s] = 0
    BY <1>2, IdleIsUnreferred DEF Live, Idle
  <2>2. QED BY <2>1 DEF Life, BeingAccepted, IsConnected
<1>3. ASSUME mConnected[s] = 1 PROVE Life(s) = "connected"
  <2>1. issued[s] /\ StageIos(s) = {} /\ StageWorkers(s) = {}
    BY <1>3 DEF Live, Stages
  <2>2. ~InFreeList(s)
    BY <2>1, ReferredIsBusy
  <2>3. ~\E c \in InFlight(s) : c.type = "IO_ACCEPT"
    BY <2>1 DEF InFlight, StageIos
  <2>4. ~\E w \in Handlers(s) : pc[w] = "acceptCompletion"
    BY <2>1 DEF Handlers, StageWorkers, Remote
  <2>5. QED BY <1>3, <2>2, <2>3, <2>4 DEF Life, BeingAccepted, IsConnected
<1>4. mRefCount[s] # 0 => ~InFreeList(s)
  BY DEF Live, Idle
<1>5. QED BY <1>1, <1>2, <1>3, <1>4

FreeLife == \A s \in Sessions : InFreeList(s) => Life(s) = "free"

LEMMA FreeSessions == Base /\ Live => FreeLife
  BY LifeOf DEF FreeLife

ConnectedLive == \A s \in Sessions : mConnected[s] = 1 => Life(s) = "connected"

LEMMA ConnectedSessions == Base /\ Live => ConnectedLive
  BY LifeOf DEF ConnectedLive

LEMMA PoolOfPost ==
  ASSUME Base, Live, Base', Live', status = "running", NEW w \in Workers,
         PreRecvCall(w) \/ PostRecvCall(w) \/ DisconnectCall(w) \/ (FlushSend(w) /\ ~resurrected')
  PROVE  Pool!PoolNext \/ UNCHANGED Pool!poolSpecVars
<1>1. PICK s \in Sessions : s = Remote(w)
  BY KindInHand DEF PreRecvCall, PostRecvCall, DisconnectCall, FlushSend
<1>2. /\ pc[w] \in {"preRecvCall", "postRecvCall", "disconnectCall", "flush"}
      /\ pc[w] # "flush" \/ (FlushSend(w) /\ ~resurrected')
      /\ UNCHANGED <<status, mFreeSessionList, mConnected, ctx, ret, sendList>>
  <2>1. CASE PreRecvCall(w) \/ PostRecvCall(w)
    BY <2>1 DEF PreRecvCall, PostRecvCall, poolVars
  <2>2. CASE DisconnectCall(w) \/ (FlushSend(w) /\ ~resurrected')
    BY <2>2 DEF DisconnectCall, FlushSend, poolVars
  <2>3. QED BY <2>1, <2>2
<1>3. PICK l \in {"drop", "disconnect", "flushed", "flushRelease", "sendJob"} : Goto(w, l)
  <2>1. CASE PreRecvCall(w)
    BY <2>1 DEF PreRecvCall, AfterPreRecv
  <2>2. CASE PostRecvCall(w)
    BY <2>2 DEF PostRecvCall
  <2>3. CASE DisconnectCall(w)
    BY <2>3 DEF DisconnectCall, AfterDisconnect
  <2>4. CASE FlushSend(w)
    BY <2>4 DEF FlushSend
  <2>5. QED BY <2>1, <2>2, <2>3, <2>4
<1>4. Others(w) /\ pc[w] # "acceptCompletion" /\ pc'[w] # "acceptCompletion"
  BY <1>2, <1>3 DEF Others, Goto, Base, IInv, ControlInv
<1>5. mRefCount' = mRefCount \/ mRefCount' = [mRefCount EXCEPT ![s] = @ + 1]
  <2>1. CASE PreRecvCall(w) \/ PostRecvCall(w)
    BY <1>1, <2>1 DEF PreRecvCall, PostRecvCall, Post, Refused
  <2>2. CASE DisconnectCall(w) \/ FlushSend(w)
    BY <1>1, <2>2 DEF DisconnectCall, FlushSend, Post, Refused
  <2>3. QED BY <2>1, <2>2
<1>6. \A c : c.type = "IO_ACCEPT" => (c \in ios' <=> c \in ios)
  <2>1. \A type, at, len : Context(type, s, at, len).type = type
    BY DEF Context
  <2>2. CASE PreRecvCall(w)
    <3>1. ios' = ios \/ ios' = ios \cup {Context("IO_RECV_ZERO", s, 0, 0)}
      BY <1>1, <2>2 DEF PreRecvCall, Post, Refused
    <3>2. Context("IO_RECV_ZERO", s, 0, 0).type = "IO_RECV_ZERO"
      BY <2>1
    <3>3. QED BY <3>1, <3>2
  <2>3. CASE PostRecvCall(w)
    <3>1. ios' = ios \/ \E at, len : ios' = ios \cup {Context("IO_RECV", s, at, len)}
      BY <1>1, <2>3 DEF PostRecvCall, Post, Refused
    <3>2. QED BY <2>1, <3>1
  <2>4. CASE DisconnectCall(w) \/ FlushSend(w)
    BY <1>1, <2>1, <2>4 DEF DisconnectCall, FlushSend, Post, Refused
  <2>5. QED BY <2>2, <2>3, <2>4
<1>7. mRefCount[s] > 0
  <2>1. CASE pc[w] \in {"preRecvCall", "postRecvCall"}
    <3>1. ctx[w] # NoContext /\ Plain(pc[w])
      BY <2>1, KindInHand DEF Holding, Plain, ReturnLabels
    <3>2. QED BY <1>1, <3>1, InHand
  <2>2. CASE pc[w] = "disconnectCall"
    <3>1. w \in StageWorkers(s)
      BY <1>1, <2>2 DEF StageWorkers
    <3>2. issued[s]
      BY <3>1 DEF Live, Stages
    <3>3. QED BY <3>2, ReferredIsBusy
  <2>3. CASE pc[w] = "flush"
    <3>1. mRefCount[s] # 0
      BY <1>1, <1>2, <2>3 DEF FlushSend
    <3>2. References(s) \in Nat /\ mRefCount[s] = References(s)
      BY ReferencesAreCounted DEF Live, Counted
    <3>3. QED BY <3>1, <3>2
  <2>4. QED BY <1>2, <2>1, <2>2, <2>3
<1>8. (\A t \in Sessions \ {s} : mRefCount'[t] = mRefCount[t]) /\ mRefCount'[s] > 0
  BY <1>5, <1>7 DEF Base, Fields
<1>9. UNCHANGED <<status, mFreeSessionList, mConnected>>
  BY <1>2
<1>10. QED BY <1>4, <1>6, <1>7, <1>8, <1>9, PoolOfQuietStep

LEMMA PoolOfRelease ==
  ASSUME Base, Live, Base', Live', status = "running", NEW w \in Workers,
         DeleteIoContext(w) \/ FlushRelease(w) \/ DisconnectCompletion(w)
  PROVE  Pool!PoolNext \/ UNCHANGED Pool!poolSpecVars
<1>1. PICK s \in Sessions : s = Remote(w)
  BY KindInHand DEF DeleteIoContext, FlushRelease, DisconnectCompletion
<1>2. /\ pc[w] \in {"drop", "flushRelease", "disconnectCompletion"}
      /\ UNCHANGED <<mFreeSessionList, mConnected, sendList, ios>>
  BY DEF DeleteIoContext, FlushRelease, DisconnectCompletion, poolVars
<1>3. PICK next \in {"sendJob", "drop", "disconnect"} :
        ReleaseRef(w, s, next) /\ (next = "drop" => ctx[w] # NoContext)
  BY <1>1, KindInHand DEF DeleteIoContext, FlushRelease, DisconnectCompletion, Holding
<1>4. Others(w) /\ mRefCount' = [mRefCount EXCEPT ![s] = @ - 1] /\ pc'[w] \in {"return", next}
      /\ (mRefCount[s] = 1 => pc'[w] = "return" /\ ctx' = ctx)
      /\ (mRefCount[s] \in Nat \ {0} => UNCHANGED status)
  <2>1. UNCHANGED sendList
    BY <1>2
  <2>2. QED BY <1>3, <2>1, ReleaseEffect
<1>5. mRefCount[s] \in Nat \ {0}
  <2>1. CASE pc[w] = "flushRelease"
    <3>1. w \in Flushers(s)
      BY <1>1, <2>1, KindInHand DEF Flushers, WithoutContext
    <3>2. QED BY <3>1, ReferredIsBusy
  <2>2. CASE pc[w] \in {"drop", "disconnectCompletion"}
    <3>1. ctx[w] # NoContext /\ Plain(pc[w])
      BY <2>2, KindInHand DEF Holding, Plain, ReturnLabels
    <3>2. QED BY <1>1, <3>1, InHand
  <2>3. QED BY <1>2, <2>1, <2>2
<1>6. /\ mRefCount'[s] = mRefCount[s] - 1
      /\ \A t \in Sessions \ {s} : mRefCount'[t] = mRefCount[t]
      /\ status' = status
  BY <1>4, <1>5 DEF Base, Fields
<1>7. /\ pc[w] # "acceptCompletion" /\ pc'[w] # "acceptCompletion"
      /\ \A c : c.type = "IO_ACCEPT" => (c \in ios' <=> c \in ios)
      /\ UNCHANGED <<status, mFreeSessionList, mConnected>>
  BY <1>2, <1>4, <1>6
<1>8. CASE mRefCount[s] # 1
  <2>1. mRefCount'[s] > 0 <=> mRefCount[s] > 0
    BY <1>5, <1>6, <1>8
  <2>2. QED BY <1>4, <1>6, <1>7, <2>1, PoolOfQuietStep
<1>9. CASE mRefCount[s] = 1
  <2>1. \A t : (BeingAccepted(t)' <=> BeingAccepted(t)) /\ (InFreeList(t)' <=> InFreeList(t))
    BY <1>4, <1>7, AcceptingStays DEF InFreeList
  <2>2. Life(s)' = Life(s)
    BY <1>7, <2>1 DEF Life, IsConnected
  <2>3. mRefCount'[s] = 0 /\ ~InFreeList(s)
    BY <1>6, <1>9, LifeOf
  <2>4. ~BeingAccepted(s) /\ mConnected[s] = 0
    <3>1. pc'[w] = "return" /\ Remote(w)' = s
      BY <1>1, <1>2, <1>4, <1>9 DEF Remote
    <3>2. InFlight(s)' = {} /\ Handlers(s)' = {} /\ mConnected'[s] = 0
      <4>1. w \in Returners(s)'
        BY <3>1 DEF Returners, Returning
      <4>2. ReturnedAreUnreferred'
        BY IdleSessions, PTL
      <4>3. QED BY <4>1, <4>2 DEF ReturnedAreUnreferred
    <3>3. ~BeingAccepted(s)'
      BY <3>2 DEF BeingAccepted
    <3>4. QED BY <3>2, <3>3, <2>1, <1>7
  <2>5. Life(s) = "closing"
    BY <2>3, <2>4 DEF Life, IsConnected
  <2>6. QED BY <1>6, <1>7, <2>1, <2>2, <2>3, <2>5, PoolMoves
<1>10. QED BY <1>8, <1>9
\* The steps of a worker that leave counts, list and stages alone.
LEMMA PoolOfStill ==
  ASSUME Base, Live, Base', Live', status = "running", NEW w \in Workers,
         \/ AcceptSetup(w) \/ PreRecv(w) \/ PostRecv(w)
         \/ SendCompletion(w) \/ RecvCompletion(w) \/ PostSend(w)
         \/ SendJob(w) \/ FlushNothing(w) \/ Flushed(w)
         \/ ReturnClientSession(w) \/ SessionReset(w)
  PROVE  Pool!PoolNext \/ UNCHANGED Pool!poolSpecVars
<1>1. PICK l \in Labels \ {"acceptCompletion"} : Goto(w, l)
  <2>1. CASE AcceptSetup(w) \/ PreRecv(w) \/ PostRecv(w) \/ SendCompletion(w)
    BY <2>1 DEF AcceptSetup, PreRecv, PostRecv, SendCompletion, AfterPreRecv, Labels
  <2>2. CASE RecvCompletion(w) \/ PostSend(w) \/ SendJob(w) \/ FlushNothing(w)
    BY <2>2 DEF RecvCompletion, PostSend, SendJob, FlushNothing, Labels
  <2>3. CASE Flushed(w) \/ ReturnClientSession(w) \/ SessionReset(w)
    BY <2>3 DEF Flushed, ReturnClientSession, SessionReset, Labels
  <2>4. QED BY <2>1, <2>2, <2>3
<1>2. /\ pc[w] # "acceptCompletion" /\ ctx' = ctx /\ ret' = ret /\ ios' = ios
      /\ \A v \in Workers \ {w} : sendList'[v] = sendList[v]
      /\ mFreeSessionList' = mFreeSessionList
  <2>1. CASE AcceptSetup(w) \/ PreRecv(w) \/ PostRecv(w) \/ SendCompletion(w) \/ RecvCompletion(w)
    BY <2>1 DEF AcceptSetup, PreRecv, PostRecv, SendCompletion, RecvCompletion, poolVars
  <2>2. CASE PostSend(w) \/ Flushed(w)
    BY <2>2 DEF PostSend, Flushed, poolVars, Base, IInv, ControlInv
  <2>3. CASE SendJob(w) \/ FlushNothing(w) \/ ReturnClientSession(w) \/ SessionReset(w)
    BY <2>3 DEF SendJob, FlushNothing, ReturnClientSession, SessionReset, poolVars
  <2>4. QED BY <2>1, <2>2, <2>3
<1>3. Others(w) /\ pc'[w] # "acceptCompletion"
  BY <1>1, <1>2 DEF Others, Goto, Base, IInv, ControlInv
<1>4. mConnected' = mConnected /\ mRefCount' = mRefCount
  <2>1. CASE SessionReset(w)
    <3>1. PICK s \in Sessions : s = Remote(w)
      BY <2>1, KindInHand DEF SessionReset
    <3>2. w \in Returners(s)
      BY <2>1, <3>1 DEF SessionReset, Returners, Returning
    <3>3. mRefCount[s] = 0 /\ mConnected[s] = 0
      BY <3>2, IdleIsUnreferred
    <3>4. mConnected' = [mConnected EXCEPT ![s] = 0] /\ mRefCount' = [mRefCount EXCEPT ![s] = 0]
      BY <2>1, <3>1 DEF SessionReset
    <3>5. mConnected' = mConnected
      BY <3>3, <3>4 DEF Base, Fields
    <3>6. mRefCount' = mRefCount
      BY <3>3, <3>4 DEF Base, Fields
    <3>7. QED BY <3>5, <3>6
  <2>2. CASE \/ AcceptSetup(w) \/ PreRecv(w) \/ PostRecv(w)
             \/ SendCompletion(w) \/ RecvCompletion(w) \/ PostSend(w)
    BY <2>2 DEF AcceptSetup, PreRecv, PostRecv, SendCompletion, RecvCompletion, PostSend, countVars
  <2>3. CASE \/ SendJob(w) \/ FlushNothing(w) \/ Flushed(w) \/ ReturnClientSession(w)
    BY <2>3 DEF SendJob, FlushNothing, Flushed, ReturnClientSession, countVars
  <2>4. QED BY <2>1, <2>2, <2>3
<1>5. status' = status
  <2>1. CASE ReturnClientSession(w)
    BY <2>1 DEF ReturnClientSession, Live
  <2>2. CASE \/ AcceptSetup(w) \/ PreRecv(w) \/ PostRecv(w)
             \/ SendCompletion(w) \/ RecvCompletion(w) \/ PostSend(w)
    BY <2>2 DEF AcceptSetup, PreRecv, PostRecv, SendCompletion, RecvCompletion, PostSend
  <2>3. CASE \/ SendJob(w) \/ FlushNothing(w) \/ Flushed(w) \/ SessionReset(w)
    BY <2>3 DEF SendJob, FlushNothing, Flushed, SessionReset
  <2>4. QED BY <2>1, <2>2, <2>3
<1>6. PICK s : s \in Sessions
  BY SessionsAssumption
<1>7. UNCHANGED <<status, mFreeSessionList, mConnected>>
  BY <1>2, <1>4, <1>5
<1>8. \A c : c.type = "IO_ACCEPT" => (c \in ios' <=> c \in ios)
  BY <1>2
<1>9. (\A t \in Sessions \ {s} : mRefCount'[t] = mRefCount[t]) /\ (mRefCount'[s] > 0 <=> mRefCount[s] > 0)
  BY <1>4
<1>10. QED BY <1>2, <1>3, <1>6, <1>7, <1>8, <1>9, PoolOfQuietStep

\* A client's connection begins, and ends.
LEMMA PoolOfAcceptCompletion ==
  ASSUME Base, Live, Base', Live', status = "running", NEW w \in Workers, AcceptCompletion(w)
  PROVE  Pool!PoolNext \/ UNCHANGED Pool!poolSpecVars
<1>1. PICK s \in Sessions : s = Remote(w)
  BY KindInHand DEF AcceptCompletion
<1>2. /\ pc[w] = "acceptCompletion" /\ mConnected' = [mConnected EXCEPT ![s] = 1]
      /\ status' = (IF IsConnected(s) THEN "crashed" ELSE status)
      /\ UNCHANGED <<mFreeSessionList, mRefCount, ctx, ret, sendList, ios>>
  BY <1>1 DEF AcceptCompletion, poolVars
<1>3. status' = status /\ ~IsConnected(s)
  BY <1>2 DEF Live
<1> DEFINE l == "acceptSetup"
<1>4. Goto(w, l)
  BY DEF AcceptCompletion
<1>5. Others(w) /\ pc'[w] = l
  BY <1>2, <1>4 DEF Others, Goto, Base, IInv, ControlInv
<1>6. ctx[w] # NoContext /\ Plain(pc[w]) /\ ctx[w].sess = s
  BY <1>1, <1>2, KindInHand DEF Holding, Plain, ReturnLabels
<1>7. w \in Handlers(s) /\ ~InFreeList(s)
  BY <1>1, <1>6, InHand
<1>8. ASSUME NEW t \in Sessions \ {s}
      PROVE  /\ InFreeList(t)' <=> InFreeList(t)
             /\ BeingAccepted(t)' <=> BeingAccepted(t)
             /\ mConnected'[t] = mConnected[t] /\ mRefCount'[t] = mRefCount[t]
  <2>1. w \notin Handlers(t) /\ w \notin Handlers(t)'
    BY <1>2, <1>6, <1>8 DEF Handlers
  <2>2. \A v \in Workers : v \in Handlers(t)' /\ pc'[v] = "acceptCompletion"
                             <=> v \in Handlers(t) /\ pc[v] = "acceptCompletion"
    BY <2>1, <1>5, OthersStay DEF Others
  <2>3. Handlers(t) \subseteq Workers /\ Handlers(t)' \subseteq Workers
    BY DEF Handlers
  <2>4. InFlight(t)' = InFlight(t) /\ InFreeList(t)' = InFreeList(t)
    BY <1>2 DEF InFlight, InFreeList
  <2>5. BeingAccepted(t)' <=> BeingAccepted(t)
    BY <2>2, <2>3, <2>4 DEF BeingAccepted
  <2>6. mConnected'[t] = mConnected[t]
    BY <1>2, <1>8 DEF Base, Fields
  <2>7. QED BY <1>2, <2>4, <2>5, <2>6
<1>9. Life(s) = "accepting"
  <2>1. BeingAccepted(s)
    BY <1>2, <1>7 DEF BeingAccepted
  <2>2. QED BY <2>1, <1>3, <1>7 DEF Life
<1>10. Life(s)' = "connected"
  <2>1. mConnected'[s] = 1
    BY <1>2 DEF Base, Fields
  <2>2. ConnectedLive'
    BY ConnectedSessions, PTL
  <2>3. QED BY <2>1, <2>2 DEF ConnectedLive
<1>11. QED BY <1>2, <1>3, <1>8, <1>9, <1>10, PoolMoves

LEMMA PoolOfDisconnectRequest ==
  ASSUME Base, Live, Base', Live', status = "running", NEW w \in Workers, DisconnectRequest(w)
  PROVE  Pool!PoolNext \/ UNCHANGED Pool!poolSpecVars
<1>1. PICK s \in Sessions : s = Remote(w)
  BY KindInHand DEF DisconnectRequest
<1>2. /\ pc[w] = "disconnect" /\ mConnected' = [mConnected EXCEPT ![s] = 0]
      /\ UNCHANGED <<status, mFreeSessionList, mRefCount, ctx, ret, sendList, ios>>
  BY <1>1 DEF DisconnectRequest, poolVars
<1>3. PICK l \in {"disconnectCall", "drop", "flushed"} : Goto(w, l)
  BY DEF DisconnectRequest, AfterDisconnect
<1>4. Others(w) /\ pc'[w] = l
  BY <1>2, <1>3 DEF Others, Goto, Base, IInv, ControlInv
<1>5. \A t : (BeingAccepted(t)' <=> BeingAccepted(t)) /\ (InFreeList(t)' <=> InFreeList(t))
  BY <1>2, <1>4, AcceptingStays DEF InFreeList
<1>6. \A t \in Sessions \ {s} : mConnected'[t] = mConnected[t]
  BY <1>2 DEF Base, Fields
<1>7. mConnected'[s] = 0 /\ mConnected[s] \in {0, 1}
  BY <1>2 DEF Base, Fields
<1>8. CASE mConnected[s] = 0
  <2>1. Life(s)' = Life(s)
    BY <1>5, <1>7, <1>8 DEF Life, IsConnected
  <2>2. QED BY <1>2, <1>5, <1>6, <2>1, PoolMoves
<1>9. CASE mConnected[s] = 1
  <2>1. Life(s) = "connected" /\ ~InFreeList(s)
    BY <1>9, LifeOf, IdleIsUnreferred
  <2>2. ~BeingAccepted(s)
    <3>1. StageIos(s) = {} /\ StageWorkers(s) = {}
      BY <1>9 DEF Live, Stages
    <3>2. ~\E c \in InFlight(s) : c.type = "IO_ACCEPT"
      BY <3>1 DEF InFlight, StageIos
    <3>3. ~\E v \in Handlers(s) : pc[v] = "acceptCompletion"
      BY <3>1 DEF Handlers, StageWorkers, Remote
    <3>4. QED BY <3>2, <3>3 DEF BeingAccepted
  <2>3. Life(s)' = "closing"
    BY <1>5, <1>7, <2>1, <2>2 DEF Life, IsConnected
  <2>4. QED BY <1>2, <1>5, <1>6, <2>1, <2>3, PoolMoves
<1>10. QED BY <1>7, <1>8, <1>9
\* A session comes back, and is issued again.
LEMMA PoolOfSessionResetSend ==
  ASSUME Base, Live, Base', Live', status = "running", NEW w \in Workers, SessionResetSend(w)
  PROVE  Pool!PoolNext \/ UNCHANGED Pool!poolSpecVars
<1>1. PICK s \in Sessions : s = Remote(w)
  BY KindInHand DEF SessionResetSend
<1>2. /\ pc[w] = "sessionResetSend" /\ Resume(w, ret[w])
      /\ mFreeSessionList' = Append(mFreeSessionList, s)
      /\ ret' = [ret EXCEPT ![w] = "sendJob"]
      /\ UNCHANGED <<status, mConnected, mRefCount, sendList, ios>>
  BY <1>1 DEF SessionResetSend, countVars
<1>3. Others(w) /\ pc'[w] # "acceptCompletion"
  BY <1>2 DEF Others, Resume, Goto, Base, IInv, ControlInv
<1>4. \A t : BeingAccepted(t)' <=> BeingAccepted(t)
  BY <1>2, <1>3, AcceptingStays
<1>5. w \in Returners(s)
  BY <1>1, <1>2 DEF Returners, Returning
<1>6. Life(s) = "closing" /\ mRefCount[s] = 0 /\ ~InFreeList(s)
  BY <1>5, LifeOf, IdleIsUnreferred DEF Live, Idle
<1>7. mFreeSessionList \in Seq(Sessions)
  BY DEF Base, IInv, PoolInv
<1>8. ASSUME NEW t PROVE InFreeList(t)' <=> InFreeList(t) \/ t = s
  <2>1. /\ DOMAIN mFreeSessionList' = 1..(Len(mFreeSessionList) + 1)
        /\ \A i \in 1..Len(mFreeSessionList) : mFreeSessionList'[i] = mFreeSessionList[i]
        /\ mFreeSessionList'[Len(mFreeSessionList) + 1] = s
    BY <1>2, <1>7
  <2>2. DOMAIN mFreeSessionList = 1..Len(mFreeSessionList) /\ Len(mFreeSessionList) \in Nat
    BY <1>7
  <2>3. \A i \in 1..(Len(mFreeSessionList) + 1) :
          i \in 1..Len(mFreeSessionList) \/ i = Len(mFreeSessionList) + 1
    BY <2>2
  <2>4. /\ 1..Len(mFreeSessionList) \subseteq 1..(Len(mFreeSessionList) + 1)
        /\ Len(mFreeSessionList) + 1 \in 1..(Len(mFreeSessionList) + 1)
    BY <2>2
  <2>5. QED BY <2>1, <2>2, <2>3, <2>4 DEF InFreeList
<1>9. Life(s)' = "free"
  <2>1. InFreeList(s)'
    BY <1>8
  <2>2. FreeLife'
    BY FreeSessions, PTL
  <2>3. QED BY <2>1, <2>2 DEF FreeLife
<1>10. \A t \in Sessions \ {s} :
         /\ InFreeList(t)' <=> InFreeList(t)
         /\ BeingAccepted(t)' <=> BeingAccepted(t)
         /\ mConnected'[t] = mConnected[t] /\ mRefCount'[t] = mRefCount[t]
  BY <1>2, <1>4, <1>8
<1>11. QED BY <1>2, <1>6, <1>9, <1>10, PoolMoves

LEMMA PoolOfDequeue ==
  ASSUME Base, Live, Base', Live', status = "running", NEW w \in Workers, NEW c \in ios,
         Dequeue(w, c)
  PROVE  Pool!PoolNext \/ UNCHANGED Pool!poolSpecVars
<1>1. /\ pc[w] = "gqcs" /\ c.sess \in Sessions /\ Others(w) /\ ios' = ios \ {c}
      /\ ctx'[w] # NoContext /\ ctx'[w].sess = c.sess
      /\ pc'[w] \in (Holding \ {"drop"}) \cup {"disconnect"}
      /\ pc'[w] = "acceptCompletion" <=> c.type = "IO_ACCEPT"
  BY DequeueEffect
<1>2. UNCHANGED <<status, mFreeSessionList, mConnected, mRefCount>>
  BY DEF Dequeue, poolVars, countVars
<1>3. ASSUME NEW t PROVE BeingAccepted(t)' <=> BeingAccepted(t)
  <2>1. w \in Handlers(t)' /\ pc'[w] = "acceptCompletion" <=> c \in InFlight(t) /\ c.type = "IO_ACCEPT"
    <3>1. ~Returning(w)'
      BY <1>1 DEF Returning, Holding
    <3>2. w \in Handlers(t)' <=> c.sess = t
      BY <1>1, <3>1 DEF Handlers
    <3>3. QED BY <3>2, <1>1 DEF InFlight
  <2>2. InFlight(t)' = InFlight(t) \ {c}
    BY <1>1 DEF InFlight
  <2>3. \A v \in Workers \ {w} : v \in Handlers(t)' /\ pc'[v] = "acceptCompletion"
                                   <=> v \in Handlers(t) /\ pc[v] = "acceptCompletion"
    BY <1>1, OthersStay DEF Others
  <2>4. Handlers(t) \subseteq Workers /\ Handlers(t)' \subseteq Workers /\ pc[w] # "acceptCompletion"
    BY <1>1 DEF Handlers
  <2>5. QED BY <2>1, <2>2, <2>3, <2>4 DEF BeingAccepted
<1>4. \A t : InFreeList(t)' <=> InFreeList(t)
  BY <1>2 DEF InFreeList
<1>5. PICK s \in Sessions : s = c.sess
  BY <1>1
<1>6. Life(s)' = Life(s)
  BY <1>2, <1>3, <1>4 DEF Life, IsConnected
<1>7. QED BY <1>2, <1>3, <1>4, <1>6, PoolMoves

LEMMA PoolOfAccept ==
  ASSUME Base, Live, Base', Live', status = "running", Accept
  PROVE  Pool!PoolNext \/ UNCHANGED Pool!poolSpecVars
<1>1. UNCHANGED <<mConnected, pc, ctx, ret>>
  BY DEF Accept, AcceptEnter, AcceptLeave, AcceptIssue, countVars, workerVars
<1>2. \A t : Handlers(t)' = Handlers(t)
  BY <1>1 DEF Handlers, Returning
<1>3. CASE AcceptEnter \/ AcceptLeave
  <2>1. UNCHANGED <<status, mFreeSessionList, mRefCount, ios>>
    BY <1>3 DEF AcceptEnter, AcceptLeave, countVars
  <2>2. \A t : (InFreeList(t)' <=> InFreeList(t)) /\ (BeingAccepted(t)' <=> BeingAccepted(t))
    BY <2>1, <1>1, <1>2 DEF InFreeList, BeingAccepted, InFlight
  <2>3. PICK s : s \in Sessions
    BY SessionsAssumption
  <2>4. Life(s)' = Life(s)
    BY <1>1, <2>2 DEF Life, IsConnected
  <2>5. QED BY <1>1, <2>1, <2>2, <2>3, <2>4, PoolMoves
<1>4. CASE AcceptIssue
  <2>1. PICK s \in Sessions :
           /\ InFreeList(s)
           /\ \A t : InFreeList(t)' <=> InFreeList(t) /\ t # s
           /\ \/ /\ ios' = ios \cup {[Context("IO_ACCEPT", s, 0, 0) EXCEPT !.gen = @ + 1]}
                 /\ mRefCount' = [mRefCount EXCEPT ![s] = @ + 2]
                 /\ UNCHANGED status
              \/ /\ mRefCount' = [mRefCount EXCEPT ![s] = @ + 1]
                 /\ status' = "exited" /\ UNCHANGED ios
    BY <1>4, IssueEffect
  <2>2. PICK c : /\ c.type = "IO_ACCEPT" /\ c.sess = s
                 /\ \/ ios' = ios \cup {c} /\ UNCHANGED status
                    \/ status' = "exited" /\ UNCHANGED ios
    <3>1. /\ [Context("IO_ACCEPT", s, 0, 0) EXCEPT !.gen = @ + 1].type = "IO_ACCEPT"
          /\ [Context("IO_ACCEPT", s, 0, 0) EXCEPT !.gen = @ + 1].sess = s
      BY DEF Context
    <3>2. QED BY <3>1, <2>1
  <2>3. Life(s) = "free" /\ InFlight(s) = {} /\ Handlers(s) = {} /\ mRefCount[s] = 0 /\ mConnected[s] = 0
    BY <2>1, LifeOf, IdleIsUnreferred
  <2>4. mRefCount'[s] > 0 /\ \A t \in Sessions \ {s} : mRefCount'[t] = mRefCount[t]
    BY <2>1, <2>3 DEF Base, Fields
  <2>5. \A t \in Sessions \ {s} : BeingAccepted(t)' <=> BeingAccepted(t)
    <3>1. \A t \in Sessions \ {s} : InFlight(t)' = InFlight(t)
      BY <2>2 DEF InFlight
    <3>2. QED BY <3>1, <1>1, <1>2 DEF BeingAccepted
  <2>6. ~InFreeList(s)' /\ ~IsConnected(s)'
    BY <1>1, <2>1, <2>3 DEF IsConnected
  <2>7. CASE ios' = ios \cup {c} /\ UNCHANGED status
    <3>1. c \in InFlight(s)'
      BY <2>2, <2>7 DEF InFlight
    <3>2. BeingAccepted(s)'
      BY <2>2, <3>1 DEF BeingAccepted
    <3>3. Life(s)' = "accepting"
      BY <2>6, <3>2 DEF Life
    <3>4. QED BY <1>1, <2>1, <2>3, <2>4, <2>5, <2>7, <3>3, PoolMoves
  <2>8. CASE status' = "exited" /\ UNCHANGED ios
    <3>1. InFlight(s)' = {} /\ Handlers(s)' = {}
      BY <1>2, <2>3, <2>8 DEF InFlight
    <3>2. Life(s)' = "closing"
      BY <2>6, <3>1 DEF Life, BeingAccepted
    <3>3. QED BY <1>1, <2>1, <2>3, <2>4, <2>5, <2>8, <3>2, PoolMoves
  <2>9. QED BY <2>2, <2>7, <2>8
<1>5. QED BY <1>3, <1>4 DEF Accept

\* Until a session is revived, every step of the server is a step of the abstract
\* pool: sessions go round free, accepting, connected, closing, free; none is
\* recycled while an operation or a thread refers to it (ClientSessionManager.cpp).
THEOREM SessionsGoRound == Spec => ImplementsSessionPool
<1>1. ASSUME Init, RefInv PROVE Pool!PoolInit
  <2>1. Base /\ Live
    BY <1>1 DEF RefInv, Init
  <2>2. ASSUME NEW s \in Sessions PROVE Life(s) = "free" /\ References(s) = 0
    <3>1. PICK q \in [1..Cardinality(Sessions) -> Sessions] :
            mFreeSessionList = q /\ \A i, j \in DOMAIN q : q[i] = q[j] => i = j
      BY <1>1 DEF Init
    <3>2. \E i \in 1..Cardinality(Sessions) : q[i] = s
      <4>1. IsInjective(q)
        BY <3>1 DEF IsInjective
      <4>2. q \in Injection(1..Cardinality(Sessions), Sessions)
        BY <3>1, <4>1 DEF Injection
      <4>3. Cardinality(1..Cardinality(Sessions)) = Cardinality(Sessions) /\ IsFiniteSet(1..Cardinality(Sessions))
        BY FS_Interval, NIsNat DEF N
      <4>4. q \in Surjection(1..Cardinality(Sessions), Sessions)
        BY <4>2, <4>3, FS_Injection, SessionsAssumption
      <4>5. QED BY <4>4 DEF Surjection
    <3>3. InFreeList(s)
      BY <3>1, <3>2 DEF InFreeList
    <3>4. QED BY <2>1, <3>3, LifeOf, IdleIsUnreferred
  <2>3. [s \in Sessions |-> Life(s)] = [s \in Sessions |-> "free"]
    BY <2>2
  <2>4. {s \in Sessions : References(s) > 0} = {}
    BY <2>2
  <2>5. status = "running"
    BY <1>1 DEF Init
  <2>6. QED BY <2>3, <2>4, <2>5 DEF Pool!PoolInit
<1>2. ASSUME RefInv, RefInv', [Next]_vars
      PROVE  [Pool!PoolNext \/ resurrected']_(Pool!poolSpecVars)
  <2>1. SUFFICES ASSUME ~resurrected' PROVE Pool!PoolNext \/ UNCHANGED Pool!poolSpecVars
    OBVIOUS
  <2>2. Base /\ Base' /\ Live /\ Live'
    BY <1>2, <2>1, RevivalLasts DEF RefInv
  <2>3. CASE UNCHANGED vars
    <3>1. UNCHANGED <<status, mFreeSessionList, mConnected, pc, ctx, ret, sendList, ios, issued>>
      BY <2>3 DEF vars, poolVars, countVars, workerVars, historyVars
    <3>2. \A t : Handlers(t)' = Handlers(t) /\ InFlight(t)' = InFlight(t) /\ Flushers(t)' = Flushers(t)
      BY <3>1 DEF Handlers, InFlight, Flushers, Returning
    <3>3. \A t : (BeingAccepted(t)' <=> BeingAccepted(t)) /\ (InFreeList(t)' <=> InFreeList(t))
      BY <3>1, <3>2 DEF BeingAccepted, InFreeList
    <3>4. \A t : Life(t)' = Life(t) /\ References(t)' = References(t)
      BY <3>1, <3>2, <3>3 DEF Life, IsConnected, References
    <3>5. QED BY <3>1, <3>4 DEF Pool!poolSpecVars
  <2>4. CASE Next
    <3>1. status = "running"
      BY <2>4 DEF Next
    <3>2. CASE Accept
      BY <2>2, <3>1, <3>2, PoolOfAccept
    <3>3. ASSUME NEW w \in Workers, NEW c \in ios, Dequeue(w, c)
          PROVE  Pool!PoolNext \/ UNCHANGED Pool!poolSpecVars
      BY <2>2, <3>1, <3>3, PoolOfDequeue
    <3>4. ASSUME NEW w \in Workers, Step(w)
          PROVE  Pool!PoolNext \/ UNCHANGED Pool!poolSpecVars
      <4>1. CASE \/ PreRecvCall(w) \/ PostRecvCall(w) \/ DisconnectCall(w) \/ FlushSend(w)
        BY <2>1, <2>2, <3>1, <4>1, PoolOfPost
      <4>2. CASE \/ DeleteIoContext(w) \/ FlushRelease(w) \/ DisconnectCompletion(w)
        BY <2>2, <3>1, <4>2, PoolOfRelease
      <4>3. CASE \/ AcceptSetup(w) \/ PreRecv(w) \/ PostRecv(w)
                 \/ SendCompletion(w) \/ RecvCompletion(w) \/ PostSend(w)
                 \/ SendJob(w) \/ FlushNothing(w) \/ Flushed(w)
                 \/ ReturnClientSession(w) \/ SessionReset(w)
        BY <2>2, <3>1, <4>3, PoolOfStill
      <4>4. CASE AcceptCompletion(w)
        BY <2>2, <3>1, <4>4, PoolOfAcceptCompletion
      <4>5. CASE DisconnectRequest(w)
        BY <2>2, <3>1, <4>5, PoolOfDisconnectRequest
      <4>6. CASE SessionResetSend(w)
        BY <2>2, <3>1, <4>6, PoolOfSessionResetSend
      <4>7. QED BY <3>4, <4>1, <4>2, <4>3, <4>4, <4>5, <4>6 DEF Step
    <3>5. QED BY <2>4, <3>2, <3>3, <3>4 DEF Next, GetQueuedCompletionStatus
  <2>5. QED BY <1>2, <2>3, <2>4
<1>3. QED
  BY <1>1, <1>2, RefInvIsInductive, PTL DEF Spec, ImplementsSessionPool

-----------------------------------------------------------------------------
(***************************************************************************)
(* Bytes: what a connection received comes back, in order, as long as no   *)
(* FlushSend has revived a released session.                               *)
(***************************************************************************)

(* The inductive invariant.                                                  *)

\* The workers at a label, by their session.
At(label, s) == {w \in Workers : pc[w] = label /\ Remote(w) = s}

\* The buffers as they will be when the completions in hand are carried out: what
\* was sent is removed, what was received is committed.
Removed(b, W, c)   == IF W = {} THEN b ELSE Remove(b, c[CHOOSE w \in W : TRUE].n)
Committed(b, W, c) == IF W = {} THEN b ELSE Commit(b, c[CHOOSE w \in W : TRUE].n)

Left(s) == Removed(mSendBuffer[s], At("sendCompletion", s), ctx)
Came(s) == Committed(mRecvBuffer[s], At("recvCompletion", s), ctx)

RecvIos(s) == {c \in ios : c.sess = s /\ c.type = "IO_RECV"}

\* A send has the first run of bytes; its completion is for some of it.
SendSide(s) ==
  /\ BufferOK(mSendBuffer[s])
  /\ \A c \in SendIos(s) : /\ c.at = GetBufferStart(mSendBuffer[s])
                           /\ c.len \in 1..GetContiguiousBytes(mSendBuffer[s])
  /\ \A w \in At("sendCompletion", s) : ctx[w].n \in 1..GetContiguiousBytes(mSendBuffer[s])

\* A receive has the free space, which AfterProbe has chosen; what came can be
\* committed; EchoBack finds bytes.
RecvSide(s) ==
  /\ BufferOK(mRecvBuffer[s])
  /\ RecvIos(s) # {} \/ At("postRecvCall", s) # {} => AfterProbe(mRecvBuffer[s]) = mRecvBuffer[s]
  /\ \A c \in RecvIos(s) : /\ c.at = GetBuffer(mRecvBuffer[s])
                           /\ c.len = GetFreeSpaceSize(mRecvBuffer[s])
  /\ \A w \in At("recvCompletion", s) : /\ ctx[w].n \in Nat \ {0}
                                        /\ BufferOK(Commit(mRecvBuffer[s], ctx[w].n))
  /\ At("postSend", s) # {} => mRecvBuffer[s].aSize > 0

\* The session is neither in the free list nor on its way there.
InUse(s) == ~InFreeList(s) /\ Returners(s) = {}

\* What came has been sent, or waits for it.
Stream(s) ==
  /\ stamp[s] \in Nat /\ rcvd[s] \in Seq(Nat) /\ wire[s] \in Seq(Nat)
  /\ \E rest \in Seq(Nat) : rcvd[s] = wire[s] \o rest
  /\ InUse(s) => rcvd[s] = wire[s] \o (Contents(Left(s)) \o Contents(Came(s)))

Bytes ==
  /\ stamp = [s \in Sessions |-> stamp[s]] /\ wire = [s \in Sessions |-> wire[s]]
  /\ \A s \in Sessions : SendSide(s) /\ RecvSide(s) /\ Stream(s)

-----------------------------------------------------------------------------
(* Lemmas on the parts.                                                      *)

\* The completion in hand is the only one of its kind.
LEMMA OneInHand ==
  ASSUME NEW b, NEW W, NEW c, \A v, w \in W : v = w
  PROVE  /\ W = {} => Removed(b, W, c) = b /\ Committed(b, W, c) = b
         /\ \A w \in W : Removed(b, W, c) = Remove(b, c[w].n) /\ Committed(b, W, c) = Commit(b, c[w].n)
<1>1. ASSUME NEW w \in W PROVE W # {} /\ (CHOOSE v \in W : TRUE) = w
  <2>1. (CHOOSE v \in W : TRUE) \in W
    OBVIOUS
  <2>2. QED BY <2>1
<1>2. QED BY <1>1 DEF Removed, Committed

LEMMA SameInHand ==
  ASSUME NEW b, NEW W, NEW c, NEW d, \A w \in W : c[w] = d[w]
  PROVE  Removed(b, W, c) = Removed(b, W, d) /\ Committed(b, W, c) = Committed(b, W, d)
<1>1. W # {} => (CHOOSE v \in W : TRUE) \in W
  OBVIOUS
<1>2. QED BY <1>1 DEF Removed, Committed

\* A step of one worker changes only its own place.
LEMMA OnlyOneMoves ==
  ASSUME NEW w \in Workers, Others(w), NEW label, NEW s
  PROVE  /\ At(label, s) \ {w} \subseteq At(label, s)' /\ At(label, s)' \ {w} \subseteq At(label, s)
         /\ \A v \in At(label, s)' \ {w} : ctx'[v] = ctx[v]
         /\ pc'[w] # label => w \notin At(label, s)'
         /\ pc[w] # label => w \notin At(label, s)
         /\ Remote(w)' # s => w \notin At(label, s)'
         /\ Remote(w) # s => w \notin At(label, s)
         /\ Returners(s) \ {w} \subseteq Returners(s)'
<1>1. ASSUME NEW v \in Workers \ {w}
      PROVE  /\ pc'[v] = pc[v] /\ ctx'[v] = ctx[v] /\ sendList'[v] = sendList[v]
             /\ Remote(v)' = Remote(v) /\ Returning(v)' = Returning(v)
  BY DEF Others, Remote, Returning
<1>2. QED BY <1>1 DEF At, Returners

\* Nobody but one is on the receive side.
LEMMA ReceivingAlone ==
  ASSUME Base, Live, NEW s \in Sessions
  PROVE  /\ RecvIos(s) \subseteq ReceiveIos(s)
         /\ \A label \in {"postRecv", "postRecvCall", "recvCompletion", "postSend"} :
              At(label, s) \subseteq ReceiveWorkers(s)
         /\ AtMostOne(ReceiveIos(s), ReceiveWorkers(s))
<1>1. RecvIos(s) \subseteq ReceiveIos(s)
  BY DEF RecvIos, ReceiveIos, ReceiveTypes
<1>2. ASSUME NEW label \in {"postRecv", "postRecvCall", "recvCompletion", "postSend"}, NEW w \in At(label, s)
      PROVE  w \in ReceiveWorkers(s)
  <2>1. w \in Workers /\ pc[w] = label /\ Remote(w) = s /\ pc[w] \in Holding
    BY <1>2 DEF At, Holding
  <2>2. ctx[w] # NoContext /\ Remote(w) = ctx[w].sess /\ ctx[w].type \in KindOf(pc[w])
    BY <2>1, KindInHand
  <2>3. KindOf(pc[w]) \subseteq ReceiveTypes /\ ~Returning(w) /\ pc[w] # "drop"
    BY <1>2, <2>1 DEF KindOf, ReceiveTypes, Returning
  <2>4. QED BY <2>1, <2>2, <2>3 DEF ReceiveWorkers, Handlers
<1>3. AtMostOne(ReceiveIos(s), ReceiveWorkers(s))
  BY DEF Live, Receives
<1>4. QED BY <1>1, <1>2, <1>3

\* Where nothing happens to a side, it stays as it is.
LEMMA SendSideStays ==
  ASSUME NEW s, SendSide(s), mSendBuffer'[s] = mSendBuffer[s], SendIos(s)' \subseteq SendIos(s),
         At("sendCompletion", s)' = At("sendCompletion", s),
         \A v \in At("sendCompletion", s)' : ctx'[v] = ctx[v]
  PROVE  SendSide(s)' /\ Left(s)' = Left(s)
<1>1. SendSide(s)'
  BY DEF SendSide
<1>2. Left(s)' = Left(s)
  <2>1. Removed(mSendBuffer[s], At("sendCompletion", s), ctx') =
          Removed(mSendBuffer[s], At("sendCompletion", s), ctx)
    BY SameInHand
  <2>2. QED BY <2>1 DEF Left
<1>3. QED BY <1>1, <1>2

LEMMA RecvSideStays ==
  ASSUME NEW s, RecvSide(s), mRecvBuffer'[s] = mRecvBuffer[s], RecvIos(s)' \subseteq RecvIos(s),
         At("recvCompletion", s)' = At("recvCompletion", s),
         At("postRecvCall", s)' \subseteq At("postRecvCall", s),
         At("postSend", s)' \subseteq At("postSend", s),
         \A v \in At("recvCompletion", s)' : ctx'[v] = ctx[v]
  PROVE  RecvSide(s)' /\ Came(s)' = Came(s)
<1>1. RecvSide(s)'
  BY DEF RecvSide
<1>2. Came(s)' = Came(s)
  <2>1. Committed(mRecvBuffer[s], At("recvCompletion", s), ctx') =
          Committed(mRecvBuffer[s], At("recvCompletion", s), ctx)
    BY SameInHand
  <2>2. QED BY <2>1 DEF Came
<1>3. QED BY <1>1, <1>2

LEMMA StreamStays ==
  ASSUME NEW s, Stream(s), stamp'[s] = stamp[s], rcvd'[s] = rcvd[s], wire'[s] = wire[s],
         InUse(s)' => InUse(s),
         InUse(s)' => Contents(Left(s)') \o Contents(Came(s)') = Contents(Left(s)) \o Contents(Came(s))
  PROVE  Stream(s)'
  BY DEF Stream

\* The labels that count for a side.
Busy == {"sendCompletion", "recvCompletion", "postSend", "postRecvCall"}

\* A free session, or one that is being returned, has nothing under way.
LEMMA NothingUnderWay ==
  ASSUME Base, Live, NEW s \in Sessions, InFreeList(s) \/ Returners(s) # {}
  PROVE  SendIos(s) = {} /\ RecvIos(s) = {} /\ \A label \in Busy : At(label, s) = {}
<1>1. InFlight(s) = {} /\ Handlers(s) = {}
  BY IdleIsUnreferred
<1>2. ASSUME NEW label \in Busy, NEW w \in At(label, s) PROVE FALSE
  <2>1. w \in Workers /\ pc[w] = label /\ Remote(w) = s /\ pc[w] \in Holding /\ ~Returning(w)
    BY <1>2 DEF At, Busy, Holding, Returning
  <2>2. ctx[w] # NoContext /\ Remote(w) = ctx[w].sess
    BY <2>1, KindInHand
  <2>3. QED BY <1>1, <2>1, <2>2 DEF Handlers
<1>3. QED BY <1>1, <1>2 DEF SendIos, RecvIos, InFlight

\* A session comes into use only by being issued.
LEMMA InUseLasts ==
  ASSUME NEW w \in Workers, Others(w), NEW t, InFreeList(t) => InFreeList(t)',
         w \in Returners(t) => w \in Returners(t)' \/ InFreeList(t)'
  PROVE  InUse(t)' => InUse(t)
<1>1. Returners(t) \ {w} \subseteq Returners(t)'
  BY OnlyOneMoves
<1>2. Returners(t) # {} => Returners(t)' # {} \/ InFreeList(t)'
  BY <1>1
<1>3. QED BY <1>2 DEF InUse

\* The sessions that a worker's step is not about.
LEMMA OtherSessions ==
  ASSUME NEW w \in Workers, Others(w), NEW t, SendSide(t), RecvSide(t), Stream(t),
         mSendBuffer'[t] = mSendBuffer[t], mRecvBuffer'[t] = mRecvBuffer[t],
         stamp'[t] = stamp[t], rcvd'[t] = rcvd[t], wire'[t] = wire[t],
         \A c \in ios' : c \in ios \/ c.sess # t,
         \A label \in Busy : w \notin At(label, t) /\ w \notin At(label, t)',
         InUse(t)' => InUse(t)
  PROVE  SendSide(t)' /\ RecvSide(t)' /\ Stream(t)'
<1>1. ASSUME NEW label \in Busy
      PROVE  At(label, t)' = At(label, t) /\ \A v \in At(label, t)' : ctx'[v] = ctx[v]
  <2>1. /\ At(label, t) \ {w} \subseteq At(label, t)' /\ At(label, t)' \ {w} \subseteq At(label, t)
        /\ \A v \in At(label, t)' \ {w} : ctx'[v] = ctx[v]
    BY OnlyOneMoves
  <2>2. w \notin At(label, t) /\ w \notin At(label, t)'
    BY <1>1
  <2> DEFINE A == At(label, t)
             D == At(label, t)'
  <2>3. A \ {w} \subseteq D /\ D \ {w} \subseteq A /\ w \notin A /\ w \notin D
    BY <2>1, <2>2
  <2> HIDE DEF A, D
  <2>4. A = D
    <3>1. \A v : v \in A => v \in D
      BY <2>3
    <3>2. \A v : v \in D => v \in A
      BY <2>3
    <3>3. QED BY <3>1, <3>2
  <2>5. QED BY <2>1, <2>2, <2>4 DEF A, D
<1>2. SendIos(t)' \subseteq SendIos(t) /\ RecvIos(t)' \subseteq RecvIos(t)
  BY DEF SendIos, RecvIos
<1>3. SendSide(t)' /\ Left(t)' = Left(t)
  BY <1>1, <1>2, SendSideStays DEF Busy
<1>4. RecvSide(t)' /\ Came(t)' = Came(t)
  BY <1>1, <1>2, RecvSideStays DEF Busy
<1>5. Stream(t)'
  BY <1>3, <1>4, StreamStays
<1>6. QED BY <1>3, <1>4, <1>5

\* Most steps have nothing to do with the bytes.
LEMMA QuietStep ==
  ASSUME Bytes, NEW w \in Workers, Others(w),
         pc[w] \notin {"sendCompletion", "recvCompletion"}, pc'[w] \notin Busy,
         UNCHANGED <<mSendBuffer, mRecvBuffer, stamp, rcvd, wire, mFreeSessionList>>,
         \A c \in ios' : c \in ios \/ c.type \notin {"IO_SEND", "IO_RECV"},
         Returning(w) => Returning(w)' /\ Remote(w)' = Remote(w)
  PROVE  Bytes'
<1>1. ASSUME NEW s \in Sessions PROVE SendSide(s)' /\ RecvSide(s)' /\ Stream(s)'
  <2>1. SendSide(s) /\ RecvSide(s) /\ Stream(s)
    BY DEF Bytes
  <2>2. ASSUME NEW label \in Busy
        PROVE  /\ At(label, s)' = At(label, s) \ {w}
               /\ \A v \in At(label, s)' : ctx'[v] = ctx[v]
               /\ label \in {"sendCompletion", "recvCompletion"} => At(label, s)' = At(label, s)
    <3>1. /\ At(label, s) \ {w} \subseteq At(label, s)' /\ At(label, s)' \ {w} \subseteq At(label, s)
          /\ \A v \in At(label, s)' \ {w} : ctx'[v] = ctx[v]
          /\ w \notin At(label, s)'
          /\ pc[w] # label => w \notin At(label, s)
      BY <2>2, OnlyOneMoves
    <3>2. QED BY <3>1
  <2>3. SendIos(s)' \subseteq SendIos(s) /\ RecvIos(s)' \subseteq RecvIos(s)
    BY DEF SendIos, RecvIos
  <2>4. SendSide(s)' /\ Left(s)' = Left(s)
    BY <2>1, <2>2, <2>3, SendSideStays DEF Busy
  <2>5. RecvSide(s)' /\ Came(s)' = Came(s)
    BY <2>1, <2>2, <2>3, RecvSideStays DEF Busy
  <2>6. InUse(s)' => InUse(s)
    <3>1. InFreeList(s) => InFreeList(s)'
      BY DEF InFreeList
    <3>2. w \in Returners(s) => w \in Returners(s)'
      BY DEF Returners
    <3>3. QED BY <3>1, <3>2, InUseLasts
  <2>7. Stream(s)'
    BY <2>1, <2>4, <2>5, <2>6, StreamStays
  <2>8. QED BY <2>4, <2>5, <2>7
<1>2. QED BY <1>1 DEF Bytes

\* The steps that walk from label to label.
LEMMA GotoOthers ==
  ASSUME Base, NEW w \in Workers, NEW l, Goto(w, l), UNCHANGED <<ctx, ret, sendList>>
  PROVE  Others(w) /\ pc'[w] = l /\ Remote(w)' = Remote(w)
<1>1. pc \in [Workers -> Labels]
  BY DEF Base, IInv, ControlInv
<1>2. QED BY <1>1 DEF Goto, Others, Remote

LEMMA BytesOfQuietWalk ==
  ASSUME Base, Bytes, NEW w \in Workers,
         \/ AcceptCompletion(w) \/ AcceptSetup(w) \/ PreRecv(w) \/ PreRecvCall(w)
         \/ DisconnectRequest(w) \/ DisconnectCall(w) \/ ReturnClientSession(w)
         \/ SendJob(w) \/ FlushNothing(w)
  PROVE  Bytes'
<1>1. UNCHANGED <<ctx, ret, sendList, mSendBuffer, mRecvBuffer, stamp, rcvd, wire, mFreeSessionList>>
  BY DEF AcceptCompletion, AcceptSetup, PreRecv, PreRecvCall, DisconnectRequest, DisconnectCall,
         ReturnClientSession, SendJob, FlushNothing, poolVars, sendVars, byteVars
<1>2. \A c \in ios' : c \in ios \/ c.type \notin {"IO_SEND", "IO_RECV"}
  <2>1. CASE UNCHANGED ios
    BY <2>1
  <2>2. CASE \E type \in {"IO_RECV_ZERO", "IO_DISCONNECT"} : ios' = ios \cup {Context(type, Remote(w), 0, 0)}
    BY <2>2 DEF Context
  <2>3. QED
    BY <2>1, <2>2 DEF AcceptCompletion, AcceptSetup, PreRecv, PreRecvCall, DisconnectRequest, DisconnectCall,
         ReturnClientSession, SendJob, FlushNothing, Post, Refused
<1>3. PICK l \in {"acceptSetup", "preRecv", "disconnect", "preRecvCall", "drop", "disconnectCall", "flushed",
                  "sessionReset", "gqcs", "flush", "sendJob"} :
        Goto(w, l) /\ (Returning(w) => l = "sessionReset")
  BY DEF AcceptCompletion, AcceptSetup, PreRecv, PreRecvCall, AfterPreRecv, DisconnectRequest, DisconnectCall,
         AfterDisconnect, ReturnClientSession, SendJob, FlushNothing, Returning
<1>4. pc[w] \notin {"sendCompletion", "recvCompletion"}
  BY DEF AcceptCompletion, AcceptSetup, PreRecv, PreRecvCall, DisconnectRequest, DisconnectCall,
         ReturnClientSession, SendJob, FlushNothing
<1>5. Others(w) /\ pc'[w] = l /\ Remote(w)' = Remote(w)
  BY <1>1, <1>3, GotoOthers
<1>6. l \notin Busy
  BY DEF Busy
<1>7. Returning(w) => Returning(w)'
  BY <1>3, <1>5 DEF Returning
<1>8. QED BY <1>1, <1>2, <1>4, <1>5, <1>6, <1>7, QuietStep

\* A release, and the end of FlushSend.
LEMMA BytesOfRelease ==
  ASSUME Base, Bytes, NEW w \in Workers,
         DisconnectCompletion(w) \/ DeleteIoContext(w) \/ FlushRelease(w) \/ Flushed(w)
  PROVE  Bytes'
<1>1. UNCHANGED <<mSendBuffer, mRecvBuffer, stamp, rcvd, wire, mFreeSessionList, ios>>
  BY DEF DisconnectCompletion, DeleteIoContext, FlushRelease, Flushed, poolVars, sendVars, byteVars
<1>2. pc[w] \in {"disconnectCompletion", "drop", "flushRelease", "flushed"}
  BY DEF DisconnectCompletion, DeleteIoContext, FlushRelease, Flushed
<1>3. Others(w) /\ pc'[w] \in {"return", "sendJob", "drop", "disconnect"}
  <2>1. CASE Flushed(w)
    <3>1. pc \in [Workers -> Labels]
      BY DEF Base, IInv, ControlInv
    <3>2. Goto(w, "sendJob") /\ UNCHANGED <<ctx, ret>> /\ sendList' = [sendList EXCEPT ![w] = Tail(@)]
      BY <2>1 DEF Flushed
    <3>3. QED BY <3>1, <3>2 DEF Goto, Others
  <2>2. CASE ~Flushed(w)
    <3>1. PICK next \in {"sendJob", "drop", "disconnect"} :
            /\ ReleaseRef(w, Remote(w), next) /\ UNCHANGED sendList
            /\ next = "drop" => pc[w] = "disconnectCompletion"
      BY <2>2 DEF DisconnectCompletion, DeleteIoContext, FlushRelease
    <3>2. Remote(w) \in Sessions /\ (next = "drop" => ctx[w] # NoContext)
      BY <1>2, <3>1, KindInHand DEF Holding
    <3>3. QED BY <3>1, <3>2, ReleaseEffect
  <2>3. QED BY <2>1, <2>2
<1>4. pc[w] \notin {"sendCompletion", "recvCompletion"} /\ ~Returning(w) /\ pc'[w] \notin Busy
  BY <1>2, <1>3 DEF Returning, Busy
<1>5. QED BY <1>1, <1>3, <1>4, QuietStep

\* Issuing a session, which is clean.
LEMMA BytesOfAccept ==
  ASSUME Base, Live, Bytes, Accept
  PROVE  Bytes'
<1>1. UNCHANGED <<pc, ctx, sendList, mSendBuffer, mRecvBuffer, stamp>>
  BY DEF Accept, AcceptEnter, AcceptIssue, AcceptLeave, workerVars, sendVars, byteVars
<1>2. \A label, s : /\ At(label, s)' = At(label, s) /\ Returners(s)' = Returners(s)
  BY <1>1 DEF At, Returners, Returning, Remote
<1>3. CASE UNCHANGED <<ios, rcvd, wire, mFreeSessionList>>
  <2>1. ASSUME NEW s \in Sessions PROVE SendSide(s)' /\ RecvSide(s)' /\ Stream(s)'
    <3>1. SendSide(s) /\ RecvSide(s) /\ Stream(s)
      BY DEF Bytes
    <3>2. SendIos(s)' = SendIos(s) /\ RecvIos(s)' = RecvIos(s) /\ InUse(s)' = InUse(s)
      BY <1>2, <1>3 DEF SendIos, RecvIos, InUse, InFreeList
    <3>3. SendSide(s)' /\ Left(s)' = Left(s)
      BY <1>1, <1>2, <3>1, <3>2, SendSideStays
    <3>4. RecvSide(s)' /\ Came(s)' = Came(s)
      BY <1>1, <1>2, <3>1, <3>2, RecvSideStays
    <3>5. Stream(s)'
      BY <1>1, <1>3, <3>1, <3>2, <3>3, <3>4, StreamStays
    <3>6. QED BY <3>3, <3>4, <3>5
  <2>2. QED BY <1>1, <1>3, <2>1 DEF Bytes
<1>4. CASE AcceptIssue
  <2> DEFINE last == Len(mFreeSessionList)
             s    == mFreeSessionList[last]
  <2>1. /\ mFreeSessionList \in Seq(Sessions) /\ last \in Nat
        /\ rcvd' = [rcvd EXCEPT ![s] = << >>] /\ wire' = [wire EXCEPT ![s] = << >>]
        /\ mFreeSessionList' = SubSeq(mFreeSessionList, 1, last - 1)
        /\ \A c \in ios' : c \in ios \/ c.type = "IO_ACCEPT"
    <3>1. [Context("IO_ACCEPT", s, 0, 0) EXCEPT !.gen = @ + 1].type = "IO_ACCEPT"
      BY DEF Context
    <3>2. \A c \in ios' : c \in ios \/ c.type = "IO_ACCEPT"
      BY <1>4, <3>1 DEF AcceptIssue
    <3>3. QED BY <1>4, <3>2 DEF AcceptIssue, Base, IInv, PoolInv
  <2>2. mFreeSessionList # << >> /\ last \in 1..last
    <3>1. mFreeSessionList # << >>
      BY <1>4, NIsNat DEF AcceptIssue, NeverPopsEmptyList, BelowMaximum, N, Base, IInv, PoolInv
    <3>2. QED BY <2>1, <3>1
  <2>3. s \in Sessions /\ InFreeList(s)
    BY <2>1, <2>2 DEF InFreeList
  <2> HIDE DEF s, last
  <2>4. ASSUME NEW t \in Sessions PROVE SendSide(t)' /\ RecvSide(t)' /\ Stream(t)'
    <3>1. SendSide(t) /\ RecvSide(t) /\ Stream(t)
      BY DEF Bytes
    <3>2. SendIos(t)' \subseteq SendIos(t) /\ RecvIos(t)' \subseteq RecvIos(t)
      BY <2>1 DEF SendIos, RecvIos
    <3>3. SendSide(t)' /\ Left(t)' = Left(t)
      BY <1>1, <1>2, <3>1, <3>2, SendSideStays
    <3>4. RecvSide(t)' /\ Came(t)' = Came(t)
      BY <1>1, <1>2, <3>1, <3>2, RecvSideStays
    <3>5. CASE t # s
      <4>1. rcvd'[t] = rcvd[t] /\ wire'[t] = wire[t] /\ stamp'[t] = stamp[t]
        BY <1>1, <2>1, <3>5 DEF Bytes, Base, Fields
      <4>2. InFreeList(t) => InFreeList(t)'
        <5>1. \A i \in 1..(last - 1) : /\ i \in DOMAIN mFreeSessionList'
                                       /\ mFreeSessionList'[i] = mFreeSessionList[i]
          BY <2>1, <2>2 DEF last
        <5>2. \A i \in DOMAIN mFreeSessionList : mFreeSessionList[i] = t => i \in 1..(last - 1)
          BY <2>1, <3>5 DEF s, last
        <5>3. QED BY <5>1, <5>2 DEF InFreeList
      <4>3. InUse(t)' => InUse(t)
        BY <1>2, <4>2 DEF InUse
      <4>4. QED BY <3>1, <3>3, <3>4, <4>1, <4>3, StreamStays
    <3>6. CASE t = s
      <4>1. rcvd'[t] = << >> /\ wire'[t] = << >> /\ stamp'[t] \in Nat
        BY <1>1, <2>1, <2>3, <3>1, <3>6 DEF Bytes, Base, Fields, Stream
      <4>2. At("sendCompletion", t) = {} /\ At("recvCompletion", t) = {}
        BY <2>3, <3>6, NothingUnderWay DEF Busy
      <4>3. mSendBuffer[t] = BufferReset /\ mRecvBuffer[t] = BufferReset
        BY <2>3, <3>6 DEF Live, Clean
      <4>4. Left(t)' = BufferReset /\ Came(t)' = BufferReset
        <5>1. Left(t) = BufferReset
          BY <4>2, <4>3 DEF Left, Removed
        <5>2. Came(t) = BufferReset
          BY <4>2, <4>3 DEF Came, Committed
        <5>3. QED BY <3>3, <3>4, <3>6, <5>1, <5>2
      <4>5. Contents(BufferReset) = << >>
        BY ResetOK, ContentsAt, EmptySeq DEF BufferReset
      <4>6. << >> \in Seq(Nat) /\ << >> = << >> \o << >> /\ << >> = << >> \o (<< >> \o << >>)
        BY ConcatEmptySeq, EmptySeq
      <4>7. \E rest \in Seq(Nat) : rcvd'[t] = wire'[t] \o rest
        BY <4>1, <4>6
      <4>8. rcvd'[t] = wire'[t] \o (Contents(Left(t)') \o Contents(Came(t)'))
        BY <4>1, <4>4, <4>5, <4>6
      <4>9. rcvd'[t] \in Seq(Nat) /\ wire'[t] \in Seq(Nat)
        BY <4>1, <4>6
      <4>10. Stream(t)'
        BY <4>1, <4>7, <4>8, <4>9 DEF Stream
      <4>11. QED BY <3>3, <3>4, <3>6, <4>10
    <3>7. QED BY <3>3, <3>4, <3>5, <3>6
  <2>5. QED BY <1>1, <2>1, <2>4 DEF Bytes
<1>5. QED BY <1>3, <1>4 DEF Accept, AcceptEnter, AcceptLeave, byteVars

-----------------------------------------------------------------------------
(* The steps that move bytes: each is about one session.                     *)

LEMMA OneSession ==
  ASSUME Base, Bytes, NEW w \in Workers, Others(w), NEW s \in Sessions,
         Remote(w) = s \/ (pc[w] \notin Busy /\ ~Returning(w)), Remote(w)' = s \/ pc'[w] \notin Busy,
         stamp' = [stamp EXCEPT ![s] = stamp'[s]], rcvd' = [rcvd EXCEPT ![s] = rcvd'[s]],
         wire' = [wire EXCEPT ![s] = wire'[s]],
         \A t \in Sessions \ {s} : mSendBuffer'[t] = mSendBuffer[t] /\ mRecvBuffer'[t] = mRecvBuffer[t],
         \A c \in ios' : c \in ios \/ c.sess = s,
         \A t \in Sessions \ {s} : InFreeList(t) => InFreeList(t)',
         SendSide(s)', RecvSide(s)', Stream(s)'
  PROVE  Bytes'
<1>1. /\ stamp' = [t \in Sessions |-> stamp'[t]] /\ wire' = [t \in Sessions |-> wire'[t]]
      /\ \A t \in Sessions \ {s} : stamp'[t] = stamp[t] /\ wire'[t] = wire[t] /\ rcvd'[t] = rcvd[t]
  <2>1. stamp = [t \in Sessions |-> stamp[t]] /\ wire = [t \in Sessions |-> wire[t]]
        /\ rcvd = [t \in Sessions |-> rcvd[t]]
    BY DEF Bytes, Base, Fields
  <2>2. stamp' = [t \in Sessions |-> stamp'[t]] /\ \A t \in Sessions \ {s} : stamp'[t] = stamp[t]
    <3> DEFINE x == stamp'[s]
    <3>1. stamp' = [stamp EXCEPT ![s] = x]
      OBVIOUS
    <3> HIDE DEF x
    <3>2. QED BY <2>1, <3>1
  <2>3. wire' = [t \in Sessions |-> wire'[t]] /\ \A t \in Sessions \ {s} : wire'[t] = wire[t]
    <3> DEFINE x == wire'[s]
    <3>1. wire' = [wire EXCEPT ![s] = x]
      OBVIOUS
    <3> HIDE DEF x
    <3>2. QED BY <2>1, <3>1
  <2>4. \A t \in Sessions \ {s} : rcvd'[t] = rcvd[t]
    <3> DEFINE x == rcvd'[s]
    <3>1. rcvd' = [rcvd EXCEPT ![s] = x]
      OBVIOUS
    <3> HIDE DEF x
    <3>2. QED BY <2>1, <3>1
  <2>5. QED BY <2>2, <2>3, <2>4
<1>2. ASSUME NEW t \in Sessions \ {s} PROVE SendSide(t)' /\ RecvSide(t)' /\ Stream(t)'
  <2>1. ASSUME NEW label \in Busy PROVE w \notin At(label, t) /\ w \notin At(label, t)'
    <3>1. pc'[w] # label => w \notin At(label, t)'
      BY OnlyOneMoves
    <3>2. Remote(w)' # t => w \notin At(label, t)'
      BY OnlyOneMoves
    <3>3. w \notin At(label, t)
      BY DEF At
    <3>4. QED BY <3>1, <3>2, <3>3
  <2>2. InUse(t)' => InUse(t)
    <3>1. w \notin Returners(t)
      BY DEF Returners
    <3>2. QED BY <3>1, InUseLasts
  <2>3. SendSide(t) /\ RecvSide(t) /\ Stream(t)
    BY DEF Bytes
  <2>4. QED BY <1>1, <2>1, <2>2, <2>3, OtherSessions
<1>3. QED BY <1>1, <1>2 DEF Bytes

\* A worker on the receive side has it to itself, before its step and after.
LEMMA AloneBefore ==
  ASSUME Base, Live, NEW w \in Workers, NEW s \in Sessions, Remote(w) = s,
         pc[w] \in {"postRecv", "postRecvCall", "recvCompletion", "postSend"}, Others(w)
  PROVE  /\ RecvIos(s) = {}
         /\ \A label \in {"postRecvCall", "recvCompletion", "postSend"} :
              At(label, s) \subseteq {w} /\ At(label, s)' \subseteq {w}
         /\ At(pc[w], s) = {w}
<1>1. w \in At(pc[w], s)
  BY DEF At
<1>2. ReceiveIos(s) = {} /\ ReceiveWorkers(s) \subseteq {w}
  BY <1>1, ReceivingAlone DEF AtMostOne
<1>3. ASSUME NEW label \in {"postRecvCall", "recvCompletion", "postSend"}
      PROVE  At(label, s) \subseteq {w} /\ At(label, s)' \subseteq {w}
  <2>1. At(label, s) \subseteq {w}
    BY <1>2, ReceivingAlone
  <2>2. At(label, s)' \ {w} \subseteq At(label, s)
    BY OnlyOneMoves
  <2>3. QED BY <2>1, <2>2
<1>4. At(pc[w], s) = {w}
  BY <1>1, <1>2, ReceivingAlone
<1>5. RecvIos(s) = {}
  BY <1>2, ReceivingAlone
<1>6. QED BY <1>3, <1>4, <1>5

\* PostRecv looks for free space.
LEMMA BytesOfPostRecv ==
  ASSUME Base, Live, Bytes, NEW w \in Workers, PostRecv(w)
  PROVE  Bytes'
<1>1. PICK s \in Sessions : Remote(w) = s
  BY KindInHand DEF PostRecv
<1>2. /\ UNCHANGED <<ctx, ret, sendList, mSendBuffer, stamp, rcvd, wire, mFreeSessionList, ios>>
      /\ pc[w] = "postRecv"
  BY DEF PostRecv, poolVars, sendVars, byteVars
<1>3. PICK l \in {"disconnect", "postRecvCall"} : Goto(w, l)
  BY DEF PostRecv
<1>4. Others(w) /\ pc'[w] = l /\ Remote(w)' = s
  BY <1>1, <1>2, <1>3, GotoOthers
<1>5. /\ RecvIos(s) = {} /\ At("recvCompletion", s) = {} /\ At("recvCompletion", s)' = {}
      /\ At("postSend", s)' = {}
  <2>1. \A label \in {"recvCompletion", "postSend"} :
          At(label, s) \subseteq {w} /\ At(label, s)' \subseteq {w}
    BY <1>1, <1>2, <1>4, AloneBefore
  <2>2. \A label \in {"recvCompletion", "postSend"} : w \notin At(label, s) /\ w \notin At(label, s)'
    BY <1>2, <1>3, <1>4, OnlyOneMoves
  <2>3. RecvIos(s) = {}
    BY <1>1, <1>2, <1>4, AloneBefore
  <2>4. QED BY <2>1, <2>2, <2>3
<1>6. mRecvBuffer' = [mRecvBuffer EXCEPT ![s] = mRecvBuffer'[s]]
      /\ (mRecvBuffer'[s] = AfterProbe(mRecvBuffer[s]) \/ (l = "disconnect" /\ mRecvBuffer'[s] = mRecvBuffer[s]))
  <2>1. CASE mConnected[s] = 1
    BY <1>1, <2>1 DEF PostRecv, IsConnected, Base, Fields
  <2>2. CASE mConnected[s] # 1
    <3>1. Goto(w, "disconnect") /\ UNCHANGED mRecvBuffer
      BY <1>1, <2>2 DEF PostRecv, IsConnected
    <3>2. pc'[w] = "disconnect"
      BY <3>1 DEF Goto, Base, IInv, ControlInv
    <3>3. QED BY <1>4, <3>1, <3>2 DEF Base, Fields
  <2>3. QED BY <2>1, <2>2
<1>7. SendSide(s) /\ RecvSide(s) /\ Stream(s)
  BY DEF Bytes
<1>8. SendSide(s)' /\ Left(s)' = Left(s)
  <2>1. At("sendCompletion", s)' = At("sendCompletion", s)
    BY <1>2, <1>3, <1>4, OnlyOneMoves
  <2>2. \A v \in At("sendCompletion", s)' : ctx'[v] = ctx[v]
    BY <1>2
  <2>3. SendIos(s)' \subseteq SendIos(s)
    BY <1>2 DEF SendIos
  <2>4. QED BY <1>2, <1>7, <2>1, <2>2, <2>3, SendSideStays
<1>9. BufferOK(mRecvBuffer[s]) /\ BufferOK(mRecvBuffer'[s])
      /\ (l # "disconnect" => AfterProbe(mRecvBuffer'[s]) = mRecvBuffer'[s])
      /\ Contents(mRecvBuffer'[s]) = Contents(mRecvBuffer[s])
  BY <1>6, <1>7, ProbeOK, ProbeContents DEF RecvSide
<1>10. RecvIos(s)' = {} /\ (At("postRecvCall", s)' # {} => l # "disconnect")
  <2>1. At("postRecvCall", s)' \subseteq {w}
    BY <1>1, <1>2, <1>4, AloneBefore
  <2>2. l # "postRecvCall" => w \notin At("postRecvCall", s)'
    BY <1>4, OnlyOneMoves
  <2>3. QED BY <1>2, <1>5, <2>1, <2>2 DEF RecvIos
<1>11. RecvSide(s)'
  BY <1>5, <1>9, <1>10 DEF RecvSide
<1>12. Came(s)' = mRecvBuffer'[s] /\ Came(s) = mRecvBuffer[s]
  BY <1>5 DEF Came, Committed
<1>13. InUse(s)' => InUse(s)
  <2>1. w \notin Returners(s)
    BY <1>2 DEF Returners, Returning
  <2>2. InFreeList(s) => InFreeList(s)'
    BY <1>2 DEF InFreeList
  <2>3. QED BY <1>4, <2>1, <2>2, InUseLasts
<1>14. Stream(s)'
  BY <1>2, <1>7, <1>8, <1>9, <1>12, <1>13, StreamStays
<1>15. QED
  <2>1. \A t \in Sessions \ {s} : /\ mSendBuffer'[t] = mSendBuffer[t] /\ mRecvBuffer'[t] = mRecvBuffer[t]
                                  /\ InFreeList(t) => InFreeList(t)'
    <3> DEFINE x == mRecvBuffer'[s]
    <3>1. mRecvBuffer' = [mRecvBuffer EXCEPT ![s] = x] /\ mRecvBuffer = [t \in Sessions |-> mRecvBuffer[t]]
      BY <1>6 DEF Base, Fields
    <3> HIDE DEF x
    <3>2. \A t \in Sessions \ {s} : mRecvBuffer'[t] = mRecvBuffer[t]
      BY <3>1
    <3>3. QED BY <1>2, <3>2 DEF InFreeList
  <2>2. /\ stamp' = [stamp EXCEPT ![s] = stamp'[s]] /\ rcvd' = [rcvd EXCEPT ![s] = rcvd'[s]]
        /\ wire' = [wire EXCEPT ![s] = wire'[s]]
    BY <1>2 DEF Bytes, Base, Fields
  <2>3. \A c \in ios' : c \in ios \/ c.sess = s
    BY <1>2
  <2>4. QED BY <1>1, <1>4, <1>8, <1>11, <1>14, <2>1, <2>2, <2>3, OneSession

\* A label that the worker neither leaves nor reaches.
LEMMA SameAt ==
  ASSUME NEW w \in Workers, Others(w), NEW label, NEW s, pc[w] # label, pc'[w] # label
  PROVE  At(label, s)' = At(label, s) /\ \A v \in At(label, s)' : ctx'[v] = ctx[v]
<1> DEFINE A == At(label, s)
           D == At(label, s)'
<1>1. A \ {w} \subseteq D /\ D \ {w} \subseteq A /\ w \notin A /\ w \notin D
      /\ \A v \in D \ {w} : ctx'[v] = ctx[v]
  BY OnlyOneMoves
<1> HIDE DEF A, D
<1>2. A = D
  <2>1. \A v : v \in A <=> v \in D
    BY <1>1
  <2>2. QED BY <2>1
<1>3. QED BY <1>1, <1>2 DEF A, D

\* A step that does not touch the sending side, or the receiving side.
LEMMA SendSideApart ==
  ASSUME NEW w \in Workers, Others(w), NEW s \in Sessions, SendSide(s),
         pc[w] # "sendCompletion", pc'[w] # "sendCompletion",
         mSendBuffer'[s] = mSendBuffer[s], \A c \in ios' : c \in ios \/ c.type # "IO_SEND"
  PROVE  SendSide(s)' /\ Left(s)' = Left(s)
<1>1. SendIos(s)' \subseteq SendIos(s)
  BY DEF SendIos
<1>2. QED BY <1>1, SameAt, SendSideStays

LEMMA RecvSideApart ==
  ASSUME NEW w \in Workers, Others(w), NEW s \in Sessions, RecvSide(s),
         \A label \in {"recvCompletion", "postSend", "postRecvCall"} : pc[w] # label /\ pc'[w] # label,
         mRecvBuffer'[s] = mRecvBuffer[s], \A c \in ios' : c \in ios \/ c.type # "IO_RECV"
  PROVE  RecvSide(s)' /\ Came(s)' = Came(s)
<1>1. RecvIos(s)' \subseteq RecvIos(s)
  BY DEF RecvIos
<1>2. /\ At("recvCompletion", s)' = At("recvCompletion", s)
      /\ \A v \in At("recvCompletion", s)' : ctx'[v] = ctx[v]
  BY SameAt
<1>3. At("postSend", s)' = At("postSend", s) /\ At("postRecvCall", s)' = At("postRecvCall", s)
  BY SameAt
<1>4. QED BY <1>1, <1>2, <1>3, RecvSideStays

\* A worker that goes on in its handler does not change who is in use.
LEMMA InUseKept ==
  ASSUME NEW w \in Workers, Others(w), ~Returning(w), UNCHANGED mFreeSessionList, NEW s
  PROVE  InUse(s)' => InUse(s)
<1>1. w \notin Returners(s)
  BY DEF Returners
<1>2. InFreeList(s) => InFreeList(s)'
  BY DEF InFreeList
<1>3. QED BY <1>1, <1>2, InUseLasts

\* One entry of a function.
LEMMA OneEntry ==
  ASSUME NEW f, f = [t \in Sessions |-> f[t]], NEW s \in Sessions, NEW x, NEW g,
         g = [f EXCEPT ![s] = x]
  PROVE  g[s] = x /\ g = [f EXCEPT ![s] = g[s]] /\ \A t \in Sessions \ {s} : g[t] = f[t]
  OBVIOUS

\* PostRecv gives the free space to a receive.
LEMMA BytesOfPostRecvCall ==
  ASSUME Base, Live, Bytes, NEW w \in Workers, PostRecvCall(w)
  PROVE  Bytes'
<1>1. PICK s \in Sessions : Remote(w) = s
  BY KindInHand DEF PostRecvCall
<1>2. /\ UNCHANGED <<ctx, ret, sendList, mSendBuffer, mRecvBuffer, stamp, rcvd, wire, mFreeSessionList>>
      /\ pc[w] = "postRecvCall" /\ ~Returning(w)
  BY DEF PostRecvCall, poolVars, sendVars, byteVars, Returning
<1>3. PICK l \in {"disconnect", "drop"} : Goto(w, l)
  BY DEF PostRecvCall
<1>4. Others(w) /\ pc'[w] = l /\ Remote(w)' = s
  BY <1>1, <1>2, <1>3, GotoOthers
<1>5. CASE UNCHANGED ios
  <2>1. pc'[w] \notin Busy
    BY <1>4 DEF Busy
  <2>2. QED BY <1>2, <1>4, <1>5, <2>1, QuietStep
<1>6. CASE Post(w, "IO_RECV", GetBuffer(mRecvBuffer[s]), GetFreeSpaceSize(mRecvBuffer[s]))
  <2>1. PICK c : /\ ios' = ios \cup {c} /\ c.type = "IO_RECV" /\ c.sess = s
                 /\ c.at = GetBuffer(mRecvBuffer[s]) /\ c.len = GetFreeSpaceSize(mRecvBuffer[s])
    <3> DEFINE c == Context("IO_RECV", s, GetBuffer(mRecvBuffer[s]), GetFreeSpaceSize(mRecvBuffer[s]))
    <3>1. ios' = ios \cup {c}
      BY <1>1, <1>6 DEF Post
    <3>2. /\ c.type = "IO_RECV" /\ c.sess = s
          /\ c.at = GetBuffer(mRecvBuffer[s]) /\ c.len = GetFreeSpaceSize(mRecvBuffer[s])
      BY DEF Context
    <3> HIDE DEF c
    <3>3. QED BY <3>1, <3>2
  <2>2. SendSide(s) /\ RecvSide(s) /\ Stream(s)
    BY DEF Bytes
  <2>3. SendSide(s)' /\ Left(s)' = Left(s)
    BY <1>2, <1>3, <1>4, <2>1, <2>2, SendSideApart
  <2>4. RecvIos(s) = {} /\ At("recvCompletion", s) = {} /\ At("postSend", s) = {} /\ w \in At("postRecvCall", s)
    <3>1. \A label \in {"recvCompletion", "postSend"} : At(label, s) \subseteq {w} /\ w \notin At(label, s)
      BY <1>1, <1>2, <1>4, AloneBefore, OnlyOneMoves
    <3>2. RecvIos(s) = {} /\ w \in At("postRecvCall", s)
      BY <1>1, <1>2, <1>4, AloneBefore
    <3>3. QED BY <3>1, <3>2
  <2>5. At("recvCompletion", s)' = {} /\ At("postSend", s)' = {}
    BY <1>2, <1>4, <2>4, SameAt
  <2>6. \A d \in RecvIos(s)' : d = c
    BY <2>1, <2>4 DEF RecvIos
  <2>7. RecvSide(s)'
    <3>1. BufferOK(mRecvBuffer[s]) /\ AfterProbe(mRecvBuffer[s]) = mRecvBuffer[s]
      BY <2>2, <2>4 DEF RecvSide
    <3>2. QED BY <1>2, <2>1, <2>5, <2>6, <3>1 DEF RecvSide
  <2>8. Came(s)' = Came(s)
    BY <1>2, <2>4, <2>5 DEF Came, Committed
  <2>9. InUse(s)' => InUse(s)
    BY <1>2, <1>4, InUseKept
  <2>10. Stream(s)'
    BY <1>2, <2>2, <2>3, <2>8, <2>9, StreamStays
  <2>11. /\ stamp' = [stamp EXCEPT ![s] = stamp'[s]] /\ rcvd' = [rcvd EXCEPT ![s] = rcvd'[s]]
         /\ wire' = [wire EXCEPT ![s] = wire'[s]]
    BY <1>2 DEF Bytes, Base, Fields
  <2>12. \A d \in ios' : d \in ios \/ d.sess = s
    BY <2>1
  <2>13. \A t \in Sessions : InFreeList(t) => InFreeList(t)'
    BY <1>2 DEF InFreeList
  <2>14. QED BY <1>1, <1>2, <1>4, <2>3, <2>7, <2>10, <2>11, <2>12, <2>13, OneSession
<1>7. QED BY <1>1, <1>5, <1>6 DEF PostRecvCall, Refused

\* What was sent is removed.
LEMMA BytesOfSendCompletion ==
  ASSUME Base, Bytes, NEW w \in Workers, SendCompletion(w)
  PROVE  Bytes'
<1>1. PICK s \in Sessions : Remote(w) = s
  BY KindInHand DEF SendCompletion
<1>2. /\ UNCHANGED <<ctx, ret, sendList, mRecvBuffer, stamp, rcvd, wire, mFreeSessionList, ios>>
      /\ pc[w] = "sendCompletion" /\ ~Returning(w)
      /\ mSendBuffer' = [mSendBuffer EXCEPT ![s] = Remove(mSendBuffer[s], ctx[w].n)]
  BY <1>1 DEF SendCompletion, poolVars, sendVars, byteVars, Returning
<1>3. PICK l \in {"disconnect", "drop"} : Goto(w, l)
  BY DEF SendCompletion
<1>4. Others(w) /\ pc'[w] = l /\ Remote(w)' = s
  BY <1>1, <1>2, <1>3, GotoOthers
<1>5. SendSide(s) /\ RecvSide(s) /\ Stream(s)
  BY DEF Bytes
<1>6. SendIos(s) = {} /\ At("sendCompletion", s) = {w}
  <2>1. w \in SendWorkers(s) /\ At("sendCompletion", s) = SendWorkers(s)
    BY <1>1, <1>2 DEF SendWorkers, At
  <2>2. QED BY <2>1 DEF Base, SendInv, AtMostOne
<1>7. At("sendCompletion", s)' = {} /\ SendIos(s)' = {}
  <2>1. At("sendCompletion", s)' \ {w} \subseteq At("sendCompletion", s) /\ w \notin At("sendCompletion", s)'
    BY <1>4, OnlyOneMoves
  <2>2. QED BY <1>2, <1>6, <2>1 DEF SendIos
<1>8. mSendBuffer'[s] = Remove(mSendBuffer[s], ctx[w].n) /\ \A t \in Sessions \ {s} : mSendBuffer'[t] = mSendBuffer[t]
  BY <1>2, OneEntry DEF Base, Fields
<1>9. BufferOK(mSendBuffer'[s])
  <2>1. BufferOK(mSendBuffer[s]) /\ ctx[w].n \in 1..GetContiguiousBytes(mSendBuffer[s])
    BY <1>5, <1>6 DEF SendSide
  <2>2. ctx[w].n \in 0..GetContiguiousBytes(mSendBuffer[s])
    BY <2>1, BufferFields DEF GetContiguiousBytes
  <2>3. QED BY <1>8, <2>1, <2>2, FrontOfContents
<1>10. SendSide(s)'
  BY <1>7, <1>9 DEF SendSide
<1>11. Left(s)' = Left(s)
  <2>1. Left(s) = Remove(mSendBuffer[s], ctx[w].n)
    BY <1>6, OneInHand DEF Left
  <2>2. QED BY <1>7, <1>8, <2>1 DEF Left, Removed
<1>12. RecvSide(s)' /\ Came(s)' = Came(s)
  BY <1>2, <1>3, <1>4, <1>5, RecvSideApart
<1>13. Stream(s)'
  <2>1. InUse(s)' => InUse(s)
    BY <1>2, <1>4, InUseKept
  <2>2. QED BY <1>2, <1>5, <1>11, <1>12, <2>1, StreamStays
<1>14. QED
  <2>1. \A t \in Sessions \ {s} : mSendBuffer'[t] = mSendBuffer[t] /\ mRecvBuffer'[t] = mRecvBuffer[t]
    BY <1>2, <1>8
  <2>2. /\ stamp' = [stamp EXCEPT ![s] = stamp'[s]] /\ rcvd' = [rcvd EXCEPT ![s] = rcvd'[s]]
        /\ wire' = [wire EXCEPT ![s] = wire'[s]]
    BY <1>2 DEF Bytes, Base, Fields
  <2>3. /\ \A c \in ios' : c \in ios \/ c.sess = s
        /\ \A t \in Sessions : InFreeList(t) => InFreeList(t)'
    BY <1>2 DEF InFreeList
  <2>4. QED BY <1>1, <1>4, <1>10, <1>12, <1>13, <2>1, <2>2, <2>3, OneSession

\* What was received is committed; EchoBack then has bytes to send.
LEMMA BytesOfRecvCompletion ==
  ASSUME Base, Live, Bytes, NEW w \in Workers, RecvCompletion(w)
  PROVE  Bytes'
<1>1. PICK s \in Sessions : Remote(w) = s
  BY KindInHand DEF RecvCompletion
<1>2. /\ UNCHANGED <<ctx, ret, sendList, mSendBuffer, stamp, rcvd, wire, mFreeSessionList, ios>>
      /\ pc[w] = "recvCompletion" /\ ~Returning(w)
      /\ mRecvBuffer' = [mRecvBuffer EXCEPT ![s] = Commit(mRecvBuffer[s], ctx[w].n)]
  BY <1>1 DEF RecvCompletion, poolVars, sendVars, byteVars, Returning
<1>3. PICK l \in {"postSend", "preRecv"} : Goto(w, l)
  BY DEF RecvCompletion
<1>4. Others(w) /\ pc'[w] = l /\ Remote(w)' = s
  BY <1>1, <1>2, <1>3, GotoOthers
<1>5. SendSide(s) /\ RecvSide(s) /\ Stream(s)
  BY DEF Bytes
<1>6. RecvIos(s) = {} /\ At("recvCompletion", s) = {w} /\ At("postRecvCall", s)' = {} /\ At("recvCompletion", s)' = {}
  <2>1. RecvIos(s) = {} /\ At("recvCompletion", s) = {w}
    BY <1>1, <1>2, <1>4, AloneBefore
  <2>2. \A label \in {"postRecvCall", "recvCompletion"} : At(label, s)' \subseteq {w} /\ w \notin At(label, s)'
    BY <1>1, <1>2, <1>3, <1>4, AloneBefore, OnlyOneMoves
  <2>3. QED BY <2>1, <2>2
<1>7. mRecvBuffer'[s] = Commit(mRecvBuffer[s], ctx[w].n) /\ \A t \in Sessions \ {s} : mRecvBuffer'[t] = mRecvBuffer[t]
  BY <1>2, OneEntry DEF Base, Fields
<1>8. BufferOK(mRecvBuffer'[s]) /\ mRecvBuffer'[s].aSize > 0
  <2>1. /\ BufferOK(mRecvBuffer[s]) /\ ctx[w].n \in Nat \ {0} /\ BufferOK(Commit(mRecvBuffer[s], ctx[w].n))
    BY <1>5, <1>6 DEF RecvSide
  <2>2. ASSUME NEW b, BufferOK(b), NEW n \in Nat \ {0}, BufferOK(Commit(b, n)) PROVE Commit(b, n).aSize > 0
    <3>1. b \in Buffers /\ b.aSize \in Nat /\ (b.aSize = 0 => b.bPtr = Null)
      BY <2>2, BufferFields
    <3>2. CASE b.bPtr # Null
      BY <3>1, <3>2 DEF Commit, Buffers
    <3>3. CASE b.bPtr = Null
      BY <3>1, <3>3 DEF Commit, Buffers
    <3>4. QED BY <3>2, <3>3
  <2>3. QED BY <1>7, <2>1, <2>2
<1>9. RecvSide(s)'
  <2>1. RecvIos(s)' = {}
    BY <1>2, <1>6 DEF RecvIos
  <2>2. QED BY <1>6, <1>8, <2>1 DEF RecvSide
<1>10. Came(s)' = Came(s)
  <2>1. Came(s) = Commit(mRecvBuffer[s], ctx[w].n)
    BY <1>6, OneInHand DEF Came
  <2>2. QED BY <1>6, <1>7, <2>1 DEF Came, Committed
<1>11. SendSide(s)' /\ Left(s)' = Left(s)
  BY <1>2, <1>3, <1>4, <1>5, SendSideApart
<1>12. Stream(s)'
  <2>1. InUse(s)' => InUse(s)
    BY <1>2, <1>4, InUseKept
  <2>2. QED BY <1>2, <1>5, <1>10, <1>11, <2>1, StreamStays
<1>13. QED
  <2>1. \A t \in Sessions \ {s} : mSendBuffer'[t] = mSendBuffer[t] /\ mRecvBuffer'[t] = mRecvBuffer[t]
    BY <1>2, <1>7
  <2>2. /\ stamp' = [stamp EXCEPT ![s] = stamp'[s]] /\ rcvd' = [rcvd EXCEPT ![s] = rcvd'[s]]
        /\ wire' = [wire EXCEPT ![s] = wire'[s]]
    BY <1>2 DEF Bytes, Base, Fields
  <2>3. /\ \A c \in ios' : c \in ios \/ c.sess = s
        /\ \A t \in Sessions : InFreeList(t) => InFreeList(t)'
    BY <1>2 DEF InFreeList
  <2>4. QED BY <1>1, <1>4, <1>9, <1>11, <1>12, <2>1, <2>2, <2>3, OneSession

\* The first run of c is the one of b, or a longer one.
FrontKept(b, c) ==
  GetContiguiousBytes(b) > 0 =>
    /\ GetBufferStart(c) = GetBufferStart(b)
    /\ 1..GetContiguiousBytes(b) \subseteq 1..GetContiguiousBytes(c)

\* Writing behind what a send has, or will have, taken.
LEMMA WriteBehind ==
  ASSUME Base, NEW s \in Sessions, SendSide(s), NEW w \in Workers, Others(w),
         pc[w] # "sendCompletion", pc'[w] # "sendCompletion", UNCHANGED ios,
         BufferOK(mSendBuffer'[s]), NEW bytes \in Seq(Nat),
         Contents(mSendBuffer'[s]) = Contents(mSendBuffer[s]) \o bytes,
         FrontKept(mSendBuffer[s], mSendBuffer'[s])
  PROVE  SendSide(s)' /\ Contents(Left(s)') = Contents(Left(s)) \o bytes /\ Contents(Left(s)) \in Seq(Nat)
<1> DEFINE b == mSendBuffer[s]
           c == mSendBuffer'[s]
           W == At("sendCompletion", s)
<1>1. At("sendCompletion", s)' = W /\ \A v \in W : ctx'[v] = ctx[v]
  BY SameAt
<1>2. SendIos(s)' = SendIos(s)
  BY DEF SendIos
<1>3. BufferOK(b) /\ GetContiguiousBytes(b) \in Nat
  BY BufferFields DEF SendSide, GetContiguiousBytes
<1>4. \A k \in 1..GetContiguiousBytes(b) :
         GetBufferStart(c) = GetBufferStart(b) /\ k \in 1..GetContiguiousBytes(c)
  BY <1>3 DEF FrontKept
<1>5. SendSide(s)'
  <2>1. \A d \in SendIos(s) : d.at = GetBufferStart(b) /\ d.len \in 1..GetContiguiousBytes(b)
    BY DEF SendSide
  <2>2. \A d \in SendIos(s) : d.at = GetBufferStart(c) /\ d.len \in 1..GetContiguiousBytes(c)
    BY <1>4, <2>1
  <2>3. \A v \in W : ctx'[v].n \in 1..GetContiguiousBytes(b)
    BY <1>1 DEF SendSide
  <2>4. \A v \in W : ctx'[v].n \in 1..GetContiguiousBytes(c)
    BY <1>4, <2>3
  <2>5. QED BY <1>1, <1>2, <2>2, <2>4 DEF SendSide
<1>6. \A u, v \in W : u = v
  <2>1. W = SendWorkers(s)
    BY DEF At, SendWorkers
  <2>2. QED BY <2>1 DEF Base, SendInv, AtMostOne
<1>7. CASE W = {}
  <2>1. Left(s) = b /\ Left(s)' = c
    BY <1>1, <1>7 DEF Left, Removed
  <2>2. Contents(b) \in Seq(Nat)
    BY <1>3, ContentsAt
  <2>3. QED BY <1>5, <2>1, <2>2
<1>8. ASSUME NEW v \in W PROVE Contents(Left(s)') = Contents(Left(s)) \o bytes /\ Contents(Left(s)) \in Seq(Nat)
  <2>1. Left(s) = Remove(b, ctx[v].n) /\ Left(s)' = Remove(c, ctx[v].n)
    <3>1. Left(s) = Remove(b, ctx[v].n)
      BY <1>6, OneInHand DEF Left
    <3>2. Removed(c, W, ctx') = Remove(c, ctx'[v].n)
      BY <1>6, OneInHand
    <3>3. QED BY <1>1, <3>1, <3>2 DEF Left
  <2>2. ctx[v].n \in 1..GetContiguiousBytes(b)
    BY DEF SendSide
  <2>3. ctx[v].n \in 1..GetContiguiousBytes(c)
    BY <1>4, <2>2
  <2> HIDE DEF b, c, W
  <2>4. ctx[v].n \in 0..GetContiguiousBytes(b) /\ ctx[v].n \in 0..GetContiguiousBytes(c)
    BY <2>2, <2>3
  <2>5. BufferOK(c) /\ Contents(c) = Contents(b) \o bytes
    BY DEF b, c
  <2>6. Contents(Remove(c, ctx[v].n)) = Contents(Remove(b, ctx[v].n)) \o bytes
    BY <1>3, <2>4, <2>5, RemoveBeforeWrite
  <2>7. Contents(Remove(b, ctx[v].n)) \in Seq(Nat)
    BY <1>3, <2>4, FrontOfContents
  <2>8. QED BY <2>1, <2>6, <2>7
<1>9. QED BY <1>5, <1>7, <1>8

\* The front of one buffer has gone to the end of the other.
Moved(b, got, c, r) ==
  \E bytes \in Seq(Nat) :
    Contents(c) = Contents(b) \o bytes /\ Contents(got) = bytes \o Contents(r)

\* What EchoBack moves from one buffer to the other, if it fits.
LEMMA EchoMoves ==
  ASSUME NEW b, BufferOK(b), NEW got, BufferOK(got), GetContiguiousBytes(got) > 0,
         NEW out, out = AfterProbe(b), NEW len, len = GetContiguiousBytes(got),
         NEW data, data = Window(got, GetBufferStart(got), len),
         NEW c, c = IF Fits(b, len) THEN Commit(Fill(out, GetBuffer(out), data), len) ELSE out,
         NEW r, r = EchoLeaves(got, len, Fits(b, len))
  PROVE  /\ BufferOK(c) /\ BufferOK(r)
         /\ Moved(b, got, c, r) /\ FrontKept(b, c)
<1>1. BufferOK(out) /\ Contents(out) = Contents(b) /\ AfterProbe(out) = out
      /\ GetFreeSpaceSize(out) = GetFreeSpaceSize(b) /\ GetFreeSpaceSize(b) \in 0..Cap
  BY ProbeOK, ProbeContents
<1>2. GetContiguiousBytes(b) \in Nat /\ len \in Nat /\ len > 0
  BY BufferFields DEF GetContiguiousBytes
<1>3. CASE Fits(b, len)
  <2>1. c = Commit(Fill(out, GetBuffer(out), data), len) /\ r = Remove(got, len)
    BY <1>3 DEF EchoLeaves
  <2>2. len \in 0..GetContiguiousBytes(got)
    BY <1>2
  <2>3. BufferOK(r) /\ data \in [1..len -> Nat] /\ Contents(got) = data \o Contents(r)
    <3>1. /\ BufferOK(Remove(got, len))
          /\ Window(got, GetBufferStart(got), len) \in [1..len -> Nat]
          /\ Contents(got) = Window(got, GetBufferStart(got), len) \o Contents(Remove(got, len))
      BY <2>2, FrontOfContents
    <3>2. QED BY <2>1, <3>1
  <2>4. len \in 1..GetFreeSpaceSize(out)
    BY <1>1, <1>2, <1>3, CapAssumption DEF Fits
  <2>5. BufferOK(c) /\ Contents(c) = Contents(b) \o data
    <3>1. BufferOK(out) /\ AfterProbe(out) = out /\ data \in [1..len -> Nat]
          /\ c = Commit(Fill(out, GetBuffer(out), data), len)
      BY <1>1, <2>1, <2>3
    <3>2. BufferOK(c) /\ Contents(c) = Contents(out) \o data
      BY <2>4, <3>1, WriteContents
    <3>3. QED BY <1>1, <3>2
  <2>6. data \in Seq(Nat)
    BY <1>2, <2>3, FunctionIsSeq
  <2>7. GetContiguiousBytes(b) > 0 =>
              /\ GetBufferStart(c) = GetBufferStart(b)
              /\ GetContiguiousBytes(c) \in Nat
              /\ GetContiguiousBytes(c) >= GetContiguiousBytes(b)
    BY <1>2, <2>1, FrontStays
  <2>8. GetContiguiousBytes(b) > 0 => 1..GetContiguiousBytes(b) \subseteq 1..GetContiguiousBytes(c)
    BY <1>2, <2>7
  <2>9. FrontKept(b, c)
    BY <2>7, <2>8 DEF FrontKept
  <2>10. Moved(b, got, c, r)
    BY <2>3, <2>5, <2>6 DEF Moved
  <2>11. QED BY <2>3, <2>5, <2>9, <2>10
<1>4. CASE ~Fits(b, len)
  <2>1. c = out /\ r = got
    BY <1>4 DEF EchoLeaves
  <2>2. Contents(b) \in Seq(Nat) /\ Contents(got) \in Seq(Nat)
    BY ContentsAt
  <2>3. << >> \in Seq(Nat) /\ Contents(b) = Contents(b) \o << >> /\ Contents(got) = << >> \o Contents(got)
    BY <2>2, ConcatEmptySeq, EmptySeq
  <2>4. Moved(b, got, c, r)
    BY <1>1, <2>1, <2>3 DEF Moved
  <2>5. GetContiguiousBytes(b) > 0 => /\ GetBufferStart(c) = GetBufferStart(b)
                                      /\ GetContiguiousBytes(c) = GetContiguiousBytes(b)
    BY <2>1, FrontStays
  <2>6. BufferOK(c) /\ BufferOK(r)
    BY <1>1, <2>1
  <2>7. FrontKept(b, c)
    BY <2>5 DEF FrontKept
  <2>8. QED BY <2>4, <2>6, <2>7
<1>5. QED BY <1>3, <1>4

\* The critical section of PostSend.
LEMMA BytesOfPostSend ==
  ASSUME Base, Live, Bytes, NEW w \in Workers, PostSend(w)
  PROVE  Bytes'
<1>1. PICK s \in Sessions : Remote(w) = s
  BY KindInHand DEF PostSend
<1>2. /\ UNCHANGED <<ctx, ret, stamp, rcvd, wire, mFreeSessionList, ios>>
      /\ pc[w] = "postSend" /\ ~Returning(w) /\ Goto(w, "preRecv")
      /\ ctx[w] # NoContext
  BY KindInHand DEF PostSend, poolVars, byteVars, Returning, Holding
<1>3. PICK got, len, b, out, data :
        /\ got = mRecvBuffer[s] /\ len = GetContiguiousBytes(got) /\ b = mSendBuffer[s]
        /\ out = AfterProbe(b) /\ data = Window(got, GetBufferStart(got), len)
  OBVIOUS
<1>4. PICK c, r :
        /\ c = IF Fits(b, len) THEN Commit(Fill(out, GetBuffer(out), data), len) ELSE out
        /\ r = EchoLeaves(got, len, Fits(b, len))
  OBVIOUS
<1>5. /\ mSendBuffer' = [mSendBuffer EXCEPT ![s] = c] /\ mRecvBuffer' = [mRecvBuffer EXCEPT ![s] = r]
      /\ sendList' = [sendList EXCEPT ![w] = Append(@, s)] \/ sendList' = sendList
  BY <1>1, <1>3, <1>4 DEF PostSend
<1>6. Others(w) /\ pc'[w] = "preRecv" /\ Remote(w)' = s
  <2>1. pc \in [Workers -> Labels] /\ sendList \in [Workers -> Seq(Sessions)]
    BY DEF Base, IInv, ControlInv
  <2>2. QED BY <1>1, <1>2, <1>5, <2>1 DEF Goto, Others, Remote
<1>7. SendSide(s) /\ RecvSide(s) /\ Stream(s)
  BY DEF Bytes
<1>8. /\ RecvIos(s) = {} /\ At("recvCompletion", s) = {}
      /\ \A label \in {"postRecvCall", "recvCompletion", "postSend"} : At(label, s)' = {}
      /\ w \in At("postSend", s)
  <2>1. RecvIos(s) = {} /\ w \in At("postSend", s)
    BY <1>1, <1>2, <1>6, AloneBefore
  <2>2. \A label \in {"postRecvCall", "recvCompletion", "postSend"} : At(label, s)' \subseteq {w} /\ w \notin At(label, s)'
    BY <1>1, <1>2, <1>6, AloneBefore, OnlyOneMoves
  <2>3. At("recvCompletion", s) \subseteq {w} /\ w \notin At("recvCompletion", s)
    BY <1>1, <1>2, <1>6, AloneBefore, OnlyOneMoves
  <2>4. QED BY <2>1, <2>2, <2>3
<1>9. BufferOK(b) /\ BufferOK(got) /\ GetContiguiousBytes(got) > 0
  BY <1>3, <1>7, <1>8 DEF SendSide, RecvSide, GetContiguiousBytes
<1>10. BufferOK(c) /\ BufferOK(r) /\ FrontKept(b, c)
  BY <1>3, <1>4, <1>9, EchoMoves
<1>11. PICK bytes \in Seq(Nat) : Contents(c) = Contents(b) \o bytes /\ Contents(got) = bytes \o Contents(r)
  <2>1. Moved(b, got, c, r)
    BY <1>3, <1>4, <1>9, EchoMoves
  <2>2. QED BY <2>1 DEF Moved
<1>12. /\ mSendBuffer'[s] = c /\ mRecvBuffer'[s] = r
       /\ \A t \in Sessions \ {s} : mSendBuffer'[t] = mSendBuffer[t] /\ mRecvBuffer'[t] = mRecvBuffer[t]
  BY <1>5, OneEntry DEF Base, Fields
<1>13. SendSide(s)' /\ Contents(Left(s)') = Contents(Left(s)) \o bytes /\ Contents(Left(s)) \in Seq(Nat)
  <2>1. pc[w] # "sendCompletion" /\ pc'[w] # "sendCompletion" /\ UNCHANGED ios
    BY <1>2, <1>6
  <2>2. QED BY <1>3, <1>6, <1>7, <1>10, <1>11, <1>12, <2>1, WriteBehind
<1>14. RecvSide(s)'
  <2>1. RecvIos(s)' = {}
    BY <1>2, <1>8 DEF RecvIos
  <2>2. QED BY <1>8, <1>10, <1>12, <2>1 DEF RecvSide
<1>15. Came(s) = got /\ Came(s)' = r
  BY <1>3, <1>8, <1>12 DEF Came, Committed
<1>16. Contents(Left(s)') \o Contents(Came(s)') = Contents(Left(s)) \o Contents(Came(s))
  <2>1. Contents(r) \in Seq(Nat)
    BY <1>10, ContentsAt
  <2>2. (Contents(Left(s)) \o bytes) \o Contents(r) = Contents(Left(s)) \o (bytes \o Contents(r))
    BY <1>13, <2>1, Associative
  <2>3. QED BY <1>11, <1>13, <1>15, <2>2
<1>17. Stream(s)'
  <2>1. InUse(s)' => InUse(s)
    BY <1>2, <1>6, InUseKept
  <2>2. QED BY <1>2, <1>7, <1>16, <2>1, StreamStays
<1>18. QED
  <2>1. /\ stamp' = [stamp EXCEPT ![s] = stamp'[s]] /\ rcvd' = [rcvd EXCEPT ![s] = rcvd'[s]]
        /\ wire' = [wire EXCEPT ![s] = wire'[s]]
    BY <1>2 DEF Bytes, Base, Fields
  <2>2. /\ \A d \in ios' : d \in ios \/ d.sess = s
        /\ \A t \in Sessions : InFreeList(t) => InFreeList(t)'
    BY <1>2 DEF InFreeList
  <2>3. QED BY <1>1, <1>6, <1>12, <1>13, <1>14, <1>17, <2>1, <2>2, OneSession

\* Both resets write empty buffers, where nothing is under way.
LEMMA BytesOfSessionReset ==
  ASSUME Base, Live, Bytes, NEW w \in Workers, SessionReset(w)
  PROVE  Bytes'
<1>1. PICK s \in Sessions : Remote(w) = s
  BY KindInHand DEF SessionReset
<1>2. /\ UNCHANGED <<ctx, ret, sendList, mSendBuffer, stamp, rcvd, wire, mFreeSessionList, ios>>
      /\ pc[w] = "sessionReset" /\ Goto(w, "sessionResetSend") /\ Returning(w)
      /\ mRecvBuffer' = [mRecvBuffer EXCEPT ![s] = BufferReset]
  BY <1>1 DEF SessionReset, sendVars, poolVars, byteVars, Returning
<1>3. Others(w) /\ pc'[w] = "sessionResetSend" /\ Remote(w)' = s
  BY <1>1, <1>2, GotoOthers
<1>4. SendSide(s) /\ Stream(s)
  BY DEF Bytes
<1>5. w \in Returners(s) /\ w \in Returners(s)'
  BY <1>1, <1>2, <1>3 DEF Returners, Returning
<1>6. RecvIos(s) = {} /\ \A label \in Busy : At(label, s) = {}
  BY <1>5, NothingUnderWay
<1>7. RecvIos(s)' = {} /\ \A label \in Busy : At(label, s)' = {}
  <2>1. ASSUME NEW label \in Busy PROVE At(label, s)' = {}
    <3>1. pc[w] # label /\ pc'[w] # label
      BY <1>2, <1>3 DEF Busy
    <3>2. QED BY <1>3, <1>6, <3>1, SameAt
  <2>2. QED BY <1>2, <1>6, <2>1 DEF RecvIos
<1>8. mRecvBuffer'[s] = BufferReset /\ \A t \in Sessions \ {s} : mRecvBuffer'[t] = mRecvBuffer[t]
  BY <1>2, OneEntry DEF Base, Fields
<1>9. RecvSide(s)'
  BY <1>7, <1>8, ResetOK DEF RecvSide, Busy
<1>10. SendSide(s)'
  BY <1>2, <1>3, <1>4, SendSideApart
<1>11. Stream(s)'
  BY <1>2, <1>4, <1>5 DEF Stream, InUse
<1>12. QED
  <2>1. /\ stamp' = [stamp EXCEPT ![s] = stamp'[s]] /\ rcvd' = [rcvd EXCEPT ![s] = rcvd'[s]]
        /\ wire' = [wire EXCEPT ![s] = wire'[s]]
    BY <1>2 DEF Bytes, Base, Fields
  <2>2. /\ \A d \in ios' : d \in ios \/ d.sess = s
        /\ \A t \in Sessions : InFreeList(t) => InFreeList(t)'
        /\ \A t \in Sessions \ {s} : mSendBuffer'[t] = mSendBuffer[t] /\ mRecvBuffer'[t] = mRecvBuffer[t]
    BY <1>2, <1>8 DEF InFreeList
  <2>3. QED BY <1>1, <1>3, <1>9, <1>10, <1>11, <2>1, <2>2, OneSession

LEMMA BytesOfSessionResetSend ==
  ASSUME Base, Live, Bytes, NEW w \in Workers, SessionResetSend(w)
  PROVE  Bytes'
<1>1. PICK s \in Sessions : Remote(w) = s
  BY KindInHand DEF SessionResetSend
<1>2. /\ UNCHANGED <<sendList, mRecvBuffer, stamp, rcvd, wire, ios>>
      /\ pc[w] = "sessionResetSend" /\ Returning(w)
      /\ mSendBuffer' = [mSendBuffer EXCEPT ![s] = BufferReset]
      /\ mFreeSessionList' = Append(mFreeSessionList, s)
      /\ Resume(w, ret[w]) /\ ret' = [ret EXCEPT ![w] = "sendJob"]
  BY <1>1 DEF SessionResetSend, byteVars, Returning
<1>3. Others(w) /\ pc'[w] \in {"sendJob", "drop", "disconnect"}
  <2>1. pc \in [Workers -> Labels] /\ ret[w] \in {"sendJob", "drop", "disconnect"}
        /\ ret \in [Workers -> {"sendJob", "drop", "disconnect"}]
        /\ ctx = [v \in Workers |-> ctx[v]]
    BY DEF Base, IInv, ControlInv
  <2>2. pc'[w] = ret[w] /\ \A v \in Workers \ {w} : pc'[v] = pc[v]
    BY <1>2, <2>1 DEF Resume, Goto
  <2>3. \A v \in Workers \ {w} : ctx'[v] = ctx[v]
    BY <1>2, <2>1 DEF Resume
  <2>4. \A v \in Workers \ {w} : ret'[v] = ret[v] /\ sendList'[v] = sendList[v]
    BY <1>2, <2>1
  <2>5. QED BY <2>1, <2>2, <2>3, <2>4 DEF Others
<1>4. SendSide(s) /\ RecvSide(s) /\ Stream(s)
  BY DEF Bytes
<1>5. w \in Returners(s)
  BY <1>1, <1>2 DEF Returners
<1>6. SendIos(s) = {} /\ \A label \in Busy : At(label, s) = {}
  BY <1>5, NothingUnderWay
<1>7. SendIos(s)' = {} /\ At("sendCompletion", s)' = {}
  <2>1. At("sendCompletion", s)' = At("sendCompletion", s)
    BY <1>2, <1>3, SameAt
  <2>2. QED BY <1>2, <1>6, <2>1 DEF SendIos, Busy
<1>8. mSendBuffer'[s] = BufferReset /\ \A t \in Sessions \ {s} : mSendBuffer'[t] = mSendBuffer[t]
  BY <1>2, OneEntry DEF Base, Fields
<1>9. SendSide(s)'
  BY <1>7, <1>8, ResetOK DEF SendSide
<1>10. RecvSide(s)'
  BY <1>2, <1>3, <1>4, RecvSideApart
<1>11. InFreeList(s)' /\ \A t \in Sessions : InFreeList(t) => InFreeList(t)'
  <2>1. mFreeSessionList \in Seq(Sessions)
    BY DEF Base, IInv, PoolInv
  <2>2. /\ Len(mFreeSessionList') = Len(mFreeSessionList) + 1
        /\ mFreeSessionList'[Len(mFreeSessionList) + 1] = s
        /\ \A i \in 1..Len(mFreeSessionList) : mFreeSessionList'[i] = mFreeSessionList[i]
        /\ DOMAIN mFreeSessionList' = 1..(Len(mFreeSessionList) + 1)
        /\ DOMAIN mFreeSessionList = 1..Len(mFreeSessionList) /\ Len(mFreeSessionList) \in Nat
    BY <1>2, <2>1
  <2>3. /\ Len(mFreeSessionList) + 1 \in 1..(Len(mFreeSessionList) + 1)
        /\ \A i \in 1..Len(mFreeSessionList) : i \in 1..(Len(mFreeSessionList) + 1)
    BY <2>2
  <2>4. QED BY <2>2, <2>3 DEF InFreeList
<1>12. Stream(s)'
  BY <1>2, <1>4, <1>11 DEF Stream, InUse
<1>13. QED
  <2>1. /\ stamp' = [stamp EXCEPT ![s] = stamp'[s]] /\ rcvd' = [rcvd EXCEPT ![s] = rcvd'[s]]
        /\ wire' = [wire EXCEPT ![s] = wire'[s]]
    BY <1>2 DEF Bytes, Base, Fields
  <2>2. /\ \A d \in ios' : d \in ios \/ d.sess = s
        /\ \A t \in Sessions \ {s} : mSendBuffer'[t] = mSendBuffer[t] /\ mRecvBuffer'[t] = mRecvBuffer[t]
    BY <1>2, <1>8
  <2>3. pc'[w] \notin Busy
    BY <1>3 DEF Busy
  <2>4. QED BY <1>1, <1>3, <1>9, <1>10, <1>11, <1>12, <2>1, <2>2, <2>3, OneSession

\* FlushSend gives the first run of bytes to a send, when no other has it.
LEMMA BytesOfFlushSend ==
  ASSUME Base, Bytes, NEW w \in Workers, FlushSend(w)
  PROVE  Bytes'
<1>1. PICK s \in Sessions : Remote(w) = s
  BY KindInHand DEF FlushSend
<1>2. /\ UNCHANGED <<ctx, ret, sendList, mSendBuffer, mRecvBuffer, stamp, rcvd, wire, mFreeSessionList>>
      /\ pc[w] = "flush" /\ ~Returning(w)
      /\ GetContiguiousBytes(mSendBuffer[s]) > 0 /\ ~SendPending(s)
  BY <1>1 DEF FlushSend, poolVars, byteVars, Returning
<1>3. PICK l \in {"flushed", "sendJob", "flushRelease"} : Goto(w, l)
  BY DEF FlushSend
<1>4. Others(w) /\ pc'[w] = l /\ Remote(w)' = s
  BY <1>1, <1>2, <1>3, GotoOthers
<1>5. CASE UNCHANGED ios
  <2>1. pc'[w] \notin Busy
    BY <1>4 DEF Busy
  <2>2. QED BY <1>2, <1>4, <1>5, <2>1, QuietStep
<1>6. CASE Post(w, "IO_SEND", GetBufferStart(mSendBuffer[s]), GetContiguiousBytes(mSendBuffer[s]))
  <2>1. PICK c : /\ ios' = ios \cup {c} /\ c.type = "IO_SEND" /\ c.sess = s
                 /\ c.at = GetBufferStart(mSendBuffer[s]) /\ c.len = GetContiguiousBytes(mSendBuffer[s])
    <3> DEFINE c == Context("IO_SEND", s, GetBufferStart(mSendBuffer[s]), GetContiguiousBytes(mSendBuffer[s]))
    <3>1. ios' = ios \cup {c}
      BY <1>1, <1>6 DEF Post
    <3>2. /\ c.type = "IO_SEND" /\ c.sess = s
          /\ c.at = GetBufferStart(mSendBuffer[s]) /\ c.len = GetContiguiousBytes(mSendBuffer[s])
      BY DEF Context
    <3> HIDE DEF c
    <3>3. QED BY <3>1, <3>2
  <2>2. SendSide(s) /\ RecvSide(s) /\ Stream(s)
    BY DEF Bytes
  <2>3. RecvSide(s)' /\ Came(s)' = Came(s)
    BY <1>2, <1>3, <1>4, <2>1, <2>2, RecvSideApart
  <2>4. SendIos(s) = {} /\ At("sendCompletion", s) = {}
    <3>1. mSendPendingCount[s] = 0
      BY <1>2 DEF SendPending, Base, SendInv
    <3>2. QED BY <3>1 DEF Base, SendInv, SendWorkers, At
  <2>5. At("sendCompletion", s)' = {}
    BY <1>2, <1>3, <1>4, <2>4, SameAt
  <2>6. \A d \in SendIos(s)' : d = c
    BY <2>1, <2>4 DEF SendIos
  <2>7. SendSide(s)'
    <3>1. BufferOK(mSendBuffer[s])
      BY <2>2 DEF SendSide
    <3>2. c.len \in 1..GetContiguiousBytes(mSendBuffer[s])
      BY <1>2, <2>1, <3>1, BufferFields DEF GetContiguiousBytes
    <3>3. QED BY <1>2, <2>1, <2>5, <2>6, <3>1, <3>2 DEF SendSide
  <2>8. Left(s)' = Left(s)
    BY <1>2, <2>4, <2>5 DEF Left, Removed
  <2>9. InUse(s)' => InUse(s)
    BY <1>2, <1>4, InUseKept
  <2>10. Stream(s)'
    BY <1>2, <2>2, <2>3, <2>8, <2>9, StreamStays
  <2>11. /\ stamp' = [stamp EXCEPT ![s] = stamp'[s]] /\ rcvd' = [rcvd EXCEPT ![s] = rcvd'[s]]
         /\ wire' = [wire EXCEPT ![s] = wire'[s]]
    BY <1>2 DEF Bytes, Base, Fields
  <2>12. /\ \A d \in ios' : d \in ios \/ d.sess = s
         /\ \A t \in Sessions : InFreeList(t) => InFreeList(t)'
    BY <1>2, <2>1 DEF InFreeList
  <2>13. QED BY <1>1, <1>2, <1>4, <2>3, <2>7, <2>10, <2>11, <2>12, OneSession
<1>7. QED BY <1>1, <1>5, <1>6 DEF FlushSend

\* An operation completes for nothing, or for some of what it was given.
LEMMA OutcomeOf ==
  ASSUME Base, Bytes, NEW c \in ios, NEW n \in Outcomes(c)
  PROVE  /\ c.sess \in Sessions
         /\ c.type = "IO_SEND" => /\ c.at = GetBufferStart(mSendBuffer[c.sess])
                                  /\ n = 0 \/ n \in 1..GetContiguiousBytes(mSendBuffer[c.sess])
         /\ c.type = "IO_RECV" => /\ c.at = GetBuffer(mRecvBuffer[c.sess])
                                  /\ AfterProbe(mRecvBuffer[c.sess]) = mRecvBuffer[c.sess]
                                  /\ n = 0 \/ n \in 1..GetFreeSpaceSize(mRecvBuffer[c.sess])
<1>1. PICK s : s = c.sess
  OBVIOUS
<1>2. s \in Sessions
  BY <1>1, SoundContext DEF Base, IInv, ControlInv
<1>3. SendSide(s) /\ RecvSide(s) /\ stamp[s] \in Nat
  BY <1>2 DEF Bytes, Stream
<1>4. CASE c.type = "IO_SEND"
  <2>1. c \in SendIos(s)
    BY <1>1, <1>4 DEF SendIos
  <2>2. c.at = GetBufferStart(mSendBuffer[s]) /\ c.len \in 1..GetContiguiousBytes(mSendBuffer[s])
    BY <1>3, <2>1 DEF SendSide
  <2>3. n = 0 \/ n \in 1..c.len \/ n = c.len
    BY <1>4 DEF Outcomes
  <2>4. n = 0 \/ n \in 1..GetContiguiousBytes(mSendBuffer[s])
    <3>1. GetContiguiousBytes(mSendBuffer[s]) \in Nat
      BY <1>3, BufferFields DEF SendSide, GetContiguiousBytes
    <3>2. QED BY <2>2, <2>3, <3>1
  <2>5. QED BY <1>1, <1>2, <1>4, <2>2, <2>4
<1>5. CASE c.type = "IO_RECV"
  <2>1. c \in RecvIos(s)
    BY <1>1, <1>5 DEF RecvIos
  <2>2. c.at = GetBuffer(mRecvBuffer[s]) /\ c.len = GetFreeSpaceSize(mRecvBuffer[s])
        /\ AfterProbe(mRecvBuffer[s]) = mRecvBuffer[s]
    BY <1>3, <2>1 DEF RecvSide
  <2>3. c.len \in Nat /\ Unsent(s) \in Int
    <3>1. c.len \in 0..Cap
      BY <1>3, <2>2, ProbeOK DEF RecvSide
    <3>2. QED BY <1>3, <3>1, BoundsAssumption, CapAssumption DEF Unsent
  <2>4. n = 0 \/ n \in 1..Lesser(c.len, Unsent(s))
    BY <1>1, <1>5 DEF Outcomes
  <2>5. n = 0 \/ n \in 1..c.len
    BY <2>3, <2>4 DEF Lesser
  <2>6. QED BY <1>1, <1>2, <1>5, <2>2, <2>5
<1>6. QED BY <1>1, <1>2, <1>4, <1>5

\* A completion that moves no bytes.
LEMMA BytesOfEmptyCompletion ==
  ASSUME Base, Bytes, NEW w \in Workers, NEW c \in ios, Dequeue(w, c),
         NEW n \in Outcomes(c), Transfer(c, n), Goto(w, Handler(c, n)),
         n = 0 \/ c.type \notin {"IO_SEND", "IO_RECV"}
  PROVE  Bytes'
<1>1. Others(w) /\ pc[w] = "gqcs" /\ ios' = ios \ {c} /\ c.type \in IOTypes /\ c.sess \in Sessions
  BY DequeueEffect
<1>2. pc'[w] \notin Busy
  <2>1. pc'[w] = Handler(c, n)
    BY DEF Goto, Base, IInv, ControlInv
  <2>2. Handler(c, n) \notin Busy
    <3>1. CASE c.type \in {"IO_RECV", "IO_SEND"}
      BY <3>1 DEF Handler, Busy
    <3>2. CASE c.type = "IO_ACCEPT"
      BY <3>2 DEF Handler, Busy
    <3>3. CASE c.type = "IO_DISCONNECT"
      BY <3>3 DEF Handler, Busy
    <3>4. CASE c.type = "IO_RECV_ZERO"
      BY <3>4 DEF Handler, Busy
    <3>5. QED BY <1>1, <3>1, <3>2, <3>3, <3>4 DEF IOTypes
  <2>3. QED BY <2>1, <2>2
<1>3. PICK s \in Sessions : s = c.sess
  BY <1>1
<1>4. UNCHANGED <<mSendBuffer, mFreeSessionList>>
  BY DEF Dequeue, sendVars, poolVars
<1>5. SendSide(s) /\ RecvSide(s) /\ stamp[s] \in Nat /\ rcvd[s] \in Seq(Nat) /\ wire[s] \in Seq(Nat)
  BY DEF Bytes, Stream
<1>6. /\ stamp = [t \in Sessions |-> stamp[t]] /\ wire = [t \in Sessions |-> wire[t]]
      /\ rcvd = [t \in Sessions |-> rcvd[t]] /\ mRecvBuffer = [t \in Sessions |-> mRecvBuffer[t]]
  BY DEF Bytes, Base, Fields
<1>7. UNCHANGED <<mRecvBuffer, stamp, rcvd>>
  <2>1. CASE c.type # "IO_RECV"
    BY <2>1 DEF Transfer
  <2>2. CASE c.type = "IO_RECV" /\ n = 0
    <3>1. NextBytes(s, 0) \in [1..0 -> Nat] /\ NextBytes(s, 0) = << >>
      BY DEF NextBytes
    <3>2. /\ mRecvBuffer' = [mRecvBuffer EXCEPT ![s] = Fill(mRecvBuffer[s], c.at, NextBytes(s, 0))]
          /\ rcvd' = [rcvd EXCEPT ![s] = rcvd[s] \o NextBytes(s, 0)]
          /\ stamp' = [stamp EXCEPT ![s] = stamp[s] + 0]
      BY <1>3, <2>2 DEF Transfer
    <3>3. Fill(mRecvBuffer[s], c.at, NextBytes(s, 0)) = mRecvBuffer[s]
      <4>1. BufferOK(mRecvBuffer[s])
        BY <1>5 DEF RecvSide
      <4>2. c.at = GetBuffer(mRecvBuffer[s])
        BY <1>3, <2>2, OutcomeOf
      <4>3. c.at \in Int
        BY <4>1, <4>2, BufferFields DEF GetBuffer
      <4>4. QED BY <3>1, <4>1, <4>3, FillNothing
    <3>4. rcvd[s] \o NextBytes(s, 0) = rcvd[s]
      BY <1>5, <3>1, ConcatEmptySeq
    <3>5. stamp[s] + 0 = stamp[s]
      BY <1>5
    <3>6. mRecvBuffer' = [mRecvBuffer EXCEPT ![s] = mRecvBuffer[s]]
          /\ rcvd' = [rcvd EXCEPT ![s] = rcvd[s]] /\ stamp' = [stamp EXCEPT ![s] = stamp[s]]
      BY <3>2, <3>3, <3>4, <3>5
    <3>7. QED BY <1>6, <3>6
  <2>3. QED BY <2>1, <2>2
<1>8. UNCHANGED wire
  <2>1. CASE c.type # "IO_SEND"
    BY <2>1 DEF Transfer
  <2>2. CASE c.type = "IO_SEND" /\ n = 0
    <3>1. Window(mSendBuffer[s], c.at, 0) = << >>
      BY DEF Window
    <3>2. wire[s] \o Window(mSendBuffer[s], c.at, 0) = wire[s]
      BY <1>5, <3>1, ConcatEmptySeq
    <3>3. wire' = [wire EXCEPT ![s] = wire[s] \o Window(mSendBuffer[s], c.at, 0)]
      BY <1>3, <2>2 DEF Transfer
    <3>4. wire' = [wire EXCEPT ![s] = wire[s]]
      BY <3>2, <3>3
    <3>5. QED BY <1>6, <3>4
  <2>3. QED BY <2>1, <2>2
<1>9. QED BY <1>1, <1>2, <1>4, <1>7, <1>8, QuietStep DEF Returning

\* What a session with an operation in flight is not.
LEMMA InFlightIsInUse ==
  ASSUME Base, Live, NEW c \in ios, c.sess \in Sessions
  PROVE  InUse(c.sess)
<1>1. c \in InFlight(c.sess)
  BY DEF InFlight
<1>2. QED BY <1>1, ReferredIsBusy DEF InUse

\* A send has taken bytes from the front: they are on the wire.
LEMMA BytesOfSent ==
  ASSUME Base, Live, Bytes, NEW w \in Workers, NEW c \in ios, Dequeue(w, c),
         NEW n \in Outcomes(c), Transfer(c, n), Goto(w, Handler(c, n)),
         ctx' = [ctx EXCEPT ![w] = [c EXCEPT !.n = n]], n # 0, c.type = "IO_SEND"
  PROVE  Bytes'
<1>1. /\ Others(w) /\ pc[w] = "gqcs" /\ ios' = ios \ {c} /\ ~Returning(w)
  BY DequeueEffect DEF Returning
<1>2. pc'[w] = "sendCompletion" /\ ctx'[w].n = n
  <2>1. pc'[w] = Handler(c, n)
    BY DEF Goto, Base, IInv, ControlInv
  <2>2. Handler(c, n) = "sendCompletion"
    BY DEF Handler
  <2>3. ctx'[w] = [c EXCEPT !.n = n] /\ Sound(c)
    BY DEF Base, IInv, ControlInv
  <2>4. [c EXCEPT !.n = n].n = n
    BY <2>3 DEF Sound
  <2>5. QED BY <2>1, <2>2, <2>3, <2>4
<1>3. PICK s \in Sessions : s = c.sess
  BY OutcomeOf
<1>4. Remote(w)' = s
  BY <1>3, DequeueEffect
<1>5. UNCHANGED <<mSendBuffer, mRecvBuffer, mFreeSessionList, rcvd, stamp>>
      /\ wire' = [wire EXCEPT ![s] = wire[s] \o Window(mSendBuffer[s], c.at, n)]
  BY <1>3 DEF Dequeue, sendVars, poolVars, Transfer
<1>6. SendSide(s) /\ RecvSide(s) /\ Stream(s)
  BY DEF Bytes
<1>7. c \in SendIos(s)
  BY <1>3 DEF SendIos
<1>8. SendIos(s)' = {} /\ At("sendCompletion", s) = {}
  <2>1. SendWorkers(s) = {} /\ \A d \in SendIos(s) : d = c
    BY <1>7 DEF Base, SendInv, AtMostOne
  <2>2. QED BY <1>1, <2>1 DEF SendIos, SendWorkers, At
<1>9. At("sendCompletion", s)' = {w}
  <2>1. At("sendCompletion", s)' \ {w} \subseteq At("sendCompletion", s)
    BY <1>1, OnlyOneMoves
  <2>2. w \in At("sendCompletion", s)'
    BY <1>2, <1>4 DEF At
  <2>3. QED BY <1>8, <2>1, <2>2
<1>10. n \in 1..GetContiguiousBytes(mSendBuffer[s]) /\ c.at = GetBufferStart(mSendBuffer[s])
       /\ BufferOK(mSendBuffer[s])
  BY <1>3, <1>6, OutcomeOf DEF SendSide
<1>11. SendSide(s)'
  BY <1>2, <1>5, <1>8, <1>9, <1>10 DEF SendSide
<1>12. Left(s) = mSendBuffer[s] /\ Left(s)' = Remove(mSendBuffer[s], n)
  <2>1. Removed(mSendBuffer[s], {w}, ctx') = Remove(mSendBuffer[s], ctx'[w].n)
    <3>1. (CHOOSE v \in {w} : TRUE) = w /\ {w} # {}
      OBVIOUS
    <3>2. QED BY <3>1 DEF Removed
  <2>2. QED BY <1>2, <1>5, <1>8, <1>9, <2>1 DEF Left, Removed
<1>13. RecvSide(s)' /\ Came(s)' = Came(s)
  BY <1>1, <1>2, <1>5, <1>6, RecvSideApart
<1>14. PICK front, rest, came : /\ front = Window(mSendBuffer[s], c.at, n)
                                /\ rest = Contents(Left(s)') /\ came = Contents(Came(s))
  OBVIOUS
<1>15. front \in Seq(Nat) /\ rest \in Seq(Nat) /\ Contents(Left(s)) = front \o rest
  <2>1. n \in 0..GetContiguiousBytes(mSendBuffer[s]) /\ n \in Nat
    BY <1>10, BufferFields DEF GetContiguiousBytes
  <2>2. /\ Window(mSendBuffer[s], GetBufferStart(mSendBuffer[s]), n) \in [1..n -> Nat]
        /\ Contents(Remove(mSendBuffer[s], n)) \in Seq(Nat)
        /\ Contents(mSendBuffer[s]) =
             Window(mSendBuffer[s], GetBufferStart(mSendBuffer[s]), n) \o Contents(Remove(mSendBuffer[s], n))
    BY <1>10, <2>1, FrontOfContents
  <2>3. front \in [1..n -> Nat]
    BY <1>10, <1>14, <2>2
  <2>4. front \in Seq(Nat)
    BY <2>1, <2>3, FunctionIsSeq
  <2>5. QED BY <1>10, <1>12, <1>14, <2>2, <2>4
<1>16. came \in Seq(Nat)
  <2>1. BufferOK(Came(s))
    <3>1. At("recvCompletion", s) # {} =>
            BufferOK(Commit(mRecvBuffer[s], ctx[CHOOSE v \in At("recvCompletion", s) : TRUE].n))
      <4>1. At("recvCompletion", s) # {} => (CHOOSE v \in At("recvCompletion", s) : TRUE) \in At("recvCompletion", s)
        OBVIOUS
      <4>2. QED BY <1>6, <4>1 DEF RecvSide
    <3>2. QED BY <1>6, <3>1 DEF Came, Committed, RecvSide
  <2>2. QED BY <1>14, <2>1, ContentsAt
<1>17. rcvd[s] = wire[s] \o ((front \o rest) \o came) /\ wire[s] \in Seq(Nat) /\ rcvd[s] \in Seq(Nat)
  <2>1. InUse(s)
    BY <1>3, InFlightIsInUse
  <2>2. QED BY <1>6, <1>14, <1>15, <2>1 DEF Stream
<1>18. rcvd[s] = (wire[s] \o front) \o (rest \o came) /\ rest \o came \in Seq(Nat) /\ wire[s] \o front \in Seq(Nat)
  <2>1. rest \o came \in Seq(Nat) /\ wire[s] \o front \in Seq(Nat)
    BY <1>15, <1>16, <1>17, ConcatProperties
  <2>2. (front \o rest) \o came = front \o (rest \o came)
    BY <1>15, <1>16, Associative
  <2>3. (wire[s] \o front) \o (rest \o came) = wire[s] \o (front \o (rest \o came))
    BY <1>15, <1>17, <2>1, Associative
  <2>4. QED BY <1>17, <2>1, <2>2, <2>3
<1>19. wire'[s] = wire[s] \o front /\ wire' = [wire EXCEPT ![s] = wire'[s]]
  <2>1. wire' = [wire EXCEPT ![s] = wire[s] \o front] /\ wire = [t \in Sessions |-> wire[t]]
    BY <1>5, <1>14 DEF Bytes
  <2>2. QED BY <2>1, OneEntry
<1>20. Stream(s)'
  <2>1. stamp'[s] \in Nat /\ rcvd'[s] = rcvd[s]
    BY <1>5, <1>6 DEF Stream
  <2>2. rcvd'[s] = wire'[s] \o (rest \o came)
    BY <1>18, <1>19, <2>1
  <2>3. rcvd'[s] = wire'[s] \o (Contents(Left(s)') \o Contents(Came(s)'))
    BY <1>13, <1>14, <2>2
  <2>4. QED BY <1>17, <1>18, <1>19, <2>1, <2>2, <2>3 DEF Stream
<1>21. QED
  <2>1. stamp' = [stamp EXCEPT ![s] = stamp'[s]] /\ rcvd' = [rcvd EXCEPT ![s] = rcvd'[s]]
    BY <1>5 DEF Bytes, Base, Fields
  <2>2. /\ \A d \in ios' : d \in ios \/ d.sess = s
        /\ \A t \in Sessions : InFreeList(t) => InFreeList(t)'
    BY <1>1, <1>5 DEF InFreeList
  <2>3. pc[w] \notin Busy
    BY <1>1 DEF Busy
  <2>4. QED BY <1>1, <1>4, <1>5, <1>11, <1>13, <1>19, <1>20, <2>1, <2>2, <2>3, OneSession

\* A receive has put bytes behind those that are there.
LEMMA BytesOfReceived ==
  ASSUME Base, Live, Bytes, NEW w \in Workers, NEW c \in ios, Dequeue(w, c),
         NEW n \in Outcomes(c), Transfer(c, n), Goto(w, Handler(c, n)),
         ctx' = [ctx EXCEPT ![w] = [c EXCEPT !.n = n]], n # 0, c.type = "IO_RECV"
  PROVE  Bytes'
<1>1. /\ Others(w) /\ pc[w] = "gqcs" /\ ios' = ios \ {c} /\ ~Returning(w)
  BY DequeueEffect DEF Returning
<1>2. pc'[w] = "recvCompletion" /\ ctx'[w].n = n
  <2>1. pc'[w] = Handler(c, n)
    BY DEF Goto, Base, IInv, ControlInv
  <2>2. Handler(c, n) = "recvCompletion"
    BY DEF Handler
  <2>3. ctx'[w] = [c EXCEPT !.n = n] /\ Sound(c)
    BY DEF Base, IInv, ControlInv
  <2>4. [c EXCEPT !.n = n].n = n
    BY <2>3 DEF Sound
  <2>5. QED BY <2>1, <2>2, <2>3, <2>4
<1>3. PICK s \in Sessions : s = c.sess
  BY OutcomeOf
<1>4. Remote(w)' = s
  BY <1>3, DequeueEffect
<1>5. PICK bytes, b : bytes = NextBytes(s, n) /\ b = mRecvBuffer[s]
  OBVIOUS
<1>6. /\ UNCHANGED <<mSendBuffer, mFreeSessionList, wire>>
      /\ mRecvBuffer' = [mRecvBuffer EXCEPT ![s] = Fill(b, c.at, bytes)]
      /\ rcvd' = [rcvd EXCEPT ![s] = rcvd[s] \o bytes]
      /\ stamp' = [stamp EXCEPT ![s] = stamp[s] + n]
  BY <1>3, <1>5 DEF Dequeue, sendVars, poolVars, Transfer
<1>7. SendSide(s) /\ RecvSide(s) /\ Stream(s) /\ stamp[s] \in Nat
  BY DEF Bytes, Stream
<1>8. /\ RecvIos(s)' = {} /\ At("recvCompletion", s) = {} /\ At("recvCompletion", s)' = {w}
      /\ At("postSend", s)' = {} /\ At("postRecvCall", s)' = {}
  <2>1. c \in RecvIos(s)
    BY <1>3 DEF RecvIos
  <2>2. \A d \in RecvIos(s) : d = c
    BY <2>1, ReceivingAlone DEF AtMostOne
  <2>3. \A label \in {"postRecvCall", "recvCompletion", "postSend"} : At(label, s) = {}
    <3>1. ReceiveWorkers(s) = {}
      BY <2>1, ReceivingAlone DEF AtMostOne
    <3>2. QED BY <3>1, ReceivingAlone
  <2>4. At("postSend", s)' = {} /\ At("postRecvCall", s)' = {}
    BY <1>1, <1>2, <2>3, SameAt
  <2>5. At("recvCompletion", s)' \ {w} \subseteq At("recvCompletion", s)
    BY <1>1, OnlyOneMoves
  <2>6. w \in At("recvCompletion", s)'
    BY <1>2, <1>4 DEF At
  <2>7. RecvIos(s)' = {}
    BY <1>1, <2>2 DEF RecvIos
  <2>8. QED BY <2>3, <2>4, <2>5, <2>6, <2>7
<1>9. BufferOK(b) /\ c.at = GetBuffer(b) /\ AfterProbe(b) = b /\ n \in 1..GetFreeSpaceSize(b) /\ n \in Nat
  <2>1. BufferOK(b) /\ c.at = GetBuffer(b) /\ AfterProbe(b) = b /\ n \in 1..GetFreeSpaceSize(b)
    BY <1>3, <1>5, <1>7, OutcomeOf DEF RecvSide
  <2>2. GetFreeSpaceSize(b) \in 0..Cap
    BY <2>1, ProbeOK
  <2>3. QED BY <2>1, <2>2, CapAssumption
<1>10. bytes \in [1..n -> Nat] /\ bytes \in Seq(Nat)
  <2>1. \A i \in 1..n : stamp[s] + i \in Nat
    BY <1>7, <1>9
  <2>2. bytes \in [1..n -> Nat]
    BY <1>5, <2>1 DEF NextBytes
  <2>3. QED BY <1>9, <2>2, FunctionIsSeq
<1>11. PICK filled, new : filled = Fill(b, c.at, bytes) /\ new = Commit(filled, n)
  OBVIOUS
<1>12. BufferOK(filled) /\ BufferOK(new) /\ Contents(new) = Contents(b) \o bytes
  <2>1. c.at \in Int
    BY <1>9, BufferFields DEF GetBuffer
  <2>2. BufferOK(filled)
    BY <1>9, <1>10, <1>11, <2>1, FillOK
  <2>3. new = Commit(Fill(b, GetBuffer(b), bytes), n)
    BY <1>9, <1>11
  <2>4. BufferOK(new) /\ Contents(new) = Contents(b) \o bytes
    BY <1>9, <1>10, <2>3, WriteContents
  <2>5. QED BY <2>2, <2>4
<1>13. mRecvBuffer'[s] = filled /\ \A t \in Sessions \ {s} : mRecvBuffer'[t] = mRecvBuffer[t]
  BY <1>6, <1>11, OneEntry DEF Base, Fields
<1>14. RecvSide(s)'
  BY <1>2, <1>8, <1>9, <1>11, <1>12, <1>13 DEF RecvSide
<1>15. Came(s) = b /\ Came(s)' = new
  <2>1. Committed(filled, {w}, ctx') = Commit(filled, ctx'[w].n)
    <3>1. (CHOOSE v \in {w} : TRUE) = w /\ {w} # {}
      OBVIOUS
    <3>2. QED BY <3>1 DEF Committed
  <2>2. QED BY <1>2, <1>5, <1>8, <1>11, <1>13, <2>1 DEF Came, Committed
<1>16. SendSide(s)' /\ Left(s)' = Left(s)
  BY <1>1, <1>2, <1>6, <1>7, SendSideApart
<1>17. PICK left, came : left = Contents(Left(s)) /\ came = Contents(b)
  OBVIOUS
<1>18. left \in Seq(Nat) /\ came \in Seq(Nat)
  <2>1. BufferOK(Left(s))
    <3>1. At("sendCompletion", s) # {} =>
            BufferOK(Remove(mSendBuffer[s], ctx[CHOOSE v \in At("sendCompletion", s) : TRUE].n))
      <4>1. At("sendCompletion", s) # {} => (CHOOSE v \in At("sendCompletion", s) : TRUE) \in At("sendCompletion", s)
        OBVIOUS
      <4>2. ASSUME NEW v \in At("sendCompletion", s) PROVE BufferOK(Remove(mSendBuffer[s], ctx[v].n))
        <5>1. BufferOK(mSendBuffer[s]) /\ ctx[v].n \in 1..GetContiguiousBytes(mSendBuffer[s])
          BY <1>7 DEF SendSide
        <5>2. ctx[v].n \in Nat
          BY <5>1, BufferFields DEF GetContiguiousBytes
        <5>3. QED BY <5>1, <5>2, RemoveOK
      <4>3. QED BY <4>1, <4>2
    <3>2. QED BY <1>7, <3>1 DEF Left, Removed, SendSide
  <2>2. QED BY <1>9, <1>17, <2>1, ContentsAt
<1>19. rcvd[s] = wire[s] \o (left \o came) /\ wire[s] \in Seq(Nat) /\ rcvd[s] \in Seq(Nat)
  <2>1. InUse(s)
    BY <1>3, InFlightIsInUse
  <2>2. QED BY <1>7, <1>15, <1>17, <2>1 DEF Stream
<1>20. rcvd[s] \o bytes = wire[s] \o (left \o (came \o bytes)) /\ left \o (came \o bytes) \in Seq(Nat)
       /\ rcvd[s] \o bytes \in Seq(Nat)
  <2>1. /\ left \o came \in Seq(Nat) /\ came \o bytes \in Seq(Nat)
        /\ left \o (came \o bytes) \in Seq(Nat) /\ rcvd[s] \o bytes \in Seq(Nat)
    BY <1>10, <1>18, <1>19, ConcatProperties
  <2>2. (wire[s] \o (left \o came)) \o bytes = wire[s] \o ((left \o came) \o bytes)
    BY <1>10, <1>19, <2>1, Associative
  <2>3. (left \o came) \o bytes = left \o (came \o bytes)
    BY <1>10, <1>18, Associative
  <2>4. QED BY <1>19, <2>1, <2>2, <2>3
<1>21. /\ rcvd'[s] = rcvd[s] \o bytes /\ rcvd' = [rcvd EXCEPT ![s] = rcvd'[s]]
       /\ stamp'[s] = stamp[s] + n /\ stamp' = [stamp EXCEPT ![s] = stamp'[s]]
  <2>1. rcvd = [t \in Sessions |-> rcvd[t]] /\ stamp = [t \in Sessions |-> stamp[t]]
    BY DEF Bytes, Base, Fields
  <2>2. QED BY <1>6, <2>1, OneEntry
<1>22. Stream(s)'
  <2>1. stamp'[s] \in Nat /\ wire'[s] = wire[s]
    BY <1>6, <1>7, <1>9, <1>21
  <2>2. rcvd'[s] = wire'[s] \o (left \o (came \o bytes))
    BY <1>20, <1>21, <2>1
  <2>3. rcvd'[s] = wire'[s] \o (Contents(Left(s)') \o Contents(Came(s)'))
    BY <1>12, <1>15, <1>16, <1>17, <2>2
  <2>4. QED BY <1>19, <1>20, <1>21, <2>1, <2>2, <2>3 DEF Stream
<1>23. QED
  <2>1. wire' = [wire EXCEPT ![s] = wire'[s]]
    BY <1>6 DEF Bytes
  <2>2. /\ \A d \in ios' : d \in ios \/ d.sess = s
        /\ \A t \in Sessions : InFreeList(t) => InFreeList(t)'
        /\ \A t \in Sessions \ {s} : mSendBuffer'[t] = mSendBuffer[t] /\ mRecvBuffer'[t] = mRecvBuffer[t]
    BY <1>1, <1>6, <1>13 DEF InFreeList
  <2>3. pc[w] \notin Busy
    BY <1>1 DEF Busy
  <2>4. QED BY <1>1, <1>4, <1>14, <1>16, <1>21, <1>22, <2>1, <2>2, <2>3, OneSession

\* A completion, whatever it is of.
LEMMA BytesOfDequeue ==
  ASSUME Base, Live, Bytes, NEW w \in Workers, NEW c \in ios, Dequeue(w, c)
  PROVE  Bytes'
<1>1. PICK n \in Outcomes(c) :
        /\ Transfer(c, n) /\ ctx' = [ctx EXCEPT ![w] = [c EXCEPT !.n = n]]
        /\ Goto(w, Handler(c, n))
  BY DEF Dequeue
<1>2. CASE n = 0 \/ c.type \notin {"IO_SEND", "IO_RECV"}
  BY <1>1, <1>2, BytesOfEmptyCompletion
<1>3. CASE n # 0 /\ c.type = "IO_SEND"
  BY <1>1, <1>3, BytesOfSent
<1>4. CASE n # 0 /\ c.type = "IO_RECV"
  BY <1>1, <1>4, BytesOfReceived
<1>5. QED BY <1>2, <1>3, <1>4

\* One step per action of a worker.
LEMMA StepKeepsBytes ==
  ASSUME Base, Live, Bytes, NEW w \in Workers, Step(w)
  PROVE  Bytes'
<1>1. CASE \/ AcceptCompletion(w) \/ AcceptSetup(w) \/ PreRecv(w) \/ PreRecvCall(w)
           \/ DisconnectRequest(w) \/ DisconnectCall(w) \/ ReturnClientSession(w)
           \/ SendJob(w) \/ FlushNothing(w)
  BY <1>1, BytesOfQuietWalk
<1>2. CASE DisconnectCompletion(w) \/ DeleteIoContext(w) \/ FlushRelease(w) \/ Flushed(w)
  BY <1>2, BytesOfRelease
<1>3. CASE PostRecv(w)
  BY <1>3, BytesOfPostRecv
<1>4. CASE PostRecvCall(w)
  BY <1>4, BytesOfPostRecvCall
<1>5. CASE SendCompletion(w)
  BY <1>5, BytesOfSendCompletion
<1>6. CASE RecvCompletion(w)
  BY <1>6, BytesOfRecvCompletion
<1>7. CASE PostSend(w)
  BY <1>7, BytesOfPostSend
<1>8. CASE SessionReset(w)
  BY <1>8, BytesOfSessionReset
<1>9. CASE SessionResetSend(w)
  BY <1>9, BytesOfSessionResetSend
<1>10. CASE FlushSend(w)
  BY <1>10, BytesOfFlushSend
<1>11. QED
  BY <1>1, <1>2, <1>3, <1>4, <1>5, <1>6, <1>7, <1>8, <1>9, <1>10 DEF Step

\* Nothing has come, and nothing is stored, before the first client.
LEMMA InitBytes == Init => Bytes
<1> SUFFICES ASSUME Init PROVE Bytes
  OBVIOUS
<1>1. /\ stamp = [s \in Sessions |-> stamp[s]] /\ wire = [s \in Sessions |-> wire[s]]
      /\ ios = {} /\ \A w \in Workers : pc[w] = "gqcs"
      /\ \A s \in Sessions : /\ stamp[s] = 0 /\ rcvd[s] = << >> /\ wire[s] = << >>
                             /\ mSendBuffer[s] = BufferReset /\ mRecvBuffer[s] = BufferReset
  BY DEF Init
<1>2. ASSUME NEW s \in Sessions PROVE SendSide(s) /\ RecvSide(s) /\ Stream(s)
  <2>1. \A label \in Busy : At(label, s) = {}
    BY <1>1 DEF At, Busy
  <2>2. SendIos(s) = {} /\ RecvIos(s) = {}
    BY <1>1 DEF SendIos, RecvIos
  <2>3. SendSide(s) /\ RecvSide(s)
    BY <1>1, <2>1, <2>2, ResetOK DEF SendSide, RecvSide, Busy
  <2>4. Left(s) = BufferReset /\ Came(s) = BufferReset
    BY <1>1, <2>1 DEF Left, Came, Removed, Committed, Busy
  <2>5. Contents(BufferReset) = << >>
    BY ResetOK, ContentsAt, EmptySeq DEF BufferReset
  <2>6. << >> \in Seq(Nat) /\ << >> = << >> \o << >> /\ << >> = << >> \o (<< >> \o << >>)
    BY ConcatEmptySeq, EmptySeq
  <2>7. \E rest \in Seq(Nat) : rcvd[s] = wire[s] \o rest
    BY <1>1, <2>6
  <2>8. rcvd[s] = wire[s] \o (Contents(Left(s)) \o Contents(Came(s)))
    BY <1>1, <2>4, <2>5, <2>6
  <2>9. Stream(s)
    BY <1>1, <2>6, <2>7, <2>8 DEF Stream
  <2>10. QED BY <2>3, <2>9
<1>3. QED BY <1>1, <1>2 DEF Bytes

\* The invariant of the bytes, beside that of the references.
ByteInv == RefInv /\ (~resurrected => Bytes)

LEMMA ByteInvIsInductive ==
  /\ Init => ByteInv
  /\ ByteInv /\ [Next]_vars => ByteInv'
<1>1. Init => ByteInv
  BY InitBytes, RefInvIsInductive DEF ByteInv
<1>2. ASSUME ByteInv, [Next]_vars PROVE ByteInv'
  <2>1. RefInv'
    BY <1>2, RefInvIsInductive DEF ByteInv
  <2>2. ASSUME ~resurrected' PROVE Bytes'
    <3>1. Base /\ Live /\ Bytes
      BY <1>2, <2>2, RevivalLasts DEF ByteInv, RefInv
    <3>2. CASE Accept
      BY <3>1, <3>2, BytesOfAccept
    <3>3. ASSUME NEW w \in Workers, NEW c \in ios, Dequeue(w, c) PROVE Bytes'
      BY <3>1, <3>3, BytesOfDequeue
    <3>4. ASSUME NEW w \in Workers, Step(w) PROVE Bytes'
      BY <3>1, <3>4, StepKeepsBytes
    <3>5. CASE UNCHANGED vars
      <4>1. UNCHANGED <<mFreeSessionList, mSendBuffer, mRecvBuffer, pc, ctx, sendList, ios,
                        stamp, rcvd, wire>>
        BY <3>5 DEF vars, poolVars, sendVars, workerVars, byteVars
      <4>2. ASSUME NEW s \in Sessions PROVE SendSide(s)' /\ RecvSide(s)' /\ Stream(s)'
        <5>1. SendSide(s) /\ RecvSide(s) /\ Stream(s)
          BY <3>1 DEF Bytes
        <5>2. \A label : At(label, s)' = At(label, s)
          BY <4>1 DEF At, Remote
        <5>3. SendIos(s)' = SendIos(s) /\ RecvIos(s)' = RecvIos(s) /\ InUse(s)' = InUse(s)
          BY <4>1 DEF SendIos, RecvIos, InUse, InFreeList, Returners, Returning, Remote
        <5>4. SendSide(s)' /\ Left(s)' = Left(s)
          BY <4>1, <5>1, <5>2, <5>3, SendSideStays
        <5>5. RecvSide(s)' /\ Came(s)' = Came(s)
          BY <4>1, <5>1, <5>2, <5>3, RecvSideStays
        <5>6. Stream(s)'
          BY <4>1, <5>1, <5>3, <5>4, <5>5, StreamStays
        <5>7. QED BY <5>4, <5>5, <5>6
      <4>3. QED BY <3>1, <4>1, <4>2 DEF Bytes
    <3>6. QED BY <1>2, <3>2, <3>3, <3>4, <3>5 DEF Next, GetQueuedCompletionStatus
  <2>3. QED BY <2>1, <2>2 DEF ByteInv
<1>3. QED BY <1>1, <1>2

-----------------------------------------------------------------------------
(* What follows from it.                                                     *)

\* A front of a sequence.
LEMMA FrontOfSeq ==
  ASSUME NEW s \in Seq(Nat), NEW t \in Seq(Nat)
  PROVE  Len(s) <= Len(s \o t) /\ s = SubSeq(s \o t, 1, Len(s))
<1>1. /\ s \o t \in Seq(Nat) /\ Len(s \o t) = Len(s) + Len(t) /\ Len(s) \in Nat /\ Len(t) \in Nat
      /\ \A i \in 1..Len(s) : (s \o t)[i] = s[i]
  OBVIOUS
<1>2. PICK u : u = SubSeq(s \o t, 1, Len(s))
  OBVIOUS
<1>3. u \in Seq(Nat) /\ Len(u) = Len(s) /\ \A i \in 1..Len(s) : u[i] = (s \o t)[i]
  <2>1. \A i \in 1..Len(s) : (s \o t)[i] \in Nat
    BY <1>1, ElementOfSeq
  <2>2. 1 \in Int /\ Len(s) \in Int
    BY <1>1
  <2>3. /\ u \in Seq(Nat) /\ Len(u) = (IF 1 <= Len(s) THEN Len(s) - 1 + 1 ELSE 0)
        /\ \A i \in 1..(Len(s) - 1 + 1) : u[i] = (s \o t)[1 + i - 1]
    BY <1>2, <2>1, <2>2, SubSeqProperties
  <2>4. QED BY <1>1, <2>3
<1>4. u = s
  BY <1>1, <1>3, SeqEqual
<1>5. QED BY <1>1, <1>2, <1>4

\* What the system was given stays where it was given (Session.cpp:75, 148, 180-190):
\* no code that runs while an operation is in flight moves the bytes it sends or
\* the place where it receives.
THEOREM RegionsStayPut == Spec => []InFlightRegionsStable
<1>1. ASSUME ByteInv PROVE InFlightRegionsStable
  <2>1. SUFFICES ASSUME ~resurrected, NEW c \in ios
                 PROVE  /\ c.type = "IO_SEND" =>
                             /\ c.at = GetBufferStart(mSendBuffer[c.sess])
                             /\ c.len <= GetContiguiousBytes(mSendBuffer[c.sess])
                        /\ c.type = "IO_RECV" =>
                             /\ c.at = GetBuffer(mRecvBuffer[c.sess])
                             /\ c.len = GetFreeSpaceSize(mRecvBuffer[c.sess])
    BY DEF InFlightRegionsStable
  <2>2. c.sess \in Sessions
    BY <1>1, SoundContext DEF ByteInv, RefInv, Base, IInv, ControlInv
  <2>3. SendSide(c.sess) /\ RecvSide(c.sess)
    BY <1>1, <2>1, <2>2 DEF ByteInv, Bytes
  <2>4. c.type = "IO_SEND" => /\ c.at = GetBufferStart(mSendBuffer[c.sess])
                              /\ c.len <= GetContiguiousBytes(mSendBuffer[c.sess])
    <3>1. c.type = "IO_SEND" => c \in SendIos(c.sess)
      BY DEF SendIos
    <3>2. GetContiguiousBytes(mSendBuffer[c.sess]) \in Nat
      BY <2>3, BufferFields DEF SendSide, GetContiguiousBytes
    <3>3. QED BY <2>3, <3>1, <3>2 DEF SendSide
  <2>5. c.type = "IO_RECV" => /\ c.at = GetBuffer(mRecvBuffer[c.sess])
                              /\ c.len = GetFreeSpaceSize(mRecvBuffer[c.sess])
    BY <2>3 DEF RecvSide, RecvIos
  <2>6. QED BY <2>4, <2>5
<1>2. QED BY <1>1, ByteInvIsInductive, PTL DEF Spec

\* A client gets back what it sent, in order, once, and nothing of another client:
\* across both buffers, every worker and every interleaving of their steps.
THEOREM EchoKeepsOrder == Spec => []EchoesInOrder
<1>1. ASSUME ByteInv PROVE EchoesInOrder
  <2>1. ASSUME ~resurrected, NEW s \in Sessions
        PROVE  Len(wire[s]) <= Len(rcvd[s]) /\ wire[s] = SubSeq(rcvd[s], 1, Len(wire[s]))
    <3>1. Stream(s)
      BY <1>1, <2>1 DEF ByteInv, Bytes
    <3>2. PICK rest \in Seq(Nat) : rcvd[s] = wire[s] \o rest
      BY <3>1 DEF Stream
    <3>3. QED BY <3>1, <3>2, FrontOfSeq DEF Stream
  <2>2. QED BY <2>1 DEF EchoesInOrder
<1>2. QED BY <1>1, ByteInvIsInductive, PTL DEF Spec

\* Nothing a connected client sent is lost: what has not been sent back waits in
\* one of the two buffers.
THEOREM EchoLosesNothing == Spec => []EchoesComplete
<1>1. ASSUME ByteInv PROVE EchoesComplete
  <2>1. SUFFICES ASSUME NEW s \in Sessions, ~resurrected, mConnected[s] = 1,
                        \A w \in Handlers(s) : ctx[w].type \notin {"IO_SEND", "IO_RECV"}
                 PROVE  rcvd[s] = wire[s] \o Contents(mSendBuffer[s]) \o Contents(mRecvBuffer[s])
    BY DEF EchoesComplete
  <2>2. Base /\ Live /\ SendSide(s) /\ RecvSide(s) /\ Stream(s)
    BY <1>1, <2>1 DEF ByteInv, RefInv, Bytes
  <2>3. InUse(s)
    BY <2>1, <2>2, IdleIsUnreferred DEF InUse
  <2>4. \A label \in {"sendCompletion", "recvCompletion"} : At(label, s) = {}
    <3>1. ASSUME NEW label \in {"sendCompletion", "recvCompletion"}, NEW w \in At(label, s) PROVE FALSE
      <4>1. w \in Workers /\ pc[w] = label /\ Remote(w) = s /\ pc[w] \in Holding /\ ~Returning(w)
        BY <3>1 DEF At, Holding, Returning
      <4>2. ctx[w] # NoContext /\ Remote(w) = ctx[w].sess /\ ctx[w].type \in KindOf(pc[w])
        BY <2>2, <4>1, KindInHand
      <4>3. ctx[w].type \in {"IO_SEND", "IO_RECV"}
        BY <3>1, <4>1, <4>2 DEF KindOf
      <4>4. w \in Handlers(s)
        BY <4>1, <4>2 DEF Handlers
      <4>5. QED BY <2>1, <4>3, <4>4
    <3>2. QED BY <3>1
  <2>5. Left(s) = mSendBuffer[s] /\ Came(s) = mRecvBuffer[s]
    BY <2>4 DEF Left, Came, Removed, Committed
  <2>6. rcvd[s] = wire[s] \o (Contents(mSendBuffer[s]) \o Contents(mRecvBuffer[s])) /\ wire[s] \in Seq(Nat)
    BY <2>2, <2>3, <2>5 DEF Stream
  <2>7. Contents(mSendBuffer[s]) \in Seq(Nat) /\ Contents(mRecvBuffer[s]) \in Seq(Nat)
    BY <2>2, ContentsAt DEF SendSide, RecvSide
  <2>8. (wire[s] \o Contents(mSendBuffer[s])) \o Contents(mRecvBuffer[s])
          = wire[s] \o (Contents(mSendBuffer[s]) \o Contents(mRecvBuffer[s]))
    BY <2>6, <2>7, Associative
  <2>9. QED BY <2>6, <2>8
<1>2. QED BY <1>1, ByteInvIsInductive, PTL DEF Spec

-----------------------------------------------------------------------------
(***************************************************************************)
(* No wake-up is lost: whenever bytes wait for a send, a worker's list     *)
(* still has the flush that will find them.                                *)
(***************************************************************************)

(* The inductive invariant.                                                  *)

\* How many bytes at the front the send in flight, or at its completion, is for.
Taken(s) == IF Sending(s) = {} THEN 0 ELSE (CHOOSE c \in Sending(s) : TRUE).len

\* The regions with bytes that no send is for.
WaitsA(s) == mSendBuffer[s].aSize > Taken(s)
WaitsB(s) == mSendBuffer[s].bSize > 0

\* An entry for each of two things that may have to be done.
Enough(F, a, b) == (a \/ b => F # {}) /\ (a /\ b => \E x, y \in F : x # y)

KeepsEnough(F, G) ==
  (F # {} => G # {}) /\ ((\E x, y \in F : x # y) => \E x, y \in G : x # y)

\* Nobody has closed the session, or is about to.
Calm(s) == mConnected[s] = 1 /\ At("disconnect", s) = {}

\* Before anything is received there is nothing to send; and the flushes suffice.
Fresh(s) == InUse(s) /\ rcvd[s] = << >> => mSendBuffer[s].aSize = 0
Woken(s) == Fresh(s) /\ (Calm(s) => Enough(FlushesDue(s), WaitsA(s), WaitsB(s)))

ListsBounded == \E m \in Nat : \A w \in Workers : Len(sendList[w]) <= m

Awake == ListsBounded /\ \A s \in Sessions : Woken(s)

-----------------------------------------------------------------------------
(* Lemmas on the parts.                                                      *)

\* The send of a session, found where the invariant of the sends looks for it.
TakenIsKnown ==
  \A s \in Sessions :
    /\ SendIos(s) = {} /\ SendWorkers(s) = {} => Taken(s) = 0
    /\ \A c \in SendIos(s) : Taken(s) = c.len
    /\ \A w \in SendWorkers(s) : Taken(s) = ctx[w].len

LEMMA TakenFromSends == Base => TakenIsKnown
<1> SUFFICES ASSUME Base, NEW s \in Sessions
             PROVE  /\ SendIos(s) = {} /\ SendWorkers(s) = {} => Taken(s) = 0
                    /\ \A c \in SendIos(s) : Taken(s) = c.len
                    /\ \A w \in SendWorkers(s) : Taken(s) = ctx[w].len
  BY DEF TakenIsKnown
<1>1. \A w : w \in SendWorkers(s) <=> w \in {v \in Handlers(s) : pc[v] = "sendCompletion"}
  <2>1. ASSUME NEW w \in SendWorkers(s) PROVE w \in Handlers(s) /\ pc[w] = "sendCompletion"
    <3>1. w \in Workers /\ pc[w] = "sendCompletion" /\ Remote(w) = s /\ pc[w] \in Holding /\ ~Returning(w)
      BY DEF SendWorkers, Holding, Returning
    <3>2. QED BY <3>1, KindInHand DEF Handlers
  <2>2. ASSUME NEW w \in Handlers(s), pc[w] = "sendCompletion" PROVE w \in SendWorkers(s)
    <3>1. w \in Workers /\ ctx[w] # NoContext /\ ctx[w].sess = s
      BY DEF Handlers
    <3>2. QED BY <2>2, <3>1, KindInHand DEF SendWorkers
  <2>3. QED BY <2>1, <2>2
<1>2. \A c : c \in Sending(s) <=> c \in SendIos(s) \/ \E w \in SendWorkers(s) : c = ctx[w]
  BY <1>1 DEF Sending, InFlight, SendIos
<1>3. AtMostOne(SendIos(s), SendWorkers(s))
  BY DEF Base, SendInv
<1>4. \A c, d \in Sending(s) : c = d
  BY <1>2, <1>3 DEF AtMostOne
<1>5. ASSUME NEW c \in Sending(s) PROVE Taken(s) = c.len
  <2>1. (CHOOSE d \in Sending(s) : TRUE) \in Sending(s) /\ Sending(s) # {}
    BY <1>5
  <2>2. (CHOOSE d \in Sending(s) : TRUE) = c
    BY <1>4, <1>5, <2>1
  <2>3. QED BY <2>1, <2>2 DEF Taken
<1>6. SendIos(s) = {} /\ SendWorkers(s) = {} => Taken(s) = 0
  BY <1>2 DEF Taken
<1>7. QED BY <1>2, <1>5, <1>6

\* Nothing happens to the send of a session.
LEMMA TakenStays ==
  ASSUME Base, Base', NEW s \in Sessions, SendIos(s)' = SendIos(s),
         SendWorkers(s)' = SendWorkers(s), \A v \in SendWorkers(s) : ctx'[v] = ctx[v]
  PROVE  Taken(s)' = Taken(s)
<1>1. TakenIsKnown
  BY TakenFromSends
<1>2. TakenIsKnown'
  BY TakenFromSends, PTL
<1>3. CASE SendIos(s) = {} /\ SendWorkers(s) = {}
  BY <1>1, <1>2, <1>3 DEF TakenIsKnown
<1>4. ASSUME NEW c \in SendIos(s) PROVE Taken(s)' = Taken(s)
  BY <1>1, <1>2 DEF TakenIsKnown
<1>5. ASSUME NEW v \in SendWorkers(s) PROVE Taken(s)' = Taken(s)
  BY <1>1, <1>2 DEF TakenIsKnown
<1>6. QED BY <1>3, <1>4, <1>5

\* The entries that count, with a worker's list as it was.
LEMMA EntriesDue ==
  ASSUME NEW s
  PROVE  /\ \A e \in FlushesDue(s) : \E v \in Workers : \E i : e = <<v, i>>
         /\ \A v \in Workers : \A i :
              <<v, i>> \in FlushesDue(s) <=>
                i \in DOMAIN sendList[v] /\ sendList[v][i] = s /\ ~(i = 1 /\ pc[v] = "flushed")
  BY DEF FlushesDue

LEMMA EntriesDueNext ==
  ASSUME NEW s
  PROVE  /\ \A e \in FlushesDue(s)' : \E v \in Workers : \E i : e = <<v, i>>
         /\ \A v \in Workers : \A i :
              <<v, i>> \in FlushesDue(s)' <=>
                i \in DOMAIN sendList'[v] /\ sendList'[v][i] = s /\ ~(i = 1 /\ pc'[v] = "flushed")
  BY DEF FlushesDue

LEMMA EntriesStay ==
  ASSUME NEW w \in Workers, Others(w), sendList'[w] = sendList[w], NEW s
  PROVE  /\ FlushesDue(s) \ {<<w, 1>>} \subseteq FlushesDue(s)'
         /\ pc'[w] # "flushed" \/ pc[w] = "flushed" \/ sendList[w][1] # s =>
              KeepsEnough(FlushesDue(s), FlushesDue(s)')
<1>1. ASSUME NEW e \in FlushesDue(s),
             e # <<w, 1>> \/ pc'[w] # "flushed" \/ pc[w] = "flushed" \/ sendList[w][1] # s
      PROVE  e \in FlushesDue(s)'
  <2>0. PICK v \in Workers : \E i : e = <<v, i>>
    BY EntriesDue
  <2>1. PICK i : e = <<v, i>>
    BY <2>0
  <2>2. i \in DOMAIN sendList[v] /\ sendList[v][i] = s /\ ~(i = 1 /\ pc[v] = "flushed")
    BY <2>1, EntriesDue
  <2>3. sendList'[v] = sendList[v] /\ (v # w => pc'[v] = pc[v])
    BY DEF Others
  <2>4. ~(i = 1 /\ pc'[v] = "flushed")
    BY <1>1, <2>1, <2>2, <2>3
  <2>5. QED BY <2>1, <2>2, <2>3, <2>4, EntriesDueNext
<1>2. QED BY <1>1 DEF KeepsEnough

\* A session to which a step does nothing that matters here.
LEMMA QuietSession ==
  ASSUME Base, Base', NEW w \in Workers, Others(w), NEW s \in Sessions, Woken(s),
         pc[w] # "sendCompletion" \/ Remote(w) # s,
         pc'[w] # "sendCompletion" \/ Remote(w)' # s,
         mSendBuffer'[s] = mSendBuffer[s], SendIos(s)' = SendIos(s),
         InUse(s)' /\ rcvd'[s] = << >> => InUse(s) /\ rcvd[s] = << >>,
         mConnected'[s] = 1 =>
           /\ mConnected[s] = 1
           /\ pc[w] # "disconnect" \/ Remote(w) # s
           /\ KeepsEnough(FlushesDue(s), FlushesDue(s)')
  PROVE  Woken(s)'
<1>1. Fresh(s)'
  BY DEF Woken, Fresh
<1>2. Taken(s)' = Taken(s)
  <2>1. w \notin SendWorkers(s) /\ w \notin SendWorkers(s)'
    BY DEF SendWorkers
  <2>2. \A v \in Workers \ {w} : v \in SendWorkers(s)' <=> v \in SendWorkers(s)
    BY OthersStay
  <2>3. SendWorkers(s) \subseteq Workers /\ SendWorkers(s)' \subseteq Workers
    BY DEF SendWorkers
  <2>4. SendWorkers(s)' = SendWorkers(s)
    BY <2>1, <2>2, <2>3
  <2>5. \A v \in SendWorkers(s) : ctx'[v] = ctx[v]
    BY <2>1, <2>3 DEF Others
  <2>6. QED BY <2>4, <2>5, TakenStays
<1>3. ASSUME Calm(s)' PROVE Enough(FlushesDue(s), WaitsA(s), WaitsB(s))'
  <2>1. /\ mConnected[s] = 1 /\ (pc[w] # "disconnect" \/ Remote(w) # s)
        /\ KeepsEnough(FlushesDue(s), FlushesDue(s)')
    BY <1>3 DEF Calm
  <2>2. At("disconnect", s) = {}
    <3>1. At("disconnect", s) \ {w} \subseteq At("disconnect", s)'
      BY OnlyOneMoves
    <3>2. w \notin At("disconnect", s)
      BY <2>1 DEF At
    <3>3. QED BY <1>3, <3>1, <3>2 DEF Calm
  <2>3. Enough(FlushesDue(s), WaitsA(s), WaitsB(s))
    BY <2>1, <2>2 DEF Woken, Calm
  <2>4. WaitsA(s)' = WaitsA(s) /\ WaitsB(s)' = WaitsB(s)
    BY <1>2 DEF WaitsA, WaitsB
  <2>5. QED BY <2>1, <2>3, <2>4 DEF Enough, KeepsEnough
<1>4. QED BY <1>1, <1>3 DEF Woken

-----------------------------------------------------------------------------
(* The steps that bring and take no bytes to send.                           *)

\* Without a context in hand, a worker works for the first session of its list.
LEMMA FirstOfList ==
  ASSUME Base, NEW w \in Workers, ctx[w] = NoContext, pc[w] \notin {"gqcs", "sendJob"}
  PROVE  /\ sendList[w] \in Seq(Sessions) /\ sendList[w] # << >> /\ Remote(w) = sendList[w][1]
         /\ 1 \in DOMAIN sendList[w]
<1>1. sendList[w] \in Seq(Sessions) /\ sendList[w] # << >>
  BY DEF Base, IInv, ControlInv
<1>2. Head(sendList[w]) = sendList[w][1] /\ 1 \in DOMAIN sendList[w]
  BY <1>1
<1>3. QED BY <1>1, <1>2, KindInHand

\* A worker that goes on, other than to close a session, and leaves the lists alone.
LEMMA AwakeOfQuiet ==
  ASSUME Base, Base', Live, Awake, NEW w \in Workers, Others(w), sendList' = sendList,
         pc[w] # "sendCompletion", pc'[w] # "sendCompletion", mSendBuffer' = mSendBuffer,
         \A c : c.type = "IO_SEND" => (c \in ios' <=> c \in ios),
         \A s \in Sessions : InUse(s)' /\ rcvd'[s] = << >> => InUse(s) /\ rcvd[s] = << >>,
         \A s \in Sessions : mConnected'[s] = 1 => mConnected[s] = 1,
         pc[w] = "disconnect" => mConnected'[Remote(w)] = 0,
         pc'[w] = "flushed" => /\ pc[w] \in {"disconnect", "disconnectCall"}
                               /\ ctx[w] = NoContext
  PROVE  Awake'
<1>1. ASSUME NEW s \in Sessions PROVE Woken(s)'
  <2>1. Woken(s)
    BY DEF Awake
  <2>2. SendIos(s)' = SendIos(s)
    BY DEF SendIos
  <2>3. ASSUME mConnected'[s] = 1
        PROVE  /\ mConnected[s] = 1 /\ (pc[w] # "disconnect" \/ Remote(w) # s)
               /\ KeepsEnough(FlushesDue(s), FlushesDue(s)')
    <3>1. mConnected[s] = 1 /\ (pc[w] # "disconnect" \/ Remote(w) # s)
      BY <2>3
    <3>2. pc[w] = "disconnectCall" => Remote(w) # s
      <4>1. StageWorkers(s) = {}
        BY <3>1 DEF Live, Stages
      <4>2. QED BY <4>1 DEF StageWorkers
    <3>3. pc'[w] # "flushed" \/ sendList[w][1] # s
      BY <3>1, <3>2, FirstOfList
    <3>4. QED BY <3>1, <3>3, EntriesStay
  <2>4. QED BY <2>1, <2>2, <2>3, QuietSession
<1>2. ListsBounded'
  BY DEF Awake, ListsBounded
<1>3. QED BY <1>1, <1>2 DEF Awake

LEMMA AwakeOfWalk ==
  ASSUME Base, Base', Live, Awake, NEW w \in Workers,
         \/ AcceptSetup(w)
         \/ PreRecv(w) \/ PreRecvCall(w) \/ PostRecv(w) \/ PostRecvCall(w) \/ RecvCompletion(w)
         \/ DisconnectRequest(w) \/ DisconnectCall(w) \/ ReturnClientSession(w)
         \/ SessionReset(w) \/ SendJob(w)
  PROVE  Awake'
<1>1. UNCHANGED <<ctx, ret, sendList, mSendBuffer, rcvd, mFreeSessionList>>
  BY DEF AcceptSetup, PreRecv, PreRecvCall, PostRecv, PostRecvCall, RecvCompletion, DisconnectRequest,
         DisconnectCall, ReturnClientSession, SessionReset, SendJob, poolVars, sendVars, byteVars
<1>2. \A c : c.type = "IO_SEND" => (c \in ios' <=> c \in ios)
  <2>1. CASE UNCHANGED ios
    BY <2>1
  <2>2. CASE \E type \in {"IO_RECV_ZERO", "IO_RECV", "IO_DISCONNECT"} : \E at, len :
               ios' = ios \cup {Context(type, Remote(w), at, len)}
    BY <2>2 DEF Context
  <2>3. QED
    BY <2>1, <2>2 DEF AcceptSetup, PreRecv, PreRecvCall, PostRecv, PostRecvCall, RecvCompletion,
         DisconnectRequest, DisconnectCall, ReturnClientSession, SessionReset, SendJob, Post, Refused
<1>3. PICK l \in {"preRecv", "preRecvCall", "postRecv", "postRecvCall", "postSend", "disconnect", "drop",
                  "disconnectCall", "flushed", "sessionReset", "sessionResetSend", "gqcs", "flush"} :
        /\ Goto(w, l)
        /\ Returning(w) => l \in {"sessionReset", "sessionResetSend"}
        /\ l = "flushed" => pc[w] \in {"disconnect", "disconnectCall"} /\ ctx[w] = NoContext
  BY DEF AcceptSetup, PreRecv, PreRecvCall, AfterPreRecv, PostRecv, PostRecvCall, RecvCompletion, DisconnectRequest,
         DisconnectCall, AfterDisconnect, ReturnClientSession, SessionReset, SendJob, Returning
<1>4. pc[w] # "sendCompletion" /\ Others(w) /\ pc'[w] = l /\ Remote(w)' = Remote(w)
  BY <1>1, <1>3, GotoOthers DEF AcceptSetup, PreRecv, PreRecvCall, PostRecv, PostRecvCall, RecvCompletion,
         DisconnectRequest, DisconnectCall, ReturnClientSession, SessionReset, SendJob
<1>5. mConnected' = mConnected \/ mConnected' = [mConnected EXCEPT ![Remote(w)] = 0]
  BY DEF AcceptSetup, PreRecv, PreRecvCall, PostRecv, PostRecvCall, RecvCompletion, DisconnectRequest,
         DisconnectCall, ReturnClientSession, SessionReset, SendJob, countVars
<1>6. pc[w] = "disconnect" => mConnected'[Remote(w)] = 0
  <2>1. ASSUME pc[w] = "disconnect" PROVE mConnected' = [mConnected EXCEPT ![Remote(w)] = 0]
    BY <2>1 DEF AcceptSetup, PreRecv, PreRecvCall, PostRecv, PostRecvCall, RecvCompletion, DisconnectRequest,
         DisconnectCall, ReturnClientSession, SessionReset, SendJob
  <2>2. pc[w] = "disconnect" => Remote(w) \in Sessions
    BY KindInHand
  <2>3. QED BY <2>1, <2>2 DEF Base, Fields
<1>7. \A s \in Sessions : mConnected'[s] = 1 => mConnected[s] = 1
  BY <1>5 DEF Base, Fields
<1>8. ASSUME NEW s \in Sessions PROVE InUse(s)' => InUse(s)
  <2>1. InFreeList(s) => InFreeList(s)'
    BY <1>1 DEF InFreeList
  <2>2. w \in Returners(s) => w \in Returners(s)'
    BY <1>3, <1>4 DEF Returners, Returning
  <2>3. QED BY <1>4, <2>1, <2>2, InUseLasts
<1>9. QED BY <1>1, <1>2, <1>3, <1>4, <1>6, <1>7, <1>8, AwakeOfQuiet

\* A release.
LEMMA AwakeOfRelease ==
  ASSUME Base, Base', Live, Awake, NEW w \in Workers,
         DisconnectCompletion(w) \/ DeleteIoContext(w) \/ FlushRelease(w)
  PROVE  Awake'
<1>1. UNCHANGED <<mSendBuffer, rcvd, mFreeSessionList, ios, sendList, mConnected>>
  BY DEF DisconnectCompletion, DeleteIoContext, FlushRelease, poolVars, sendVars, byteVars
<1>2. pc[w] \in {"disconnectCompletion", "drop", "flushRelease"}
  BY DEF DisconnectCompletion, DeleteIoContext, FlushRelease
<1>3. Others(w) /\ pc'[w] \in {"return", "sendJob", "drop", "disconnect"}
  <2>1. PICK next \in {"sendJob", "drop", "disconnect"} :
          /\ ReleaseRef(w, Remote(w), next)
          /\ next = "drop" => pc[w] = "disconnectCompletion"
    BY DEF DisconnectCompletion, DeleteIoContext, FlushRelease
  <2>2. Remote(w) \in Sessions /\ (next = "drop" => ctx[w] # NoContext)
    BY <1>2, <2>1, KindInHand DEF Holding
  <2>3. QED BY <1>1, <2>1, <2>2, ReleaseEffect
<1>4. ASSUME NEW s \in Sessions PROVE InUse(s)' => InUse(s)
  <2>1. ~Returning(w)
    BY <1>2 DEF Returning
  <2>2. QED BY <1>1, <1>3, <2>1, InUseKept
<1>5. QED BY <1>1, <1>2, <1>3, <1>4, AwakeOfQuiet

-----------------------------------------------------------------------------
(* The steps that do: each is about one session.                             *)

\* With nothing stored, nothing waits.
EmptyIsDone ==
  \A s \in Sessions :
    SendSide(s) /\ mSendBuffer[s].aSize = 0 => ~WaitsA(s) /\ ~WaitsB(s)

LEMMA NothingStored == Base => EmptyIsDone
<1> SUFFICES ASSUME Base, NEW s \in Sessions, SendSide(s), mSendBuffer[s].aSize = 0
             PROVE  ~WaitsA(s) /\ ~WaitsB(s)
  BY DEF EmptyIsDone
<1>1. mSendBuffer[s].bSize = 0 /\ GetContiguiousBytes(mSendBuffer[s]) = 0
  BY BufferFields DEF SendSide, GetContiguiousBytes
<1>2. SendIos(s) = {} /\ At("sendCompletion", s) = {}
  BY <1>1 DEF SendSide
<1>3. SendWorkers(s) = {}
  BY <1>2 DEF SendWorkers, At
<1>4. Taken(s) = 0
  BY <1>2, <1>3, TakenFromSends DEF TakenIsKnown
<1>5. QED BY <1>1, <1>4 DEF WaitsA, WaitsB

\* The first flush of a list is done for its first session only.
LEMMA FlushDoneForFirst ==
  ASSUME Base, NEW w \in Workers, Others(w), sendList'[w] = sendList[w],
         ctx[w] = NoContext, pc[w] \notin {"gqcs", "sendJob"}, NEW t, Remote(w) # t
  PROVE  KeepsEnough(FlushesDue(t), FlushesDue(t)')
<1>1. sendList[w][1] # t
  BY FirstOfList
<1>2. QED BY <1>1, EntriesStay

\* A client is connected: nothing was received yet, so nothing waits.
LEMMA AwakeOfAcceptCompletion ==
  ASSUME Base, Base', Live, Bytes, Bytes', Awake, NEW w \in Workers, AcceptCompletion(w)
  PROVE  Awake'
<1>1. PICK s \in Sessions : Remote(w) = s
  BY KindInHand DEF AcceptCompletion
<1>2. /\ UNCHANGED <<ctx, ret, sendList, mSendBuffer, rcvd, mFreeSessionList, ios>>
      /\ pc[w] = "acceptCompletion" /\ ~Returning(w)
      /\ mConnected' = [mConnected EXCEPT ![s] = 1]
  BY <1>1 DEF AcceptCompletion, poolVars, sendVars, byteVars, Returning
<1> DEFINE l == "acceptSetup"
<1>3. Goto(w, l)
  BY DEF AcceptCompletion
<1>4. Others(w) /\ pc'[w] = l /\ Remote(w)' = s
  BY <1>1, <1>2, <1>3, GotoOthers
<1>5. \A t : InUse(t)' => InUse(t)
  BY <1>2, <1>4, InUseKept
<1>6. Woken(s)'
  <2>1. ctx[w] # NoContext /\ ctx[w].type = "IO_ACCEPT"
    BY <1>2, KindInHand DEF Holding, KindOf
  <2>2. w \in Handlers(s)
    BY <1>1, <1>2, <2>1, KindInHand DEF Handlers
  <2>3. w \in ReceiveWorkers(s)
    BY <1>2, <2>1, <2>2 DEF ReceiveWorkers, ReceiveTypes
  <2>4. rcvd[s] = << >>
    BY <2>1, <2>3 DEF Live, Listening
  <2>5. InUse(s)
    BY <2>2, ReferredIsBusy DEF InUse
  <2>6. mSendBuffer'[s].aSize = 0
    BY <1>2, <2>4, <2>5 DEF Awake, Woken, Fresh
  <2>7. EmptyIsDone'
    BY NothingStored, PTL
  <2>8. ~WaitsA(s)' /\ ~WaitsB(s)'
    BY <2>6, <2>7 DEF EmptyIsDone, Bytes
  <2>9. QED BY <2>6, <2>8 DEF Woken, Fresh, Enough
<1>7. ASSUME NEW t \in Sessions \ {s} PROVE Woken(t)'
  <2>1. mConnected'[t] = mConnected[t]
    BY <1>2 DEF Base, Fields
  <2>2. KeepsEnough(FlushesDue(t), FlushesDue(t)')
    BY <1>2, <1>3, <1>4, EntriesStay
  <2>3. Woken(t) /\ SendIos(t)' = SendIos(t)
    BY <1>2 DEF Awake, SendIos
  <2>4. QED BY <1>1, <1>2, <1>4, <1>5, <2>1, <2>2, <2>3, QuietSession
<1>8. ListsBounded'
  BY <1>2 DEF Awake, ListsBounded
<1>9. QED BY <1>6, <1>7, <1>8 DEF Awake

\* A flush that finds nothing is done only if nothing waits.
LEMMA AwakeOfFlushNothing ==
  ASSUME Base, Base', Live, Bytes, Bytes', Awake, NEW w \in Workers, FlushNothing(w)
  PROVE  Awake'
<1>1. PICK s \in Sessions : Remote(w) = s
  BY KindInHand DEF FlushNothing
<1>2. /\ UNCHANGED <<ctx, ret, sendList, mSendBuffer, rcvd, mFreeSessionList, ios, mConnected>>
      /\ pc[w] = "flush" /\ ~Returning(w) /\ ctx[w] = NoContext
  BY KindInHand DEF FlushNothing, poolVars, countVars, sendVars, byteVars, Returning, WithoutContext
<1>3. PICK l : Goto(w, l) /\ l = (IF mSendPendingCount[s] = 0 THEN "flushed" ELSE "sendJob")
  BY <1>1 DEF FlushNothing
<1>4. Others(w) /\ pc'[w] = l /\ Remote(w)' = s
  BY <1>1, <1>2, <1>3, GotoOthers
<1>5. \A t : InUse(t)' => InUse(t)
  BY <1>2, <1>4, InUseKept
<1>6. CASE l = "sendJob"
  BY <1>2, <1>4, <1>5, <1>6, AwakeOfQuiet
<1>7. CASE l = "flushed"
  <2>1. Woken(s)'
    <3>1. mSendPendingCount[s] = 0
      BY <1>3, <1>7
    <3>2. GetContiguiousBytes(mSendBuffer[s]) = 0
      BY <1>1, <3>1 DEF FlushNothing, SendPending
    <3>3. mSendBuffer'[s].aSize = 0
      BY <1>2, <3>2, BufferFields DEF GetContiguiousBytes, Bytes, SendSide
    <3>4. EmptyIsDone'
      BY NothingStored, PTL
    <3>5. ~WaitsA(s)' /\ ~WaitsB(s)'
      BY <3>3, <3>4 DEF EmptyIsDone, Bytes
    <3>6. QED BY <3>3, <3>5 DEF Woken, Fresh, Enough
  <2>2. ASSUME NEW t \in Sessions \ {s} PROVE Woken(t)'
    <3>1. KeepsEnough(FlushesDue(t), FlushesDue(t)')
      BY <1>1, <1>2, <1>4, FlushDoneForFirst
    <3>2. Woken(t) /\ SendIos(t)' = SendIos(t)
      BY <1>2 DEF Awake, SendIos
    <3>3. QED BY <1>1, <1>2, <1>4, <1>5, <3>1, <3>2, QuietSession
  <2>3. ListsBounded'
    BY <1>2 DEF Awake, ListsBounded
  <2>4. QED BY <2>1, <2>2, <2>3 DEF Awake
<1>8. QED BY <1>3, <1>6, <1>7

\* A send takes region A, and one entry of the list is done.
LEMMA AwakeOfFlushSend ==
  ASSUME Base, Base', Live, Bytes, Bytes', Awake, NEW w \in Workers, FlushSend(w)
  PROVE  Awake'
<1>1. PICK s \in Sessions : Remote(w) = s
  BY KindInHand DEF FlushSend
<1>2. /\ UNCHANGED <<ctx, ret, sendList, mSendBuffer, rcvd, mFreeSessionList, mConnected>>
      /\ pc[w] = "flush" /\ ~Returning(w) /\ ctx[w] = NoContext
      /\ GetContiguiousBytes(mSendBuffer[s]) > 0 /\ ~SendPending(s)
  BY <1>1, KindInHand DEF FlushSend, poolVars, byteVars, Returning, WithoutContext
<1>3. mSendPendingCount[s] = 0 /\ SendIos(s) = {} /\ SendWorkers(s) = {}
  BY <1>2 DEF SendPending, Base, SendInv
<1>4. PICK l \in {"flushed", "flushRelease"} :
        /\ Goto(w, l)
        /\ l = "flushRelease" => UNCHANGED ios
        /\ l = "flushed" => Post(w, "IO_SEND", GetBufferStart(mSendBuffer[s]), GetContiguiousBytes(mSendBuffer[s]))
  BY <1>1, <1>3 DEF FlushSend
<1>5. Others(w) /\ pc'[w] = l /\ Remote(w)' = s
  BY <1>1, <1>2, <1>4, GotoOthers
<1>6. \A t : InUse(t)' => InUse(t)
  BY <1>2, <1>5, InUseKept
<1>7. CASE l = "flushRelease"
  BY <1>2, <1>4, <1>5, <1>6, <1>7, AwakeOfQuiet
<1>8. CASE l = "flushed"
  <2>1. PICK c : ios' = ios \cup {c} /\ c.type = "IO_SEND" /\ c.sess = s /\ c.len = GetContiguiousBytes(mSendBuffer[s])
    <3> DEFINE c == Context("IO_SEND", s, GetBufferStart(mSendBuffer[s]), GetContiguiousBytes(mSendBuffer[s]))
    <3>1. ios' = ios \cup {c}
      BY <1>1, <1>4, <1>8 DEF Post
    <3>2. c.type = "IO_SEND" /\ c.sess = s /\ c.len = GetContiguiousBytes(mSendBuffer[s])
      BY DEF Context
    <3> HIDE DEF c
    <3>3. QED BY <3>1, <3>2
  <2>2. /\ mSendBuffer[s].aSize \in Nat \ {0} /\ c.len = mSendBuffer[s].aSize
        /\ mSendBuffer[s].bSize \in Nat
    BY <1>2, <2>1, BufferFields DEF GetContiguiousBytes, Bytes, SendSide
  <2>3. Taken(s) = 0 /\ Taken(s)' = c.len
    <3>1. TakenIsKnown
      BY TakenFromSends
    <3>2. TakenIsKnown'
      BY TakenFromSends, PTL
    <3>3. c \in SendIos(s)'
      BY <2>1 DEF SendIos
    <3>4. QED BY <1>3, <3>1, <3>2, <3>3 DEF TakenIsKnown
  <2>4. WaitsA(s) /\ ~WaitsA(s)' /\ WaitsB(s)' = WaitsB(s)
    BY <1>2, <2>2, <2>3 DEF WaitsA, WaitsB
  <2>5. Woken(s)'
    <3>1. Woken(s)
      BY DEF Awake
    <3>2. Fresh(s)'
      BY <1>2, <1>6, <3>1 DEF Woken, Fresh
    <3>3. ASSUME Calm(s)' PROVE Enough(FlushesDue(s), WaitsA(s), WaitsB(s))'
      <4>1. At("disconnect", s)' = At("disconnect", s)
        BY <1>2, <1>5, <1>8, SameAt
      <4>2. Enough(FlushesDue(s), WaitsA(s), WaitsB(s))
        BY <1>2, <3>1, <3>3, <4>1 DEF Calm, Woken
      <4>3. FlushesDue(s) \ {<<w, 1>>} \subseteq FlushesDue(s)'
        BY <1>2, <1>5, EntriesStay
      <4>4. WaitsB(s) => FlushesDue(s)' # {}
        BY <2>4, <4>2, <4>3 DEF Enough
      <4>5. QED BY <2>4, <4>4 DEF Enough
    <3>4. QED BY <3>2, <3>3 DEF Woken
  <2>6. ASSUME NEW t \in Sessions \ {s} PROVE Woken(t)'
    <3>1. KeepsEnough(FlushesDue(t), FlushesDue(t)')
      BY <1>1, <1>2, <1>5, FlushDoneForFirst
    <3>2. Woken(t) /\ SendIos(t)' = SendIos(t)
      BY <2>1 DEF Awake, SendIos
    <3>3. QED BY <1>1, <1>2, <1>5, <1>6, <3>1, <3>2, QuietSession
  <2>7. ListsBounded'
    BY <1>2 DEF Awake, ListsBounded
  <2>8. QED BY <2>5, <2>6, <2>7 DEF Awake
<1>9. QED BY <1>4, <1>7, <1>8

\* The entry that is dropped counted no more; the others move up.
LEMMA AwakeOfFlushed ==
  ASSUME Base, Base', Live, Awake, NEW w \in Workers, Flushed(w)
  PROVE  Awake'
<1>1. /\ UNCHANGED <<ctx, ret, mSendBuffer, rcvd, mFreeSessionList, ios, mConnected>>
      /\ pc[w] = "flushed" /\ ~Returning(w) /\ ctx[w] = NoContext
      /\ Goto(w, "sendJob") /\ sendList' = [sendList EXCEPT ![w] = Tail(@)]
  BY KindInHand DEF Flushed, poolVars, countVars, byteVars, Returning, WithoutContext
<1>2. Others(w) /\ pc'[w] = "sendJob"
  BY <1>1 DEF Goto, Others, Base, IInv, ControlInv
<1>3. PICK q \in Seq(Sessions) : q = sendList[w] /\ q # << >> /\ sendList'[w] = Tail(q)
  BY <1>1, FirstOfList DEF Base, IInv, ControlInv
<1>4. /\ Len(q) \in Nat /\ Len(Tail(q)) = Len(q) - 1 /\ DOMAIN q = 1..Len(q) /\ DOMAIN Tail(q) = 1..(Len(q) - 1)
      /\ \A i \in 1..(Len(q) - 1) : Tail(q)[i] = q[i + 1]
  BY <1>3
<1>5. ASSUME NEW s \in Sessions PROVE KeepsEnough(FlushesDue(s), FlushesDue(s)')
  <2> DEFINE up(e) == IF e[1] = w THEN <<w, e[2] - 1>> ELSE e
  <2>1. ASSUME NEW e \in FlushesDue(s)
        PROVE  /\ up(e) \in FlushesDue(s)'
               /\ \E v \in Workers : \E i \in Int : e = <<v, i>>
    <3>0. PICK v \in Workers : \E i : e = <<v, i>>
      BY EntriesDue
    <3>1. PICK i : e = <<v, i>>
      BY <3>0
    <3>2. i \in DOMAIN sendList[v] /\ sendList[v][i] = s /\ ~(i = 1 /\ pc[v] = "flushed")
      BY <3>1, EntriesDue
    <3>3. i \in Int
      <4>1. sendList[v] \in Seq(Sessions)
        BY DEF Base, IInv, ControlInv
      <4>2. QED BY <3>2, <4>1
    <3>4. CASE v # w
      <4>1. sendList'[v] = sendList[v] /\ pc'[v] = pc[v]
        BY <1>2, <3>4 DEF Others
      <4>2. up(e) = <<v, i>>
        BY <3>1, <3>4
      <4>3. QED BY <3>1, <3>2, <3>3, <4>1, <4>2, EntriesDueNext
    <3>5. CASE v = w
      <4>1. i \in 2..Len(q) /\ q[i] = s
        BY <1>1, <1>3, <1>4, <3>2, <3>5
      <4>2. i - 1 \in 1..(Len(q) - 1) /\ Tail(q)[i - 1] = s
        BY <1>4, <4>1
      <4>3. up(e) = <<w, i - 1>>
        BY <3>1, <3>5
      <4>4. <<w, i - 1>> \in FlushesDue(s)'
        BY <1>2, <1>3, <1>4, <4>2, EntriesDueNext
      <4>5. QED BY <3>1, <3>3, <4>3, <4>4
    <3>6. QED BY <3>4, <3>5
  <2>2. ASSUME NEW x \in FlushesDue(s), NEW y \in FlushesDue(s), x # y PROVE up(x) # up(y)
    <3>1. PICK v \in Workers, i \in Int : x = <<v, i>>
      BY <2>1
    <3>2. PICK u \in Workers, j \in Int : y = <<u, j>>
      BY <2>1
    <3>3. v # u \/ i # j
      BY <2>2, <3>1, <3>2
    <3>4. up(x) = (IF v = w THEN <<w, i - 1>> ELSE <<v, i>>) /\ up(y) = (IF u = w THEN <<w, j - 1>> ELSE <<u, j>>)
      BY <3>1, <3>2
    <3>5. CASE v # u
      BY <3>4, <3>5
    <3>6. CASE v = u /\ i # j
      BY <3>4, <3>6
    <3>7. QED BY <3>3, <3>5, <3>6
  <2> HIDE DEF up
  <2>3. QED BY <2>1, <2>2 DEF KeepsEnough
<1>6. ASSUME NEW s \in Sessions PROVE Woken(s)'
  <2>1. Woken(s) /\ SendIos(s)' = SendIos(s)
    BY <1>1 DEF Awake, SendIos
  <2>2. InUse(s)' => InUse(s)
    BY <1>1, <1>2, InUseKept
  <2>3. QED BY <1>1, <1>2, <1>5, <2>1, <2>2, QuietSession
<1>7. ListsBounded'
  <2>1. PICK m \in Nat : \A v \in Workers : Len(sendList[v]) <= m
    BY DEF Awake, ListsBounded
  <2>2. ASSUME NEW v \in Workers PROVE Len(sendList'[v]) <= m
    <3>1. CASE v = w
      <4>1. Len(q) \in Nat /\ Len(q) <= m /\ Len(sendList'[w]) = Len(q) - 1
        BY <1>3, <1>4, <2>1
      <4>2. Len(sendList'[w]) <= m
        BY <2>1, <4>1
      <4>3. QED BY <3>1, <4>2
    <3>2. CASE v # w
      BY <1>2, <2>1, <3>2 DEF Others
    <3>3. QED BY <3>1, <3>2
  <2>3. QED BY <2>2 DEF ListsBounded
<1>8. QED BY <1>6, <1>7 DEF Awake

\* A send that was done in full leaves what waited; one that was not closes the session.
LEMMA AwakeOfSendCompletion ==
  ASSUME Base, Base', Live, Bytes, Bytes', Awake, NEW w \in Workers, SendCompletion(w)
  PROVE  Awake'
<1>1. PICK s \in Sessions : Remote(w) = s
  BY KindInHand DEF SendCompletion
<1>2. PICK b, n : b = mSendBuffer[s] /\ n = ctx[w].n
  OBVIOUS
<1>3. /\ UNCHANGED <<ctx, ret, sendList, rcvd, mFreeSessionList, ios, mConnected>>
      /\ pc[w] = "sendCompletion" /\ ~Returning(w)
      /\ mSendBuffer' = [mSendBuffer EXCEPT ![s] = Remove(b, n)]
  BY <1>1, <1>2 DEF SendCompletion, poolVars, countVars, byteVars, Returning
<1>4. PICK l \in {"drop", "disconnect"} : Goto(w, l) /\ (l = "drop" => n = ctx[w].len)
  BY <1>2 DEF SendCompletion
<1>5. Others(w) /\ pc'[w] = l /\ Remote(w)' = s
  BY <1>1, <1>3, <1>4, GotoOthers
<1>6. \A t : InUse(t)' => InUse(t)
  BY <1>3, <1>5, InUseKept
<1>7. mSendBuffer'[s] = Remove(b, n) /\ \A t \in Sessions \ {s} : mSendBuffer'[t] = mSendBuffer[t]
  BY <1>3, OneEntry DEF Base, Fields
<1>8. b.aSize \in Nat /\ b.bSize \in Nat /\ n \in 1..b.aSize
  <2>1. BufferOK(b) /\ w \in At("sendCompletion", s)
    BY <1>1, <1>2, <1>3 DEF Bytes, SendSide, At
  <2>2. n \in 1..GetContiguiousBytes(b)
    BY <1>2, <2>1 DEF Bytes, SendSide
  <2>3. QED BY <2>1, <2>2, BufferFields DEF GetContiguiousBytes
<1>9. Woken(s)'
  <2>1. Woken(s)
    BY DEF Awake
  <2>2. Fresh(s)'
    BY <1>2, <1>3, <1>6, <1>8, <2>1 DEF Woken, Fresh
  <2>3. ASSUME Calm(s)' PROVE Enough(FlushesDue(s), WaitsA(s), WaitsB(s))'
    <3>1. l = "drop" /\ n = ctx[w].len
      <4>1. l = "disconnect" => w \in At("disconnect", s)'
        BY <1>5 DEF At
      <4>2. QED BY <1>4, <2>3, <4>1 DEF Calm
    <3>2. w \in SendWorkers(s) /\ SendIos(s) = {} /\ SendWorkers(s) = {w}
      <4>1. w \in SendWorkers(s)
        BY <1>1, <1>3 DEF SendWorkers
      <4>2. QED BY <4>1 DEF Base, SendInv, AtMostOne
    <3>3. SendIos(s)' = {} /\ SendWorkers(s)' = {}
      <4>1. \A v \in Workers \ {w} : v \notin SendWorkers(s)'
        BY <1>5, <3>2, OthersStay
      <4>2. w \notin SendWorkers(s)' /\ SendWorkers(s)' \subseteq Workers
        BY <1>4, <1>5 DEF SendWorkers
      <4>3. QED BY <1>3, <3>2, <4>1, <4>2 DEF SendIos
    <3>4. Taken(s) = n /\ Taken(s)' = 0
      <4>1. TakenIsKnown
        BY TakenFromSends
      <4>2. TakenIsKnown'
        BY TakenFromSends, PTL
      <4>3. QED BY <3>1, <3>2, <3>3, <4>1, <4>2 DEF TakenIsKnown
    <3>5. /\ Enough(FlushesDue(s), WaitsA(s), WaitsB(s))
          /\ KeepsEnough(FlushesDue(s), FlushesDue(s)')
      <4>1. KeepsEnough(FlushesDue(s), FlushesDue(s)')
        BY <1>3, <1>4, <1>5, EntriesStay
      <4>2. At("disconnect", s) = {}
        <5>1. At("disconnect", s)' = At("disconnect", s)
          BY <1>3, <1>5, <3>1, SameAt
        <5>2. QED BY <2>3, <5>1 DEF Calm
      <4>3. QED BY <1>3, <2>1, <2>3, <4>1, <4>2 DEF Woken, Calm
    <3>6. CASE n < b.aSize
      <4>1. Remove(b, n).aSize = b.aSize - n /\ Remove(b, n).bSize = b.bSize
        <5>1. b \in Buffers
          BY <1>2 DEF Bytes, SendSide, BufferOK
        <5>2. QED BY <1>8, <3>6, <5>1 DEF Remove, Lesser, Buffers
      <4>2. WaitsA(s)' = WaitsA(s) /\ WaitsB(s)' = WaitsB(s)
        BY <1>2, <1>7, <1>8, <3>4, <3>6, <4>1 DEF WaitsA, WaitsB
      <4>3. QED BY <3>5, <4>2 DEF Enough, KeepsEnough
    <3>7. CASE n = b.aSize
      <4>1. Remove(b, n).aSize = b.bSize /\ Remove(b, n).bSize = 0
        BY <1>8, <3>7 DEF Remove, Lesser
      <4>2. ~WaitsB(s)' /\ (WaitsA(s)' => WaitsB(s))
        BY <1>2, <1>7, <1>8, <3>4, <4>1 DEF WaitsA, WaitsB
      <4>3. QED BY <3>5, <4>2 DEF Enough, KeepsEnough
    <3>8. QED BY <1>8, <3>6, <3>7
  <2>4. QED BY <2>2, <2>3 DEF Woken
<1>10. ASSUME NEW t \in Sessions \ {s} PROVE Woken(t)'
  <2>1. KeepsEnough(FlushesDue(t), FlushesDue(t)')
    BY <1>3, <1>4, <1>5, EntriesStay
  <2>2. Woken(t) /\ SendIos(t)' = SendIos(t)
    BY <1>3 DEF Awake, SendIos
  <2>3. QED BY <1>1, <1>3, <1>5, <1>6, <1>7, <2>1, <2>2, QuietSession
<1>11. ListsBounded'
  BY <1>3 DEF Awake, ListsBounded
<1>12. QED BY <1>9, <1>10, <1>11 DEF Awake

\* A write adds to one region.
LEMMA CommitAddsOne ==
  ASSUME NEW b, BufferOK(b), NEW data, NEW at, NEW len \in Nat
  PROVE  LET out == AfterProbe(b)
             c   == Commit(Fill(out, at, data), len)
         IN  /\ out.aSize = b.aSize /\ out.bSize = b.bSize
             /\ c.aSize = b.aSize \/ c.bSize = b.bSize
             /\ c.aSize \in Nat /\ c.bSize \in Nat
<1>1. b \in Buffers /\ b.aSize \in Nat /\ b.bSize \in Nat
  BY BufferFields
<1>2. PICK out, f : out = AfterProbe(b) /\ f = Fill(out, at, data)
  OBVIOUS
<1>3. out \in Buffers /\ out.aSize = b.aSize /\ out.bSize = b.bSize
  BY <1>1, <1>2, CapAssumption DEF AfterProbe, Buffers
<1>4. /\ f.aSize = b.aSize /\ f.bSize = b.bSize
      /\ f = [mem |-> f.mem, aPtr |-> f.aPtr, aSize |-> f.aSize, bPtr |-> f.bPtr, bSize |-> f.bSize]
  BY <1>2, <1>3 DEF Fill, Buffers
<1>5. /\ Commit(f, len).aSize = b.aSize \/ Commit(f, len).bSize = b.bSize
      /\ Commit(f, len).aSize \in Nat /\ Commit(f, len).bSize \in Nat
  <2>1. CASE f.bPtr # Null
    <3>1. Commit(f, len).aSize = f.aSize /\ Commit(f, len).bSize = f.bSize + len
      BY <1>4, <2>1 DEF Commit
    <3>2. QED BY <1>1, <1>4, <3>1
  <2>2. CASE f.bPtr = Null
    <3>1. Commit(f, len).aSize = f.aSize + len /\ Commit(f, len).bSize = f.bSize
      BY <1>4, <2>2 DEF Commit
    <3>2. QED BY <1>1, <1>4, <3>1
  <2>3. QED BY <2>1, <2>2
<1>6. QED BY <1>2, <1>3, <1>5

\* Received bytes are sent after something was received.
LEMMA EchoHasReceived ==
  ASSUME Base, Live, Bytes, NEW w \in Workers, NEW s \in Sessions, Remote(w) = s, pc[w] = "postSend"
  PROVE  InUse(s) /\ rcvd[s] # << >>
<1>1. w \in Handlers(s)
  BY KindInHand DEF Handlers, Holding, Returning
<1>2. InUse(s)
  BY <1>1, ReferredIsBusy DEF InUse
<1>3. /\ w \in At("postSend", s) /\ At("recvCompletion", s) = {}
  <2>1. w \in At("postSend", s)
    BY DEF At
  <2>2. w \in ReceiveWorkers(s) /\ At("recvCompletion", s) \subseteq ReceiveWorkers(s)
        /\ AtMostOne(ReceiveIos(s), ReceiveWorkers(s))
    BY <2>1, ReceivingAlone
  <2>3. \A v \in At("recvCompletion", s) : v = w
    BY <2>2 DEF AtMostOne
  <2>4. QED BY <2>1, <2>3 DEF At
<1>4. SendSide(s) /\ RecvSide(s) /\ Stream(s)
  BY DEF Bytes
<1>5. Came(s) = mRecvBuffer[s] /\ BufferOK(mRecvBuffer[s]) /\ mRecvBuffer[s].aSize > 0
  BY <1>3, <1>4 DEF Came, Committed, RecvSide
<1>6. Contents(Came(s)) \in Seq(Nat) /\ Len(Contents(Came(s))) > 0
  BY <1>5, ContentsAt, BufferFields
<1>7. Contents(Left(s)) \in Seq(Nat)
  <2>1. BufferOK(Left(s))
    <3>1. At("sendCompletion", s) # {} =>
            BufferOK(Remove(mSendBuffer[s], ctx[CHOOSE v \in At("sendCompletion", s) : TRUE].n))
      <4>1. At("sendCompletion", s) # {} => (CHOOSE v \in At("sendCompletion", s) : TRUE) \in At("sendCompletion", s)
        OBVIOUS
      <4>2. ASSUME NEW v \in At("sendCompletion", s) PROVE BufferOK(Remove(mSendBuffer[s], ctx[v].n))
        <5>1. BufferOK(mSendBuffer[s]) /\ ctx[v].n \in 1..GetContiguiousBytes(mSendBuffer[s])
          BY <1>4 DEF SendSide
        <5>2. ctx[v].n \in Nat
          BY <5>1, BufferFields DEF GetContiguiousBytes
        <5>3. QED BY <5>1, <5>2, RemoveOK
      <4>3. QED BY <4>1, <4>2
    <3>2. QED BY <1>4, <3>1 DEF Left, Removed, SendSide
  <2>2. QED BY <2>1, ContentsAt
<1>8. rcvd[s] = wire[s] \o (Contents(Left(s)) \o Contents(Came(s))) /\ wire[s] \in Seq(Nat)
  BY <1>2, <1>4 DEF Stream
<1>9. rcvd[s] # << >>
  <2>1. ASSUME NEW x \in Seq(Nat), NEW y \in Seq(Nat), NEW z \in Seq(Nat), Len(z) > 0
        PROVE  x \o (y \o z) # << >>
    <3>1. y \o z \in Seq(Nat) /\ Len(y \o z) = Len(y) + Len(z) /\ Len(y \o z) > 0
      BY <2>1
    <3>2. Len(x \o (y \o z)) = Len(x) + Len(y \o z)
      BY <3>1
    <3>3. QED BY <3>1, <3>2
  <2>2. QED BY <1>6, <1>7, <1>8, <2>1
<1>10. QED BY <1>2, <1>9

\* One more thing to do, and one more entry.
LEMMA EnoughWithOneMore ==
  ASSUME NEW F, NEW e, e \notin F, NEW G, F \cup {e} \subseteq G,
         NEW a \in BOOLEAN, NEW b \in BOOLEAN, NEW c \in BOOLEAN, NEW d \in BOOLEAN,
         Enough(F, a, b), (a <=> c) \/ (b <=> d)
  PROVE  Enough(G, c, d)
<1>1. G # {}
  OBVIOUS
<1>2. a \/ b => \E x, y \in G : x # y
  <2>1. a \/ b => \E x \in F : x # e
    BY DEF Enough
  <2>2. QED BY <2>1
<1>3. QED BY <1>1, <1>2 DEF Enough

\* Each run of bytes that PostSend adds comes with an entry of the worker's list.
LEMMA AwakeOfPostSend ==
  ASSUME Base, Base', Live, Bytes, Bytes', Awake, NEW w \in Workers, PostSend(w)
  PROVE  Awake'
<1>1. PICK s \in Sessions : Remote(w) = s
  BY KindInHand DEF PostSend
<1>2. /\ UNCHANGED <<ctx, ret, rcvd, mFreeSessionList, ios, mConnected>>
      /\ pc[w] = "postSend" /\ ~Returning(w) /\ Goto(w, "preRecv") /\ ctx[w] # NoContext
  BY KindInHand DEF PostSend, poolVars, countVars, byteVars, Returning, Holding
<1>3. PICK got, len, b, out, data :
        /\ got = mRecvBuffer[s] /\ len = GetContiguiousBytes(got) /\ b = mSendBuffer[s]
        /\ out = AfterProbe(b) /\ data = Window(got, GetBufferStart(got), len)
  OBVIOUS
<1>4. PICK c : c = IF Fits(b, len) THEN Commit(Fill(out, GetBuffer(out), data), len) ELSE out
  OBVIOUS
<1>5. /\ mSendBuffer' = [mSendBuffer EXCEPT ![s] = c]
      /\ sendList' = IF Fits(b, len) THEN [sendList EXCEPT ![w] = Append(@, s)] ELSE sendList
  BY <1>1, <1>3, <1>4 DEF PostSend
<1>6. mSendBuffer'[s] = c /\ \A t \in Sessions \ {s} : mSendBuffer'[t] = mSendBuffer[t]
  BY <1>5, OneEntry DEF Base, Fields
<1>7. /\ Others(w) /\ pc'[w] = "preRecv" /\ Remote(w)' = s /\ sendList[w] \in Seq(Sessions)
      /\ Fits(b, len) => sendList'[w] = Append(sendList[w], s)
      /\ ~Fits(b, len) => sendList' = sendList
  <2>1. pc \in [Workers -> Labels] /\ sendList \in [Workers -> Seq(Sessions)]
    BY DEF Base, IInv, ControlInv
  <2>2. QED BY <1>1, <1>2, <1>5, <2>1 DEF Goto, Others, Remote
<1>8. \A t : InUse(t)' => InUse(t)
  BY <1>2, <1>7, InUseKept
<1>9. BufferOK(b) /\ len \in Nat
  BY <1>3, BufferFields DEF Bytes, SendSide, RecvSide, GetContiguiousBytes
<1>10. /\ c.aSize = b.aSize \/ c.bSize = b.bSize
       /\ c.aSize \in Nat /\ c.bSize \in Nat /\ b.aSize \in Nat /\ b.bSize \in Nat
       /\ ~Fits(b, len) => c.aSize = b.aSize /\ c.bSize = b.bSize
  <2>1. PICK x : x = Commit(Fill(out, GetBuffer(out), data), len)
    OBVIOUS
  <2>2. /\ out.aSize = b.aSize /\ out.bSize = b.bSize
        /\ x.aSize = b.aSize \/ x.bSize = b.bSize
        /\ x.aSize \in Nat /\ x.bSize \in Nat
    BY <1>3, <1>9, <2>1, CommitAddsOne
  <2>3. b.aSize \in Nat /\ b.bSize \in Nat
    BY <1>9, BufferFields
  <2>4. QED BY <1>4, <2>1, <2>2, <2>3
<1>11. \A t \in Sessions : Taken(t)' = Taken(t)
  <2>1. ASSUME NEW t \in Sessions PROVE Taken(t)' = Taken(t)
    <3>1. SendWorkers(t) \subseteq Workers /\ SendWorkers(t)' \subseteq Workers
          /\ w \notin SendWorkers(t) /\ w \notin SendWorkers(t)'
      BY <1>2, <1>7 DEF SendWorkers
    <3>2. \A v \in Workers \ {w} : v \in SendWorkers(t)' <=> v \in SendWorkers(t)
      BY <1>7, OthersStay
    <3>3. SendWorkers(t)' = SendWorkers(t) /\ SendIos(t)' = SendIos(t)
      BY <1>2, <3>1, <3>2 DEF SendIos
    <3>4. QED BY <1>2, <3>3, TakenStays
  <2>2. QED BY <2>1
<1>12. ASSUME NEW t \in Sessions
       PROVE  /\ FlushesDue(t) \subseteq FlushesDue(t)'
              /\ Fits(b, len) => \E e : e \notin FlushesDue(s) /\ e \in FlushesDue(s)'
  <2>1. PICK q \in Seq(Sessions) : q = sendList[w]
    BY <1>7
  <2>2. /\ Append(q, s)[Len(q) + 1] = s /\ DOMAIN Append(q, s) = 1..(Len(q) + 1) /\ Len(q) \in Nat
        /\ DOMAIN q = 1..Len(q) /\ \A i \in 1..Len(q) : Append(q, s)[i] = q[i]
    OBVIOUS
  <2>3. ASSUME NEW e \in FlushesDue(t) PROVE e \in FlushesDue(t)'
    <3>0. PICK v \in Workers : \E i : e = <<v, i>>
      BY EntriesDue
    <3>1. PICK i : e = <<v, i>>
      BY <3>0
    <3>2. i \in DOMAIN sendList[v] /\ sendList[v][i] = t /\ ~(i = 1 /\ pc[v] = "flushed")
      BY <3>1, EntriesDue
    <3>3. CASE v # w
      <4>1. sendList'[v] = sendList[v] /\ pc'[v] = pc[v]
        BY <1>7, <3>3 DEF Others
      <4>2. QED BY <3>1, <3>2, <4>1, EntriesDueNext
    <3>4. CASE v = w
      <4>1. i \in DOMAIN sendList'[w] /\ sendList'[w][i] = t
        BY <1>7, <2>1, <2>2, <3>2, <3>4
      <4>2. QED BY <1>7, <3>1, <3>4, <4>1, EntriesDueNext
    <3>5. QED BY <3>3, <3>4
  <2>4. ASSUME Fits(b, len)
        PROVE  <<w, Len(q) + 1>> \notin FlushesDue(s) /\ <<w, Len(q) + 1>> \in FlushesDue(s)'
    <3>1. Len(q) + 1 \notin DOMAIN sendList[w]
      BY <2>1, <2>2
    <3>2. Len(q) + 1 \in DOMAIN sendList'[w] /\ sendList'[w][Len(q) + 1] = s
      BY <1>7, <2>1, <2>2, <2>4
    <3>3. QED BY <1>7, <3>1, <3>2, EntriesDue, EntriesDueNext
  <2>5. QED BY <2>3, <2>4
<1>13. Woken(s)'
  <2>1. Fresh(s)'
    BY <1>1, <1>2, <1>8, EchoHasReceived DEF Fresh
  <2>2. ASSUME Calm(s)' PROVE Enough(FlushesDue(s), WaitsA(s), WaitsB(s))'
    <3>1. At("disconnect", s)' = At("disconnect", s)
      BY <1>2, <1>7, SameAt
    <3>2. Enough(FlushesDue(s), WaitsA(s), WaitsB(s))
      BY <1>2, <2>2, <3>1 DEF Awake, Woken, Calm
    <3>3. PICK k : k = Taken(s) /\ Taken(s)' = k
      BY <1>11
    <3>4. /\ WaitsA(s) <=> b.aSize > k
          /\ WaitsB(s) <=> b.bSize > 0
          /\ WaitsA(s)' <=> c.aSize > k
          /\ WaitsB(s)' <=> c.bSize > 0
      BY <1>3, <1>6, <3>3 DEF WaitsA, WaitsB
    <3>5. (WaitsA(s) <=> WaitsA(s)') \/ (WaitsB(s) <=> WaitsB(s)')
      BY <1>10, <3>4
    <3>6. WaitsA(s) \in BOOLEAN /\ WaitsB(s) \in BOOLEAN /\ WaitsA(s)' \in BOOLEAN /\ WaitsB(s)' \in BOOLEAN
      BY DEF WaitsA, WaitsB
    <3>7. CASE Fits(b, len)
      <4>1. PICK e : e \notin FlushesDue(s) /\ FlushesDue(s) \cup {e} \subseteq FlushesDue(s)'
        BY <1>12, <3>7
      <4>2. Enough(FlushesDue(s)', WaitsA(s)', WaitsB(s)')
        BY <3>2, <3>5, <3>6, <4>1, EnoughWithOneMore
      <4>3. QED BY <4>2 DEF Enough
    <3>8. CASE ~Fits(b, len)
      <4>1. (WaitsA(s) <=> WaitsA(s)') /\ (WaitsB(s) <=> WaitsB(s)')
        BY <1>10, <3>4, <3>8
      <4>2. FlushesDue(s) \subseteq FlushesDue(s)'
        BY <1>12
      <4>3. QED BY <3>2, <4>1, <4>2 DEF Enough
    <3>9. QED BY <3>7, <3>8
  <2>3. QED BY <2>1, <2>2 DEF Woken
<1>14. ASSUME NEW t \in Sessions \ {s} PROVE Woken(t)'
  <2>1. KeepsEnough(FlushesDue(t), FlushesDue(t)')
    BY <1>12 DEF KeepsEnough
  <2>2. Woken(t) /\ SendIos(t)' = SendIos(t)
    BY <1>2 DEF Awake, SendIos
  <2>3. QED BY <1>1, <1>2, <1>6, <1>7, <1>8, <2>1, <2>2, QuietSession
<1>15. ListsBounded'
  <2>1. PICK m \in Nat : \A v \in Workers : Len(sendList[v]) <= m
    BY DEF Awake, ListsBounded
  <2>2. ASSUME NEW v \in Workers PROVE Len(sendList'[v]) <= m + 1
    <3>1. Len(sendList[v]) \in Nat /\ Len(sendList[v]) <= m
      BY <2>1 DEF Base, IInv, ControlInv
    <3>2. sendList'[v] = sendList[v] \/ Len(sendList'[v]) = Len(sendList[v]) + 1
      BY <1>7 DEF Others
    <3>3. QED BY <2>1, <3>1, <3>2
  <2>3. m + 1 \in Nat
    BY <2>1
  <2>4. QED BY <2>2, <2>3 DEF ListsBounded
<1>16. QED BY <1>13, <1>14, <1>15 DEF Awake

\* A session that goes back to the list has nothing to send.
LEMMA AwakeOfSessionResetSend ==
  ASSUME Base, Base', Live, Awake, NEW w \in Workers, SessionResetSend(w)
  PROVE  Awake'
<1>1. PICK s \in Sessions : Remote(w) = s
  BY KindInHand DEF SessionResetSend
<1>2. /\ UNCHANGED <<sendList, rcvd, ios, mConnected>>
      /\ pc[w] = "sessionResetSend" /\ Returning(w)
      /\ mSendBuffer' = [mSendBuffer EXCEPT ![s] = BufferReset]
      /\ mFreeSessionList' = Append(mFreeSessionList, s)
      /\ Resume(w, ret[w]) /\ ret' = [ret EXCEPT ![w] = "sendJob"]
  BY <1>1 DEF SessionResetSend, countVars, byteVars, Returning
<1>3. Others(w) /\ pc'[w] \in {"sendJob", "drop", "disconnect"}
  <2>1. pc \in [Workers -> Labels] /\ ret[w] \in {"sendJob", "drop", "disconnect"}
        /\ ret \in [Workers -> {"sendJob", "drop", "disconnect"}]
        /\ ctx = [v \in Workers |-> ctx[v]]
    BY DEF Base, IInv, ControlInv
  <2>2. pc'[w] = ret[w] /\ \A v \in Workers \ {w} : pc'[v] = pc[v]
    BY <1>2, <2>1 DEF Resume, Goto
  <2>3. \A v \in Workers \ {w} : ctx'[v] = ctx[v]
    BY <1>2, <2>1 DEF Resume
  <2>4. \A v \in Workers \ {w} : ret'[v] = ret[v] /\ sendList'[v] = sendList[v]
    BY <1>2, <2>1
  <2>5. QED BY <2>1, <2>2, <2>3, <2>4 DEF Others
<1>4. w \in Returners(s)
  BY <1>1, <1>2 DEF Returners
<1>5. \A t \in Sessions \ {s} : mSendBuffer'[t] = mSendBuffer[t]
  BY <1>2, OneEntry DEF Base, Fields
<1>6. InFreeList(s)' /\ \A t \in Sessions : InFreeList(t) => InFreeList(t)'
  <2>1. mFreeSessionList \in Seq(Sessions)
    BY DEF Base, IInv, PoolInv
  <2>2. /\ Len(mFreeSessionList') = Len(mFreeSessionList) + 1
        /\ mFreeSessionList'[Len(mFreeSessionList) + 1] = s
        /\ \A i \in 1..Len(mFreeSessionList) : mFreeSessionList'[i] = mFreeSessionList[i]
        /\ DOMAIN mFreeSessionList' = 1..(Len(mFreeSessionList) + 1)
        /\ DOMAIN mFreeSessionList = 1..Len(mFreeSessionList) /\ Len(mFreeSessionList) \in Nat
    BY <1>2, <2>1
  <2>3. /\ Len(mFreeSessionList) + 1 \in 1..(Len(mFreeSessionList) + 1)
        /\ \A i \in 1..Len(mFreeSessionList) : i \in 1..(Len(mFreeSessionList) + 1)
    BY <2>2
  <2>4. QED BY <2>2, <2>3 DEF InFreeList
<1>7. Woken(s)'
  <2>1. mConnected'[s] = 0
    BY <1>2, <1>4, IdleIsUnreferred
  <2>2. QED BY <1>6, <2>1 DEF Woken, Fresh, InUse, Calm
<1>8. ASSUME NEW t \in Sessions \ {s} PROVE Woken(t)'
  <2>1. KeepsEnough(FlushesDue(t), FlushesDue(t)')
    BY <1>2, <1>3, EntriesStay
  <2>2. Woken(t) /\ SendIos(t)' = SendIos(t)
    BY <1>2 DEF Awake, SendIos
  <2>3. InUse(t)' => InUse(t)
    <3>1. w \notin Returners(t)
      BY <1>1 DEF Returners
    <3>2. QED BY <1>3, <1>6, <3>1, InUseLasts
  <2>4. QED BY <1>1, <1>2, <1>3, <1>5, <2>1, <2>2, <2>3, QuietSession
<1>9. ListsBounded'
  BY <1>2 DEF Awake, ListsBounded
<1>10. QED BY <1>7, <1>8, <1>9 DEF Awake

\* What has come is not forgotten.
LEMMA ReceivedGrows ==
  ASSUME Base, Bytes, NEW w \in Workers, NEW c \in ios, Dequeue(w, c), NEW s \in Sessions,
         rcvd'[s] = << >>
  PROVE  rcvd[s] = << >>
<1>1. PICK n \in Outcomes(c) : Transfer(c, n)
  BY DEF Dequeue
<1>2. CASE c.type # "IO_RECV" \/ c.sess # s
  <2>1. rcvd'[s] = rcvd[s]
    BY <1>1, <1>2 DEF Transfer, Base, Fields
  <2>2. QED BY <2>1
<1>3. CASE c.type = "IO_RECV" /\ c.sess = s
  <2>1. PICK bytes : bytes = NextBytes(s, n)
    OBVIOUS
  <2>2. rcvd'[s] = rcvd[s] \o bytes
    BY <1>1, <1>3, <2>1 DEF Transfer, Base, Fields
  <2>3. stamp[s] \in Nat /\ rcvd[s] \in Seq(Nat)
    BY DEF Bytes, Stream
  <2>4. n \in Nat
    <3>1. n = 0 \/ n \in 1..GetFreeSpaceSize(mRecvBuffer[s])
      BY <1>3, OutcomeOf
    <3>2. GetFreeSpaceSize(mRecvBuffer[s]) \in 0..Cap
      BY ProbeOK DEF Bytes, RecvSide
    <3>3. QED BY <3>1, <3>2, CapAssumption
  <2>5. bytes \in Seq(Nat)
    <3>1. \A i \in 1..n : stamp[s] + i \in Nat
      BY <2>3, <2>4
    <3>2. bytes \in [1..n -> Nat]
      BY <2>1, <3>1 DEF NextBytes
    <3>3. QED BY <2>4, <3>2, FunctionIsSeq
  <2>6. Len(rcvd[s] \o bytes) = Len(rcvd[s]) + Len(bytes) /\ Len(rcvd[s]) \in Nat /\ Len(bytes) \in Nat
    BY <2>3, <2>5
  <2>7. Len(rcvd[s] \o bytes) = 0
    BY <2>2
  <2>8. Len(rcvd[s]) = 0
    BY <2>6, <2>7
  <2>9. QED BY <2>3, <2>8
<1>4. QED BY <1>2, <1>3

\* A completed send is still the one its bytes are taken by; a failed one closes
\* the session.
LEMMA AwakeOfDequeue ==
  ASSUME Base, Base', Live, Bytes, Awake, NEW w \in Workers, NEW c \in ios, Dequeue(w, c)
  PROVE  Awake'
<1>1. PICK n \in Outcomes(c) : /\ ctx' = [ctx EXCEPT ![w] = [c EXCEPT !.n = n]]
                               /\ Goto(w, Handler(c, n))
  BY DEF Dequeue
<1>2. /\ UNCHANGED <<sendList, mSendBuffer, mFreeSessionList, mConnected>>
      /\ pc[w] = "gqcs" /\ Others(w) /\ ios' = ios \ {c} /\ ~Returning(w)
  BY DequeueEffect DEF Dequeue, sendVars, poolVars, countVars, Returning
<1>3. PICK s \in Sessions : s = c.sess /\ Remote(w)' = s
  BY DequeueEffect
<1>4. \A t : InUse(t)' => InUse(t)
  BY <1>2, InUseKept
<1>5. \A t \in Sessions : rcvd'[t] = << >> => rcvd[t] = << >>
  BY ReceivedGrows
<1>6. \A t \in Sessions : KeepsEnough(FlushesDue(t), FlushesDue(t)')
  <2>1. pc'[w] # "flushed"
    BY DequeueEffect DEF Holding
  <2>2. QED BY <1>2, <2>1, EntriesStay
<1>7. CASE c.type # "IO_SEND"
  <2>1. pc'[w] \notin {"sendCompletion", "flushed"}
    BY <1>7, DequeueEffect DEF Holding
  <2>2. QED BY <1>2, <1>4, <1>5, <1>7, <2>1, AwakeOfQuiet
<1>8. CASE c.type = "IO_SEND"
  <2>1. pc'[w] = (IF n = 0 THEN "disconnect" ELSE "sendCompletion")
    <3>1. pc'[w] = Handler(c, n)
      BY <1>1 DEF Goto, Base, IInv, ControlInv
    <3>2. QED BY <1>8, <3>1 DEF Handler
  <2>2. ctx'[w].len = c.len
    <3>1. ctx'[w] = [c EXCEPT !.n = n] /\ Sound(c)
      BY <1>1 DEF Base, IInv, ControlInv
    <3>2. QED BY <3>1 DEF Sound
  <2>3. Woken(s) /\ Fresh(s)'
    BY <1>2, <1>4, <1>5 DEF Awake, Woken, Fresh
  <2>4. CASE n = 0
    <3>1. w \in At("disconnect", s)'
      BY <1>3, <2>1, <2>4 DEF At
    <3>2. ASSUME NEW t \in Sessions \ {s} PROVE Woken(t)'
      <4>1. Woken(t) /\ SendIos(t)' = SendIos(t)
        BY <1>2, <1>3 DEF Awake, SendIos
      <4>2. QED BY <1>2, <1>3, <1>4, <1>5, <1>6, <4>1, QuietSession
    <3>3. Woken(s)'
      BY <2>3, <3>1 DEF Woken, Calm
    <3>4. ListsBounded'
      BY <1>2 DEF Awake, ListsBounded
    <3>5. QED BY <3>2, <3>3, <3>4 DEF Awake
  <2>5. CASE n # 0
    <3>1. w \in SendWorkers(s)' /\ c \in SendIos(s)
      BY <1>3, <1>8, <2>1, <2>5 DEF SendWorkers, SendIos
    <3>2. Taken(s)' = Taken(s)
      <4>1. TakenIsKnown
        BY TakenFromSends
      <4>2. TakenIsKnown'
        BY TakenFromSends, PTL
      <4>3. QED BY <2>2, <3>1, <4>1, <4>2 DEF TakenIsKnown
    <3>3. ASSUME Calm(s)' PROVE Enough(FlushesDue(s), WaitsA(s), WaitsB(s))'
      <4>1. At("disconnect", s)' = At("disconnect", s)
        BY <1>2, <2>1, <2>5, SameAt
      <4>2. Enough(FlushesDue(s), WaitsA(s), WaitsB(s))
        BY <1>2, <2>3, <3>3, <4>1 DEF Calm, Woken
      <4>3. WaitsA(s)' = WaitsA(s) /\ WaitsB(s)' = WaitsB(s)
        BY <1>2, <3>2 DEF WaitsA, WaitsB
      <4>4. KeepsEnough(FlushesDue(s), FlushesDue(s)')
        BY <1>6
      <4>5. QED BY <4>2, <4>3, <4>4 DEF Enough, KeepsEnough
    <3>4. ASSUME NEW t \in Sessions \ {s} PROVE Woken(t)'
      <4>1. Woken(t) /\ SendIos(t)' = SendIos(t)
        BY <1>2, <1>3 DEF Awake, SendIos
      <4>2. QED BY <1>2, <1>3, <1>4, <1>5, <1>6, <4>1, QuietSession
    <3>5. Woken(s)'
      BY <2>3, <3>3 DEF Woken
    <3>6. ListsBounded'
      BY <1>2 DEF Awake, ListsBounded
    <3>7. QED BY <3>4, <3>5, <3>6 DEF Awake
  <2>6. QED BY <2>4, <2>5
<1>9. QED BY <1>7, <1>8

\* A session the main thread does nothing to.
LEMMA StillSession ==
  ASSUME Base, Base', NEW s \in Sessions, Woken(s), UNCHANGED <<pc, ctx, sendList>>,
         mSendBuffer'[s] = mSendBuffer[s], SendIos(s)' = SendIos(s), mConnected'[s] = mConnected[s],
         rcvd'[s] = rcvd[s], InFreeList(s)' = InFreeList(s)
  PROVE  Woken(s)'
<1>1. /\ At("disconnect", s)' = At("disconnect", s) /\ SendWorkers(s)' = SendWorkers(s)
      /\ Returners(s)' = Returners(s) /\ FlushesDue(s)' = FlushesDue(s)
  BY DEF At, SendWorkers, Returners, Returning, Remote, FlushesDue
<1>2. Taken(s)' = Taken(s)
  BY <1>1, TakenStays
<1>3. WaitsA(s)' = WaitsA(s) /\ WaitsB(s)' = WaitsB(s)
  BY <1>2 DEF WaitsA, WaitsB
<1>4. Fresh(s)' = Fresh(s) /\ Calm(s)' = Calm(s)
  BY <1>1 DEF Fresh, InUse, Calm
<1>5. QED BY <1>1, <1>3, <1>4 DEF Woken, Enough

\* A session that is issued is clean.
LEMMA AwakeOfAccept ==
  ASSUME Base, Base', Live, Awake, Accept
  PROVE  Awake'
<1>1. UNCHANGED <<pc, ctx, sendList, mSendBuffer, mConnected>>
  BY DEF Accept, AcceptEnter, AcceptIssue, AcceptLeave, workerVars, sendVars, countVars
<1>2. ListsBounded'
  BY <1>1 DEF Awake, ListsBounded
<1>3. CASE UNCHANGED <<ios, rcvd, mFreeSessionList>>
  <2>1. ASSUME NEW s \in Sessions PROVE Woken(s)'
    <3>1. Woken(s) /\ SendIos(s)' = SendIos(s) /\ InFreeList(s)' = InFreeList(s)
      BY <1>3 DEF Awake, SendIos, InFreeList
    <3>2. QED BY <1>1, <1>3, <3>1, StillSession
  <2>2. QED BY <1>2, <2>1 DEF Awake
<1>4. CASE AcceptIssue
  <2>1. PICK s \in Sessions :
          /\ InFreeList(s)
          /\ \A t : InFreeList(t)' <=> InFreeList(t) /\ t # s
          /\ rcvd' = [rcvd EXCEPT ![s] = << >>]
          /\ \/ ios' = ios \cup {[Context("IO_ACCEPT", s, 0, 0) EXCEPT !.gen = @ + 1]}
             \/ UNCHANGED ios
    BY <1>4, IssueEffect
  <2>2. \A c : c.type = "IO_SEND" => (c \in ios' <=> c \in ios)
    <3>1. [Context("IO_ACCEPT", s, 0, 0) EXCEPT !.gen = @ + 1].type = "IO_ACCEPT"
      BY DEF Context
    <3>2. QED BY <2>1, <3>1
  <2>3. Woken(s)'
    <3>1. mConnected'[s] = 0 /\ mSendBuffer'[s] = BufferReset
      BY <1>1, <2>1, IdleIsUnreferred DEF Live, Clean
    <3>2. QED BY <3>1 DEF Woken, Fresh, Calm, BufferReset
  <2>4. ASSUME NEW t \in Sessions \ {s} PROVE Woken(t)'
    <3>1. Woken(t) /\ SendIos(t)' = SendIos(t)
      BY <2>2 DEF Awake, SendIos
    <3>2. InFreeList(t)' = InFreeList(t)
      <4>1. InFreeList(t)' <=> InFreeList(t)
        BY <2>1
      <4>2. QED BY <4>1 DEF InFreeList
    <3>3. rcvd'[t] = rcvd[t]
      BY <2>1 DEF Base, Fields
    <3>4. QED BY <1>1, <3>1, <3>2, <3>3, StillSession
  <2>5. QED BY <1>2, <2>3, <2>4 DEF Awake
<1>5. QED BY <1>3, <1>4 DEF Accept, AcceptEnter, AcceptLeave, byteVars

\* One step per action of a worker.
LEMMA StepKeepsAwake ==
  ASSUME Base, Base', Live, Bytes, Bytes', Awake, NEW w \in Workers, Step(w)
  PROVE  Awake'
<1>1. CASE \/ AcceptSetup(w)
           \/ PreRecv(w) \/ PreRecvCall(w) \/ PostRecv(w) \/ PostRecvCall(w) \/ RecvCompletion(w)
           \/ DisconnectRequest(w) \/ DisconnectCall(w) \/ ReturnClientSession(w)
           \/ SessionReset(w) \/ SendJob(w)
  BY <1>1, AwakeOfWalk
<1>2. CASE DisconnectCompletion(w) \/ DeleteIoContext(w) \/ FlushRelease(w)
  BY <1>2, AwakeOfRelease
<1>3. CASE AcceptCompletion(w)
  BY <1>3, AwakeOfAcceptCompletion
<1>4. CASE SendCompletion(w)
  BY <1>4, AwakeOfSendCompletion
<1>5. CASE PostSend(w)
  BY <1>5, AwakeOfPostSend
<1>6. CASE SessionResetSend(w)
  BY <1>6, AwakeOfSessionResetSend
<1>7. CASE FlushNothing(w)
  BY <1>7, AwakeOfFlushNothing
<1>8. CASE FlushSend(w)
  BY <1>8, AwakeOfFlushSend
<1>9. CASE Flushed(w)
  BY <1>9, AwakeOfFlushed
<1>10. QED
  BY <1>1, <1>2, <1>3, <1>4, <1>5, <1>6, <1>7, <1>8, <1>9 DEF Step

\* Nobody is connected at first, and nothing is stored.
LEMMA InitAwake == Init => Awake
<1> SUFFICES ASSUME Init PROVE Awake
  OBVIOUS
<1>1. /\ \A w \in Workers : sendList[w] = << >>
      /\ \A s \in Sessions : mConnected[s] = 0 /\ mSendBuffer[s] = BufferReset
  BY DEF Init
<1>2. ListsBounded
  <2>1. 0 \in Nat /\ Len(<< >>) <= 0
    OBVIOUS
  <2>2. QED BY <1>1, <2>1 DEF ListsBounded
<1>3. ASSUME NEW s \in Sessions PROVE Woken(s)
  BY <1>1 DEF Woken, Fresh, Calm, BufferReset
<1>4. QED BY <1>2, <1>3 DEF Awake

\* The invariant of the wake-ups, beside that of the bytes.
WakeInv == ByteInv /\ (~resurrected => Awake)

LEMMA WakeInvIsInductive ==
  /\ Init => WakeInv
  /\ WakeInv /\ [Next]_vars => WakeInv'
<1>1. Init => WakeInv
  BY InitAwake, ByteInvIsInductive DEF WakeInv
<1>2. ASSUME WakeInv, [Next]_vars PROVE WakeInv'
  <2>1. ByteInv'
    BY <1>2, ByteInvIsInductive DEF WakeInv
  <2>2. ASSUME ~resurrected' PROVE Awake'
    <3>1. Base /\ Live /\ Bytes /\ Awake
      BY <1>2, <2>2, RevivalLasts DEF WakeInv, ByteInv, RefInv
    <3>2. Base' /\ Bytes'
      BY <2>1, <2>2 DEF ByteInv, RefInv
    <3>3. CASE Accept
      BY <3>1, <3>2, <3>3, AwakeOfAccept
    <3>4. ASSUME NEW w \in Workers, NEW c \in ios, Dequeue(w, c) PROVE Awake'
      BY <3>1, <3>2, <3>4, AwakeOfDequeue
    <3>5. ASSUME NEW w \in Workers, Step(w) PROVE Awake'
      BY <3>1, <3>2, <3>5, StepKeepsAwake
    <3>6. CASE UNCHANGED vars
      <4>1. UNCHANGED <<mFreeSessionList, mConnected, mSendBuffer, pc, ctx, sendList, ios, rcvd>>
        BY <3>6 DEF vars, poolVars, countVars, sendVars, workerVars, byteVars
      <4>2. ASSUME NEW s \in Sessions PROVE Woken(s)'
        <5>1. Woken(s) /\ SendIos(s)' = SendIos(s) /\ InFreeList(s)' = InFreeList(s)
          BY <3>1, <4>1 DEF Awake, SendIos, InFreeList
        <5>2. QED BY <3>1, <3>2, <4>1, <5>1, StillSession
      <4>3. ListsBounded'
        BY <3>1, <4>1 DEF Awake, ListsBounded
      <4>4. QED BY <4>2, <4>3 DEF Awake
    <3>7. QED BY <1>2, <3>3, <3>4, <3>5, <3>6 DEF Next, GetQueuedCompletionStatus
  <2>3. QED BY <2>1, <2>2 DEF WakeInv
<1>3. QED BY <1>1, <1>2

-----------------------------------------------------------------------------
(* What follows from it.                                                     *)

\* Only a finite number of flushes is ever due.
LEMMA FlushesAreFinite ==
  ASSUME Base, ListsBounded, NEW s
  PROVE  IsFiniteSet(FlushesDue(s))
<1>1. PICK m \in Nat : \A w \in Workers : Len(sendList[w]) <= m
  BY DEF ListsBounded
<1>2. IsFiniteSet(Workers \X (1..m))
  <2>1. IsFiniteSet(1..m)
    BY FS_Interval
  <2>2. QED BY <2>1, WorkersAssumption, FS_Product
<1>3. FlushesDue(s) \subseteq Workers \X (1..m)
  <2>1. ASSUME NEW e \in FlushesDue(s) PROVE e \in Workers \X (1..m)
    <3>0. PICK v \in Workers : \E i : e = <<v, i>>
      BY EntriesDue
    <3>1. PICK i : e = <<v, i>>
      BY <3>0
    <3>2. i \in DOMAIN sendList[v]
      BY <3>1, EntriesDue
    <3>3. PICK q \in Seq(Sessions) : q = sendList[v]
      BY DEF Base, IInv, ControlInv
    <3>4. i \in 1..Len(q) /\ Len(q) \in Nat /\ Len(q) <= m
      BY <1>1, <3>2, <3>3
    <3>5. i \in 1..m
      BY <3>4
    <3>6. QED BY <3>1, <3>5
  <2>2. QED BY <2>1
<1>4. QED BY <1>2, <1>3, FS_Subset

\* Enough, counted.
LEMMA EnoughIsAsMany ==
  ASSUME NEW F, IsFiniteSet(F), NEW a \in BOOLEAN, NEW b \in BOOLEAN, Enough(F, a, b)
  PROVE  Cardinality((IF a THEN {"A"} ELSE {}) \cup (IF b THEN {"B"} ELSE {})) <= Cardinality(F)
<1>1. /\ IsFiniteSet({}) /\ Cardinality({}) = 0 /\ Cardinality(F) \in Nat
      /\ Cardinality(F) = 0 => F = {}
  BY FS_EmptySet, FS_CardinalityType
<1>2. \A x : IsFiniteSet({x}) /\ Cardinality({x}) = 1
  BY FS_Singleton
<1>3. \A x, y : x # y => Cardinality({x, y}) = 2
  <2>1. ASSUME NEW x, NEW y, x # y PROVE Cardinality({x, y}) = 2
    <3>1. Cardinality({x} \cup {y}) = 1 + 1
      <4>1. IsFiniteSet({x}) /\ Cardinality({x}) = 1 /\ y \notin {x}
        BY <1>2, <2>1
      <4>2. Cardinality({x} \cup {y}) = IF y \in {x} THEN Cardinality({x}) ELSE Cardinality({x}) + 1
        BY <4>1, FS_AddElement
      <4>3. QED BY <4>1, <4>2
    <3>2. {x} \cup {y} = {x, y}
      OBVIOUS
    <3>3. QED BY <3>1, <3>2
  <2>2. QED BY <2>1
<1>4. CASE ~a /\ ~b
  <2>1. (IF a THEN {"A"} ELSE {}) \cup (IF b THEN {"B"} ELSE {}) = {}
    BY <1>4
  <2>2. QED BY <1>1, <2>1
<1>5. CASE a /\ b
  <2>1. (IF a THEN {"A"} ELSE {}) \cup (IF b THEN {"B"} ELSE {}) = {"A", "B"}
    BY <1>5
  <2>2. PICK x \in F, y \in F : x # y
    BY <1>5 DEF Enough
  <2>3. {x, y} \in SUBSET F
    OBVIOUS
  <2>4. Cardinality({x, y}) <= Cardinality(F)
    BY <2>3, FS_Subset
  <2>5. Cardinality({"A", "B"}) = 2 /\ Cardinality({x, y}) = 2
    BY <1>3, <2>2
  <2>6. QED BY <2>1, <2>4, <2>5
<1>6. ASSUME a \/ b, ~(a /\ b)
      PROVE  Cardinality((IF a THEN {"A"} ELSE {}) \cup (IF b THEN {"B"} ELSE {})) <= Cardinality(F)
  <2>1. Cardinality((IF a THEN {"A"} ELSE {}) \cup (IF b THEN {"B"} ELSE {})) = 1
    <3>1. (IF a THEN {"A"} ELSE {}) \cup (IF b THEN {"B"} ELSE {}) = {IF a THEN "A" ELSE "B"}
      BY <1>6
    <3>2. QED BY <1>2, <3>1
  <2>2. F # {}
    BY <1>6 DEF Enough
  <2>3. QED BY <1>1, <2>1, <2>2
<1>7. QED BY <1>4, <1>5, <1>6

\* No wake-up is lost (Session.cpp:95-168, WorkerThread.cpp:129-142): a
\* worker that finds a send pending, or sends one of two runs of bytes, leaves
\* behind as many flushes as there are runs, whichever worker does what and when.
THEOREM WakeUpsAreKept == Spec => []UnsentBytesHaveFlusher
<1>1. ASSUME WakeInv PROVE UnsentBytesHaveFlusher
  <2>1. SUFFICES ASSUME NEW s \in Sessions, ~resurrected, IsConnected(s),
                        \A w \in Workers : pc[w] = "disconnect" => Remote(w) # s
                 PROVE  Cardinality(UnsentRuns(s)) <= Cardinality(FlushesDue(s))
    BY DEF UnsentBytesHaveFlusher
  <2>2. Base /\ Bytes /\ Awake
    BY <1>1, <2>1 DEF WakeInv, ByteInv, RefInv
  <2>3. Calm(s)
    BY <2>1 DEF Calm, IsConnected, At
  <2>4. Enough(FlushesDue(s), WaitsA(s), WaitsB(s))
    BY <2>2, <2>3 DEF Awake, Woken
  <2>5. UnsentRuns(s) = (IF WaitsA(s) THEN {"A"} ELSE {}) \cup (IF WaitsB(s) THEN {"B"} ELSE {})
    BY DEF UnsentRuns, WaitsA, WaitsB, Taken
  <2>6. IsFiniteSet(FlushesDue(s))
    BY <2>2, FlushesAreFinite DEF Awake
  <2>7. WaitsA(s) \in BOOLEAN /\ WaitsB(s) \in BOOLEAN
    BY DEF WaitsA, WaitsB
  <2>8. QED BY <2>4, <2>5, <2>6, <2>7, EnoughIsAsMany
<1>2. QED BY <1>1, WakeInvIsInductive, PTL DEF Spec

-----------------------------------------------------------------------------
(***************************************************************************)
(* Types.  Most of them are parts of the invariants above; the locks, the  *)
(* status and the pieces of memory the contexts name are left.             *)
(***************************************************************************)

Owned ==
  /\ status \in {"running", "crashed", "exited"} /\ mainPc \in {"accept", "loop"}
  /\ mLock \in Owners /\ mSendBufferLock \in [Sessions -> Owners]
  /\ resurrected \in BOOLEAN

Piece(c) == c.gen \in Nat /\ c.at \in Nat /\ c.len \in Nat /\ c.n \in Nat

Pieces ==
  /\ \A c \in ios : Piece(c)
  /\ \A w \in Workers : ctx[w] # NoContext => Piece(ctx[w])

LEMMA AcceptKeepsOwned == ASSUME Owned, Accept PROVE Owned'
<1> USE DEF Owned, Owners, sendVars, historyVars
<1>1. CASE AcceptEnter
  BY <1>1 DEF AcceptEnter
<1>2. CASE AcceptIssue
  BY <1>2 DEF AcceptIssue
<1>3. CASE AcceptLeave
  BY <1>3 DEF AcceptLeave
<1>4. QED BY <1>1, <1>2, <1>3 DEF Accept

LEMMA StepKeepsOwned == ASSUME Owned, NEW w \in Workers, Step(w) PROVE Owned'
<1> USE DEF Owned, Owners, poolVars, sendVars, historyVars
<1>1. CASE \/ PreRecv(w) \/ PreRecvCall(w) \/ PostRecv(w) \/ PostRecvCall(w)
           \/ SendCompletion(w) \/ RecvCompletion(w) \/ PostSend(w)
           \/ DisconnectRequest(w) \/ DisconnectCall(w) \/ SessionReset(w)
           \/ SendJob(w) \/ FlushNothing(w)
  BY <1>1 DEF PreRecv, PreRecvCall, PostRecv, PostRecvCall, SendCompletion, RecvCompletion,
              PostSend, DisconnectRequest, DisconnectCall, SessionReset, SendJob, FlushNothing
<1>2. CASE AcceptCompletion(w) \/ AcceptSetup(w)
  BY <1>2 DEF AcceptCompletion, AcceptSetup
<1>3. CASE DisconnectCompletion(w) \/ DeleteIoContext(w) \/ FlushRelease(w)
  BY <1>3 DEF DisconnectCompletion, DeleteIoContext, FlushRelease, ReleaseRef
<1>4. CASE ReturnClientSession(w)
  BY <1>4 DEF ReturnClientSession
<1>5. CASE SessionResetSend(w)
  BY <1>5 DEF SessionResetSend
<1>6. CASE FlushSend(w)
  <2>1. UNCHANGED <<status, mainPc, mLock>>
    BY <1>6 DEF FlushSend
  <2>2. resurrected' \in BOOLEAN
    BY <1>6 DEF FlushSend
  <2>3. mSendBufferLock' \in [Sessions -> Owners]
    BY <1>6 DEF FlushSend
  <2>4. QED BY <2>1, <2>2, <2>3
<1>7. CASE Flushed(w)
  <2>1. UNCHANGED <<status, mainPc, mLock, resurrected>>
    BY <1>7 DEF Flushed
  <2>2. mSendBufferLock' \in [Sessions -> Owners]
    BY <1>7 DEF Flushed
  <2>3. QED BY <2>1, <2>2
<1>8. QED BY <1>1, <1>2, <1>3, <1>4, <1>5, <1>6, <1>7 DEF Step

\* What is posted is a piece; what a worker has in hand it keeps or deletes.
LEMMA PiecesStay ==
  ASSUME Pieces, \A c \in ios' : c \in ios \/ Piece(c),
         \A v \in Workers : ctx'[v] = ctx[v] \/ ctx'[v] = NoContext
  PROVE  Pieces'
  BY DEF Pieces, Piece

LEMMA ContextIsPiece ==
  ASSUME Base, NEW type, NEW s \in Sessions, NEW at \in Nat, NEW len \in Nat
  PROVE  Piece(Context(type, s, at, len))
<1>1. gen[s] \in Nat
  BY DEF Base, Fields
<1>2. QED BY <1>1 DEF Piece, Context

LEMMA LastFreeSession ==
  ASSUME Base, AcceptIssue
  PROVE  mFreeSessionList[Len(mFreeSessionList)] \in Sessions
<1>1. mFreeSessionList \in Seq(Sessions) /\ Len(mFreeSessionList) \in Nat \ {0}
  BY NIsNat DEF AcceptIssue, BelowMaximum, Base, IInv, PoolInv, N
<1>2. QED BY <1>1

\* Where the next byte goes, and how many have room.
LEMMA PlaceToReceive ==
  ASSUME NEW b, BufferOK(b)
  PROVE  GetBuffer(b) \in Nat /\ GetFreeSpaceSize(b) \in Nat
<1>1. GetBuffer(b) \in Nat
  BY BufferFields DEF GetBuffer
<1>2. GetFreeSpaceSize(b) \in 0..Cap /\ Cap \in Nat
  BY ProbeOK, CapAssumption
<1>3. QED BY <1>1, <1>2

LEMMA PiecesOfAccept == ASSUME Base, Pieces, Accept PROVE Pieces'
<1>1. UNCHANGED ctx
  BY DEF Accept, AcceptEnter, AcceptIssue, AcceptLeave, workerVars
<1>2. ASSUME NEW c \in ios', c \notin ios PROVE Piece(c)
  <2>1. AcceptIssue
    BY <1>2 DEF Accept, AcceptEnter, AcceptLeave
  <2>2. PICK s : s = mFreeSessionList[Len(mFreeSessionList)] /\ c = [Context("IO_ACCEPT", s, 0, 0) EXCEPT !.gen = @ + 1]
    BY <1>2, <2>1 DEF AcceptIssue
  <2>3. s \in Sessions
    BY <2>1, <2>2, LastFreeSession
  <2>4. gen[s] \in Nat
    BY <2>3 DEF Base, Fields
  <2>5. QED BY <2>2, <2>4 DEF Piece, Context
<1>3. QED BY <1>1, <1>2, PiecesStay

LEMMA PiecesOfStep == ASSUME Base, Bytes, Pieces, NEW w \in Workers, Step(w) PROVE Pieces'
<1>1. ctx = [v \in Workers |-> ctx[v]]
  BY DEF Base, IInv, ControlInv
<1>2. CASE \/ AcceptCompletion(w) \/ AcceptSetup(w) \/ PreRecv(w) \/ PostRecv(w)
           \/ SendCompletion(w) \/ RecvCompletion(w) \/ PostSend(w)
           \/ DisconnectRequest(w) \/ ReturnClientSession(w) \/ SessionReset(w)
           \/ SendJob(w) \/ FlushNothing(w) \/ Flushed(w)
  <2>1. UNCHANGED <<ctx, ios>>
    BY <1>2 DEF AcceptCompletion, AcceptSetup, PreRecv, PostRecv, SendCompletion, RecvCompletion,
                PostSend, DisconnectRequest, ReturnClientSession, SessionReset, SendJob, FlushNothing, Flushed
  <2>2. QED BY <2>1, PiecesStay
<1>3. CASE DisconnectCompletion(w) \/ DeleteIoContext(w) \/ FlushRelease(w) \/ SessionResetSend(w)
  <2>1. UNCHANGED ios /\ (ctx' = ctx \/ ctx' = [ctx EXCEPT ![w] = NoContext])
    BY <1>3 DEF DisconnectCompletion, DeleteIoContext, FlushRelease, SessionResetSend, ReleaseRef, Resume
  <2>2. \A v \in Workers : ctx'[v] = ctx[v] \/ ctx'[v] = NoContext
    BY <1>1, <2>1
  <2>3. QED BY <2>1, <2>2, PiecesStay
<1>4. CASE PreRecvCall(w) \/ DisconnectCall(w)
  <2>1. PICK s \in Sessions : s = Remote(w)
    BY <1>4, KindInHand DEF PreRecvCall, DisconnectCall
  <2>2. UNCHANGED ctx /\ \A c \in ios' : c \in ios \/ \E type : c = Context(type, s, 0, 0)
    BY <1>4, <2>1 DEF PreRecvCall, DisconnectCall, Post, Refused
  <2>3. QED BY <2>1, <2>2, ContextIsPiece, PiecesStay
<1>5. CASE PostRecvCall(w)
  <2>1. PICK s \in Sessions : s = Remote(w)
    BY <1>5, KindInHand DEF PostRecvCall
  <2>2. PICK at, len : at = GetBuffer(mRecvBuffer[s]) /\ len = GetFreeSpaceSize(mRecvBuffer[s])
    OBVIOUS
  <2>3. UNCHANGED ctx /\ \A c \in ios' : c \in ios \/ c = Context("IO_RECV", s, at, len)
    BY <1>5, <2>1, <2>2 DEF PostRecvCall, Post, Refused
  <2>4. at \in Nat /\ len \in Nat
    BY <2>2, PlaceToReceive DEF Bytes, RecvSide
  <2>5. QED BY <2>1, <2>3, <2>4, ContextIsPiece, PiecesStay
<1>6. CASE FlushSend(w)
  <2>1. PICK s \in Sessions : s = Remote(w)
    BY <1>6, KindInHand DEF FlushSend
  <2>2. PICK at, len : at = GetBufferStart(mSendBuffer[s]) /\ len = GetContiguiousBytes(mSendBuffer[s])
    OBVIOUS
  <2>3. UNCHANGED ctx /\ \A c \in ios' : c \in ios \/ c = Context("IO_SEND", s, at, len)
    BY <1>6, <2>1, <2>2 DEF FlushSend, Post
  <2>4. at \in Nat /\ len \in Nat
    <3>1. BufferOK(mSendBuffer[s]) /\ len > 0
      BY <1>6, <2>1, <2>2 DEF FlushSend, Bytes, SendSide
    <3>2. QED BY <2>2, <3>1, BufferFields DEF GetBufferStart, GetContiguiousBytes
  <2>5. QED BY <2>1, <2>3, <2>4, ContextIsPiece, PiecesStay
<1>7. QED BY <1>2, <1>3, <1>4, <1>5, <1>6 DEF Step

LEMMA PiecesOfDequeue ==
  ASSUME Base, Bytes, Pieces, NEW w \in Workers, NEW c \in ios, Dequeue(w, c)
  PROVE  Pieces'
<1>1. PICK n \in Outcomes(c) : ctx' = [ctx EXCEPT ![w] = [c EXCEPT !.n = n]]
  BY DEF Dequeue
<1>2. ios' = ios \ {c} /\ Others(w) /\ c.type \in IOTypes
  BY DequeueEffect
<1>3. n \in Nat
  <2>1. CASE c.type \in {"IO_SEND", "IO_RECV"}
    <3>1. SendSide(c.sess) /\ RecvSide(c.sess)
      BY OutcomeOf DEF Bytes
    <3>2. GetContiguiousBytes(mSendBuffer[c.sess]) \in Nat
      BY <3>1, BufferFields DEF SendSide, GetContiguiousBytes
    <3>3. GetFreeSpaceSize(mRecvBuffer[c.sess]) \in Nat
      BY <3>1, PlaceToReceive DEF RecvSide
    <3>4. QED BY <2>1, <3>2, <3>3, OutcomeOf
  <2>2. CASE c.type \notin {"IO_SEND", "IO_RECV"}
    BY <1>1, <1>2, <2>2 DEF Outcomes, IOTypes
  <2>3. QED BY <2>1, <2>2
<1>4. Piece(ctx'[w])
  <2>1. Sound(c) /\ Piece(c) /\ ctx = [v \in Workers |-> ctx[v]]
    BY DEF Base, IInv, ControlInv, Pieces
  <2>2. ctx'[w] = [c EXCEPT !.n = n]
    BY <1>1, <2>1
  <2>3. QED BY <1>3, <2>1, <2>2 DEF Sound, Piece
<1>5. \A v \in Workers \ {w} : ctx'[v] = ctx[v]
  BY <1>2 DEF Others
<1>6. QED BY <1>2, <1>4, <1>5 DEF Pieces, Piece

\* The invariant of the types, beside that of the bytes.
TypeInv == ByteInv /\ Owned /\ (~resurrected => Pieces)

LEMMA TypeInvIsInductive ==
  /\ Init => TypeInv
  /\ TypeInv /\ [Next]_vars => TypeInv'
<1>1. ASSUME Init PROVE TypeInv
  <2>1. Owned
    BY <1>1 DEF Init, Owned, Owners
  <2>2. ios = {} /\ \A w \in Workers : ctx[w] = NoContext
    BY <1>1 DEF Init
  <2>3. QED BY <1>1, <2>1, <2>2, ByteInvIsInductive DEF TypeInv, Pieces
<1>2. ASSUME TypeInv, [Next]_vars PROVE TypeInv'
  <2>1. ByteInv'
    BY <1>2, ByteInvIsInductive DEF TypeInv
  <2>2. CASE UNCHANGED vars
    <3>1. /\ UNCHANGED <<status, mainPc, mLock, mSendBufferLock, resurrected, ios, ctx>>
      BY <2>2 DEF vars, poolVars, sendVars, workerVars, historyVars
    <3>2. Owned'
      BY <1>2, <3>1 DEF TypeInv, Owned
    <3>3. Pieces => Pieces'
      BY <3>1 DEF Pieces
    <3>4. QED BY <1>2, <2>1, <3>1, <3>2, <3>3 DEF TypeInv
  <2>3. CASE Accept
    <3>1. Owned'
      BY <1>2, <2>3, AcceptKeepsOwned DEF TypeInv
    <3>2. ASSUME ~resurrected' PROVE Pieces'
      BY <1>2, <2>3, <3>2, RevivalLasts, PiecesOfAccept DEF TypeInv, ByteInv, RefInv
    <3>3. QED BY <2>1, <3>1, <3>2 DEF TypeInv
  <2>4. ASSUME NEW w \in Workers, NEW c \in ios, Dequeue(w, c) PROVE TypeInv'
    <3>1. Owned'
      BY <1>2, <2>4 DEF TypeInv, Owned, Dequeue, poolVars, sendVars, historyVars
    <3>2. ASSUME ~resurrected' PROVE Pieces'
      BY <1>2, <2>4, <3>2, RevivalLasts, PiecesOfDequeue DEF TypeInv, ByteInv, RefInv
    <3>3. QED BY <2>1, <3>1, <3>2 DEF TypeInv
  <2>5. ASSUME NEW w \in Workers, Step(w) PROVE TypeInv'
    <3>1. Owned'
      BY <1>2, <2>5, StepKeepsOwned DEF TypeInv
    <3>2. ASSUME ~resurrected' PROVE Pieces'
      BY <1>2, <2>5, <3>2, RevivalLasts, PiecesOfStep DEF TypeInv, ByteInv, RefInv
    <3>3. QED BY <2>1, <3>1, <3>2 DEF TypeInv
  <2>6. QED BY <1>2, <2>2, <2>3, <2>4, <2>5 DEF Next, GetQueuedCompletionStatus
<1>3. QED BY <1>1, <1>2

\* Until a session is revived every variable has its type, above all the buffers
\* (CircularBuffer.cpp): no commit or removal, by any worker, takes a region past
\* the end of the memory or below nothing.
THEOREM TypesUntilRevival == Spec => [](~resurrected => TypeOK)
<1>1. ASSUME TypeInv, ~resurrected PROVE TypeOK
  <2>1. Base /\ Bytes /\ Owned /\ Pieces
    BY <1>1 DEF TypeInv, ByteInv, RefInv
  <2>2. ASSUME NEW c, Sound(c), Piece(c) PROVE c \in Contexts
    <3>1. c = [type |-> c.type, sess |-> c.sess, gen |-> c.gen, at |-> c.at, len |-> c.len, n |-> c.n]
      BY <2>2 DEF Sound
    <3>2. /\ c.type \in IOTypes /\ c.sess \in Sessions
          /\ c.gen \in Nat /\ c.at \in Nat /\ c.len \in Nat /\ c.n \in Nat
      BY <2>2 DEF Sound, Piece
    <3>3. QED BY <3>1, <3>2 DEF Contexts
  <2>3. ios \subseteq Contexts
    BY <2>1, <2>2 DEF Base, IInv, ControlInv, Pieces
  <2>4. ctx \in [Workers -> Contexts \cup {NoContext}]
    <3>1. \A w \in Workers : ctx[w] \in Contexts \cup {NoContext}
      BY <2>1, <2>2 DEF Base, IInv, ControlInv, Pieces
    <3>2. ctx = [w \in Workers |-> ctx[w]]
      BY <2>1 DEF Base, IInv, ControlInv
    <3>3. QED BY <3>1, <3>2
  <2>5. mSendBuffer \in [Sessions -> Buffers] /\ mRecvBuffer \in [Sessions -> Buffers]
    <3>1. \A s \in Sessions : mSendBuffer[s] \in Buffers /\ mRecvBuffer[s] \in Buffers
      BY <2>1 DEF Bytes, SendSide, RecvSide, BufferOK
    <3>2. mSendBuffer = [s \in Sessions |-> mSendBuffer[s]] /\ mRecvBuffer = [s \in Sessions |-> mRecvBuffer[s]]
      BY <2>1 DEF Base, Fields
    <3>3. QED BY <3>1, <3>2
  <2>6. /\ stamp \in [Sessions -> Nat] /\ rcvd \in [Sessions -> Seq(Nat)]
        /\ wire \in [Sessions -> Seq(Nat)]
    <3>1. \A s \in Sessions : stamp[s] \in Nat /\ rcvd[s] \in Seq(Nat) /\ wire[s] \in Seq(Nat)
      BY <2>1 DEF Bytes, Stream
    <3>2. /\ stamp = [s \in Sessions |-> stamp[s]] /\ rcvd = [s \in Sessions |-> rcvd[s]]
          /\ wire = [s \in Sessions |-> wire[s]]
      BY <2>1 DEF Base, Fields, Bytes
    <3>3. QED BY <3>1, <3>2
  <2>7. mSendPendingCount \in [Sessions -> Int]
    BY <2>1 DEF Base, SendInv
  <2>8. /\ mFreeSessionList \in Seq(Sessions) /\ mCurrentIssueCount \in Nat /\ mCurrentReturnCount \in Nat
        /\ pc \in [Workers -> Labels] /\ ret \in [Workers -> {"sendJob", "drop", "disconnect"}]
        /\ sendList \in [Workers -> Seq(Sessions)]
    BY <2>1 DEF Base, IInv, ControlInv, PoolInv
  <2>9. /\ mConnected \in [Sessions -> {0, 1}] /\ mRefCount \in [Sessions -> Int]
        /\ issued \in [Sessions -> BOOLEAN] /\ gen \in [Sessions -> Nat]
        /\ sock \in [Sessions -> SocketStates]
    BY <2>1 DEF Base, Fields
  <2>10. QED BY <2>1, <2>3, <2>4, <2>5, <2>6, <2>7, <2>8, <2>9 DEF TypeOK, Owned
<1>2. QED BY <1>1, TypeInvIsInductive, PTL DEF Spec
=============================================================================
