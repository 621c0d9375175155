------------------------- MODULE DummyClientsProofs -------------------------
(***************************************************************************)
(* Proofs about DummyClients, for every number of sessions and workers and *)
(* every set of faults.                                                    *)
(*                                                                         *)
(* The reference count of a session is the number of its references only   *)
(* if no operation is ever started twice: contexts are a set.  So the      *)
(* invariant says of each kind of operation who may start it: the connect  *)
(* or disconnect in progress (Stages), the receive (Receives), the send    *)
(* (Sends) and the login (Logins) of a session are each at one place at a  *)
(* time, in flight or with a worker.                                       *)
(***************************************************************************)
EXTENDS DummyClients, FiniteSetTheorems, SequenceTheorems, TLAPS

-----------------------------------------------------------------------------
(* The inductive invariant.                                                  *)

\* The labels at which a worker has a context in hand, and what it can be of.
Holding ==
  { "connectCompletion", "preRecv", "preRecvCall", "unconnect", "established",
    "sendRequest", "postRecv", "postRecvCall", "recvCompletion", "sendCompletion",
    "disconnectCompletion", "drop" }

IOTypes == {"IO_CONNECT", "IO_DISCONNECT", "IO_RECV_ZERO", "IO_RECV", "IO_SEND"}

KindOf(label) ==
  CASE label \in {"connectCompletion", "unconnect", "established", "sendRequest"} -> {"IO_CONNECT"}
    [] label \in {"preRecv", "preRecvCall"}       -> {"IO_CONNECT", "IO_RECV"}
    [] label \in {"postRecv", "postRecvCall"}     -> {"IO_RECV_ZERO"}
    [] label = "recvCompletion"                   -> {"IO_RECV"}
    [] label = "sendCompletion"                   -> {"IO_SEND"}
    [] label = "disconnectCompletion"             -> {"IO_DISCONNECT"}
    [] label \in {"disconnect", "disconnectCall"} -> {"IO_RECV_ZERO", "IO_RECV", "IO_SEND"}
    [] label = "drop"                             -> IOTypes
    [] OTHER                                      -> {}

Control ==
  /\ \A w \in Workers :
       /\ pc[w] \in WorkerLabels
       /\ pc[w] \in Holding => ctx[w] # NoContext
       /\ ctx[w] # NoContext => ctx[w].type \in KindOf(pc[w])
       /\ pc[w] \in {"disconnect", "disconnectCall"} /\ ctx[w] = NoContext => sendList[w] # << >>
       /\ pc[w] \in {"flush", "flushRelease", "flushed"} => sendList[w] # << >>
  /\ pc[Main] \in MainLabels

Fields ==
  /\ status \in {"running", "crashed", "aborted", "exited"}
  /\ todo \subseteq Sessions /\ target \in Sessions
  /\ mCurrentConnectCount \in Nat /\ mCurrentReturnCount \in Nat
  /\ mConnected \in [Sessions -> {0, 1}]
  /\ mRefCount \in [Sessions -> Int]
  /\ pc \in [Workers \cup {Main} -> MainLabels \cup WorkerLabels]
  /\ ctx \in [Workers -> Contexts \cup {NoContext}]
  /\ sendList \in [Workers -> Seq(Sessions)]
  /\ ios \subseteq Contexts /\ IsFiniteSet(ios)
  /\ stops \in 0..Cardinality(Workers)
  /\ sock \in [Sessions -> {"idle", "established", "refused", "down"}]
  /\ issued \in [Sessions -> BOOLEAN]
  /\ revived \in BOOLEAN

\* At most one operation in flight, or one thread.
AtMostOne(A, B) ==
  /\ \A x, y \in A : x = y
  /\ \A x, y \in B : x = y
  /\ A = {} \/ B = {}

IosOf(s, types) == {c \in ios : c.sess = s /\ c.type \in types}

\* A session is being connected, or is connected, or is being disconnected.
StageTypes  == {"IO_CONNECT", "IO_DISCONNECT"}
StageLabels == {"connectCompletion", "disconnectCall", "disconnectCompletion"}
StageThreads(s) == {t \in Workers \cup {Main} : pc[t] \in StageLabels /\ Remote(t) = s}

Stages ==
  \A s \in Sessions :
    /\ AtMostOne(IosOf(s, StageTypes), StageThreads(s))
    /\ mConnected[s] = 1 => IosOf(s, StageTypes) = {} /\ StageThreads(s) = {}
    /\ mConnected[s] = 1 \/ IosOf(s, StageTypes) # {} \/ StageThreads(s) # {} => issued[s]

\* Who works on the receive side of a session.
ReceiveWorkers(s) ==
  {w \in Handlers(s) : ctx[w].type \in Receiving /\ pc[w] \notin {"established", "sendRequest", "drop"}}

Receives == \A s \in Sessions : AtMostOne(IosOf(s, Receiving), ReceiveWorkers(s))

\* The send of a session is in flight or at its completion; then it is pending, and
\* its bytes are in the send buffer.
SendWorkers(s) == {w \in Workers : pc[w] = "sendCompletion" /\ Remote(w) = s}

Sends ==
  /\ mSendPendingCount \in [Sessions -> {0, 1}]
  /\ mSendBuffer \in [Sessions -> 0..LoginSize]
  /\ \A s \in Sessions :
       /\ AtMostOne(IosOf(s, {"IO_SEND"}), SendWorkers(s))
       /\ mSendPendingCount[s] = 0 => IosOf(s, {"IO_SEND"}) = {} /\ SendWorkers(s) = {}
       /\ \A c \in IosOf(s, {"IO_SEND"}) : c.len <= mSendBuffer[s]
       /\ \A w \in SendWorkers(s) : ctx[w].n <= mSendBuffer[s]

\* The login is sent once, when the connection is there.
LoginWorkers(s) ==
  {w \in Handlers(s) : ctx[w].type = "IO_CONNECT" /\ pc[w] \notin {"unconnect", "drop"}}

Logins ==
  \A s \in Sessions :
    /\ AtMostOne(IosOf(s, {"IO_CONNECT"}), LoginWorkers(s))
    /\ IosOf(s, {"IO_CONNECT"}) # {} \/ LoginWorkers(s) # {} => mSendBuffer[s] = 0

\* A session that ConnectSessions has still to visit.
Waits(s) == pc[Main] = "connect" /\ s \in todo

Untouched ==
  \A s \in Sessions :
    Waits(s) => /\ ~issued[s] /\ InFlight(s) = {} /\ Handlers(s) = {} /\ Flushers(s) = {}
                /\ mSendBuffer[s] = 0

Returned == {s \in Sessions : mRefCount[s] = 0 /\ ~Waits(s)}

Returns == ~revived => mCurrentReturnCount = Cardinality(Returned)

Inv ==
  /\ status # "crashed"
  /\ Control /\ Fields /\ Stages /\ Receives /\ Sends /\ Logins /\ Untouched /\ Returns
  /\ RefCountIsReferences

-----------------------------------------------------------------------------
(* Lemmas on the parts of the invariant.                                     *)

LEMMA FewerIsFine ==
  ASSUME NEW A, NEW B, NEW C, NEW D, AtMostOne(A, B), C \subseteq A, D \subseteq B
  PROVE  AtMostOne(C, D)
  BY DEF AtMostOne

LEMMA LeftToRight ==
  ASSUME NEW A, NEW B, NEW C, NEW D, NEW x \in A, NEW y, AtMostOne(A, B),
         C \subseteq A \ {x}, D \subseteq B \cup {y}
  PROVE  AtMostOne(C, D)
  BY DEF AtMostOne

LEMMA RightToLeft ==
  ASSUME NEW A, NEW B, NEW C, NEW D, NEW y \in B, NEW x, AtMostOne(A, B),
         C \subseteq A \cup {x}, D \subseteq B \ {y}
  PROVE  AtMostOne(C, D)
  BY DEF AtMostOne

\* The sets of references are finite, and a session without references has none.
LEMMA ReferencesAreCounted ==
  ASSUME Inv, NEW s \in Sessions
  PROVE  /\ IsFiniteSet(InFlight(s)) /\ IsFiniteSet(Handlers(s)) /\ IsFiniteSet(Flushers(s))
         /\ Cardinality(InFlight(s)) \in Nat /\ Cardinality(Handlers(s)) \in Nat
         /\ Cardinality(Flushers(s)) \in Nat
         /\ References(s) \in Nat /\ mRefCount[s] = References(s)
         /\ References(s) = 0 <=>
              ~issued[s] /\ InFlight(s) = {} /\ Handlers(s) = {} /\ Flushers(s) = {}
<1>1. InFlight(s) \subseteq ios /\ Handlers(s) \subseteq Workers /\ Flushers(s) \subseteq Workers
  BY DEF InFlight, Handlers, Flushers
<1>2. IsFiniteSet(InFlight(s)) /\ IsFiniteSet(Handlers(s)) /\ IsFiniteSet(Flushers(s))
  BY <1>1, FS_Subset, ThreadsAssumption DEF Inv, Fields
<1>3. /\ Cardinality(InFlight(s)) \in Nat /\ Cardinality(Handlers(s)) \in Nat
      /\ Cardinality(Flushers(s)) \in Nat
  BY <1>2, FS_CardinalityType
<1>4. References(s) \in Nat
  BY <1>3 DEF References
<1>5. mRefCount[s] = References(s)
  BY DEF Inv, RefCountIsReferences
<1>6. /\ Cardinality(InFlight(s)) = 0 <=> InFlight(s) = {}
      /\ Cardinality(Handlers(s)) = 0 <=> Handlers(s) = {}
      /\ Cardinality(Flushers(s)) = 0 <=> Flushers(s) = {}
  BY <1>2, FS_EmptySet
<1>7. References(s) = 0 <=>
        /\ ~issued[s] /\ Cardinality(InFlight(s)) = 0 /\ Cardinality(Handlers(s)) = 0
        /\ Cardinality(Flushers(s)) = 0
  <2>1. CASE issued[s]
    <3>1. References(s) = 1 + Cardinality(InFlight(s)) + Cardinality(Handlers(s))
                            + Cardinality(Flushers(s))
      BY <2>1 DEF References
    <3>2. QED BY <1>3, <2>1, <3>1
  <2>2. CASE ~issued[s]
    <3>1. References(s) = 0 + Cardinality(InFlight(s)) + Cardinality(Handlers(s))
                            + Cardinality(Flushers(s))
      BY <2>2 DEF References
    <3>2. QED BY <1>3, <2>2, <3>1
  <2>3. QED BY <2>1, <2>2
<1>8. QED BY <1>2, <1>3, <1>4, <1>5, <1>6, <1>7

\* A session somebody refers to has a count, and ConnectSessions has visited it.
LEMMA ReferredIsCounted ==
  ASSUME Inv, NEW s \in Sessions,
         issued[s] \/ InFlight(s) # {} \/ Handlers(s) # {} \/ Flushers(s) # {}
  PROVE  mRefCount[s] \in Nat \ {0} /\ ~Waits(s)
<1>1. mRefCount[s] \in Nat /\ mRefCount[s] # 0
  BY ReferencesAreCounted
<1>2. ~Waits(s)
  BY DEF Inv, Untouched
<1>3. QED BY <1>1, <1>2

\* A worker with a context in hand.
LEMMA HandlerFacts ==
  ASSUME Inv, NEW w \in Workers, ctx[w] # NoContext
  PROVE  /\ ctx[w] \in Contexts /\ Remote(w) = ctx[w].sess /\ Remote(w) \in Sessions
         /\ w \in Handlers(Remote(w)) /\ ctx[w].type \in KindOf(pc[w])
         /\ ctx[w].type \in IOTypes /\ ctx[w].len \in 0..LoginSize /\ ctx[w].n \in 0..LoginSize
<1>1. ctx[w] \in Contexts /\ ctx[w].type \in KindOf(pc[w])
  BY DEF Inv, Fields, Control
<1>2. w # Main
  BY ThreadsAssumption
<1>3. Remote(w) = ctx[w].sess
  BY <1>2 DEF Remote
<1>4. QED
  BY <1>1, <1>3 DEF Contexts, Handlers, IOTypes

\* A worker with a session to flush.
LEMMA FlusherFacts ==
  ASSUME Inv, NEW w \in Workers, ctx[w] = NoContext, sendList[w] # << >>
  PROVE  Remote(w) = Head(sendList[w]) /\ Remote(w) \in Sessions
<1>1. sendList[w] \in Seq(Sessions)
  BY DEF Inv, Fields
<1>2. Head(sendList[w]) \in Sessions
  BY <1>1
<1>3. Remote(w) = Head(sendList[w])
  BY ThreadsAssumption DEF Remote
<1>4. QED BY <1>2, <1>3

\* What a part of the invariant needs to be kept.
LEMMA KeepStages ==
  ASSUME Inv,
         \A s \in Sessions : StageThreads(s)' \subseteq StageThreads(s),
         \A s \in Sessions : IosOf(s, StageTypes)' \subseteq IosOf(s, StageTypes),
         \A s \in Sessions : mConnected'[s] = 1 => mConnected[s] = 1,
         issued' = issued
  PROVE  Stages'
<1> SUFFICES ASSUME NEW s \in Sessions
             PROVE  /\ AtMostOne(IosOf(s, StageTypes)', StageThreads(s)')
                    /\ mConnected'[s] = 1 => IosOf(s, StageTypes)' = {} /\ StageThreads(s)' = {}
                    /\ mConnected'[s] = 1 \/ IosOf(s, StageTypes)' # {} \/ StageThreads(s)' # {}
                         => issued'[s]
  BY DEF Stages, AtMostOne
<1>1. /\ AtMostOne(IosOf(s, StageTypes), StageThreads(s))
      /\ mConnected[s] = 1 => IosOf(s, StageTypes) = {} /\ StageThreads(s) = {}
      /\ mConnected[s] = 1 \/ IosOf(s, StageTypes) # {} \/ StageThreads(s) # {} => issued[s]
  BY DEF Inv, Stages
<1>2. AtMostOne(IosOf(s, StageTypes)', StageThreads(s)')
  BY <1>1, FewerIsFine
<1>3. QED BY <1>1, <1>2

LEMMA KeepReceives ==
  ASSUME Inv,
         \A s \in Sessions : ReceiveWorkers(s)' \subseteq ReceiveWorkers(s),
         \A s \in Sessions : IosOf(s, Receiving)' \subseteq IosOf(s, Receiving)
  PROVE  Receives'
<1> SUFFICES ASSUME NEW s \in Sessions
             PROVE  AtMostOne(IosOf(s, Receiving)', ReceiveWorkers(s)')
  BY DEF Receives, AtMostOne
<1>1. AtMostOne(IosOf(s, Receiving), ReceiveWorkers(s))
  BY DEF Inv, Receives
<1>2. QED BY <1>1, FewerIsFine

LEMMA KeepSends ==
  ASSUME Inv,
         \A s \in Sessions : SendWorkers(s)' \subseteq SendWorkers(s),
         \A s \in Sessions : IosOf(s, {"IO_SEND"})' \subseteq IosOf(s, {"IO_SEND"}),
         \A s \in Sessions : \A w \in SendWorkers(s)' : ctx'[w] = ctx[w],
         mSendPendingCount' = mSendPendingCount, mSendBuffer' = mSendBuffer
  PROVE  Sends'
<1>0. /\ mSendPendingCount' \in [Sessions -> {0, 1}]
      /\ mSendBuffer' \in [Sessions -> 0..LoginSize]
  BY DEF Inv, Sends
<1> SUFFICES ASSUME NEW s \in Sessions
             PROVE  /\ AtMostOne(IosOf(s, {"IO_SEND"})', SendWorkers(s)')
                    /\ mSendPendingCount'[s] = 0 =>
                         IosOf(s, {"IO_SEND"})' = {} /\ SendWorkers(s)' = {}
                    /\ \A c \in IosOf(s, {"IO_SEND"})' : c.len <= mSendBuffer'[s]
                    /\ \A w \in SendWorkers(s)' : ctx'[w].n <= mSendBuffer'[s]
  BY <1>0 DEF Sends, AtMostOne
<1>1. /\ AtMostOne(IosOf(s, {"IO_SEND"}), SendWorkers(s))
      /\ mSendPendingCount[s] = 0 => IosOf(s, {"IO_SEND"}) = {} /\ SendWorkers(s) = {}
      /\ \A c \in IosOf(s, {"IO_SEND"}) : c.len <= mSendBuffer[s]
      /\ \A w \in SendWorkers(s) : ctx[w].n <= mSendBuffer[s]
  BY DEF Inv, Sends
<1>2. AtMostOne(IosOf(s, {"IO_SEND"})', SendWorkers(s)')
  BY <1>1, FewerIsFine
<1>3. QED BY <1>1, <1>2

LEMMA KeepLogins ==
  ASSUME Inv,
         \A s \in Sessions : LoginWorkers(s)' \subseteq LoginWorkers(s),
         \A s \in Sessions : IosOf(s, {"IO_CONNECT"})' \subseteq IosOf(s, {"IO_CONNECT"}),
         mSendBuffer' = mSendBuffer
  PROVE  Logins'
<1> SUFFICES ASSUME NEW s \in Sessions
             PROVE  /\ AtMostOne(IosOf(s, {"IO_CONNECT"})', LoginWorkers(s)')
                    /\ IosOf(s, {"IO_CONNECT"})' # {} \/ LoginWorkers(s)' # {}
                         => mSendBuffer'[s] = 0
  BY DEF Logins, AtMostOne
<1>1. /\ AtMostOne(IosOf(s, {"IO_CONNECT"}), LoginWorkers(s))
      /\ IosOf(s, {"IO_CONNECT"}) # {} \/ LoginWorkers(s) # {} => mSendBuffer[s] = 0
  BY DEF Inv, Logins
<1>2. AtMostOne(IosOf(s, {"IO_CONNECT"})', LoginWorkers(s)')
  BY <1>1, FewerIsFine
<1>3. QED BY <1>1, <1>2

LEMMA KeepReferences ==
  ASSUME Inv,
         \A s \in Sessions : /\ InFlight(s)' = InFlight(s) /\ Handlers(s)' = Handlers(s)
                             /\ Flushers(s)' = Flushers(s),
         issued' = issued, mRefCount' = mRefCount
  PROVE  RefCountIsReferences'
<1>1. \A s \in Sessions : References(s)' = References(s)
  BY DEF References
<1>2. QED BY <1>1 DEF Inv, RefCountIsReferences

LEMMA KeepReturns ==
  ASSUME Inv, \A s \in Sessions : Waits(s)' <=> Waits(s),
         mRefCount' = mRefCount, mCurrentReturnCount' = mCurrentReturnCount,
         revived' = revived
  PROVE  Returns'
<1>1. Returned' = Returned
  BY DEF Returned
<1>2. QED BY <1>1 DEF Inv, Returns

-----------------------------------------------------------------------------
(* A step of one worker.                                                     *)

\* The worker goes on: another label, the same context, and, unless it goes back
\* to its list, the same session.
Walk(w, l) ==
  /\ pc' = [pc EXCEPT ![w] = l]
  /\ ctx' = ctx /\ target' = target
  /\ l # "sendJob" => Remote(w)' = Remote(w)
  /\ \A v \in Workers \ {w} : sendList'[v] = sendList[v]

Done     == {"established", "sendRequest", "drop"}
LoggedIn == {"unconnect", "drop"}

LEMMA WalkSets ==
  ASSUME Inv, NEW w \in Workers, NEW l, Walk(w, l), NEW s
  PROVE  /\ Handlers(s)' = Handlers(s)
         /\ pc[w] # "flushRelease" /\ l # "flushRelease" => Flushers(s)' = Flushers(s)
         /\ \A t \in StageThreads(s)' :
              \/ t \in StageThreads(s) /\ t # w
              \/ t = w /\ l \in StageLabels /\ Remote(w) = s
         /\ \A v \in SendWorkers(s)' :
              \/ v \in SendWorkers(s) /\ v # w
              \/ v = w /\ l = "sendCompletion" /\ Remote(w) = s
         /\ \A v \in ReceiveWorkers(s)' :
              \/ v \in ReceiveWorkers(s) /\ v # w
              \/ v = w /\ l \notin Done /\ w \in Handlers(s) /\ ctx[w].type \in Receiving
         /\ \A v \in LoginWorkers(s)' :
              \/ v \in LoginWorkers(s) /\ v # w
              \/ v = w /\ l \notin LoggedIn /\ w \in Handlers(s) /\ ctx[w].type = "IO_CONNECT"
         /\ pc'[w] = l /\ pc'[Main] = pc[Main]
<1>0. /\ pc \in [Workers \cup {Main} -> MainLabels \cup WorkerLabels]
      /\ w # Main /\ Main \notin Workers
  BY ThreadsAssumption DEF Inv, Fields
<1>1. pc'[w] = l /\ ctx' = ctx /\ target' = target /\ (l # "sendJob" => Remote(w)' = Remote(w))
  BY <1>0 DEF Walk
<1>2. \A t \in Workers \cup {Main} : t # w => pc'[t] = pc[t]
  BY <1>0 DEF Walk
<1>3. \A t \in Workers \cup {Main} : t # w => Remote(t)' = Remote(t)
  BY <1>0, <1>1 DEF Walk, Remote
<1>4. Handlers(s)' = Handlers(s)
  <2>1. \A v \in Workers : ctx[v] # NoContext => Remote(v)' = Remote(v)
    BY <1>0, <1>1 DEF Remote
  <2>2. QED BY <1>1, <2>1 DEF Handlers
<1>5. ASSUME pc[w] # "flushRelease", l # "flushRelease"
      PROVE  Flushers(s)' = Flushers(s)
  <2>1. \A v \in Workers : v \in Flushers(s)' <=> v \in Flushers(s)
    <3>1. SUFFICES ASSUME NEW v \in Workers
                   PROVE  v \in Flushers(s)' <=> v \in Flushers(s)
      OBVIOUS
    <3>2. CASE v = w
      BY <1>1, <1>5, <3>2 DEF Flushers
    <3>3. CASE v # w
      BY <1>2, <1>3, <3>3 DEF Flushers
    <3>4. QED BY <3>2, <3>3
  <2>2. Flushers(s)' \subseteq Workers /\ Flushers(s) \subseteq Workers
    BY DEF Flushers
  <2>3. QED BY <2>1, <2>2
<1>6. ASSUME NEW t \in StageThreads(s)'
      PROVE  \/ t \in StageThreads(s) /\ t # w
             \/ t = w /\ l \in StageLabels /\ Remote(w) = s
  <2>1. t \in Workers \cup {Main} /\ pc'[t] \in StageLabels /\ Remote(t)' = s
    BY <1>6 DEF StageThreads
  <2>2. CASE t = w
    BY <1>1, <2>1, <2>2 DEF StageLabels
  <2>3. CASE t # w
    BY <1>2, <1>3, <2>1, <2>3 DEF StageThreads
  <2>4. QED BY <2>2, <2>3
<1>7. ASSUME NEW v \in SendWorkers(s)'
      PROVE  \/ v \in SendWorkers(s) /\ v # w
             \/ v = w /\ l = "sendCompletion" /\ Remote(w) = s
  <2>1. v \in Workers /\ pc'[v] = "sendCompletion" /\ Remote(v)' = s
    BY <1>7 DEF SendWorkers
  <2>2. CASE v = w
    BY <1>1, <2>1, <2>2
  <2>3. CASE v # w
    BY <1>2, <1>3, <2>1, <2>3 DEF SendWorkers
  <2>4. QED BY <2>2, <2>3
<1>8. ASSUME NEW v \in ReceiveWorkers(s)'
      PROVE  \/ v \in ReceiveWorkers(s) /\ v # w
             \/ v = w /\ l \notin Done /\ w \in Handlers(s) /\ ctx[w].type \in Receiving
  <2>1. v \in Workers /\ v \in Handlers(s) /\ ctx[v].type \in Receiving /\ pc'[v] \notin Done
    BY <1>1, <1>4, <1>8 DEF ReceiveWorkers, Handlers, Done
  <2>2. CASE v = w
    BY <1>1, <2>1, <2>2
  <2>3. CASE v # w
    BY <1>2, <2>1, <2>3 DEF ReceiveWorkers, Done
  <2>4. QED BY <2>2, <2>3
<1>9. ASSUME NEW v \in LoginWorkers(s)'
      PROVE  \/ v \in LoginWorkers(s) /\ v # w
             \/ v = w /\ l \notin LoggedIn /\ w \in Handlers(s) /\ ctx[w].type = "IO_CONNECT"
  <2>1. v \in Workers /\ v \in Handlers(s) /\ ctx[v].type = "IO_CONNECT" /\ pc'[v] \notin LoggedIn
    BY <1>1, <1>4, <1>9 DEF LoginWorkers, Handlers, LoggedIn
  <2>2. CASE v = w
    BY <1>1, <2>1, <2>2
  <2>3. CASE v # w
    BY <1>2, <2>1, <2>3 DEF LoginWorkers, LoggedIn
  <2>4. QED BY <2>2, <2>3
<1>10. pc'[Main] = pc[Main]
  BY <1>0, <1>2
<1>11. QED
  BY <1>1, <1>4, <1>5, <1>6, <1>7, <1>8, <1>9, <1>10

\* The worker may be at label l.
Fits(w, l) ==
  /\ l \in WorkerLabels
  /\ l \in Holding => ctx[w] # NoContext
  /\ ctx[w] # NoContext => ctx[w].type \in KindOf(l)
  /\ l \in {"disconnect", "disconnectCall"} /\ ctx[w] = NoContext => sendList'[w] # << >>
  /\ l \in {"flush", "flushRelease", "flushed"} => sendList'[w] # << >>

LEMMA WalkControl ==
  ASSUME Inv, NEW w \in Workers, NEW l, Walk(w, l), Fits(w, l)
  PROVE  /\ Control'
         /\ pc' \in [Workers \cup {Main} -> MainLabels \cup WorkerLabels]
         /\ ctx' \in [Workers -> Contexts \cup {NoContext}]
<1>0. /\ pc \in [Workers \cup {Main} -> MainLabels \cup WorkerLabels]
      /\ ctx \in [Workers -> Contexts \cup {NoContext}] /\ w # Main /\ Main \notin Workers
  BY ThreadsAssumption DEF Inv, Fields
<1>1. /\ pc' = [pc EXCEPT ![w] = l] /\ ctx' = ctx
      /\ \A v \in Workers \ {w} : sendList'[v] = sendList[v]
  BY DEF Walk
<1>2. pc' \in [Workers \cup {Main} -> MainLabels \cup WorkerLabels]
  BY <1>0, <1>1 DEF Fits
<1>3. ASSUME NEW v \in Workers
      PROVE  /\ pc'[v] \in WorkerLabels
             /\ pc'[v] \in Holding => ctx'[v] # NoContext
             /\ ctx'[v] # NoContext => ctx'[v].type \in KindOf(pc'[v])
             /\ pc'[v] \in {"disconnect", "disconnectCall"} /\ ctx'[v] = NoContext
                  => sendList'[v] # << >>
             /\ pc'[v] \in {"flush", "flushRelease", "flushed"} => sendList'[v] # << >>
  <2>1. CASE v = w
    <3>1. pc'[v] = l /\ ctx'[v] = ctx[w]
      BY <1>0, <1>1, <2>1
    <3>2. QED BY <2>1, <3>1 DEF Fits
  <2>2. CASE v # w
    <3>1. pc'[v] = pc[v] /\ ctx'[v] = ctx[v] /\ sendList'[v] = sendList[v]
      BY <1>0, <1>1, <2>2
    <3>2. QED BY <3>1 DEF Inv, Control
  <2>3. QED BY <2>1, <2>2
<1>4. pc'[Main] \in MainLabels
  <2>1. pc'[Main] = pc[Main]
    BY <1>0, <1>1
  <2>2. QED BY <2>1 DEF Inv, Control
<1>5. QED
  BY <1>0, <1>1, <1>2, <1>3, <1>4 DEF Control

\* What no part of the invariant but the types is about.
Typed ==
  /\ status' \in {"running", "aborted"}
  /\ mCurrentConnectCount' \in Nat
  /\ stops' \in 0..Cardinality(Workers)
  /\ sock' \in [Sessions -> {"idle", "established", "refused", "down"}]
  /\ sendList' \in [Workers -> Seq(Sessions)]

\* A worker goes on, and may close its session, but starts and ends nothing.
LEMMA EasyStep ==
  ASSUME Inv, NEW w \in Workers, NEW l, Walk(w, l), Fits(w, l), Typed,
         l \notin StageLabels \cup {"sendCompletion", "flushRelease"}, pc[w] # "flushRelease",
         ctx[w].type \in Receiving /\ l \notin Done => pc[w] \notin Done,
         ctx[w].type = "IO_CONNECT" /\ l \notin LoggedIn => pc[w] \notin LoggedIn,
         mConnected' \in [Sessions -> {0, 1}],
         \A s \in Sessions : mConnected'[s] = 1 => mConnected[s] = 1,
         UNCHANGED <<todo, mCurrentReturnCount, mRefCount, sendVars, ios, issued, revived>>
  PROVE  Inv'
<1>0. /\ todo' = todo /\ mCurrentReturnCount' = mCurrentReturnCount /\ mRefCount' = mRefCount
      /\ mSendPendingCount' = mSendPendingCount /\ mSendBuffer' = mSendBuffer
      /\ ios' = ios /\ issued' = issued /\ revived' = revived /\ target' = target /\ ctx' = ctx
  BY DEF sendVars, Walk
<1>1. Control' /\ pc' \in [Workers \cup {Main} -> MainLabels \cup WorkerLabels]
      /\ ctx' \in [Workers -> Contexts \cup {NoContext}]
  BY WalkControl
<1>2. Fields'
  BY <1>0, <1>1 DEF Fields, Inv, Typed
<1>3. \A s : IosOf(s, StageTypes)' = IosOf(s, StageTypes)
      /\ IosOf(s, Receiving)' = IosOf(s, Receiving)
      /\ IosOf(s, {"IO_SEND"})' = IosOf(s, {"IO_SEND"})
      /\ IosOf(s, {"IO_CONNECT"})' = IosOf(s, {"IO_CONNECT"})
      /\ InFlight(s)' = InFlight(s)
  BY <1>0 DEF IosOf, InFlight
<1>4. \A s : StageThreads(s)' \subseteq StageThreads(s)
  BY WalkSets
<1>5. Stages'
  BY <1>0, <1>3, <1>4, KeepStages
<1>6. \A s : ReceiveWorkers(s)' \subseteq ReceiveWorkers(s)
  <2> SUFFICES ASSUME NEW s, NEW v \in ReceiveWorkers(s)'
               PROVE  v \in ReceiveWorkers(s)
    OBVIOUS
  <2>1. \/ v \in ReceiveWorkers(s)
        \/ v = w /\ l \notin Done /\ w \in Handlers(s) /\ ctx[w].type \in Receiving
    BY WalkSets
  <2>2. QED BY <2>1 DEF ReceiveWorkers, Done
<1>7. Receives'
  BY <1>3, <1>6, KeepReceives
<1>8. \A s : SendWorkers(s)' \subseteq SendWorkers(s)
  BY WalkSets
<1>9. Sends'
  <2>1. \A s : \A v \in SendWorkers(s)' : ctx'[v] = ctx[v]
    BY <1>0
  <2>2. QED BY <1>0, <1>3, <1>8, <2>1, KeepSends
<1>10. \A s : LoginWorkers(s)' \subseteq LoginWorkers(s)
  <2> SUFFICES ASSUME NEW s, NEW v \in LoginWorkers(s)'
               PROVE  v \in LoginWorkers(s)
    OBVIOUS
  <2>1. \/ v \in LoginWorkers(s)
        \/ v = w /\ l \notin LoggedIn /\ w \in Handlers(s) /\ ctx[w].type = "IO_CONNECT"
    BY WalkSets
  <2>2. QED BY <2>1 DEF LoginWorkers, LoggedIn
<1>11. Logins'
  BY <1>0, <1>3, <1>10, KeepLogins
<1>12. \A s : Handlers(s)' = Handlers(s) /\ Flushers(s)' = Flushers(s)
  BY WalkSets
<1>13. \A s : Waits(s)' <=> Waits(s)
  <2>1. pc'[Main] = pc[Main]
    BY WalkSets
  <2>2. QED BY <1>0, <2>1 DEF Waits
<1>14. Untouched'
  BY <1>0, <1>3, <1>12, <1>13 DEF Inv, Untouched
<1>15. Returns'
  BY <1>0, <1>13, KeepReturns
<1>16. RefCountIsReferences'
  BY <1>0, <1>3, <1>12, KeepReferences
<1>17. status' # "crashed"
  BY DEF Typed
<1>18. QED
  BY <1>1, <1>2, <1>5, <1>7, <1>9, <1>11, <1>14, <1>15, <1>16, <1>17 DEF Inv

\* The worker only goes on.
LEMMA Going ==
  ASSUME NEW w \in Workers, NEW l, Goto(w, l), ctx' = ctx, target' = target, sendList' = sendList
  PROVE  Walk(w, l)
  BY DEF Walk, Goto, Remote

LEMMA NothingInHand ==
  ASSUME Inv, NEW w \in Workers, KindOf(pc[w]) = {}
  PROVE  ctx[w] = NoContext /\ ctx[w].type = "IO_NONE"
<1>1. ctx[w] = NoContext
  BY DEF Inv, Control
<1>2. QED BY <1>1 DEF NoContext

LEMMA QuietStep ==
  ASSUME Inv, status = "running", NEW w \in Workers, NEW l, Goto(w, l), Fits(w, l),
         l \notin StageLabels \cup {"sendCompletion", "flushRelease"}, pc[w] # "flushRelease",
         ctx[w].type \in Receiving /\ l \notin Done => pc[w] \notin Done,
         ctx[w].type = "IO_CONNECT" /\ l \notin LoggedIn => pc[w] \notin LoggedIn,
         \/ mConnected' = mConnected
         \/ \E s \in Sessions : mConnected' = [mConnected EXCEPT ![s] = 0],
         status' = status, mCurrentConnectCount' \in Nat, stops' = stops, sock' = sock,
         UNCHANGED <<todo, target, mCurrentReturnCount, mRefCount, sendVars, ctx, sendList,
                     ios, issued, revived>>
  PROVE  Inv'
<1>1. Walk(w, l)
  BY Going
<1>2. Typed
  BY DEF Typed, Inv, Fields
<1>3. mConnected \in [Sessions -> {0, 1}]
  BY DEF Inv, Fields
<1>4. /\ mConnected' \in [Sessions -> {0, 1}]
      /\ \A s \in Sessions : mConnected'[s] = 1 => mConnected[s] = 1
  BY <1>3
<1>5. UNCHANGED <<todo, mCurrentReturnCount, mRefCount, sendVars, ios, issued, revived>>
  OBVIOUS
<1>6. QED
  BY <1>1, <1>2, <1>4, <1>5, EasyStep

\* What the worker has in hand, by its label.
LEMMA InHand ==
  ASSUME Inv, NEW w \in Workers
  PROVE  /\ pc[w] \in Holding => ctx[w] # NoContext /\ ctx[w].type \in KindOf(pc[w])
         /\ pc[w] \in {"disconnect", "disconnectCall"} =>
              \/ ctx[w].type \in {"IO_RECV_ZERO", "IO_RECV", "IO_SEND"} /\ ctx[w] # NoContext
              \/ ctx[w] = NoContext /\ sendList[w] # << >>
         /\ pc[w] \in {"flush", "flushRelease", "flushed"} =>
              ctx[w] = NoContext /\ ctx[w].type = "IO_NONE" /\ sendList[w] # << >>
         /\ pc[w] \in {"sendJob", "gqcs"} => ctx[w] = NoContext /\ ctx[w].type = "IO_NONE"
<1>1. /\ pc[w] \in Holding => ctx[w] # NoContext
      /\ ctx[w] # NoContext => ctx[w].type \in KindOf(pc[w])
      /\ pc[w] \in {"disconnect", "disconnectCall"} /\ ctx[w] = NoContext => sendList[w] # << >>
      /\ pc[w] \in {"flush", "flushRelease", "flushed"} => sendList[w] # << >>
  BY DEF Inv, Control
<1>2. pc[w] \in {"disconnect", "disconnectCall"} =>
        KindOf(pc[w]) = {"IO_RECV_ZERO", "IO_RECV", "IO_SEND"}
  BY DEF KindOf
<1>3. pc[w] \in {"flush", "flushRelease", "flushed", "sendJob", "gqcs"} => KindOf(pc[w]) = {}
  BY DEF KindOf
<1>4. pc[w] \in {"flush", "flushRelease", "flushed", "sendJob", "gqcs"} =>
        ctx[w] = NoContext /\ ctx[w].type = "IO_NONE"
  BY <1>3, NothingInHand
<1>5. QED BY <1>1, <1>2, <1>4

LEMMA PreRecvStep ==
  ASSUME Inv, status = "running", NEW w \in Workers, PreRecv(w)
  PROVE  Inv'
<1>1. ctx[w] # NoContext /\ ctx[w].type \in {"IO_CONNECT", "IO_RECV"} /\ pc[w] = "preRecv"
  BY InHand DEF PreRecv, Holding, KindOf
<1>2. PICK l : /\ Goto(w, l)
               /\ \/ l = "preRecvCall"
                  \/ l = "unconnect" /\ ctx[w].type = "IO_CONNECT"
                  \/ l = "disconnect" /\ ctx[w].type = "IO_RECV"
  BY <1>1 DEF PreRecv, AfterPreRecv
<1>3. Fits(w, l)
  BY <1>1, <1>2 DEF Fits, KindOf, WorkerLabels
<1>4. l \notin StageLabels \cup {"sendCompletion", "flushRelease"}
  BY <1>2 DEF StageLabels
<1>5. pc[w] \notin Done /\ pc[w] \notin LoggedIn /\ pc[w] # "flushRelease"
  BY <1>1 DEF Done, LoggedIn
<1>6. /\ status' = status /\ mCurrentConnectCount' \in Nat /\ stops' = stops /\ sock' = sock
      /\ mConnected' = mConnected
      /\ UNCHANGED <<todo, target, mCurrentReturnCount, mRefCount, sendVars, ctx, sendList,
                     ios, issued, revived>>
  BY DEF PreRecv, Inv, Fields, mainVars, portVars
<1>7. QED
  BY <1>2, <1>3, <1>4, <1>5, <1>6, QuietStep

LEMMA UnconnectStep ==
  ASSUME Inv, status = "running", NEW w \in Workers, Unconnect(w)
  PROVE  Inv'
<1>1. ctx[w] # NoContext /\ ctx[w].type \in {"IO_CONNECT"} /\ pc[w] = "unconnect"
  BY InHand DEF Unconnect, Holding, KindOf
<1>2. Goto(w, "drop")
  BY DEF Unconnect
<1>3. Fits(w, "drop")
  BY <1>1 DEF Fits, KindOf, IOTypes, WorkerLabels
<1>4. "drop" \notin StageLabels \cup {"sendCompletion", "flushRelease"}
  BY DEF StageLabels
<1>5. "drop" \in Done /\ "drop" \in LoggedIn /\ pc[w] # "flushRelease"
  BY <1>1 DEF Done, LoggedIn
<1>6. /\ status' = status /\ mCurrentConnectCount' \in Nat /\ stops' = stops /\ sock' = sock
      /\ UNCHANGED <<todo, target, mCurrentReturnCount, mRefCount, sendVars, ctx, sendList,
                     ios, issued, revived>>
  BY DEF Unconnect, Inv, Fields, mainVars, portVars
<1>7. \E s \in Sessions : mConnected' = [mConnected EXCEPT ![s] = 0]
  <2>1. Remote(w) \in Sessions
    BY <1>1, HandlerFacts
  <2>2. QED BY <2>1 DEF Unconnect
<1>8. QED
  BY <1>2, <1>3, <1>4, <1>5, <1>6, <1>7, QuietStep

LEMMA EstablishedStep ==
  ASSUME Inv, status = "running", NEW w \in Workers, Established(w)
  PROVE  Inv'
<1>1. ctx[w] # NoContext /\ ctx[w].type \in {"IO_CONNECT"} /\ pc[w] = "established"
  BY InHand DEF Established, Holding, KindOf
<1>2. PICK l : Goto(w, l) /\ l \in {"sendRequest", "drop"}
  BY DEF Established
<1>3. Fits(w, l)
  BY <1>1, <1>2 DEF Fits, KindOf, WorkerLabels, IOTypes
<1>4. l \notin StageLabels \cup {"sendCompletion", "flushRelease"}
  BY <1>2 DEF StageLabels
<1>5. l \in Done /\ pc[w] \notin LoggedIn /\ pc[w] # "flushRelease"
  BY <1>1, <1>2 DEF Done, LoggedIn
<1>6. /\ status' = status /\ mCurrentConnectCount' \in Nat /\ stops' = stops /\ sock' = sock
      /\ mConnected' = mConnected
      /\ UNCHANGED <<todo, target, mCurrentReturnCount, mRefCount, sendVars, ctx, sendList,
                     ios, issued, revived>>
  BY DEF Established, Inv, Fields, mainVars, portVars
<1>7. QED
  BY <1>2, <1>3, <1>4, <1>5, <1>6, QuietStep

LEMMA PostRecvStep ==
  ASSUME Inv, status = "running", NEW w \in Workers, PostRecv(w)
  PROVE  Inv'
<1>1. ctx[w] # NoContext /\ ctx[w].type \in {"IO_RECV_ZERO"} /\ pc[w] = "postRecv"
  BY InHand DEF PostRecv, Holding, KindOf
<1>2. PICK l : Goto(w, l) /\ l \in {"postRecvCall", "disconnect"}
  BY DEF PostRecv
<1>3. Fits(w, l)
  BY <1>1, <1>2 DEF Fits, KindOf, WorkerLabels
<1>4. l \notin StageLabels \cup {"sendCompletion", "flushRelease"}
  BY <1>2 DEF StageLabels
<1>5. pc[w] \notin Done /\ pc[w] \notin LoggedIn /\ pc[w] # "flushRelease"
  BY <1>1 DEF Done, LoggedIn
<1>6. /\ status' = status /\ mCurrentConnectCount' \in Nat /\ stops' = stops /\ sock' = sock
      /\ mConnected' = mConnected
      /\ UNCHANGED <<todo, target, mCurrentReturnCount, mRefCount, sendVars, ctx, sendList,
                     ios, issued, revived>>
  BY DEF PostRecv, Inv, Fields, mainVars, portVars
<1>7. QED
  BY <1>2, <1>3, <1>4, <1>5, <1>6, QuietStep

LEMMA RecvCompletionStep ==
  ASSUME Inv, status = "running", NEW w \in Workers, RecvCompletion(w)
  PROVE  Inv'
<1>1. ctx[w] # NoContext /\ ctx[w].type \in {"IO_RECV"} /\ pc[w] = "recvCompletion"
  BY InHand DEF RecvCompletion, Holding, KindOf
<1>2. PICK l : Goto(w, l) /\ l \in {"preRecv", "disconnect"}
  BY DEF RecvCompletion
<1>3. Fits(w, l)
  BY <1>1, <1>2 DEF Fits, KindOf, WorkerLabels
<1>4. l \notin StageLabels \cup {"sendCompletion", "flushRelease"}
  BY <1>2 DEF StageLabels
<1>5. pc[w] \notin Done /\ pc[w] \notin LoggedIn /\ pc[w] # "flushRelease"
  BY <1>1 DEF Done, LoggedIn
<1>6. /\ status' = status /\ mCurrentConnectCount' \in Nat /\ stops' = stops /\ sock' = sock
      /\ mConnected' = mConnected
      /\ UNCHANGED <<todo, target, mCurrentReturnCount, mRefCount, sendVars, ctx, sendList,
                     ios, issued, revived>>
  BY DEF RecvCompletion, Inv, Fields, mainVars, portVars
<1>7. QED
  BY <1>2, <1>3, <1>4, <1>5, <1>6, QuietStep

LEMMA SendJobStep ==
  ASSUME Inv, status = "running", NEW w \in Workers, SendJob(w)
  PROVE  Inv'
<1>1. ctx[w] = NoContext /\ ctx[w].type = "IO_NONE" /\ pc[w] = "sendJob"
  BY InHand DEF SendJob
<1>2. PICK l : /\ Goto(w, l)
               /\ \/ l = "gqcs"
                  \/ l \in {"flush", "disconnect"} /\ sendList[w] # << >>
  BY DEF SendJob
<1>3. sendList' = sendList
  BY DEF SendJob
<1>4. Fits(w, l)
  BY <1>1, <1>2, <1>3 DEF Fits, Holding, WorkerLabels
<1>5. l \notin StageLabels \cup {"sendCompletion", "flushRelease"}
  BY <1>2 DEF StageLabels
<1>6. ctx[w].type \notin Receiving /\ ctx[w].type # "IO_CONNECT" /\ pc[w] # "flushRelease"
  BY <1>1 DEF Receiving
<1>7. /\ status' = status /\ mCurrentConnectCount' \in Nat /\ stops' = stops /\ sock' = sock
      /\ mConnected' = mConnected
      /\ UNCHANGED <<todo, target, mCurrentReturnCount, mRefCount, sendVars, ctx, sendList,
                     ios, issued, revived>>
  BY DEF SendJob, Inv, Fields, mainVars, portVars
<1>8. QED
  BY <1>2, <1>4, <1>5, <1>6, <1>7, QuietStep

LEMMA FlushNothingStep ==
  ASSUME Inv, status = "running", NEW w \in Workers, FlushNothing(w)
  PROVE  Inv'
<1>1. ctx[w] = NoContext /\ ctx[w].type = "IO_NONE" /\ pc[w] = "flush" /\ sendList[w] # << >>
  BY InHand DEF FlushNothing
<1>2. PICK l : Goto(w, l) /\ l \in {"flushed", "sendJob"}
  BY DEF FlushNothing
<1>3. sendList' = sendList
  BY DEF FlushNothing
<1>4. Fits(w, l)
  BY <1>1, <1>2, <1>3 DEF Fits, Holding, WorkerLabels
<1>5. l \notin StageLabels \cup {"sendCompletion", "flushRelease"}
  BY <1>2 DEF StageLabels
<1>6. ctx[w].type \notin Receiving /\ ctx[w].type # "IO_CONNECT" /\ pc[w] # "flushRelease"
  BY <1>1 DEF Receiving
<1>7. /\ status' = status /\ mCurrentConnectCount' \in Nat /\ stops' = stops /\ sock' = sock
      /\ mConnected' = mConnected
      /\ UNCHANGED <<todo, target, mCurrentReturnCount, mRefCount, sendVars, ctx, sendList,
                     ios, issued, revived>>
  BY DEF FlushNothing, Inv, Fields, mainVars, portVars
<1>8. QED
  BY <1>2, <1>4, <1>5, <1>6, <1>7, QuietStep

LEMMA StopNowStep ==
  ASSUME Inv, status = "running", NEW w \in Workers, StopNow(w)
  PROVE  Inv'
<1>1. ctx[w] = NoContext /\ ctx[w].type = "IO_NONE" /\ pc[w] = "gqcs"
  BY InHand DEF StopNow
<1>2. /\ Goto(w, "ended") /\ stops > 0 /\ stops' = stops - 1
      /\ UNCHANGED <<status, mainVars, mCurrentConnectCount, mCurrentReturnCount, mConnected,
                     mRefCount, sendVars, ctx, sendList, ios, sock, issued, revived>>
  BY DEF StopNow
<1>3. Walk(w, "ended")
  BY <1>2, Going DEF mainVars
<1>4. Fits(w, "ended")
  BY <1>1 DEF Fits, Holding, WorkerLabels
<1>5. "ended" \notin StageLabels \cup {"sendCompletion", "flushRelease"}
  BY DEF StageLabels
<1>6. ctx[w].type \notin Receiving /\ ctx[w].type # "IO_CONNECT" /\ pc[w] # "flushRelease"
  BY <1>1 DEF Receiving
<1>7. Typed
  <2>1. Cardinality(Workers) \in Nat
    BY ThreadsAssumption, FS_CardinalityType
  <2>2. stops \in 0..Cardinality(Workers)
    BY DEF Inv, Fields
  <2>3. stops' \in 0..Cardinality(Workers)
    BY <1>2, <2>1, <2>2
  <2>4. QED BY <1>2, <2>3 DEF Typed, Inv, Fields
<1>8. /\ mConnected' \in [Sessions -> {0, 1}]
      /\ \A s \in Sessions : mConnected'[s] = 1 => mConnected[s] = 1
      /\ UNCHANGED <<todo, mCurrentReturnCount, mRefCount, sendVars, ios, issued, revived>>
  BY <1>2 DEF Inv, Fields, mainVars
<1>9. QED
  BY <1>3, <1>4, <1>5, <1>6, <1>7, <1>8, EasyStep

LEMMA FlushedStep ==
  ASSUME Inv, status = "running", NEW w \in Workers, Flushed(w)
  PROVE  Inv'
<1>1. ctx[w] = NoContext /\ ctx[w].type = "IO_NONE" /\ pc[w] = "flushed" /\ sendList[w] # << >>
  BY InHand DEF Flushed
<1>2. /\ Goto(w, "sendJob") /\ sendList' = [sendList EXCEPT ![w] = Tail(@)]
      /\ UNCHANGED <<status, mainVars, mCurrentConnectCount, mCurrentReturnCount, mConnected,
                     mRefCount, sendVars, ctx, portVars, sock, issued, revived>>
  BY DEF Flushed
<1>3. sendList \in [Workers -> Seq(Sessions)]
  BY DEF Inv, Fields
<1>4. sendList' \in [Workers -> Seq(Sessions)]
  <2>1. Tail(sendList[w]) \in Seq(Sessions)
    BY <1>1, <1>3
  <2>2. QED BY <1>2, <1>3, <2>1
<1>5. Walk(w, "sendJob")
  BY <1>2, <1>3 DEF Walk, Goto, mainVars
<1>6. Fits(w, "sendJob")
  BY <1>1 DEF Fits, Holding, WorkerLabels
<1>7. "sendJob" \notin StageLabels \cup {"sendCompletion", "flushRelease"}
  BY DEF StageLabels
<1>8. ctx[w].type \notin Receiving /\ ctx[w].type # "IO_CONNECT" /\ pc[w] # "flushRelease"
  BY <1>1 DEF Receiving
<1>9. Typed
  BY <1>2, <1>4 DEF Typed, Inv, Fields, portVars
<1>10. /\ mConnected' \in [Sessions -> {0, 1}]
       /\ \A s \in Sessions : mConnected'[s] = 1 => mConnected[s] = 1
       /\ UNCHANGED <<todo, mCurrentReturnCount, mRefCount, sendVars, ios, issued, revived>>
  BY <1>2 DEF Inv, Fields, mainVars, portVars
<1>11. QED
  BY <1>5, <1>6, <1>7, <1>8, <1>9, <1>10, EasyStep

-----------------------------------------------------------------------------
(* Counting references.                                                      *)

\* The count of one session changes by as much as its references.
LEMMA CountsGoUp ==
  ASSUME Inv, NEW s \in Sessions,
         mRefCount' = [mRefCount EXCEPT ![s] = @ + 1],
         References(s)' = References(s) + 1,
         \A r \in Sessions \ {s} : References(r)' = References(r)
  PROVE  RefCountIsReferences' /\ mRefCount' \in [Sessions -> Int]
<1>1. mRefCount \in [Sessions -> Int] /\ \A r \in Sessions : mRefCount[r] = References(r)
  BY DEF Inv, Fields, RefCountIsReferences
<1>2. mRefCount' \in [Sessions -> Int]
  BY <1>1
<1>3. ASSUME NEW r \in Sessions
      PROVE  mRefCount'[r] = References(r)'
  <2>1. CASE r = s
    BY <1>1, <2>1
  <2>2. CASE r # s
    BY <1>1, <2>2
  <2>3. QED BY <2>1, <2>2
<1>4. QED BY <1>2, <1>3 DEF RefCountIsReferences

LEMMA CountsGoDown ==
  ASSUME Inv, NEW s \in Sessions,
         mRefCount' = [mRefCount EXCEPT ![s] = @ - 1],
         References(s)' = References(s) - 1,
         \A r \in Sessions \ {s} : References(r)' = References(r)
  PROVE  RefCountIsReferences' /\ mRefCount' \in [Sessions -> Int]
<1>1. mRefCount \in [Sessions -> Int] /\ \A r \in Sessions : mRefCount[r] = References(r)
  BY DEF Inv, Fields, RefCountIsReferences
<1>2. mRefCount' \in [Sessions -> Int]
  BY <1>1
<1>3. ASSUME NEW r \in Sessions
      PROVE  mRefCount'[r] = References(r)'
  <2>1. CASE r = s
    BY <1>1, <2>1
  <2>2. CASE r # s
    BY <1>1, <2>2
  <2>3. QED BY <2>1, <2>2
<1>4. QED BY <1>2, <1>3 DEF RefCountIsReferences

\* An operation is started, or is complete.
LEMMA OneMoreInFlight ==
  ASSUME Inv, NEW s \in Sessions, NEW c, c \notin ios, c.sess = s, ios' = ios \cup {c},
         issued' = issued,
         \A r \in Sessions : Handlers(r)' = Handlers(r) /\ Flushers(r)' = Flushers(r)
  PROVE  /\ References(s)' = References(s) + 1
         /\ \A r \in Sessions \ {s} : References(r)' = References(r)
<1>1. /\ InFlight(s)' = InFlight(s) \cup {c} /\ c \notin InFlight(s)
      /\ \A r \in Sessions \ {s} : InFlight(r)' = InFlight(r)
  BY DEF InFlight
<1>2. IsFiniteSet(InFlight(s)) /\ Cardinality(InFlight(s)) \in Nat
  BY ReferencesAreCounted
<1>3. Cardinality(InFlight(s)') = Cardinality(InFlight(s)) + 1
  BY <1>1, <1>2, FS_AddElement
<1>4. Cardinality(Handlers(s)) \in Nat /\ Cardinality(Flushers(s)) \in Nat
  BY ReferencesAreCounted
<1>5. References(s)' = References(s) + 1
  BY <1>2, <1>3, <1>4 DEF References
<1>6. \A r \in Sessions \ {s} : References(r)' = References(r)
  BY <1>1 DEF References
<1>7. QED BY <1>5, <1>6

\* FlushSend makes a context for itself, or deletes it.
LEMMA OneMoreFlusher ==
  ASSUME Inv, NEW s \in Sessions, NEW w, w \notin Flushers(s),
         Flushers(s)' = Flushers(s) \cup {w},
         \A r \in Sessions \ {s} : Flushers(r)' = Flushers(r),
         issued' = issued,
         \A r \in Sessions : Handlers(r)' = Handlers(r) /\ InFlight(r)' = InFlight(r)
  PROVE  /\ References(s)' = References(s) + 1
         /\ \A r \in Sessions \ {s} : References(r)' = References(r)
<1>1. IsFiniteSet(Flushers(s)) /\ Cardinality(Flushers(s)) \in Nat
  BY ReferencesAreCounted
<1>2. Cardinality(Flushers(s)') = Cardinality(Flushers(s)) + 1
  BY <1>1, FS_AddElement
<1>3. Cardinality(Handlers(s)) \in Nat /\ Cardinality(InFlight(s)) \in Nat
  BY ReferencesAreCounted
<1>4. References(s)' = References(s) + 1
  BY <1>1, <1>2, <1>3 DEF References
<1>5. \A r \in Sessions \ {s} : References(r)' = References(r)
  BY DEF References
<1>6. QED BY <1>4, <1>5

LEMMA OneFlusherLess ==
  ASSUME Inv, NEW s \in Sessions, NEW w \in Flushers(s),
         Flushers(s)' = Flushers(s) \ {w},
         \A r \in Sessions \ {s} : Flushers(r)' = Flushers(r),
         issued' = issued,
         \A r \in Sessions : Handlers(r)' = Handlers(r) /\ InFlight(r)' = InFlight(r)
  PROVE  /\ References(s)' = References(s) - 1
         /\ \A r \in Sessions \ {s} : References(r)' = References(r)
<1>1. IsFiniteSet(Flushers(s)) /\ Cardinality(Flushers(s)) \in Nat
  BY ReferencesAreCounted
<1>2. Cardinality(Flushers(s)') = Cardinality(Flushers(s)) - 1
  BY <1>1, FS_RemoveElement
<1>3. Cardinality(Handlers(s)) \in Nat /\ Cardinality(InFlight(s)) \in Nat
  BY ReferencesAreCounted
<1>4. References(s)' = References(s) - 1
  BY <1>1, <1>2, <1>3 DEF References
<1>5. \A r \in Sessions \ {s} : References(r)' = References(r)
  BY DEF References
<1>6. QED BY <1>4, <1>5

LEMMA OneHandlerLess ==
  ASSUME Inv, NEW s \in Sessions, NEW w \in Handlers(s),
         Handlers(s)' = Handlers(s) \ {w},
         \A r \in Sessions \ {s} : Handlers(r)' = Handlers(r),
         issued' = issued,
         \A r \in Sessions : Flushers(r)' = Flushers(r) /\ InFlight(r)' = InFlight(r)
  PROVE  /\ References(s)' = References(s) - 1
         /\ \A r \in Sessions \ {s} : References(r)' = References(r)
<1>1. IsFiniteSet(Handlers(s)) /\ Cardinality(Handlers(s)) \in Nat
  BY ReferencesAreCounted
<1>2. Cardinality(Handlers(s)') = Cardinality(Handlers(s)) - 1
  BY <1>1, FS_RemoveElement
<1>3. Cardinality(Flushers(s)) \in Nat /\ Cardinality(InFlight(s)) \in Nat
  BY ReferencesAreCounted
<1>4. References(s)' = References(s) - 1
  BY <1>1, <1>2, <1>3 DEF References
<1>5. \A r \in Sessions \ {s} : References(r)' = References(r)
  BY DEF References
<1>6. QED BY <1>4, <1>5

\* A completion is dequeued: its reference goes over to the worker.
LEMMA FlightToHandler ==
  ASSUME Inv, NEW s \in Sessions, NEW c \in InFlight(s), NEW w, w \notin Handlers(s),
         InFlight(s)' = InFlight(s) \ {c}, Handlers(s)' = Handlers(s) \cup {w},
         \A r \in Sessions \ {s} : InFlight(r)' = InFlight(r) /\ Handlers(r)' = Handlers(r),
         issued' = issued,
         \A r \in Sessions : Flushers(r)' = Flushers(r)
  PROVE  \A r \in Sessions : References(r)' = References(r)
<1>1. /\ IsFiniteSet(InFlight(s)) /\ Cardinality(InFlight(s)) \in Nat
      /\ IsFiniteSet(Handlers(s)) /\ Cardinality(Handlers(s)) \in Nat
      /\ Cardinality(Flushers(s)) \in Nat
  BY ReferencesAreCounted
<1>2. Cardinality(InFlight(s)') = Cardinality(InFlight(s)) - 1
  BY <1>1, FS_RemoveElement
<1>3. Cardinality(Handlers(s)') = Cardinality(Handlers(s)) + 1
  BY <1>1, FS_AddElement
<1>4. References(s)' = References(s)
  BY <1>1, <1>2, <1>3 DEF References
<1>5. \A r \in Sessions \ {s} : References(r)' = References(r)
  BY DEF References
<1>6. QED BY <1>4, <1>5

\* A session that has a reference gets another, or one without is revived.
LEMMA ReturnsAfterAddRef ==
  ASSUME Inv, NEW s \in Sessions, mRefCount' = [mRefCount EXCEPT ![s] = @ + 1],
         mRefCount[s] # 0 \/ revived', revived => revived',
         \A r \in Sessions : Waits(r)' <=> Waits(r),
         mCurrentReturnCount' = mCurrentReturnCount
  PROVE  Returns'
<1>1. mRefCount \in [Sessions -> Int] /\ mRefCount[s] \in Nat
  BY ReferencesAreCounted DEF Inv, Fields
<1>2. ASSUME ~revived'
      PROVE  Returned' = Returned
  <2>1. mRefCount[s] # 0 /\ mRefCount'[s] # 0
    BY <1>1, <1>2
  <2>2. \A r \in Sessions : mRefCount'[r] = 0 <=> mRefCount[r] = 0
    BY <1>1, <2>1
  <2>3. QED BY <2>2 DEF Returned
<1>3. QED BY <1>2 DEF Inv, Returns

\* The last reference of a session is released once.
LEMMA ReturnsAfterRelease ==
  ASSUME Inv, NEW s \in Sessions, ReleaseRef(s),
         issued[s] \/ Handlers(s) # {} \/ Flushers(s) # {},
         revived' = revived, \A r \in Sessions : Waits(r)' <=> Waits(r)
  PROVE  /\ Returns' /\ status' = status /\ mCurrentReturnCount' \in Nat
         /\ mRefCount' = [mRefCount EXCEPT ![s] = @ - 1]
<1>1. mRefCount[s] \in Nat \ {0} /\ ~Waits(s)
  BY ReferredIsCounted
<1>2. mRefCount \in [Sessions -> Int] /\ mCurrentReturnCount \in Nat
  BY DEF Inv, Fields
<1>3. /\ mRefCount' = [mRefCount EXCEPT ![s] = @ - 1]
      /\ mCurrentReturnCount' = mCurrentReturnCount + (IF mRefCount[s] = 1 THEN 1 ELSE 0)
      /\ status' = status
  BY <1>1 DEF ReleaseRef
<1>4. mCurrentReturnCount' \in Nat
  <2>1. CASE mRefCount[s] = 1
    BY <1>2, <1>3, <2>1
  <2>2. CASE mRefCount[s] # 1
    BY <1>2, <1>3, <2>2
  <2>3. QED BY <2>1, <2>2
<1>5. IsFiniteSet(Returned) /\ s \notin Returned
  <2>1. Returned \subseteq Sessions /\ s \notin Returned
    BY <1>1 DEF Returned
  <2>2. QED BY <2>1, FS_Subset, ThreadsAssumption
<1>6. CASE mRefCount[s] = 1
  <2>1. Returned' = Returned \cup {s}
    <3>1. mRefCount'[s] = 0 /\ \A r \in Sessions \ {s} : mRefCount'[r] = mRefCount[r]
      BY <1>2, <1>3, <1>6
    <3>2. QED BY <1>1, <3>1 DEF Returned
  <2>2. Cardinality(Returned') = Cardinality(Returned) + 1
    BY <1>5, <2>1, FS_AddElement
  <2>3. mCurrentReturnCount' = mCurrentReturnCount + 1
    BY <1>3, <1>6
  <2>4. Returns'
    BY <2>2, <2>3 DEF Inv, Returns
  <2>5. QED BY <1>3, <1>4, <2>4
<1>7. CASE mRefCount[s] # 1
  <2>1. Returned' = Returned
    <3>1. /\ mRefCount'[s] # 0 /\ mRefCount[s] # 0
          /\ \A r \in Sessions \ {s} : mRefCount'[r] = mRefCount[r]
      BY <1>1, <1>2, <1>3, <1>7
    <3>2. QED BY <1>1, <3>1 DEF Returned
  <2>2. mCurrentReturnCount' = mCurrentReturnCount
    BY <1>2, <1>3, <1>7
  <2>3. Returns'
    BY <2>1, <2>2 DEF Inv, Returns
  <2>4. QED BY <1>3, <1>4, <2>3
<1>8. QED BY <1>6, <1>7

\* What Post does to the sets of operations in flight.
LEMMA PostedSets ==
  ASSUME NEW type, NEW s, NEW len, ios' = ios \cup {Context(type, s, len)}
  PROVE  /\ \A r, types : IosOf(r, types)' \subseteq IosOf(r, types) \cup {Context(type, s, len)}
         /\ \A r, types : r # s \/ type \notin types => IosOf(r, types)' = IosOf(r, types)
         /\ \A r : r # s => InFlight(r)' = InFlight(r)
  BY DEF IosOf, InFlight, Context

\* An operation is started.
LEMMA PostCounts ==
  ASSUME Inv, NEW s \in Sessions, NEW type \in IOTypes, NEW len \in 0..LoginSize,
         Post(type, s, len), Context(type, s, len) \notin ios,
         mRefCount[s] # 0 \/ revived', revived => revived', ~Waits(s),
         \A r \in Sessions : Waits(r)' <=> Waits(r),
         \A r \in Sessions : Handlers(r)' = Handlers(r) /\ Flushers(r)' = Flushers(r),
         issued' = issued, mCurrentReturnCount' = mCurrentReturnCount,
         mSendBuffer' = mSendBuffer
  PROVE  /\ RefCountIsReferences' /\ Returns' /\ Untouched'
         /\ mRefCount' \in [Sessions -> Int] /\ ios' \subseteq Contexts /\ IsFiniteSet(ios')
<1>1. PICK c : c = Context(type, s, len)
  OBVIOUS
<1>2. c \in Contexts /\ c.sess = s /\ c \notin ios
  BY <1>1, FaultsAssumption DEF Context, Contexts, IOTypes
<1>3. ios' = ios \cup {c} /\ mRefCount' = [mRefCount EXCEPT ![s] = @ + 1]
  BY <1>1 DEF Post
<1>4. /\ References(s)' = References(s) + 1
      /\ \A r \in Sessions \ {s} : References(r)' = References(r)
  BY <1>2, <1>3, OneMoreInFlight
<1>5. RefCountIsReferences' /\ mRefCount' \in [Sessions -> Int]
  BY <1>3, <1>4, CountsGoUp
<1>6. Returns'
  BY <1>3, ReturnsAfterAddRef
<1>7. Untouched'
  <2>1. \A r \in Sessions : r # s => InFlight(r)' = InFlight(r)
    BY <1>3, <1>2 DEF InFlight
  <2>2. QED BY <2>1 DEF Inv, Untouched
<1>8. ios' \subseteq Contexts /\ IsFiniteSet(ios')
  <2>1. ios \subseteq Contexts /\ IsFiniteSet(ios)
    BY DEF Inv, Fields
  <2>2. IsFiniteSet(ios \cup {c})
    BY <1>2, <2>1, FS_AddElement
  <2>3. QED BY <1>2, <1>3, <2>1, <2>2
<1>9. QED BY <1>5, <1>6, <1>7, <1>8

-----------------------------------------------------------------------------
(* The steps that start an operation.                                        *)

LEMMA WaitsStay ==
  ASSUME NEW s, pc'[Main] = pc[Main], todo' = todo
  PROVE  Waits(s)' <=> Waits(s)
  BY DEF Waits

\* A worker has been receiving and hands the receive on to the system.
LEMMA ReceivePosted ==
  ASSUME Inv, status = "running", NEW w \in Workers, NEW l \in {"established", "drop"},
         NEW type \in {"IO_RECV_ZERO", "IO_RECV"}, NEW len \in 0..1, NEW s \in Sessions,
         s = Remote(w), w \in ReceiveWorkers(s),
         pc[w] \notin LoggedIn, pc[w] # "flushRelease",
         Goto(w, l), Fits(w, l), Post(type, s, len),
         UNCHANGED <<status, mainVars, mCurrentConnectCount, mCurrentReturnCount, mConnected,
                     sendVars, ctx, sendList, stops, sock, issued, revived>>
  PROVE  Inv'
<1>1. /\ status' = status /\ todo' = todo /\ target' = target /\ sendList' = sendList
      /\ mCurrentConnectCount' = mCurrentConnectCount /\ stops' = stops /\ sock' = sock
      /\ mCurrentReturnCount' = mCurrentReturnCount /\ mConnected' = mConnected /\ ctx' = ctx
      /\ mSendPendingCount' = mSendPendingCount /\ mSendBuffer' = mSendBuffer
      /\ issued' = issued /\ revived' = revived
  BY DEF mainVars, sendVars
<1>2. Walk(w, l)
  BY <1>1, Going
<1>3. w \in Handlers(s)
  BY DEF ReceiveWorkers
<1>4. mRefCount[s] # 0 /\ ~Waits(s)
  BY <1>3, ReferredIsCounted
<1>5. Context(type, s, len) \notin ios
  <2>1. AtMostOne(IosOf(s, Receiving), ReceiveWorkers(s))
    BY DEF Inv, Receives
  <2>2. IosOf(s, Receiving) = {}
    BY <2>1 DEF AtMostOne
  <2>3. QED BY <2>2 DEF IosOf, Context, Receiving
<1>6. l \notin StageLabels /\ l # "sendCompletion" /\ l # "flushRelease" /\ l \in Done
  BY DEF StageLabels, Done
<1>7. \A r : Handlers(r)' = Handlers(r) /\ Flushers(r)' = Flushers(r)
  BY <1>2, <1>6, WalkSets
<1>8. \A r : Waits(r)' <=> Waits(r)
  <2>1. pc'[Main] = pc[Main]
    BY <1>2, WalkSets
  <2>2. QED BY <1>1, <2>1, WaitsStay
<1>9. /\ RefCountIsReferences' /\ Returns' /\ Untouched'
      /\ mRefCount' \in [Sessions -> Int] /\ ios' \subseteq Contexts /\ IsFiniteSet(ios')
  <2>1. type \in IOTypes /\ len \in 0..LoginSize
    BY FaultsAssumption DEF IOTypes
  <2>2. QED BY <1>1, <1>4, <1>5, <1>7, <1>8, <2>1, PostCounts
<1>10. /\ \A r, types : IosOf(r, types)' \subseteq IosOf(r, types) \cup {Context(type, s, len)}
       /\ \A r, types : r # s \/ type \notin types => IosOf(r, types)' = IosOf(r, types)
  BY PostedSets DEF Post
<1>11. Control' /\ pc' \in [Workers \cup {Main} -> MainLabels \cup WorkerLabels]
  BY <1>2, WalkControl
<1>12. Fields'
  BY <1>1, <1>9, <1>11 DEF Inv, Fields
<1>13. Stages'
  <2>1. \A r : StageThreads(r)' \subseteq StageThreads(r)
    BY <1>2, <1>6, WalkSets
  <2>2. type \notin StageTypes
    BY DEF StageTypes
  <2>3. QED BY <1>1, <1>10, <2>1, <2>2, KeepStages
<1>14. Sends'
  <2>1. \A r : SendWorkers(r)' \subseteq SendWorkers(r)
    BY <1>2, <1>6, WalkSets
  <2>2. type \notin {"IO_SEND"}
    OBVIOUS
  <2>3. \A r : \A v \in SendWorkers(r)' : ctx'[v] = ctx[v]
    BY <1>1
  <2>4. QED BY <1>1, <1>10, <2>1, <2>2, <2>3, KeepSends
<1>15. Logins'
  <2>1. \A r : LoginWorkers(r)' \subseteq LoginWorkers(r)
    <3> SUFFICES ASSUME NEW r, NEW v \in LoginWorkers(r)'
                 PROVE  v \in LoginWorkers(r)
      OBVIOUS
    <3>1. \/ v \in LoginWorkers(r)
          \/ v = w /\ w \in Handlers(r) /\ ctx[w].type = "IO_CONNECT"
      BY <1>2, WalkSets
    <3>2. QED BY <3>1 DEF LoginWorkers, LoggedIn
  <2>2. type \notin {"IO_CONNECT"}
    OBVIOUS
  <2>3. QED BY <1>1, <1>10, <2>1, <2>2, KeepLogins
<1>16. Receives'
  <2> SUFFICES ASSUME NEW r \in Sessions
               PROVE  AtMostOne(IosOf(r, Receiving)', ReceiveWorkers(r)')
    BY DEF Receives, AtMostOne
  <2>1. AtMostOne(IosOf(r, Receiving), ReceiveWorkers(r))
    BY DEF Inv, Receives
  <2>2. ReceiveWorkers(r)' \subseteq ReceiveWorkers(r) \ {w}
    BY <1>2, <1>6, WalkSets
  <2>3. CASE r = s
    <3>1. IosOf(r, Receiving)' \subseteq IosOf(r, Receiving) \cup {Context(type, s, len)}
      BY <1>10
    <3>2. QED BY <2>1, <2>2, <2>3, <3>1, RightToLeft
  <2>4. CASE r # s
    <3>1. IosOf(r, Receiving)' = IosOf(r, Receiving)
      BY <1>10, <2>4
    <3>2. QED BY <2>1, <2>2, <3>1, FewerIsFine
  <2>5. QED BY <2>3, <2>4
<1>17. QED
  BY <1>1, <1>9, <1>11, <1>12, <1>13, <1>14, <1>15, <1>16 DEF Inv

LEMMA PreRecvCallStep ==
  ASSUME Inv, status = "running", NEW w \in Workers, PreRecvCall(w)
  PROVE  Inv'
<1>1. ctx[w] # NoContext /\ ctx[w].type \in {"IO_CONNECT", "IO_RECV"} /\ pc[w] = "preRecvCall"
  BY InHand DEF PreRecvCall, Holding, KindOf
<1>2. UNCHANGED <<status, mainVars, mCurrentConnectCount, mCurrentReturnCount, mConnected,
                  sendVars, ctx, sendList, stops, sock, issued, revived>>
  BY DEF PreRecvCall
<1>3. pc[w] \notin Done /\ pc[w] \notin LoggedIn /\ pc[w] # "flushRelease"
  BY <1>1 DEF Done, LoggedIn
<1>4. CASE Post("IO_RECV_ZERO", Remote(w), 0) /\ Goto(w, AfterPreRecv(w, TRUE))
  <2>1. PICK l \in {"established", "drop"} :
          /\ Goto(w, l)
          /\ l = "established" => ctx[w].type = "IO_CONNECT"
    BY <1>4 DEF AfterPreRecv
  <2>2. Fits(w, l)
    BY <1>1, <2>1 DEF Fits, KindOf, WorkerLabels, IOTypes
  <2>3. w \in Handlers(Remote(w)) /\ Remote(w) \in Sessions
    BY <1>1, HandlerFacts
  <2>4. w \in ReceiveWorkers(Remote(w))
    BY <1>1, <2>3 DEF ReceiveWorkers, Receiving
  <2>5. 0 \in 0..1
    OBVIOUS
  <2>6. QED
    BY <1>2, <1>3, <1>4, <2>1, <2>2, <2>3, <2>4, <2>5, ReceivePosted
<1>5. CASE Refused /\ Goto(w, AfterPreRecv(w, FALSE))
  <2>1. PICK l : /\ Goto(w, l)
                 /\ \/ l = "unconnect" /\ ctx[w].type = "IO_CONNECT"
                    \/ l = "disconnect" /\ ctx[w].type = "IO_RECV"
    BY <1>1, <1>5 DEF AfterPreRecv
  <2>2. Fits(w, l)
    BY <1>1, <2>1 DEF Fits, KindOf, WorkerLabels
  <2>3. l \notin StageLabels \cup {"sendCompletion", "flushRelease"}
    BY <2>1 DEF StageLabels
  <2>4. /\ status' = status /\ mCurrentConnectCount' \in Nat /\ stops' = stops /\ sock' = sock
        /\ mConnected' = mConnected
        /\ UNCHANGED <<todo, target, mCurrentReturnCount, mRefCount, sendVars, ctx, sendList,
                       ios, issued, revived>>
    BY <1>2, <1>5 DEF Refused, Inv, Fields, mainVars
  <2>5. QED
    BY <1>3, <2>1, <2>2, <2>3, <2>4, QuietStep
<1>6. QED
  BY <1>4, <1>5 DEF PreRecvCall

LEMMA PostRecvCallStep ==
  ASSUME Inv, status = "running", NEW w \in Workers, PostRecvCall(w)
  PROVE  Inv'
<1>1. ctx[w] # NoContext /\ ctx[w].type \in {"IO_RECV_ZERO"} /\ pc[w] = "postRecvCall"
  BY InHand DEF PostRecvCall, Holding, KindOf
<1>2. UNCHANGED <<status, mainVars, mCurrentConnectCount, mCurrentReturnCount, mConnected,
                  sendVars, ctx, sendList, stops, sock, issued, revived>>
  BY DEF PostRecvCall
<1>3. pc[w] \notin Done /\ pc[w] \notin LoggedIn /\ pc[w] # "flushRelease"
  BY <1>1 DEF Done, LoggedIn
<1>4. CASE Post("IO_RECV", Remote(w), 1) /\ Goto(w, "drop")
  <2>1. Fits(w, "drop")
    BY <1>1 DEF Fits, KindOf, WorkerLabels, IOTypes
  <2>2. w \in Handlers(Remote(w)) /\ Remote(w) \in Sessions
    BY <1>1, HandlerFacts
  <2>3. w \in ReceiveWorkers(Remote(w))
    BY <1>1, <2>2 DEF ReceiveWorkers, Receiving
  <2>4. 1 \in 0..1
    OBVIOUS
  <2>5. QED
    BY <1>2, <1>3, <1>4, <2>1, <2>2, <2>3, <2>4, ReceivePosted
<1>5. CASE Refused /\ Goto(w, "disconnect")
  <2>1. Fits(w, "disconnect")
    BY <1>1 DEF Fits, KindOf, WorkerLabels, Holding
  <2>2. "disconnect" \notin StageLabels \cup {"sendCompletion", "flushRelease"}
    BY DEF StageLabels
  <2>3. /\ status' = status /\ mCurrentConnectCount' \in Nat /\ stops' = stops /\ sock' = sock
        /\ mConnected' = mConnected
        /\ UNCHANGED <<todo, target, mCurrentReturnCount, mRefCount, sendVars, ctx, sendList,
                       ios, issued, revived>>
    BY <1>2, <1>5 DEF Refused, Inv, Fields, mainVars
  <2>4. QED
    BY <1>3, <1>5, <2>1, <2>2, <2>3, QuietStep
<1>6. QED
  BY <1>4, <1>5 DEF PostRecvCall

\* A step of the main thread changes nothing about the workers.
LEMMA MainSets ==
  ASSUME Inv, NEW l \in MainLabels, Goto(Main, l), ctx' = ctx, sendList' = sendList
  PROVE  /\ Control' /\ pc' \in [Workers \cup {Main} -> MainLabels \cup WorkerLabels]
         /\ pc'[Main] = l
         /\ \A s : /\ Handlers(s)' = Handlers(s) /\ Flushers(s)' = Flushers(s)
                   /\ SendWorkers(s)' = SendWorkers(s) /\ LoginWorkers(s)' = LoginWorkers(s)
                   /\ ReceiveWorkers(s)' = ReceiveWorkers(s)
         /\ \A s : \A t \in StageThreads(s)' :
              \/ t \in StageThreads(s) /\ t # Main
              \/ t = Main /\ l \in StageLabels /\ target' = s
<1>1. pc \in [Workers \cup {Main} -> MainLabels \cup WorkerLabels] /\ Main \notin Workers
  BY ThreadsAssumption DEF Inv, Fields
<1>2. /\ pc' \in [Workers \cup {Main} -> MainLabels \cup WorkerLabels]
      /\ pc'[Main] = l /\ \A w \in Workers : pc'[w] = pc[w]
  BY <1>1 DEF Goto
<1>3. \A w \in Workers : Remote(w)' = Remote(w)
  BY <1>1 DEF Remote
<1>4. Control'
  BY <1>2 DEF Inv, Control
<1>5. \A s : Handlers(s)' = Handlers(s)
  BY <1>3 DEF Handlers
<1>6. \A s : Flushers(s)' = Flushers(s)
  BY <1>2, <1>3 DEF Flushers
<1>7. \A s : SendWorkers(s)' = SendWorkers(s)
  BY <1>2, <1>3 DEF SendWorkers
<1>8. \A s : LoginWorkers(s)' = LoginWorkers(s)
  BY <1>2, <1>3 DEF LoginWorkers, Handlers
<1>9. \A s : ReceiveWorkers(s)' = ReceiveWorkers(s)
  BY <1>2, <1>3 DEF ReceiveWorkers, Handlers
<1>10. ASSUME NEW s, NEW t \in StageThreads(s)'
       PROVE  \/ t \in StageThreads(s) /\ t # Main
              \/ t = Main /\ l \in StageLabels /\ target' = s
  <2>1. t \in Workers \cup {Main} /\ pc'[t] \in StageLabels /\ Remote(t)' = s
    BY <1>10 DEF StageThreads
  <2>2. CASE t = Main
    BY <1>2, <2>1, <2>2 DEF Remote
  <2>3. CASE t # Main
    BY <1>1, <1>2, <1>3, <2>1, <2>3 DEF StageThreads
  <2>4. QED BY <2>2, <2>3
<1>11. QED
  BY <1>2, <1>4, <1>5, <1>6, <1>7, <1>8, <1>9, <1>10

\* A thread that has found its session connected asks for the disconnect, once.
LEMMA DisconnectPosted ==
  ASSUME Inv, status = "running", NEW s \in Sessions, NEW t \in StageThreads(s),
         Post("IO_DISCONNECT", s, 0),
         \A r : StageThreads(r)' \subseteq StageThreads(r) \ {t},
         \A r : /\ ReceiveWorkers(r)' \subseteq ReceiveWorkers(r)
                /\ SendWorkers(r)' \subseteq SendWorkers(r)
                /\ LoginWorkers(r)' \subseteq LoginWorkers(r),
         \A r : Handlers(r)' = Handlers(r) /\ Flushers(r)' = Flushers(r),
         \A r \in Sessions : Waits(r)' <=> Waits(r),
         Control', pc' \in [Workers \cup {Main} -> MainLabels \cup WorkerLabels],
         sock' = [sock EXCEPT ![s] = "down"],
         UNCHANGED <<status, mainVars, mCurrentConnectCount, mCurrentReturnCount, mConnected,
                     sendVars, ctx, sendList, stops, issued, revived>>
  PROVE  Inv'
<1>1. /\ status' = status /\ todo' = todo /\ target' = target /\ sendList' = sendList
      /\ mCurrentConnectCount' = mCurrentConnectCount /\ stops' = stops
      /\ mCurrentReturnCount' = mCurrentReturnCount /\ mConnected' = mConnected /\ ctx' = ctx
      /\ mSendPendingCount' = mSendPendingCount /\ mSendBuffer' = mSendBuffer
      /\ issued' = issued /\ revived' = revived
  BY DEF mainVars, sendVars
<1>2. \A r \in Sessions :
        /\ AtMostOne(IosOf(r, StageTypes), StageThreads(r))
        /\ mConnected[r] = 1 => IosOf(r, StageTypes) = {} /\ StageThreads(r) = {}
        /\ mConnected[r] = 1 \/ IosOf(r, StageTypes) # {} \/ StageThreads(r) # {} => issued[r]
  BY DEF Inv, Stages
<1>3. issued[s] /\ mConnected[s] # 1 /\ IosOf(s, StageTypes) = {}
  BY <1>2 DEF AtMostOne
<1>4. mRefCount[s] # 0 /\ ~Waits(s)
  BY <1>3, ReferredIsCounted
<1>5. Context("IO_DISCONNECT", s, 0) \notin ios
  BY <1>3 DEF IosOf, Context, StageTypes
<1>6. /\ RefCountIsReferences' /\ Returns' /\ Untouched'
      /\ mRefCount' \in [Sessions -> Int] /\ ios' \subseteq Contexts /\ IsFiniteSet(ios')
  <2>1. "IO_DISCONNECT" \in IOTypes /\ 0 \in 0..LoginSize
    BY FaultsAssumption DEF IOTypes
  <2>2. QED BY <1>1, <1>4, <1>5, <2>1, PostCounts
<1>7. PICK c : c = Context("IO_DISCONNECT", s, 0)
  OBVIOUS
<1>8. /\ \A r, types : IosOf(r, types)' \subseteq IosOf(r, types) \cup {c}
      /\ \A r, types : r # s \/ "IO_DISCONNECT" \notin types => IosOf(r, types)' = IosOf(r, types)
  BY <1>7, PostedSets DEF Post
<1>9. Fields'
  <2>1. sock' \in [Sessions -> {"idle", "established", "refused", "down"}]
    BY DEF Inv, Fields
  <2>2. QED BY <1>1, <1>6, <2>1 DEF Inv, Fields
<1>10. Receives'
  <2>1. "IO_DISCONNECT" \notin Receiving
    BY DEF Receiving
  <2>2. QED BY <1>8, <2>1, KeepReceives
<1>11. Sends'
  <2>1. \A r : \A v \in SendWorkers(r)' : ctx'[v] = ctx[v]
    BY <1>1
  <2>2. QED BY <1>1, <1>8, <2>1, KeepSends
<1>12. Logins'
  BY <1>1, <1>8, KeepLogins
<1>13. Stages'
  <2> SUFFICES ASSUME NEW r \in Sessions
               PROVE  /\ AtMostOne(IosOf(r, StageTypes)', StageThreads(r)')
                      /\ mConnected'[r] = 1 => IosOf(r, StageTypes)' = {} /\ StageThreads(r)' = {}
                      /\ mConnected'[r] = 1 \/ IosOf(r, StageTypes)' # {} \/ StageThreads(r)' # {}
                           => issued'[r]
    BY DEF Stages, AtMostOne
  <2>1. StageThreads(r)' \subseteq StageThreads(r) \ {t}
    OBVIOUS
  <2>2. CASE r = s
    <3>1. IosOf(s, StageTypes)' \subseteq IosOf(s, StageTypes) \cup {c}
      BY <1>8
    <3>2. AtMostOne(IosOf(r, StageTypes)', StageThreads(r)')
      BY <1>2, <2>1, <2>2, <3>1, RightToLeft
    <3>3. QED BY <1>1, <1>3, <2>2, <3>2
  <2>3. CASE r # s
    <3>1. IosOf(r, StageTypes)' = IosOf(r, StageTypes)
      BY <1>8, <2>3
    <3>2. AtMostOne(IosOf(r, StageTypes)', StageThreads(r)')
      BY <1>2, <2>1, <3>1, FewerIsFine
    <3>3. QED BY <1>1, <1>2, <2>1, <3>1, <3>2
  <2>4. QED BY <2>2, <2>3
<1>14. QED
  BY <1>1, <1>6, <1>9, <1>10, <1>11, <1>12, <1>13 DEF Inv

LEMMA DisconnectCallStep ==
  ASSUME Inv, status = "running", NEW w \in Workers, DisconnectCall(w)
  PROVE  Inv'
<1>1. /\ pc[w] = "disconnectCall"
      /\ \/ ctx[w].type \in {"IO_RECV_ZERO", "IO_RECV", "IO_SEND"} /\ ctx[w] # NoContext
         \/ ctx[w] = NoContext /\ sendList[w] # << >>
  BY InHand DEF DisconnectCall
<1>2. Remote(w) \in Sessions
  BY <1>1, HandlerFacts, FlusherFacts
<1>3. UNCHANGED <<status, mainVars, mCurrentConnectCount, mCurrentReturnCount, mConnected,
                  sendVars, ctx, sendList, stops, issued, revived>>
  BY DEF DisconnectCall
<1>4. PICK l : /\ Goto(w, l)
               /\ \/ l = "drop" /\ ctx[w] # NoContext
                  \/ l = "flushed" /\ ctx[w] = NoContext
  BY ThreadsAssumption DEF DisconnectCall, AfterDisconnect
<1>5. Fits(w, l)
  BY <1>1, <1>3, <1>4 DEF Fits, KindOf, WorkerLabels, IOTypes, Holding
<1>6. l \notin StageLabels \cup {"sendCompletion", "flushRelease"}
  BY <1>4 DEF StageLabels
<1>7. pc[w] \notin Done /\ pc[w] \notin LoggedIn /\ pc[w] # "flushRelease"
  BY <1>1 DEF Done, LoggedIn
<1>8. Walk(w, l)
  BY <1>3, <1>4, Going DEF mainVars
<1>9. CASE Post("IO_DISCONNECT", Remote(w), 0) /\ sock' = [sock EXCEPT ![Remote(w)] = "down"]
  <2>1. w \in StageThreads(Remote(w))
    BY <1>1 DEF StageThreads, StageLabels
  <2>2. \A r : StageThreads(r)' \subseteq StageThreads(r) \ {w}
    BY <1>6, <1>8, WalkSets
  <2>3. \A r : Handlers(r)' = Handlers(r) /\ Flushers(r)' = Flushers(r)
    BY <1>6, <1>7, <1>8, WalkSets
  <2>4. \A r : SendWorkers(r)' \subseteq SendWorkers(r)
    BY <1>6, <1>8, WalkSets
  <2>5. \A r : ReceiveWorkers(r)' \subseteq ReceiveWorkers(r)
    <3> SUFFICES ASSUME NEW r, NEW v \in ReceiveWorkers(r)'
                 PROVE  v \in ReceiveWorkers(r)
      OBVIOUS
    <3>1. \/ v \in ReceiveWorkers(r)
          \/ v = w /\ w \in Handlers(r) /\ ctx[w].type \in Receiving
      BY <1>8, WalkSets
    <3>2. QED BY <1>7, <3>1 DEF ReceiveWorkers, Done
  <2>6. \A r : LoginWorkers(r)' \subseteq LoginWorkers(r)
    <3> SUFFICES ASSUME NEW r, NEW v \in LoginWorkers(r)'
                 PROVE  v \in LoginWorkers(r)
      OBVIOUS
    <3>1. \/ v \in LoginWorkers(r)
          \/ v = w /\ w \in Handlers(r) /\ ctx[w].type = "IO_CONNECT"
      BY <1>8, WalkSets
    <3>2. QED BY <1>7, <3>1 DEF LoginWorkers, LoggedIn
  <2>7. \A r : Waits(r)' <=> Waits(r)
    <3>1. pc'[Main] = pc[Main]
      BY <1>8, WalkSets
    <3>2. QED BY <1>3, <3>1, WaitsStay DEF mainVars
  <2>8. Control' /\ pc' \in [Workers \cup {Main} -> MainLabels \cup WorkerLabels]
    BY <1>5, <1>8, WalkControl
  <2>9. QED
    BY <1>2, <1>3, <1>9, <2>1, <2>2, <2>3, <2>4, <2>5, <2>6, <2>7, <2>8, DisconnectPosted
<1>10. CASE Refused /\ sock' = sock
  <2>1. /\ status' = status /\ mCurrentConnectCount' \in Nat /\ stops' = stops /\ sock' = sock
        /\ mConnected' = mConnected
        /\ UNCHANGED <<todo, target, mCurrentReturnCount, mRefCount, sendVars, ctx, sendList,
                       ios, issued, revived>>
    BY <1>3, <1>10 DEF Refused, Inv, Fields, mainVars
  <2>2. QED
    BY <1>4, <1>5, <1>6, <1>7, <2>1, QuietStep
<1>11. QED
  BY <1>9, <1>10 DEF DisconnectCall

LEMMA WalkKeeps ==
  ASSUME Inv, NEW w \in Workers, NEW l, Walk(w, l),
         ctx[w].type \in Receiving /\ l \notin Done => pc[w] \notin Done,
         ctx[w].type = "IO_CONNECT" /\ l \notin LoggedIn => pc[w] \notin LoggedIn
  PROVE  \A r : /\ ReceiveWorkers(r)' \subseteq ReceiveWorkers(r)
                /\ LoginWorkers(r)' \subseteq LoginWorkers(r)
<1>1. ASSUME NEW r, NEW v \in ReceiveWorkers(r)'
      PROVE  v \in ReceiveWorkers(r)
  <2>1. \/ v \in ReceiveWorkers(r)
        \/ v = w /\ l \notin Done /\ w \in Handlers(r) /\ ctx[w].type \in Receiving
    BY <1>1, WalkSets
  <2>2. QED BY <2>1 DEF ReceiveWorkers, Done
<1>2. ASSUME NEW r, NEW v \in LoginWorkers(r)'
      PROVE  v \in LoginWorkers(r)
  <2>1. \/ v \in LoginWorkers(r)
        \/ v = w /\ l \notin LoggedIn /\ w \in Handlers(r) /\ ctx[w].type = "IO_CONNECT"
    BY <1>2, WalkSets
  <2>2. QED BY <2>1 DEF LoginWorkers, LoggedIn
<1>3. QED BY <1>1, <1>2

-----------------------------------------------------------------------------
(* Sending.                                                                  *)

\* A session with something to send has been visited by ConnectSessions.
LEMMA SenderDoesNotWait ==
  ASSUME Inv, NEW s \in Sessions, mSendBuffer[s] > 0
  PROVE  ~Waits(s) /\ mSendBuffer[s] \in 0..LoginSize
<1>1. mSendBuffer[s] \in 0..LoginSize
  BY DEF Inv, Sends
<1>2. Waits(s) => mSendBuffer[s] = 0
  BY DEF Inv, Untouched
<1>3. QED BY <1>1, <1>2

LEMMA FlushSendPosted ==
  ASSUME Inv, status = "running", NEW w \in Workers, NEW s \in Sessions, s = Remote(w),
         pc[w] = "flush", mSendBuffer[s] > 0, mSendPendingCount[s] = 0,
         revived' = (revived \/ mRefCount[s] = 0),
         Post("IO_SEND", s, mSendBuffer[s]),
         mSendPendingCount' = [mSendPendingCount EXCEPT ![s] = @ + 1],
         Goto(w, "flushed"),
         UNCHANGED <<status, mainVars, mCurrentConnectCount, mCurrentReturnCount, mConnected,
                     mSendBuffer, ctx, sendList, stops, sock, issued>>
  PROVE  Inv'
<1>1. /\ status' = status /\ todo' = todo /\ target' = target /\ sendList' = sendList
      /\ mCurrentConnectCount' = mCurrentConnectCount /\ stops' = stops /\ sock' = sock
      /\ mCurrentReturnCount' = mCurrentReturnCount /\ mConnected' = mConnected /\ ctx' = ctx
      /\ mSendBuffer' = mSendBuffer /\ issued' = issued
  BY DEF mainVars
<1>2. ctx[w] = NoContext /\ ctx[w].type = "IO_NONE" /\ sendList[w] # << >>
  BY InHand
<1>3. Walk(w, "flushed")
  BY <1>1, Going
<1>4. Fits(w, "flushed")
  BY <1>1, <1>2 DEF Fits, WorkerLabels, Holding
<1>5. Control' /\ pc' \in [Workers \cup {Main} -> MainLabels \cup WorkerLabels]
  BY <1>3, <1>4, WalkControl
<1>6. "flushed" \notin StageLabels
  BY DEF StageLabels
<1>7. \A r : /\ Handlers(r)' = Handlers(r) /\ Flushers(r)' = Flushers(r)
             /\ StageThreads(r)' \subseteq StageThreads(r)
             /\ SendWorkers(r)' \subseteq SendWorkers(r)
  BY <1>3, <1>6, WalkSets
<1>8. \A r : /\ ReceiveWorkers(r)' \subseteq ReceiveWorkers(r)
             /\ LoginWorkers(r)' \subseteq LoginWorkers(r)
  BY <1>2, <1>3, WalkKeeps DEF Receiving
<1>9. \A r : Waits(r)' <=> Waits(r)
  <2>1. pc'[Main] = pc[Main]
    BY <1>3, WalkSets
  <2>2. QED BY <1>1, <2>1, WaitsStay
<1>10. PICK len \in 0..LoginSize : len = mSendBuffer[s]
  BY SenderDoesNotWait
<1>11. /\ AtMostOne(IosOf(s, {"IO_SEND"}), SendWorkers(s))
       /\ IosOf(s, {"IO_SEND"}) = {} /\ SendWorkers(s) = {}
  BY DEF Inv, Sends
<1>12. Context("IO_SEND", s, len) \notin ios
  BY <1>11 DEF IosOf, Context
<1>13. revived' \in BOOLEAN /\ (revived => revived') /\ (mRefCount[s] # 0 \/ revived')
  BY DEF Inv, Fields
<1>14. /\ RefCountIsReferences' /\ Returns' /\ Untouched'
       /\ mRefCount' \in [Sessions -> Int] /\ ios' \subseteq Contexts /\ IsFiniteSet(ios')
  <2>1. "IO_SEND" \in IOTypes /\ ~Waits(s) /\ Post("IO_SEND", s, len)
    BY <1>10, SenderDoesNotWait DEF IOTypes
  <2>2. QED BY <1>1, <1>7, <1>9, <1>12, <1>13, <2>1, PostCounts
<1>15. PICK c : c = Context("IO_SEND", s, len)
  OBVIOUS
<1>16. /\ \A r, types : IosOf(r, types)' \subseteq IosOf(r, types) \cup {c}
       /\ \A r, types : r # s \/ "IO_SEND" \notin types => IosOf(r, types)' = IosOf(r, types)
  BY <1>10, <1>15, PostedSets DEF Post
<1>17. Fields'
  BY <1>1, <1>5, <1>13, <1>14 DEF Inv, Fields
<1>18. Stages'
  <2>1. "IO_SEND" \notin StageTypes
    BY DEF StageTypes
  <2>2. QED BY <1>1, <1>7, <1>16, <2>1, KeepStages
<1>19. Receives'
  <2>1. "IO_SEND" \notin Receiving
    BY DEF Receiving
  <2>2. QED BY <1>8, <1>16, <2>1, KeepReceives
<1>20. Logins'
  BY <1>1, <1>8, <1>16, KeepLogins
<1>21. /\ mSendPendingCount \in [Sessions -> {0, 1}] /\ mSendBuffer \in [Sessions -> 0..LoginSize]
  BY DEF Inv, Sends
<1>22. /\ mSendPendingCount' \in [Sessions -> {0, 1}] /\ mSendPendingCount'[s] = 1
       /\ \A r \in Sessions \ {s} : mSendPendingCount'[r] = mSendPendingCount[r]
  BY <1>21
<1>23. ASSUME NEW r \in Sessions
       PROVE  /\ AtMostOne(IosOf(r, {"IO_SEND"})', SendWorkers(r)')
              /\ mSendPendingCount'[r] = 0 => IosOf(r, {"IO_SEND"})' = {} /\ SendWorkers(r)' = {}
              /\ \A d \in IosOf(r, {"IO_SEND"})' : d.len <= mSendBuffer'[r]
              /\ \A v \in SendWorkers(r)' : ctx'[v].n <= mSendBuffer'[r]
  <2>1. CASE r = s
    <3>1. IosOf(s, {"IO_SEND"})' \subseteq {c} /\ SendWorkers(s)' = {}
      BY <1>7, <1>11, <1>16
    <3>2. c.len = mSendBuffer'[s] /\ c.len <= mSendBuffer'[s]
      BY <1>1, <1>10, <1>15 DEF Context
    <3>3. QED BY <1>22, <2>1, <3>1, <3>2 DEF AtMostOne
  <2>2. CASE r # s
    <3>1. /\ IosOf(r, {"IO_SEND"})' = IosOf(r, {"IO_SEND"})
          /\ SendWorkers(r)' \subseteq SendWorkers(r)
      BY <1>7, <1>16, <2>2
    <3>2. /\ AtMostOne(IosOf(r, {"IO_SEND"}), SendWorkers(r))
          /\ mSendPendingCount[r] = 0 => IosOf(r, {"IO_SEND"}) = {} /\ SendWorkers(r) = {}
          /\ \A d \in IosOf(r, {"IO_SEND"}) : d.len <= mSendBuffer[r]
          /\ \A v \in SendWorkers(r) : ctx[v].n <= mSendBuffer[r]
      BY DEF Inv, Sends
    <3>3. AtMostOne(IosOf(r, {"IO_SEND"})', SendWorkers(r)')
      BY <3>1, <3>2, FewerIsFine
    <3>4. mSendPendingCount'[r] = mSendPendingCount[r]
      BY <1>22, <2>2
    <3>5. QED BY <1>1, <3>1, <3>2, <3>3, <3>4
  <2>3. QED BY <2>1, <2>2
<1>24. Sends'
  <2>1. mSendBuffer' \in [Sessions -> 0..LoginSize]
    BY <1>1, <1>21
  <2>2. QED BY <1>22, <1>23, <2>1 DEF Sends, AtMostOne
<1>25. QED
  BY <1>1, <1>5, <1>14, <1>17, <1>18, <1>19, <1>20, <1>24 DEF Inv

\* FlushSend keeps a context for itself, or deletes it: what both steps keep.
LEMMA FlusherWalks ==
  ASSUME Inv, status = "running", NEW w \in Workers, NEW l \in {"flushRelease", "disconnect"},
         pc[w] \in {"flush", "flushRelease"}, Goto(w, l),
         UNCHANGED <<status, mainVars, mCurrentConnectCount, mConnected, sendVars, ctx,
                     sendList, portVars, sock, issued>>,
         mCurrentReturnCount' \in Nat, revived' \in BOOLEAN,
         RefCountIsReferences', mRefCount' \in [Sessions -> Int], Returns',
         \A r \in Sessions : Flushers(r)' # {} => Flushers(r) # {} \/ ~Waits(r)
  PROVE  Inv'
<1>1. /\ status' = status /\ todo' = todo /\ target' = target /\ sendList' = sendList
      /\ mCurrentConnectCount' = mCurrentConnectCount /\ stops' = stops /\ sock' = sock
      /\ mConnected' = mConnected /\ ctx' = ctx /\ ios' = ios
      /\ mSendPendingCount' = mSendPendingCount /\ mSendBuffer' = mSendBuffer
      /\ issued' = issued
  BY DEF mainVars, sendVars, portVars
<1>2. ctx[w] = NoContext /\ ctx[w].type = "IO_NONE" /\ sendList[w] # << >>
  BY InHand
<1>3. Walk(w, l)
  BY <1>1, Going
<1>4. Fits(w, l)
  BY <1>1, <1>2 DEF Fits, WorkerLabels, Holding
<1>5. Control' /\ pc' \in [Workers \cup {Main} -> MainLabels \cup WorkerLabels]
  BY <1>3, <1>4, WalkControl
<1>6. l \notin StageLabels /\ l # "sendCompletion"
  BY DEF StageLabels
<1>7. \A r : /\ Handlers(r)' = Handlers(r)
             /\ StageThreads(r)' \subseteq StageThreads(r)
             /\ SendWorkers(r)' \subseteq SendWorkers(r)
  BY <1>3, <1>6, WalkSets
<1>8. \A r : /\ ReceiveWorkers(r)' \subseteq ReceiveWorkers(r)
             /\ LoginWorkers(r)' \subseteq LoginWorkers(r)
  BY <1>2, <1>3, WalkKeeps DEF Receiving
<1>9. \A r : Waits(r)' <=> Waits(r)
  <2>1. pc'[Main] = pc[Main]
    BY <1>3, WalkSets
  <2>2. QED BY <1>1, <2>1, WaitsStay
<1>10. \A r, types : IosOf(r, types)' = IosOf(r, types) /\ InFlight(r)' = InFlight(r)
  BY <1>1 DEF IosOf, InFlight
<1>11. Fields'
  BY <1>1, <1>5 DEF Inv, Fields
<1>12. Stages'
  BY <1>1, <1>7, <1>10, KeepStages
<1>13. Receives'
  BY <1>8, <1>10, KeepReceives
<1>14. Sends'
  <2>1. \A r : \A v \in SendWorkers(r)' : ctx'[v] = ctx[v]
    BY <1>1
  <2>2. QED BY <1>1, <1>7, <1>10, <2>1, KeepSends
<1>15. Logins'
  BY <1>1, <1>8, <1>10, KeepLogins
<1>16. Untouched'
  BY <1>1, <1>7, <1>9, <1>10 DEF Inv, Untouched
<1>17. QED
  BY <1>1, <1>5, <1>11, <1>12, <1>13, <1>14, <1>15, <1>16 DEF Inv

LEMMA FlushersChange ==
  ASSUME Inv, NEW w \in Workers, NEW l, l # "sendJob", Goto(w, l), ctx' = ctx,
         target' = target, sendList' = sendList
  PROVE  \A r : Flushers(r)' = (Flushers(r) \ {w}) \cup
                               (IF l = "flushRelease" /\ Remote(w) = r THEN {w} ELSE {})
<1>1. pc'[w] = l /\ \A v \in Workers \ {w} : pc'[v] = pc[v]
  BY DEF Inv, Fields, Goto
<1>2. \A v \in Workers : Remote(v)' = Remote(v)
  BY DEF Remote
<1>3. QED BY <1>1, <1>2 DEF Flushers

LEMMA FlushSendStep ==
  ASSUME Inv, status = "running", NEW w \in Workers, FlushSend(w)
  PROVE  Inv'
<1>1. ctx[w] = NoContext /\ sendList[w] # << >> /\ pc[w] = "flush"
  BY InHand DEF FlushSend
<1>2. PICK s \in Sessions : s = Remote(w)
  BY <1>1, FlusherFacts
<1>3. CASE /\ Post("IO_SEND", s, mSendBuffer[s])
           /\ mSendPendingCount' = [mSendPendingCount EXCEPT ![s] = @ + 1]
           /\ Goto(w, "flushed")
  BY <1>2, <1>3, FlushSendPosted DEF FlushSend
<1>4. CASE /\ mRefCount' = [mRefCount EXCEPT ![s] = @ + 1]
           /\ Goto(w, "flushRelease")
           /\ UNCHANGED <<ios, mSendPendingCount>>
  <2>1. /\ UNCHANGED <<status, mainVars, mCurrentConnectCount, mConnected, sendVars, ctx,
                       sendList, portVars, sock, issued>>
        /\ mCurrentReturnCount' = mCurrentReturnCount
        /\ revived' = (revived \/ mRefCount[s] = 0) /\ mSendBuffer[s] > 0
        /\ todo' = todo /\ target' = target /\ ctx' = ctx /\ sendList' = sendList
        /\ issued' = issued /\ ios' = ios
    BY <1>2, <1>4 DEF FlushSend, mainVars, sendVars, portVars
  <2>2. \A r : Flushers(r)' = (Flushers(r) \ {w}) \cup (IF Remote(w) = r THEN {w} ELSE {})
    BY <1>4, <2>1, FlushersChange
  <2>3. \A r : w \notin Flushers(r)
    BY <1>1 DEF Flushers
  <2>4. /\ Flushers(s)' = Flushers(s) \cup {w}
        /\ \A r \in Sessions \ {s} : Flushers(r)' = Flushers(r)
    BY <1>2, <2>2, <2>3
  <2>5. Walk(w, "flushRelease")
    BY <1>4, <2>1, Going
  <2>6. \A r : Handlers(r)' = Handlers(r) /\ InFlight(r)' = InFlight(r)
    BY <2>1, <2>5, WalkSets DEF InFlight
  <2>7. /\ References(s)' = References(s) + 1
        /\ \A r \in Sessions \ {s} : References(r)' = References(r)
    BY <2>1, <2>3, <2>4, <2>6, OneMoreFlusher
  <2>8. RefCountIsReferences' /\ mRefCount' \in [Sessions -> Int]
    BY <1>4, <2>7, CountsGoUp
  <2>9. revived' \in BOOLEAN /\ (revived => revived') /\ (mRefCount[s] # 0 \/ revived')
    BY <2>1 DEF Inv, Fields
  <2>10. \A r : Waits(r)' <=> Waits(r)
    <3>1. pc'[Main] = pc[Main]
      BY <2>5, WalkSets
    <3>2. QED BY <2>1, <3>1, WaitsStay
  <2>11. Returns'
    BY <1>4, <2>1, <2>9, <2>10, ReturnsAfterAddRef
  <2>12. mCurrentReturnCount' \in Nat
    BY <2>1 DEF Inv, Fields
  <2>13. \A r \in Sessions : Flushers(r)' # {} => Flushers(r) # {} \/ ~Waits(r)
    <3>1. ~Waits(s)
      BY <2>1, SenderDoesNotWait
    <3>2. QED BY <2>4, <3>1
  <2>14. QED
    BY <1>1, <1>4, <2>1, <2>8, <2>9, <2>11, <2>12, <2>13, FlusherWalks
<1>5. QED
  BY <1>2, <1>3, <1>4 DEF FlushSend

LEMMA FlushReleaseStep ==
  ASSUME Inv, status = "running", NEW w \in Workers, FlushRelease(w)
  PROVE  Inv'
<1>1. ctx[w] = NoContext /\ sendList[w] # << >> /\ pc[w] = "flushRelease"
  BY InHand DEF FlushRelease
<1>2. PICK s \in Sessions : s = Remote(w)
  BY <1>1, FlusherFacts
<1>3. /\ ReleaseRef(s) /\ Goto(w, "disconnect") /\ revived' = revived
      /\ UNCHANGED <<mainVars, mCurrentConnectCount, mConnected, sendVars, ctx,
                     sendList, portVars, sock, issued>>
      /\ todo' = todo /\ target' = target /\ ctx' = ctx /\ sendList' = sendList
      /\ issued' = issued /\ ios' = ios
  BY <1>2 DEF FlushRelease, mainVars, sendVars, portVars
<1>4. \A r : Flushers(r)' = Flushers(r) \ {w}
  BY <1>3, FlushersChange
<1>5. w \in Flushers(s) /\ \A r \in Sessions \ {s} : w \notin Flushers(r)
  BY <1>1, <1>2 DEF Flushers
<1>6. \A r \in Sessions \ {s} : Flushers(r)' = Flushers(r)
  BY <1>4, <1>5
<1>7. Walk(w, "disconnect")
  BY <1>3, Going
<1>8. \A r : Handlers(r)' = Handlers(r) /\ InFlight(r)' = InFlight(r)
  BY <1>3, <1>7, WalkSets DEF InFlight
<1>9. \A r : Waits(r)' <=> Waits(r)
  <2>1. pc'[Main] = pc[Main]
    BY <1>7, WalkSets
  <2>2. QED BY <1>3, <2>1, WaitsStay
<1>10. /\ Returns' /\ status' = status /\ mCurrentReturnCount' \in Nat
       /\ mRefCount' = [mRefCount EXCEPT ![s] = @ - 1]
  BY <1>3, <1>5, <1>9, ReturnsAfterRelease
<1>11. /\ References(s)' = References(s) - 1
       /\ \A r \in Sessions \ {s} : References(r)' = References(r)
  BY <1>3, <1>4, <1>5, <1>6, <1>8, OneFlusherLess
<1>12. RefCountIsReferences' /\ mRefCount' \in [Sessions -> Int]
  BY <1>10, <1>11, CountsGoDown
<1>13. revived' \in BOOLEAN /\ \A r \in Sessions : Flushers(r)' # {} => Flushers(r) # {}
  BY <1>3, <1>4 DEF Inv, Fields
<1>14. UNCHANGED <<status, mainVars, mCurrentConnectCount, mConnected, sendVars, ctx,
                   sendList, portVars, sock, issued>>
  BY <1>3, <1>10
<1>15. QED
  BY <1>1, <1>3, <1>10, <1>12, <1>13, <1>14, FlusherWalks

\* The login is put into the send buffer, once, and so finds it empty.
LEMMA SendRequestStep ==
  ASSUME Inv, status = "running", NEW w \in Workers, SendRequest(w)
  PROVE  Inv'
<1>1. ctx[w] # NoContext /\ ctx[w].type \in {"IO_CONNECT"} /\ pc[w] = "sendRequest"
  BY InHand DEF SendRequest, Holding, KindOf
<1>2. PICK s \in Sessions : s = Remote(w) /\ w \in Handlers(s)
  BY <1>1, HandlerFacts
<1>3. /\ mSendBuffer' = [mSendBuffer EXCEPT ![s] = @ + LoginSize]
      /\ sendList' = [sendList EXCEPT ![w] = Append(@, s)]
      /\ Goto(w, "drop")
      /\ status' = status /\ todo' = todo /\ target' = target /\ stops' = stops /\ sock' = sock
      /\ mCurrentConnectCount' = mCurrentConnectCount /\ ios' = ios /\ mRefCount' = mRefCount
      /\ mCurrentReturnCount' = mCurrentReturnCount /\ mConnected' = mConnected /\ ctx' = ctx
      /\ mSendPendingCount' = mSendPendingCount /\ issued' = issued /\ revived' = revived
  BY <1>2 DEF SendRequest, mainVars, portVars
<1>4. sendList \in [Workers -> Seq(Sessions)]
  BY DEF Inv, Fields
<1>5. sendList' \in [Workers -> Seq(Sessions)] /\ \A v \in Workers \ {w} : sendList'[v] = sendList[v]
  <2>1. Append(sendList[w], s) \in Seq(Sessions)
    BY <1>4
  <2>2. QED BY <1>3, <1>4, <2>1
<1>6. Walk(w, "drop")
  <2>1. Remote(w)' = Remote(w)
    BY <1>1, <1>3, ThreadsAssumption DEF Remote
  <2>2. QED BY <1>3, <1>5, <2>1 DEF Walk, Goto
<1>7. Fits(w, "drop")
  BY <1>1 DEF Fits, WorkerLabels, KindOf, IOTypes
<1>8. Control' /\ pc' \in [Workers \cup {Main} -> MainLabels \cup WorkerLabels]
  BY <1>6, <1>7, WalkControl
<1>9. "drop" \notin StageLabels /\ "drop" \in Done /\ "drop" \in LoggedIn
  BY DEF StageLabels, Done, LoggedIn
<1>10. \A r : /\ Handlers(r)' = Handlers(r) /\ Flushers(r)' = Flushers(r)
              /\ StageThreads(r)' \subseteq StageThreads(r)
              /\ SendWorkers(r)' \subseteq SendWorkers(r)
  BY <1>1, <1>6, <1>9, WalkSets
<1>11. \A r : /\ ReceiveWorkers(r)' \subseteq ReceiveWorkers(r)
              /\ LoginWorkers(r)' \subseteq LoginWorkers(r)
  BY <1>6, <1>9, WalkKeeps
<1>12. \A r : LoginWorkers(r)' \subseteq LoginWorkers(r) \ {w}
  BY <1>6, <1>9, WalkSets
<1>13. \A r : Waits(r)' <=> Waits(r)
  <2>1. pc'[Main] = pc[Main]
    BY <1>6, WalkSets
  <2>2. QED BY <1>3, <2>1, WaitsStay
<1>14. \A r, types : IosOf(r, types)' = IosOf(r, types) /\ InFlight(r)' = InFlight(r)
  BY <1>3 DEF IosOf, InFlight
<1>15. w \in LoginWorkers(s)
  BY <1>1, <1>2 DEF LoginWorkers
<1>16. /\ AtMostOne(IosOf(s, {"IO_CONNECT"}), LoginWorkers(s))
       /\ mSendBuffer[s] = 0
  BY <1>15 DEF Inv, Logins
<1>17. IosOf(s, {"IO_CONNECT"}) = {} /\ LoginWorkers(s) = {w}
  BY <1>15, <1>16 DEF AtMostOne
<1>18. ~Waits(s)
  BY <1>2, ReferredIsCounted
<1>19. mSendBuffer \in [Sessions -> 0..LoginSize] /\ mSendPendingCount \in [Sessions -> {0, 1}]
  BY DEF Inv, Sends
<1>20. /\ mSendBuffer' \in [Sessions -> 0..LoginSize] /\ mSendBuffer'[s] = LoginSize
       /\ \A r \in Sessions \ {s} : mSendBuffer'[r] = mSendBuffer[r]
  BY <1>3, <1>16, <1>19, FaultsAssumption
<1>21. Fields'
  BY <1>3, <1>5, <1>8 DEF Inv, Fields
<1>22. Stages'
  BY <1>3, <1>10, <1>14, KeepStages
<1>23. Receives'
  BY <1>11, <1>14, KeepReceives
<1>24. Sends'
  <2>1. ASSUME NEW r \in Sessions
        PROVE  /\ AtMostOne(IosOf(r, {"IO_SEND"})', SendWorkers(r)')
               /\ mSendPendingCount'[r] = 0 => IosOf(r, {"IO_SEND"})' = {} /\ SendWorkers(r)' = {}
               /\ \A d \in IosOf(r, {"IO_SEND"})' : d.len <= mSendBuffer'[r]
               /\ \A v \in SendWorkers(r)' : ctx'[v].n <= mSendBuffer'[r]
    <3>1. /\ AtMostOne(IosOf(r, {"IO_SEND"}), SendWorkers(r))
          /\ mSendPendingCount[r] = 0 => IosOf(r, {"IO_SEND"}) = {} /\ SendWorkers(r) = {}
          /\ \A d \in IosOf(r, {"IO_SEND"}) : d.len <= mSendBuffer[r]
          /\ \A v \in SendWorkers(r) : ctx[v].n <= mSendBuffer[r]
      BY DEF Inv, Sends
    <3>2. AtMostOne(IosOf(r, {"IO_SEND"})', SendWorkers(r)')
      BY <1>10, <1>14, <3>1, FewerIsFine
    <3>3. mSendPendingCount'[r] = 0 => IosOf(r, {"IO_SEND"})' = {} /\ SendWorkers(r)' = {}
      BY <1>3, <1>10, <1>14, <3>1
    <3>4. CASE r = s
      <4>1. ASSUME NEW d \in IosOf(r, {"IO_SEND"})
            PROVE  d.len <= LoginSize
        <5>1. d \in Contexts
          BY DEF IosOf, Inv, Fields
        <5>2. QED BY <5>1, FaultsAssumption DEF Contexts
      <4>2. ASSUME NEW v \in SendWorkers(r)
            PROVE  ctx[v].n <= LoginSize
        <5>1. v \in Workers /\ pc[v] = "sendCompletion"
          BY <4>2 DEF SendWorkers
        <5>2. ctx[v] # NoContext
          BY <5>1, InHand DEF Holding
        <5>3. ctx[v].n \in 0..LoginSize
          BY <5>1, <5>2, HandlerFacts
        <5>4. QED BY <5>3, FaultsAssumption
      <4>3. QED BY <1>3, <1>10, <1>14, <1>20, <3>2, <3>3, <3>4, <4>1, <4>2
    <3>5. CASE r # s
      <4>1. mSendBuffer'[r] = mSendBuffer[r]
        BY <1>20, <3>5
      <4>2. QED BY <1>3, <1>10, <1>14, <3>1, <3>2, <3>3, <4>1
    <3>6. QED BY <3>4, <3>5
  <2>2. QED BY <1>3, <1>19, <1>20, <2>1 DEF Sends, AtMostOne
<1>25. Logins'
  <2>1. ASSUME NEW r \in Sessions
        PROVE  /\ AtMostOne(IosOf(r, {"IO_CONNECT"})', LoginWorkers(r)')
               /\ IosOf(r, {"IO_CONNECT"})' # {} \/ LoginWorkers(r)' # {} => mSendBuffer'[r] = 0
    <3>1. /\ AtMostOne(IosOf(r, {"IO_CONNECT"}), LoginWorkers(r))
          /\ IosOf(r, {"IO_CONNECT"}) # {} \/ LoginWorkers(r) # {} => mSendBuffer[r] = 0
      BY DEF Inv, Logins
    <3>2. AtMostOne(IosOf(r, {"IO_CONNECT"})', LoginWorkers(r)')
      BY <1>11, <1>14, <3>1, FewerIsFine
    <3>3. CASE r = s
      BY <1>12, <1>14, <1>17, <3>2, <3>3
    <3>4. CASE r # s
      <4>1. mSendBuffer'[r] = mSendBuffer[r]
        BY <1>20, <3>4
      <4>2. QED BY <1>11, <1>14, <3>1, <3>2, <4>1
    <3>5. QED BY <3>3, <3>4
  <2>2. QED BY <2>1 DEF Logins, AtMostOne
<1>26. Untouched'
  <2>1. \A r \in Sessions : r # s => mSendBuffer'[r] = mSendBuffer[r]
    BY <1>20
  <2>2. QED BY <1>3, <1>10, <1>13, <1>14, <1>18, <2>1 DEF Inv, Untouched
<1>27. Returns'
  BY <1>3, <1>13, KeepReturns
<1>28. RefCountIsReferences'
  BY <1>3, <1>10, <1>14, KeepReferences
<1>29. QED
  BY <1>3, <1>8, <1>21, <1>22, <1>23, <1>24, <1>25, <1>26, <1>27, <1>28 DEF Inv

LEMMA SendCompletionStep ==
  ASSUME Inv, status = "running", NEW w \in Workers, SendCompletion(w)
  PROVE  Inv'
<1>1. ctx[w] # NoContext /\ ctx[w].type \in {"IO_SEND"} /\ pc[w] = "sendCompletion"
  BY InHand DEF SendCompletion, Holding, KindOf
<1>2. PICK s \in Sessions : s = Remote(w) /\ w \in Handlers(s)
  BY <1>1, HandlerFacts
<1>3. PICK n \in 0..LoginSize : n = ctx[w].n
  BY <1>1, HandlerFacts
<1>4. PICK l \in {"drop", "disconnect"} : Goto(w, l)
  BY DEF SendCompletion
<1>5. /\ mSendBuffer' = [mSendBuffer EXCEPT ![s] = @ - n]
      /\ mSendPendingCount' = [mSendPendingCount EXCEPT ![s] = @ - 1]
      /\ status' = status /\ todo' = todo /\ target' = target /\ stops' = stops /\ sock' = sock
      /\ mCurrentConnectCount' = mCurrentConnectCount /\ ios' = ios /\ mRefCount' = mRefCount
      /\ mCurrentReturnCount' = mCurrentReturnCount /\ mConnected' = mConnected /\ ctx' = ctx
      /\ sendList' = sendList /\ issued' = issued /\ revived' = revived
  BY <1>2, <1>3 DEF SendCompletion, mainVars, portVars
<1>6. Walk(w, l)
  BY <1>4, <1>5, Going
<1>7. Fits(w, l)
  BY <1>1 DEF Fits, WorkerLabels, KindOf, IOTypes, Holding
<1>8. Control' /\ pc' \in [Workers \cup {Main} -> MainLabels \cup WorkerLabels]
  BY <1>6, <1>7, WalkControl
<1>9. l \notin StageLabels /\ l # "sendCompletion" /\ l # "flushRelease"
  BY DEF StageLabels
<1>10. \A r : /\ Handlers(r)' = Handlers(r) /\ Flushers(r)' = Flushers(r)
              /\ StageThreads(r)' \subseteq StageThreads(r)
              /\ SendWorkers(r)' \subseteq SendWorkers(r) \ {w}
  BY <1>1, <1>6, <1>9, WalkSets
<1>11. \A r : /\ ReceiveWorkers(r)' \subseteq ReceiveWorkers(r)
              /\ LoginWorkers(r)' \subseteq LoginWorkers(r)
  BY <1>1, <1>6, WalkKeeps DEF Receiving
<1>12. \A r : Waits(r)' <=> Waits(r)
  <2>1. pc'[Main] = pc[Main]
    BY <1>6, WalkSets
  <2>2. QED BY <1>5, <2>1, WaitsStay
<1>13. \A r, types : IosOf(r, types)' = IosOf(r, types) /\ InFlight(r)' = InFlight(r)
  BY <1>5 DEF IosOf, InFlight
<1>14. w \in SendWorkers(s)
  BY <1>1, <1>2 DEF SendWorkers
<1>15. mSendBuffer \in [Sessions -> 0..LoginSize] /\ mSendPendingCount \in [Sessions -> {0, 1}]
  BY DEF Inv, Sends
<1>16. /\ AtMostOne(IosOf(s, {"IO_SEND"}), SendWorkers(s))
       /\ mSendPendingCount[s] = 0 => SendWorkers(s) = {}
       /\ \A v \in SendWorkers(s) : ctx[v].n <= mSendBuffer[s]
  BY DEF Inv, Sends
<1>17. /\ IosOf(s, {"IO_SEND"}) = {} /\ SendWorkers(s) = {w} /\ mSendPendingCount[s] = 1
       /\ n <= mSendBuffer[s]
  <2>1. IosOf(s, {"IO_SEND"}) = {} /\ SendWorkers(s) = {w}
    BY <1>14, <1>16 DEF AtMostOne
  <2>2. mSendPendingCount[s] = 1
    BY <1>14, <1>15, <1>16
  <2>3. n <= mSendBuffer[s]
    BY <1>3, <1>14, <1>16
  <2>4. QED BY <2>1, <2>2, <2>3
<1>18. /\ mSendBuffer' \in [Sessions -> 0..LoginSize]
       /\ mSendBuffer[s] = 0 => mSendBuffer'[s] = 0
       /\ \A r \in Sessions \ {s} : mSendBuffer'[r] = mSendBuffer[r]
  <2>1. mSendBuffer[s] \in 0..LoginSize /\ mSendBuffer[s] - n \in 0..LoginSize
    BY <1>15, <1>17, FaultsAssumption
  <2>2. mSendBuffer[s] = 0 => mSendBuffer[s] - n = 0
    BY <1>15, <1>17
  <2>3. QED BY <1>5, <1>15, <2>1, <2>2
<1>19. /\ mSendPendingCount' \in [Sessions -> {0, 1}]
       /\ \A r \in Sessions \ {s} : mSendPendingCount'[r] = mSendPendingCount[r]
  BY <1>5, <1>15, <1>17
<1>20. Fields'
  BY <1>5, <1>8 DEF Inv, Fields
<1>21. Stages'
  BY <1>5, <1>10, <1>13, KeepStages
<1>22. Receives'
  BY <1>11, <1>13, KeepReceives
<1>23. Sends'
  <2>1. ASSUME NEW r \in Sessions
        PROVE  /\ AtMostOne(IosOf(r, {"IO_SEND"})', SendWorkers(r)')
               /\ mSendPendingCount'[r] = 0 => IosOf(r, {"IO_SEND"})' = {} /\ SendWorkers(r)' = {}
               /\ \A d \in IosOf(r, {"IO_SEND"})' : d.len <= mSendBuffer'[r]
               /\ \A v \in SendWorkers(r)' : ctx'[v].n <= mSendBuffer'[r]
    <3>1. CASE r = s
      <4>1. IosOf(r, {"IO_SEND"})' = {} /\ SendWorkers(r)' = {}
        BY <1>10, <1>13, <1>17, <3>1
      <4>2. QED BY <4>1 DEF AtMostOne
    <3>2. CASE r # s
      <4>1. /\ AtMostOne(IosOf(r, {"IO_SEND"}), SendWorkers(r))
            /\ mSendPendingCount[r] = 0 => IosOf(r, {"IO_SEND"}) = {} /\ SendWorkers(r) = {}
            /\ \A d \in IosOf(r, {"IO_SEND"}) : d.len <= mSendBuffer[r]
            /\ \A v \in SendWorkers(r) : ctx[v].n <= mSendBuffer[r]
        BY DEF Inv, Sends
      <4>2. AtMostOne(IosOf(r, {"IO_SEND"})', SendWorkers(r)')
        BY <1>10, <1>13, <4>1, FewerIsFine
      <4>3. mSendBuffer'[r] = mSendBuffer[r] /\ mSendPendingCount'[r] = mSendPendingCount[r]
        BY <1>18, <1>19, <3>2
      <4>4. QED BY <1>5, <1>10, <1>13, <4>1, <4>2, <4>3
    <3>3. QED BY <3>1, <3>2
  <2>2. QED BY <1>18, <1>19, <2>1 DEF Sends, AtMostOne
<1>24. Logins'
  <2>1. ASSUME NEW r \in Sessions
        PROVE  /\ AtMostOne(IosOf(r, {"IO_CONNECT"})', LoginWorkers(r)')
               /\ IosOf(r, {"IO_CONNECT"})' # {} \/ LoginWorkers(r)' # {} => mSendBuffer'[r] = 0
    <3>1. /\ AtMostOne(IosOf(r, {"IO_CONNECT"}), LoginWorkers(r))
          /\ IosOf(r, {"IO_CONNECT"}) # {} \/ LoginWorkers(r) # {} => mSendBuffer[r] = 0
      BY DEF Inv, Logins
    <3>2. AtMostOne(IosOf(r, {"IO_CONNECT"})', LoginWorkers(r)')
      BY <1>11, <1>13, <3>1, FewerIsFine
    <3>3. mSendBuffer[r] = 0 => mSendBuffer'[r] = 0
      BY <1>18
    <3>4. QED BY <1>11, <1>13, <3>1, <3>2, <3>3
  <2>2. QED BY <2>1 DEF Logins, AtMostOne
<1>25. Untouched'
  <2>1. ~Waits(s)
    BY <1>2, ReferredIsCounted
  <2>2. \A r \in Sessions : r # s => mSendBuffer'[r] = mSendBuffer[r]
    BY <1>18
  <2>3. QED BY <1>5, <1>10, <1>12, <1>13, <2>1, <2>2 DEF Inv, Untouched
<1>26. Returns'
  BY <1>5, <1>12, KeepReturns
<1>27. RefCountIsReferences'
  BY <1>5, <1>10, <1>13, KeepReferences
<1>28. QED
  BY <1>5, <1>8, <1>20, <1>21, <1>22, <1>23, <1>24, <1>25, <1>26, <1>27 DEF Inv

-----------------------------------------------------------------------------
(* Connecting and disconnecting.                                             *)

\* A worker goes on, and its session to another stage.
LEMMA StageWalk ==
  ASSUME Inv, status = "running", NEW w \in Workers, NEW l, Goto(w, l), Fits(w, l),
         l # "sendCompletion", l # "flushRelease", pc[w] # "flushRelease",
         ctx[w].type \in Receiving /\ l \notin Done => pc[w] \notin Done,
         ctx[w].type = "IO_CONNECT" /\ l \notin LoggedIn => pc[w] \notin LoggedIn,
         Stages', RefCountIsReferences', Returns',
         mRefCount' \in [Sessions -> Int], mCurrentReturnCount' \in Nat,
         mConnected' \in [Sessions -> {0, 1}], issued' \in [Sessions -> BOOLEAN],
         \A r \in Sessions : issued'[r] => issued[r],
         status' = status,
         UNCHANGED <<mainVars, mCurrentConnectCount, sendVars, ctx, sendList, portVars, sock,
                     revived>>
  PROVE  Inv'
<1>1. /\ todo' = todo /\ target' = target /\ sendList' = sendList
      /\ mCurrentConnectCount' = mCurrentConnectCount /\ stops' = stops /\ sock' = sock
      /\ ctx' = ctx /\ ios' = ios /\ revived' = revived
      /\ mSendPendingCount' = mSendPendingCount /\ mSendBuffer' = mSendBuffer
  BY DEF mainVars, sendVars, portVars
<1>2. Walk(w, l)
  BY <1>1, Going
<1>3. Control' /\ pc' \in [Workers \cup {Main} -> MainLabels \cup WorkerLabels]
  BY <1>2, WalkControl
<1>4. \A r : /\ Handlers(r)' = Handlers(r) /\ Flushers(r)' = Flushers(r)
             /\ SendWorkers(r)' \subseteq SendWorkers(r)
  BY <1>2, WalkSets
<1>5. \A r : /\ ReceiveWorkers(r)' \subseteq ReceiveWorkers(r)
             /\ LoginWorkers(r)' \subseteq LoginWorkers(r)
  BY <1>2, WalkKeeps
<1>6. \A r : Waits(r)' <=> Waits(r)
  <2>1. pc'[Main] = pc[Main]
    BY <1>2, WalkSets
  <2>2. QED BY <1>1, <2>1, WaitsStay
<1>7. \A r, types : IosOf(r, types)' = IosOf(r, types) /\ InFlight(r)' = InFlight(r)
  BY <1>1 DEF IosOf, InFlight
<1>8. Fields'
  BY <1>1, <1>3 DEF Inv, Fields
<1>9. Receives'
  BY <1>5, <1>7, KeepReceives
<1>10. Sends'
  <2>1. \A r : \A v \in SendWorkers(r)' : ctx'[v] = ctx[v]
    BY <1>1
  <2>2. QED BY <1>1, <1>4, <1>7, <2>1, KeepSends
<1>11. Logins'
  BY <1>1, <1>5, <1>7, KeepLogins
<1>12. Untouched'
  BY <1>1, <1>4, <1>6, <1>7 DEF Inv, Untouched
<1>13. QED
  BY <1>3, <1>8, <1>9, <1>10, <1>11, <1>12 DEF Inv

\* What StageWalk asks of the counts when nothing is started or ended.
LEMMA StillCounted ==
  ASSUME Inv, NEW w \in Workers, NEW l, Goto(w, l), l # "flushRelease", l # "sendJob",
         pc[w] # "flushRelease", UNCHANGED <<ctx, target, sendList>>,
         UNCHANGED <<ios, issued, mRefCount, mCurrentReturnCount, todo, revived>>
  PROVE  /\ RefCountIsReferences' /\ Returns' /\ mRefCount' \in [Sessions -> Int]
         /\ mCurrentReturnCount' \in Nat /\ issued' \in [Sessions -> BOOLEAN]
<1>1. /\ ctx' = ctx /\ target' = target /\ sendList' = sendList /\ ios' = ios /\ todo' = todo
      /\ issued' = issued /\ mRefCount' = mRefCount /\ revived' = revived
      /\ mCurrentReturnCount' = mCurrentReturnCount
  OBVIOUS
<1>2. Walk(w, l)
  BY <1>1, Going
<1>3. \A r : /\ Handlers(r)' = Handlers(r) /\ Flushers(r)' = Flushers(r)
             /\ InFlight(r)' = InFlight(r)
  BY <1>1, <1>2, WalkSets DEF InFlight
<1>4. \A r : Waits(r)' <=> Waits(r)
  <2>1. pc'[Main] = pc[Main]
    BY <1>2, WalkSets
  <2>2. QED BY <1>1, <2>1, WaitsStay
<1>5. RefCountIsReferences' /\ Returns'
  BY <1>1, <1>3, <1>4, KeepReferences, KeepReturns
<1>6. QED BY <1>1, <1>5 DEF Inv, Fields

\* What Stages says of the session at hand and of another, whose stage is the same.
LEMMA StagesOf ==
  ASSUME Inv, NEW s \in Sessions
  PROVE  /\ AtMostOne(IosOf(s, StageTypes), StageThreads(s))
         /\ mConnected[s] = 1 => IosOf(s, StageTypes) = {} /\ StageThreads(s) = {}
         /\ mConnected[s] = 1 \/ IosOf(s, StageTypes) # {} \/ StageThreads(s) # {} => issued[s]
  BY DEF Inv, Stages

LEMMA StagesOneByOne ==
  ASSUME Inv, ios' = ios, NEW s \in Sessions,
         \A r \in Sessions \ {s} : /\ StageThreads(r)' \subseteq StageThreads(r)
                                   /\ mConnected'[r] = mConnected[r] /\ issued'[r] = issued[r],
         AtMostOne(IosOf(s, StageTypes), StageThreads(s)'),
         mConnected'[s] = 1 => IosOf(s, StageTypes) = {} /\ StageThreads(s)' = {},
         mConnected'[s] = 1 \/ IosOf(s, StageTypes) # {} \/ StageThreads(s)' # {} => issued'[s]
  PROVE  Stages'
<1>1. \A r : IosOf(r, StageTypes)' = IosOf(r, StageTypes)
  BY DEF IosOf
<1>2. ASSUME NEW r \in Sessions
      PROVE  /\ AtMostOne(IosOf(r, StageTypes)', StageThreads(r)')
             /\ mConnected'[r] = 1 => IosOf(r, StageTypes)' = {} /\ StageThreads(r)' = {}
             /\ mConnected'[r] = 1 \/ IosOf(r, StageTypes)' # {} \/ StageThreads(r)' # {}
                  => issued'[r]
  <2>1. CASE r = s
    BY <1>1, <2>1
  <2>2. CASE r # s
    <3>1. /\ StageThreads(r)' \subseteq StageThreads(r)
          /\ mConnected'[r] = mConnected[r] /\ issued'[r] = issued[r]
      BY <2>2
    <3>2. AtMostOne(IosOf(r, StageTypes)', StageThreads(r)')
      BY <1>1, <3>1, StagesOf, FewerIsFine
    <3>3. QED BY <1>1, <3>1, <3>2, StagesOf
  <2>3. QED BY <2>1, <2>2
<1>3. QED BY <1>2 DEF Stages, AtMostOne

LEMMA DisconnectRequestStep ==
  ASSUME Inv, status = "running", NEW w \in Workers, DisconnectRequest(w)
  PROVE  Inv'
<1>1. /\ pc[w] = "disconnect"
      /\ \/ ctx[w].type \in {"IO_RECV_ZERO", "IO_RECV", "IO_SEND"} /\ ctx[w] # NoContext
         \/ ctx[w] = NoContext /\ sendList[w] # << >>
  BY InHand DEF DisconnectRequest
<1>2. PICK s \in Sessions : s = Remote(w)
  BY <1>1, HandlerFacts, FlusherFacts
<1>3. /\ mConnected' = [mConnected EXCEPT ![s] = 0]
      /\ Goto(w, IF IsConnected(s) THEN "disconnectCall" ELSE AfterDisconnect(w))
      /\ UNCHANGED <<status, mainVars, mCurrentConnectCount, mCurrentReturnCount, mRefCount,
                     sendVars, ctx, sendList, portVars, sock, issued, revived>>
      /\ todo' = todo /\ target' = target /\ ctx' = ctx /\ sendList' = sendList
      /\ issued' = issued /\ ios' = ios /\ stops' = stops
  BY <1>2 DEF DisconnectRequest, mainVars, portVars
<1>4. pc[w] \notin Done /\ pc[w] \notin LoggedIn /\ pc[w] # "flushRelease"
  BY <1>1 DEF Done, LoggedIn
<1>5. CASE ~IsConnected(s)
  <2>1. PICK l : /\ Goto(w, l)
                 /\ \/ l = "drop" /\ ctx[w] # NoContext
                    \/ l = "flushed" /\ ctx[w] = NoContext
    BY <1>3, <1>5, ThreadsAssumption DEF AfterDisconnect
  <2>2. Fits(w, l)
    BY <1>1, <1>3, <2>1 DEF Fits, KindOf, WorkerLabels, IOTypes, Holding
  <2>3. l \notin StageLabels \cup {"sendCompletion", "flushRelease"}
    BY <2>1 DEF StageLabels
  <2>4. /\ status' = status /\ mCurrentConnectCount' \in Nat /\ stops' = stops /\ sock' = sock
        /\ UNCHANGED <<todo, target, mCurrentReturnCount, mRefCount, sendVars, ctx, sendList,
                       ios, issued, revived>>
    BY <1>3 DEF Inv, Fields
  <2>5. QED
    BY <1>3, <1>4, <2>1, <2>2, <2>3, <2>4, QuietStep
<1>6. CASE IsConnected(s)
  <2>1. Goto(w, "disconnectCall")
    BY <1>3, <1>6
  <2>2. Fits(w, "disconnectCall")
    BY <1>1, <1>3 DEF Fits, KindOf, WorkerLabels, Holding
  <2>3. Walk(w, "disconnectCall")
    BY <1>3, <2>1, Going
  <2>4. \A r : \A t \in StageThreads(r)' :
          \/ t \in StageThreads(r)
          \/ t = w /\ Remote(w) = r
    BY <2>3, WalkSets
  <2>5. mConnected[s] = 1 /\ issued[s] /\ IosOf(s, StageTypes) = {} /\ StageThreads(s) = {}
    BY <1>6, StagesOf DEF IsConnected
  <2>6. /\ mConnected' \in [Sessions -> {0, 1}] /\ mConnected'[s] = 0
        /\ \A r \in Sessions \ {s} : mConnected'[r] = mConnected[r]
    BY <1>3 DEF Inv, Fields
  <2>7. Stages'
    <3>1. StageThreads(s)' \subseteq {w}
      BY <2>4, <2>5
    <3>2. AtMostOne(IosOf(s, StageTypes), StageThreads(s)')
      BY <2>5, <3>1 DEF AtMostOne
    <3>3. \A r \in Sessions \ {s} : StageThreads(r)' \subseteq StageThreads(r)
      BY <1>2, <2>4
    <3>4. QED BY <1>3, <2>5, <2>6, <3>2, <3>3, StagesOneByOne
  <2>8. /\ RefCountIsReferences' /\ Returns' /\ mRefCount' \in [Sessions -> Int]
        /\ mCurrentReturnCount' \in Nat /\ issued' \in [Sessions -> BOOLEAN]
    <3>1. /\ UNCHANGED <<ctx, target, sendList>>
          /\ UNCHANGED <<ios, issued, mRefCount, mCurrentReturnCount, todo, revived>>
      BY <1>3
    <3>2. QED BY <1>4, <2>1, <3>1, StillCounted
  <2>9. \A r \in Sessions : issued'[r] => issued[r]
    BY <1>3
  <2>10. /\ status' = status
         /\ UNCHANGED <<mainVars, mCurrentConnectCount, sendVars, ctx, sendList, portVars, sock,
                        revived>>
    BY <1>3
  <2>11. QED
    BY <1>4, <2>1, <2>2, <2>6, <2>7, <2>8, <2>9, <2>10, StageWalk
<1>7. QED BY <1>5, <1>6

\* Nobody else connects or disconnects a session while a worker is at the
\* completion of its connect or disconnect.
LEMMA AloneAtStage ==
  ASSUME Inv, NEW s \in Sessions, NEW w \in StageThreads(s)
  PROVE  /\ StageThreads(s) = {w} /\ IosOf(s, StageTypes) = {}
         /\ mConnected[s] = 0 /\ issued[s]
<1>1. AtMostOne(IosOf(s, StageTypes), StageThreads(s))
  BY StagesOf
<1>2. StageThreads(s) = {w} /\ IosOf(s, StageTypes) = {}
  BY <1>1 DEF AtMostOne
<1>3. mConnected[s] # 1 /\ issued[s]
  BY StagesOf
<1>4. mConnected[s] \in {0, 1}
  BY DEF Inv, Fields
<1>5. QED BY <1>2, <1>3, <1>4

LEMMA ConnectCompletionStep ==
  ASSUME Inv, status = "running", NEW w \in Workers, ConnectCompletion(w)
  PROVE  Inv'
<1>1. ctx[w] # NoContext /\ ctx[w].type \in {"IO_CONNECT"} /\ pc[w] = "connectCompletion"
  BY InHand DEF ConnectCompletion, Holding, KindOf
<1>2. PICK s \in Sessions : s = Remote(w) /\ w \in Handlers(s)
  BY <1>1, HandlerFacts
<1>3. /\ UNCHANGED <<mainVars, mCurrentConnectCount, mCurrentReturnCount, mRefCount, sendVars,
                     ctx, sendList, portVars, sock, issued, revived>>
      /\ todo' = todo /\ target' = target /\ ctx' = ctx /\ sendList' = sendList
      /\ issued' = issued /\ ios' = ios /\ stops' = stops /\ revived' = revived
      /\ mSendPendingCount' = mSendPendingCount /\ mSendBuffer' = mSendBuffer
  BY DEF ConnectCompletion, mainVars, portVars, sendVars
<1>4. pc[w] \notin Done /\ pc[w] \notin LoggedIn /\ pc[w] # "flushRelease"
  BY <1>1 DEF Done, LoggedIn
<1>5. w \in StageThreads(s)
  BY <1>1, <1>2 DEF StageThreads, StageLabels
<1>6. StageThreads(s) = {w} /\ IosOf(s, StageTypes) = {} /\ mConnected[s] = 0 /\ issued[s]
  BY <1>5, AloneAtStage
<1>7. CASE Goto(w, "drop") /\ status' = status /\ mConnected' = mConnected
  <2>1. Fits(w, "drop")
    BY <1>1 DEF Fits, KindOf, WorkerLabels, IOTypes
  <2>2. "drop" \notin StageLabels \cup {"sendCompletion", "flushRelease"}
    BY DEF StageLabels
  <2>3. /\ mCurrentConnectCount' \in Nat /\ stops' = stops /\ sock' = sock
        /\ UNCHANGED <<todo, target, mCurrentReturnCount, mRefCount, sendVars, ctx, sendList,
                       ios, issued, revived>>
    BY <1>3 DEF Inv, Fields
  <2>4. QED
    BY <1>4, <1>7, <2>1, <2>2, <2>3, QuietStep
<1>8. CASE /\ mConnected' = [mConnected EXCEPT ![s] = 1] /\ Goto(w, "preRecv")
           /\ status' = IF IsConnected(s) THEN "crashed" ELSE status
  <2>1. Fits(w, "preRecv")
    BY <1>1 DEF Fits, KindOf, WorkerLabels
  <2>2. Walk(w, "preRecv")
    BY <1>3, <1>8, Going
  <2>3. \A r : StageThreads(r)' \subseteq StageThreads(r) \ {w}
    BY <2>2, WalkSets DEF StageLabels
  <2>4. /\ mConnected' \in [Sessions -> {0, 1}] /\ mConnected'[s] = 1
        /\ \A r \in Sessions \ {s} : mConnected'[r] = mConnected[r]
    BY <1>8 DEF Inv, Fields
  <2>5. Stages'
    <3>1. StageThreads(s)' = {}
      BY <1>6, <2>3
    <3>2. AtMostOne(IosOf(s, StageTypes), StageThreads(s)')
      BY <1>6, <3>1 DEF AtMostOne
    <3>3. QED BY <1>3, <1>6, <2>3, <2>4, <3>1, <3>2, StagesOneByOne
  <2>6. /\ RefCountIsReferences' /\ Returns' /\ mRefCount' \in [Sessions -> Int]
        /\ mCurrentReturnCount' \in Nat /\ issued' \in [Sessions -> BOOLEAN]
    <3>1. /\ UNCHANGED <<ctx, target, sendList>>
          /\ UNCHANGED <<ios, issued, mRefCount, mCurrentReturnCount, todo, revived>>
      BY <1>3
    <3>2. QED BY <1>4, <1>8, <3>1, StillCounted
  <2>7. status' = status
    BY <1>6, <1>8 DEF IsConnected
  <2>8. \A r \in Sessions : issued'[r] => issued[r]
    BY <1>3
  <2>9. UNCHANGED <<mainVars, mCurrentConnectCount, sendVars, ctx, sendList, portVars, sock,
                    revived>>
    BY <1>3
  <2>10. QED
    BY <1>4, <1>8, <2>1, <2>4, <2>5, <2>6, <2>7, <2>8, <2>9, StageWalk
<1>9. CASE status' = "aborted" /\ UNCHANGED <<mConnected, pc>>
  <2>1. pc' = pc /\ mConnected' = mConnected
    BY <1>9
  <2>2. Fields' /\ Control'
    BY <1>3, <1>9, <2>1 DEF Inv, Fields, Control
  <2>3. /\ \A r, types : IosOf(r, types)' = IosOf(r, types)
        /\ \A r : InFlight(r)' = InFlight(r)
    BY <1>3 DEF IosOf, InFlight
  <2>4. \A t : Remote(t)' = Remote(t)
    BY <1>3 DEF Remote
  <2>5. \A r : /\ Handlers(r)' = Handlers(r) /\ Flushers(r)' = Flushers(r)
               /\ StageThreads(r)' = StageThreads(r) /\ SendWorkers(r)' = SendWorkers(r)
    BY <1>3, <2>1, <2>4 DEF Handlers, Flushers, StageThreads, SendWorkers
  <2>6. \A r : ReceiveWorkers(r)' = ReceiveWorkers(r) /\ LoginWorkers(r)' = LoginWorkers(r)
    BY <1>3, <2>1, <2>5 DEF ReceiveWorkers, LoginWorkers
  <2>7. Stages'
    BY <1>3, <2>1, <2>3, <2>5, KeepStages
  <2>8. Receives' /\ Logins'
    BY <1>3, <2>3, <2>6, KeepReceives, KeepLogins
  <2>9. Sends'
    <3>1. \A r : \A v \in SendWorkers(r)' : ctx'[v] = ctx[v]
      BY <1>3
    <3>2. QED BY <1>3, <2>3, <2>5, <3>1, KeepSends
  <2>10. \A r : Waits(r)' <=> Waits(r)
    BY <1>3, <2>1 DEF Waits
  <2>11. Untouched' /\ Returns' /\ RefCountIsReferences'
    <3>1. Untouched'
      BY <1>3, <2>3, <2>5, <2>10 DEF Inv, Untouched
    <3>2. mRefCount' = mRefCount /\ mCurrentReturnCount' = mCurrentReturnCount
      BY <1>3
    <3>3. QED BY <1>3, <2>3, <2>5, <2>10, <3>1, <3>2, KeepReturns, KeepReferences
  <2>12. status' # "crashed"
    BY <1>9
  <2>13. QED
    BY <2>2, <2>7, <2>8, <2>9, <2>11, <2>12 DEF Inv
<1>10. QED
  BY <1>2, <1>7, <1>8, <1>9 DEF ConnectCompletion

LEMMA DisconnectCompletionStep ==
  ASSUME Inv, status = "running", NEW w \in Workers, DisconnectCompletion(w)
  PROVE  Inv'
<1>1. ctx[w] # NoContext /\ ctx[w].type \in {"IO_DISCONNECT"} /\ pc[w] = "disconnectCompletion"
  BY InHand DEF DisconnectCompletion, Holding, KindOf
<1>2. PICK s \in Sessions : s = Remote(w) /\ w \in Handlers(s)
  BY <1>1, HandlerFacts
<1>3. /\ UNCHANGED <<mainVars, mCurrentConnectCount, mConnected, sendVars, ctx, sendList,
                     portVars, sock, revived>>
      /\ ReleaseRef(s) /\ issued' = [issued EXCEPT ![s] = FALSE] /\ Goto(w, "drop")
      /\ todo' = todo /\ target' = target /\ ctx' = ctx /\ sendList' = sendList
      /\ ios' = ios /\ revived' = revived /\ mConnected' = mConnected
  BY <1>2 DEF DisconnectCompletion, mainVars, portVars
<1>4. pc[w] \notin Done /\ pc[w] \notin LoggedIn /\ pc[w] # "flushRelease"
  BY <1>1 DEF Done, LoggedIn
<1>5. w \in StageThreads(s)
  BY <1>1, <1>2 DEF StageThreads, StageLabels
<1>6. StageThreads(s) = {w} /\ IosOf(s, StageTypes) = {} /\ mConnected[s] = 0 /\ issued[s]
  BY <1>5, AloneAtStage
<1>7. Fits(w, "drop")
  BY <1>1 DEF Fits, KindOf, WorkerLabels, IOTypes
<1>8. Walk(w, "drop")
  BY <1>3, Going
<1>9. \A r : StageThreads(r)' \subseteq StageThreads(r) \ {w}
  BY <1>8, WalkSets DEF StageLabels
<1>10. /\ issued' \in [Sessions -> BOOLEAN] /\ issued'[s] = FALSE
       /\ \A r \in Sessions \ {s} : issued'[r] = issued[r]
  BY <1>3 DEF Inv, Fields
<1>11. Stages'
  <2>1. StageThreads(s)' = {}
    BY <1>6, <1>9
  <2>2. AtMostOne(IosOf(s, StageTypes), StageThreads(s)')
    BY <1>6, <2>1 DEF AtMostOne
  <2>3. /\ \A r \in Sessions \ {s} : StageThreads(r)' \subseteq StageThreads(r)
        /\ mConnected' = mConnected /\ mConnected'[s] # 1 /\ ios' = ios
    BY <1>3, <1>6, <1>9
  <2>4. /\ mConnected'[s] = 1 => IosOf(s, StageTypes) = {} /\ StageThreads(s)' = {}
        /\ mConnected'[s] = 1 \/ IosOf(s, StageTypes) # {} \/ StageThreads(s)' # {} => issued'[s]
    BY <1>6, <2>1, <2>3
  <2>5. QED BY <1>10, <2>2, <2>3, <2>4, StagesOneByOne
<1>12. \A r : Waits(r)' <=> Waits(r)
  <2>1. pc'[Main] = pc[Main]
    BY <1>8, WalkSets
  <2>2. QED BY <1>3, <2>1, WaitsStay
<1>13. /\ Returns' /\ status' = status /\ mCurrentReturnCount' \in Nat
       /\ mRefCount' = [mRefCount EXCEPT ![s] = @ - 1]
  BY <1>3, <1>6, <1>12, ReturnsAfterRelease
<1>14. \A r : /\ Handlers(r)' = Handlers(r) /\ Flushers(r)' = Flushers(r)
              /\ InFlight(r)' = InFlight(r)
  BY <1>3, <1>4, <1>8, WalkSets DEF InFlight
<1>15. /\ References(s)' = References(s) - 1
       /\ \A r \in Sessions \ {s} : References(r)' = References(r)
  <2>1. /\ Cardinality(InFlight(s)) \in Nat /\ Cardinality(Handlers(s)) \in Nat
        /\ Cardinality(Flushers(s)) \in Nat
    BY ReferencesAreCounted
  <2>2. References(s)' = References(s) - 1
    BY <1>6, <1>10, <1>14, <2>1 DEF References
  <2>3. \A r \in Sessions \ {s} : References(r)' = References(r)
    BY <1>10, <1>14 DEF References
  <2>4. QED BY <2>2, <2>3
<1>16. RefCountIsReferences' /\ mRefCount' \in [Sessions -> Int]
  BY <1>13, <1>15, CountsGoDown
<1>17. /\ \A r \in Sessions : issued'[r] => issued[r]
       /\ mConnected' \in [Sessions -> {0, 1}]
  BY <1>3, <1>6, <1>10 DEF Inv, Fields
<1>18. QED
  BY <1>3, <1>4, <1>7, <1>10, <1>11, <1>13, <1>16, <1>17, StageWalk DEF Done, LoggedIn

-----------------------------------------------------------------------------
(* A worker takes a context in hand, or deletes it.                          *)

\* The worker has another context in hand, or none.
Turn(w, d, l) ==
  /\ ctx' = [ctx EXCEPT ![w] = d] /\ pc' = [pc EXCEPT ![w] = l]
  /\ target' = target /\ sendList' = sendList

LEMMA TurnSets ==
  ASSUME Inv, NEW w \in Workers, NEW d, NEW l, Turn(w, d, l),
         pc[w] # "flushRelease", l # "flushRelease", NEW s
  PROVE  /\ Flushers(s)' = Flushers(s)
         /\ \A v \in Workers \ {w} : v \in Handlers(s)' <=> v \in Handlers(s)
         /\ w \in Handlers(s)' <=> d # NoContext /\ d.sess = s
         /\ \A t \in StageThreads(s)' :
              \/ t \in StageThreads(s) /\ t # w
              \/ t = w /\ l \in StageLabels /\ Remote(w)' = s
         /\ \A v \in SendWorkers(s)' :
              \/ v \in SendWorkers(s) /\ v # w /\ ctx'[v] = ctx[v]
              \/ v = w /\ l = "sendCompletion" /\ Remote(w)' = s
         /\ \A v \in ReceiveWorkers(s)' :
              \/ v \in ReceiveWorkers(s) /\ v # w
              \/ v = w /\ d # NoContext /\ d.sess = s /\ d.type \in Receiving
         /\ \A v \in LoginWorkers(s)' :
              \/ v \in LoginWorkers(s) /\ v # w
              \/ v = w /\ d # NoContext /\ d.sess = s /\ d.type = "IO_CONNECT"
         /\ pc'[w] = l /\ ctx'[w] = d /\ pc'[Main] = pc[Main]
         /\ d # NoContext => Remote(w)' = d.sess
<1>0. /\ pc \in [Workers \cup {Main} -> MainLabels \cup WorkerLabels]
      /\ ctx \in [Workers -> Contexts \cup {NoContext}] /\ w # Main /\ Main \notin Workers
  BY ThreadsAssumption DEF Inv, Fields
<1>1. /\ pc'[w] = l /\ ctx'[w] = d /\ target' = target /\ sendList' = sendList
      /\ pc'[Main] = pc[Main]
  BY <1>0 DEF Turn
<1>2. \A t \in Workers \cup {Main} : t # w => pc'[t] = pc[t]
  BY <1>0 DEF Turn
<1>3. \A v \in Workers : v # w => ctx'[v] = ctx[v]
  BY <1>0 DEF Turn
<1>4. \A t \in Workers \cup {Main} : t # w => Remote(t)' = Remote(t)
  BY <1>0, <1>1, <1>3 DEF Remote
<1>5. d # NoContext => Remote(w)' = d.sess
  BY <1>0, <1>1 DEF Remote
<1>6. \A v \in Workers \ {w} : v \in Handlers(s)' <=> v \in Handlers(s)
  BY <1>3, <1>4 DEF Handlers
<1>7. w \in Handlers(s)' <=> d # NoContext /\ d.sess = s
  BY <1>1, <1>5 DEF Handlers
<1>8. Flushers(s)' = Flushers(s)
  <2>1. \A v \in Workers : v \in Flushers(s)' <=> v \in Flushers(s)
    <3>1. SUFFICES ASSUME NEW v \in Workers
                   PROVE  v \in Flushers(s)' <=> v \in Flushers(s)
      OBVIOUS
    <3>2. CASE v = w
      BY <1>1, <3>2 DEF Flushers
    <3>3. CASE v # w
      BY <1>2, <1>4, <3>3 DEF Flushers
    <3>4. QED BY <3>2, <3>3
  <2>2. Flushers(s)' \subseteq Workers /\ Flushers(s) \subseteq Workers
    BY DEF Flushers
  <2>3. QED BY <2>1, <2>2
<1>9. ASSUME NEW t \in StageThreads(s)'
      PROVE  \/ t \in StageThreads(s) /\ t # w
             \/ t = w /\ l \in StageLabels /\ Remote(w)' = s
  <2>1. t \in Workers \cup {Main} /\ pc'[t] \in StageLabels /\ Remote(t)' = s
    BY <1>9 DEF StageThreads
  <2>2. CASE t = w
    BY <1>1, <2>1, <2>2
  <2>3. CASE t # w
    BY <1>2, <1>4, <2>1, <2>3 DEF StageThreads
  <2>4. QED BY <2>2, <2>3
<1>10. ASSUME NEW v \in SendWorkers(s)'
       PROVE  \/ v \in SendWorkers(s) /\ v # w /\ ctx'[v] = ctx[v]
              \/ v = w /\ l = "sendCompletion" /\ Remote(w)' = s
  <2>1. v \in Workers /\ pc'[v] = "sendCompletion" /\ Remote(v)' = s
    BY <1>10 DEF SendWorkers
  <2>2. CASE v = w
    BY <1>1, <2>1, <2>2
  <2>3. CASE v # w
    BY <1>2, <1>3, <1>4, <2>1, <2>3 DEF SendWorkers
  <2>4. QED BY <2>2, <2>3
<1>11. ASSUME NEW v \in ReceiveWorkers(s)'
       PROVE  \/ v \in ReceiveWorkers(s) /\ v # w
              \/ v = w /\ d # NoContext /\ d.sess = s /\ d.type \in Receiving
  <2>1. v \in Workers /\ v \in Handlers(s)' /\ ctx'[v].type \in Receiving /\ pc'[v] \notin Done
    BY <1>11 DEF ReceiveWorkers, Handlers, Done
  <2>2. CASE v = w
    BY <1>1, <1>7, <2>1, <2>2
  <2>3. CASE v # w
    BY <1>2, <1>3, <1>6, <2>1, <2>3 DEF ReceiveWorkers, Done
  <2>4. QED BY <2>2, <2>3
<1>12. ASSUME NEW v \in LoginWorkers(s)'
       PROVE  \/ v \in LoginWorkers(s) /\ v # w
              \/ v = w /\ d # NoContext /\ d.sess = s /\ d.type = "IO_CONNECT"
  <2>1. v \in Workers /\ v \in Handlers(s)' /\ ctx'[v].type = "IO_CONNECT" /\ pc'[v] \notin LoggedIn
    BY <1>12 DEF LoginWorkers, Handlers, LoggedIn
  <2>2. CASE v = w
    BY <1>1, <1>7, <2>1, <2>2
  <2>3. CASE v # w
    BY <1>2, <1>3, <1>6, <2>1, <2>3 DEF LoginWorkers, LoggedIn
  <2>4. QED BY <2>2, <2>3
<1>13. QED
  BY <1>1, <1>5, <1>6, <1>7, <1>8, <1>9, <1>10, <1>11, <1>12

LEMMA TurnControl ==
  ASSUME Inv, NEW w \in Workers, NEW d \in Contexts \cup {NoContext}, NEW l, Turn(w, d, l),
         l \in WorkerLabels, l \in Holding => d # NoContext,
         d # NoContext => d.type \in KindOf(l),
         l \in {"disconnect", "disconnectCall"} => d # NoContext,
         l \notin {"flush", "flushRelease", "flushed"}
  PROVE  /\ Control'
         /\ pc' \in [Workers \cup {Main} -> MainLabels \cup WorkerLabels]
         /\ ctx' \in [Workers -> Contexts \cup {NoContext}]
<1>0. /\ pc \in [Workers \cup {Main} -> MainLabels \cup WorkerLabels]
      /\ ctx \in [Workers -> Contexts \cup {NoContext}] /\ w # Main /\ Main \notin Workers
  BY ThreadsAssumption DEF Inv, Fields
<1>1. /\ ctx' = [ctx EXCEPT ![w] = d] /\ pc' = [pc EXCEPT ![w] = l] /\ sendList' = sendList
  BY DEF Turn
<1>2. /\ pc' \in [Workers \cup {Main} -> MainLabels \cup WorkerLabels]
      /\ ctx' \in [Workers -> Contexts \cup {NoContext}]
  BY <1>0, <1>1
<1>3. ASSUME NEW v \in Workers
      PROVE  /\ pc'[v] \in WorkerLabels
             /\ pc'[v] \in Holding => ctx'[v] # NoContext
             /\ ctx'[v] # NoContext => ctx'[v].type \in KindOf(pc'[v])
             /\ pc'[v] \in {"disconnect", "disconnectCall"} /\ ctx'[v] = NoContext
                  => sendList'[v] # << >>
             /\ pc'[v] \in {"flush", "flushRelease", "flushed"} => sendList'[v] # << >>
  <2>1. CASE v = w
    <3>1. pc'[v] = l /\ ctx'[v] = d
      BY <1>0, <1>1, <2>1
    <3>2. QED BY <3>1
  <2>2. CASE v # w
    <3>1. pc'[v] = pc[v] /\ ctx'[v] = ctx[v] /\ sendList'[v] = sendList[v]
      BY <1>0, <1>1, <2>2
    <3>2. QED BY <3>1 DEF Inv, Control
  <2>3. QED BY <2>1, <2>2
<1>4. pc'[Main] \in MainLabels
  <2>1. pc'[Main] = pc[Main]
    BY <1>0, <1>1
  <2>2. QED BY <2>1 DEF Inv, Control
<1>5. QED
  BY <1>2, <1>3, <1>4 DEF Control

LEMMA DeleteIoContextStep ==
  ASSUME Inv, status = "running", NEW w \in Workers, DeleteIoContext(w)
  PROVE  Inv'
<1>1. ctx[w] # NoContext /\ pc[w] = "drop"
  BY InHand DEF DeleteIoContext, Holding
<1>2. PICK s \in Sessions : s = Remote(w) /\ w \in Handlers(s)
  BY <1>1, HandlerFacts
<1>3. /\ ReleaseRef(s) /\ Turn(w, NoContext, "sendJob")
      /\ todo' = todo /\ target' = target /\ sendList' = sendList /\ sock' = sock
      /\ mCurrentConnectCount' = mCurrentConnectCount /\ stops' = stops
      /\ mConnected' = mConnected /\ ios' = ios /\ issued' = issued /\ revived' = revived
      /\ mSendPendingCount' = mSendPendingCount /\ mSendBuffer' = mSendBuffer
  BY <1>2 DEF DeleteIoContext, mainVars, portVars, sendVars, Turn, Goto
<1>4. /\ Control' /\ pc' \in [Workers \cup {Main} -> MainLabels \cup WorkerLabels]
      /\ ctx' \in [Workers -> Contexts \cup {NoContext}]
  BY <1>3, TurnControl DEF WorkerLabels, Holding
<1>5. \A r : /\ Flushers(r)' = Flushers(r)
             /\ \A v \in Workers \ {w} : v \in Handlers(r)' <=> v \in Handlers(r)
             /\ w \notin Handlers(r)'
             /\ SendWorkers(r)' \subseteq SendWorkers(r)
             /\ ReceiveWorkers(r)' \subseteq ReceiveWorkers(r)
             /\ LoginWorkers(r)' \subseteq LoginWorkers(r)
             /\ pc'[Main] = pc[Main]
  BY <1>1, <1>3, TurnSets
<1>6. \A r : StageThreads(r)' \subseteq StageThreads(r)
  BY <1>1, <1>3, TurnSets DEF StageLabels
<1>7. \A r : \A v \in SendWorkers(r)' : ctx'[v] = ctx[v]
  BY <1>1, <1>3, TurnSets
<1>8. \A r : Handlers(r)' = Handlers(r) \ {w}
  <2>1. \A r : Handlers(r)' \subseteq Workers /\ Handlers(r) \subseteq Workers
    BY DEF Handlers
  <2>2. QED BY <1>5, <2>1
<1>9. \A r \in Sessions \ {s} : w \notin Handlers(r) /\ Handlers(r)' = Handlers(r)
  <2>1. \A r \in Sessions \ {s} : w \notin Handlers(r)
    BY <1>2 DEF Handlers
  <2>2. QED BY <1>8, <2>1
<1>10. \A r, types : IosOf(r, types)' = IosOf(r, types) /\ InFlight(r)' = InFlight(r)
  BY <1>3 DEF IosOf, InFlight
<1>11. \A r : Waits(r)' <=> Waits(r)
  BY <1>3, <1>5, WaitsStay
<1>12. /\ Returns' /\ status' = status /\ mCurrentReturnCount' \in Nat
       /\ mRefCount' = [mRefCount EXCEPT ![s] = @ - 1]
  BY <1>2, <1>3, <1>11, ReturnsAfterRelease
<1>13. /\ References(s)' = References(s) - 1
       /\ \A r \in Sessions \ {s} : References(r)' = References(r)
  BY <1>2, <1>3, <1>5, <1>8, <1>9, <1>10, OneHandlerLess
<1>14. RefCountIsReferences' /\ mRefCount' \in [Sessions -> Int]
  BY <1>12, <1>13, CountsGoDown
<1>15. Fields'
  BY <1>3, <1>4, <1>12, <1>14 DEF Inv, Fields
<1>16. Stages'
  BY <1>3, <1>6, <1>10, KeepStages
<1>17. Receives'
  BY <1>5, <1>10, KeepReceives
<1>18. Sends'
  BY <1>3, <1>5, <1>7, <1>10, KeepSends
<1>19. Logins'
  BY <1>3, <1>5, <1>10, KeepLogins
<1>20. Untouched'
  BY <1>3, <1>5, <1>8, <1>10, <1>11 DEF Inv, Untouched
<1>21. QED
  BY <1>4, <1>12, <1>14, <1>15, <1>16, <1>17, <1>18, <1>19, <1>20 DEF Inv

\* The context of a completion, and the handler it goes to.
LEMMA DequeuedContext ==
  ASSUME Inv, NEW c \in ios, NEW n \in Outcomes(c), NEW d, d = [c EXCEPT !.n = n],
         NEW l, l = Handler(c, n)
  PROVE  /\ c.sess \in Sessions /\ d \in Contexts /\ d # NoContext
         /\ d.type = c.type /\ d.sess = c.sess /\ d.n = n
         /\ c.type = "IO_SEND" => n <= c.len
         /\ l \in WorkerLabels /\ c.type \in KindOf(l)
         /\ l \in StageLabels => c.type \in StageTypes
         /\ l = "sendCompletion" => c.type = "IO_SEND"
         /\ l \notin {"flush", "flushRelease", "flushed"}
<1>1. c \in Contexts
  BY DEF Inv, Fields
<1>2. c.sess \in Sessions /\ c.len \in 0..LoginSize /\ c.type \in IOTypes
  BY <1>1 DEF Contexts, IOTypes
<1>3. n \in 0..LoginSize /\ (c.type = "IO_SEND" => n <= c.len)
  <2>1. CASE c.type = "IO_RECV"
    <3>1. n \in {0, 1}
      BY <2>1 DEF Outcomes
    <3>2. QED BY <2>1, <3>1, FaultsAssumption
  <2>2. CASE c.type = "IO_SEND"
    <3>1. n \in {c.len} \cup 1..c.len \cup {0}
      BY <2>2 DEF Outcomes
    <3>2. QED BY <1>2, <3>1, FaultsAssumption
  <2>3. CASE c.type # "IO_RECV" /\ c.type # "IO_SEND"
    <3>1. n \in {0}
      BY <2>3 DEF Outcomes
    <3>2. QED BY <2>3, <3>1, FaultsAssumption
  <2>4. QED BY <2>1, <2>2, <2>3
<1>4. d \in Contexts /\ d.type = c.type /\ d.sess = c.sess /\ d.n = n
  BY <1>1, <1>3 DEF Contexts
<1>5. d # NoContext
  <2>1. d.type \in IOTypes /\ NoContext.type \notin IOTypes
    BY <1>2, <1>4 DEF NoContext, IOTypes
  <2>2. QED BY <2>1
<1>6. \/ l = "disconnect" /\ c.type \in {"IO_RECV", "IO_SEND"}
      \/ l = "connectCompletion" /\ c.type = "IO_CONNECT"
      \/ l = "disconnectCompletion" /\ c.type = "IO_DISCONNECT"
      \/ l = "postRecv" /\ c.type = "IO_RECV_ZERO"
      \/ l = "sendCompletion" /\ c.type = "IO_SEND"
      \/ l = "recvCompletion" /\ c.type = "IO_RECV"
  BY <1>2 DEF Handler, IOTypes
<1>7. /\ l \in WorkerLabels /\ c.type \in KindOf(l)
      /\ l \notin {"flush", "flushRelease", "flushed"}
  BY <1>6 DEF WorkerLabels, KindOf
<1>8. /\ l \in StageLabels => c.type \in StageTypes
      /\ l = "sendCompletion" => c.type = "IO_SEND"
  BY <1>6 DEF StageLabels, StageTypes
<1>9. QED
  BY <1>2, <1>3, <1>4, <1>5, <1>7, <1>8

LEMMA DequeueStep ==
  ASSUME Inv, status = "running", NEW w \in Workers, NEW c \in ios, Dequeue(w, c)
  PROVE  Inv'
<1>1. ctx[w] = NoContext /\ pc[w] = "gqcs"
  BY InHand DEF Dequeue
<1>2. PICK n \in Outcomes(c) :
        ctx' = [ctx EXCEPT ![w] = [c EXCEPT !.n = n]] /\ Goto(w, Handler(c, n))
  BY DEF Dequeue
<1>3. PICK d : d = [c EXCEPT !.n = n]
  OBVIOUS
<1>4. PICK l : l = Handler(c, n)
  OBVIOUS
<1>5. PICK s : s = c.sess
  OBVIOUS
<1>6. /\ s \in Sessions /\ d \in Contexts /\ d # NoContext
      /\ d.type = c.type /\ d.sess = s /\ d.n = n
      /\ c.type = "IO_SEND" => n <= c.len
      /\ l \in WorkerLabels /\ c.type \in KindOf(l)
      /\ l \in StageLabels => c.type \in StageTypes
      /\ l = "sendCompletion" => c.type = "IO_SEND"
      /\ l \notin {"flush", "flushRelease", "flushed"}
  BY <1>3, <1>4, <1>5, DequeuedContext
<1>7. /\ Turn(w, d, l) /\ status' = status
      /\ todo' = todo /\ target' = target /\ sendList' = sendList
      /\ mCurrentConnectCount' = mCurrentConnectCount /\ stops' = stops
      /\ mCurrentReturnCount' = mCurrentReturnCount /\ mRefCount' = mRefCount
      /\ mConnected' = mConnected /\ ios' = ios \ {c} /\ issued' = issued /\ revived' = revived
      /\ mSendPendingCount' = mSendPendingCount /\ mSendBuffer' = mSendBuffer
  BY <1>2, <1>3, <1>4 DEF Dequeue, mainVars, sendVars, Turn, Goto
<1>8. /\ Control' /\ pc' \in [Workers \cup {Main} -> MainLabels \cup WorkerLabels]
      /\ ctx' \in [Workers -> Contexts \cup {NoContext}]
  BY <1>6, <1>7, TurnControl
<1>9. pc[w] # "flushRelease" /\ l # "flushRelease"
  BY <1>1, <1>6
<1>10. \A r : /\ Flushers(r)' = Flushers(r)
              /\ \A v \in Workers \ {w} : v \in Handlers(r)' <=> v \in Handlers(r)
              /\ w \in Handlers(r)' <=> r = s
              /\ pc'[Main] = pc[Main] /\ Remote(w)' = s /\ ctx'[w] = d
  BY <1>6, <1>7, <1>9, TurnSets
<1>11. \A r : \A t \in StageThreads(r)' :
         \/ t \in StageThreads(r)
         \/ t = w /\ c.type \in StageTypes /\ s = r
  BY <1>6, <1>7, <1>9, <1>10, TurnSets
<1>12. \A r : \A v \in SendWorkers(r)' :
         \/ v \in SendWorkers(r) /\ ctx'[v] = ctx[v]
         \/ v = w /\ c.type = "IO_SEND" /\ s = r
  BY <1>6, <1>7, <1>9, <1>10, TurnSets
<1>13. \A r : \A v \in ReceiveWorkers(r)' :
         \/ v \in ReceiveWorkers(r)
         \/ v = w /\ c.type \in Receiving /\ s = r
  BY <1>6, <1>7, <1>9, TurnSets
<1>14. \A r : \A v \in LoginWorkers(r)' :
         \/ v \in LoginWorkers(r)
         \/ v = w /\ c.type = "IO_CONNECT" /\ s = r
  BY <1>6, <1>7, <1>9, TurnSets
<1>15. /\ \A r, types : IosOf(r, types)' = IosOf(r, types) \ {c}
       /\ \A types : c.type \in types => c \in IosOf(s, types)
  BY <1>5, <1>7 DEF IosOf
<1>16. w \notin Handlers(s)
  BY <1>1 DEF Handlers
<1>17. c \in InFlight(s) /\ InFlight(s)' = InFlight(s) \ {c}
       /\ \A r \in Sessions \ {s} : InFlight(r)' = InFlight(r)
  BY <1>5, <1>7 DEF InFlight
<1>18. /\ Handlers(s)' = Handlers(s) \cup {w}
       /\ \A r \in Sessions \ {s} : Handlers(r)' = Handlers(r)
  <2>1. \A r : Handlers(r)' \subseteq Workers /\ Handlers(r) \subseteq Workers
    BY DEF Handlers
  <2>2. \A r : w \notin Handlers(r)
    BY <1>1 DEF Handlers
  <2>3. Handlers(s)' = Handlers(s) \cup {w}
    BY <1>10, <2>1
  <2>4. ASSUME NEW r \in Sessions \ {s}
        PROVE  Handlers(r)' = Handlers(r)
    <3>1. w \notin Handlers(r)' /\ w \notin Handlers(r)
      BY <1>10, <2>2, <2>4
    <3>2. Handlers(r)' \subseteq Workers /\ Handlers(r) \subseteq Workers
      BY <2>1
    <3>3. \A v \in Workers \ {w} : v \in Handlers(r)' <=> v \in Handlers(r)
      BY <1>10
    <3>4. QED BY <3>1, <3>2, <3>3
  <2>5. QED BY <2>3, <2>4
<1>19. \A r \in Sessions : References(r)' = References(r)
  BY <1>6, <1>7, <1>10, <1>16, <1>17, <1>18, FlightToHandler
<1>20. RefCountIsReferences'
  BY <1>7, <1>19 DEF Inv, RefCountIsReferences
<1>21. \A r : Waits(r)' <=> Waits(r)
  BY <1>7, <1>10, WaitsStay
<1>22. Returns'
  BY <1>7, <1>21, KeepReturns
<1>23. Untouched'
  <2>1. ~Waits(s)
    BY <1>6, <1>17, ReferredIsCounted
  <2>2. QED BY <1>7, <1>10, <1>17, <1>18, <1>21, <2>1 DEF Inv, Untouched
<1>24. sock' \in [Sessions -> {"idle", "established", "refused", "down"}]
  <2>1. \/ sock' = sock
        \/ \E to \in {"established", "refused"} : sock' = [sock EXCEPT ![s] = to]
    BY <1>5 DEF Dequeue
  <2>2. sock \in [Sessions -> {"idle", "established", "refused", "down"}]
    BY DEF Inv, Fields
  <2>3. QED BY <2>1, <2>2
<1>25. ios' \subseteq Contexts /\ IsFiniteSet(ios')
  <2>1. ios' \subseteq ios /\ ios \subseteq Contexts /\ IsFiniteSet(ios)
    BY <1>7 DEF Inv, Fields
  <2>2. QED BY <2>1, FS_Subset
<1>26. Fields'
  BY <1>7, <1>8, <1>24, <1>25 DEF Inv, Fields
<1>27. Stages'
  <2>1. ASSUME NEW r \in Sessions
        PROVE  /\ AtMostOne(IosOf(r, StageTypes)', StageThreads(r)')
               /\ mConnected'[r] = 1 => IosOf(r, StageTypes)' = {} /\ StageThreads(r)' = {}
               /\ mConnected'[r] = 1 \/ IosOf(r, StageTypes)' # {} \/ StageThreads(r)' # {}
                    => issued'[r]
    <3>1. /\ AtMostOne(IosOf(r, StageTypes), StageThreads(r))
          /\ mConnected[r] = 1 => IosOf(r, StageTypes) = {} /\ StageThreads(r) = {}
          /\ mConnected[r] = 1 \/ IosOf(r, StageTypes) # {} \/ StageThreads(r) # {} => issued[r]
      BY StagesOf
    <3>2. CASE r = s /\ c.type \in StageTypes
      <4>1. c \in IosOf(r, StageTypes)
        BY <1>15, <3>2
      <4>2. StageThreads(r)' \subseteq StageThreads(r) \cup {w}
        BY <1>11
      <4>3. IosOf(r, StageTypes)' \subseteq IosOf(r, StageTypes) \ {c}
        BY <1>15
      <4>4. AtMostOne(IosOf(r, StageTypes)', StageThreads(r)')
        BY <3>1, <4>1, <4>2, <4>3, LeftToRight
      <4>5. QED BY <1>7, <3>1, <4>1, <4>4
    <3>3. CASE ~(r = s /\ c.type \in StageTypes)
      <4>1. StageThreads(r)' \subseteq StageThreads(r)
        BY <1>11, <3>3
      <4>2. IosOf(r, StageTypes)' \subseteq IosOf(r, StageTypes)
        BY <1>15
      <4>3. AtMostOne(IosOf(r, StageTypes)', StageThreads(r)')
        BY <3>1, <4>1, <4>2, FewerIsFine
      <4>4. QED BY <1>7, <3>1, <4>1, <4>2, <4>3
    <3>4. QED BY <3>2, <3>3
  <2>2. QED BY <2>1 DEF Stages, AtMostOne
<1>28. Receives'
  <2>1. ASSUME NEW r \in Sessions
        PROVE  AtMostOne(IosOf(r, Receiving)', ReceiveWorkers(r)')
    <3>1. AtMostOne(IosOf(r, Receiving), ReceiveWorkers(r))
      BY DEF Inv, Receives
    <3>2. CASE r = s /\ c.type \in Receiving
      <4>1. c \in IosOf(r, Receiving)
        BY <1>15, <3>2
      <4>2. ReceiveWorkers(r)' \subseteq ReceiveWorkers(r) \cup {w}
        BY <1>13
      <4>3. IosOf(r, Receiving)' \subseteq IosOf(r, Receiving) \ {c}
        BY <1>15
      <4>4. QED BY <3>1, <4>1, <4>2, <4>3, LeftToRight
    <3>3. CASE ~(r = s /\ c.type \in Receiving)
      <4>1. ReceiveWorkers(r)' \subseteq ReceiveWorkers(r)
        BY <1>13, <3>3
      <4>2. IosOf(r, Receiving)' \subseteq IosOf(r, Receiving)
        BY <1>15
      <4>3. QED BY <3>1, <4>1, <4>2, FewerIsFine
    <3>4. QED BY <3>2, <3>3
  <2>2. QED BY <2>1 DEF Receives, AtMostOne
<1>29. Logins'
  <2>1. ASSUME NEW r \in Sessions
        PROVE  /\ AtMostOne(IosOf(r, {"IO_CONNECT"})', LoginWorkers(r)')
               /\ IosOf(r, {"IO_CONNECT"})' # {} \/ LoginWorkers(r)' # {} => mSendBuffer'[r] = 0
    <3>1. /\ AtMostOne(IosOf(r, {"IO_CONNECT"}), LoginWorkers(r))
          /\ IosOf(r, {"IO_CONNECT"}) # {} \/ LoginWorkers(r) # {} => mSendBuffer[r] = 0
      BY DEF Inv, Logins
    <3>2. CASE r = s /\ c.type = "IO_CONNECT"
      <4>1. c \in IosOf(r, {"IO_CONNECT"})
        BY <1>15, <3>2
      <4>2. LoginWorkers(r)' \subseteq LoginWorkers(r) \cup {w}
        BY <1>14
      <4>3. IosOf(r, {"IO_CONNECT"})' \subseteq IosOf(r, {"IO_CONNECT"}) \ {c}
        BY <1>15
      <4>4. AtMostOne(IosOf(r, {"IO_CONNECT"})', LoginWorkers(r)')
        BY <3>1, <4>1, <4>2, <4>3, LeftToRight
      <4>5. QED BY <1>7, <3>1, <4>1, <4>4
    <3>3. CASE ~(r = s /\ c.type = "IO_CONNECT")
      <4>1. LoginWorkers(r)' \subseteq LoginWorkers(r)
        BY <1>14, <3>3
      <4>2. IosOf(r, {"IO_CONNECT"})' \subseteq IosOf(r, {"IO_CONNECT"})
        BY <1>15
      <4>3. AtMostOne(IosOf(r, {"IO_CONNECT"})', LoginWorkers(r)')
        BY <3>1, <4>1, <4>2, FewerIsFine
      <4>4. QED BY <1>7, <3>1, <4>1, <4>2, <4>3
    <3>4. QED BY <3>2, <3>3
  <2>2. QED BY <2>1 DEF Logins, AtMostOne
<1>30. Sends'
  <2>1. ASSUME NEW r \in Sessions
        PROVE  /\ AtMostOne(IosOf(r, {"IO_SEND"})', SendWorkers(r)')
               /\ mSendPendingCount'[r] = 0 => IosOf(r, {"IO_SEND"})' = {} /\ SendWorkers(r)' = {}
               /\ \A e \in IosOf(r, {"IO_SEND"})' : e.len <= mSendBuffer'[r]
               /\ \A v \in SendWorkers(r)' : ctx'[v].n <= mSendBuffer'[r]
    <3>1. /\ AtMostOne(IosOf(r, {"IO_SEND"}), SendWorkers(r))
          /\ mSendPendingCount[r] = 0 => IosOf(r, {"IO_SEND"}) = {} /\ SendWorkers(r) = {}
          /\ \A e \in IosOf(r, {"IO_SEND"}) : e.len <= mSendBuffer[r]
          /\ \A v \in SendWorkers(r) : ctx[v].n <= mSendBuffer[r]
      BY DEF Inv, Sends
    <3>2. IosOf(r, {"IO_SEND"})' \subseteq IosOf(r, {"IO_SEND"}) \ {c}
      BY <1>15
    <3>3. \A e \in IosOf(r, {"IO_SEND"})' : e.len <= mSendBuffer'[r]
      BY <1>7, <3>1, <3>2
    <3>4. CASE r = s /\ c.type = "IO_SEND"
      <4>1. c \in IosOf(r, {"IO_SEND"})
        BY <1>15, <3>4
      <4>2. SendWorkers(r)' \subseteq SendWorkers(r) \cup {w}
        BY <1>12
      <4>3. AtMostOne(IosOf(r, {"IO_SEND"})', SendWorkers(r)')
        BY <3>1, <3>2, <4>1, <4>2, LeftToRight
      <4>4. ctx'[w].n <= mSendBuffer[r]
        <5>1. c.len <= mSendBuffer[r] /\ n <= c.len /\ ctx'[w].n = n
          BY <1>6, <1>10, <3>1, <3>4, <4>1
        <5>2. c.len \in Int /\ n \in Int /\ mSendBuffer[r] \in Int
          <6>1. c \in Contexts /\ d \in Contexts /\ d.n = n /\ mSendBuffer[r] \in 0..LoginSize
            BY <1>6 DEF Inv, Fields, Sends
          <6>2. QED BY <6>1, FaultsAssumption DEF Contexts
        <5>3. QED BY <5>1, <5>2
      <4>5. \A v \in SendWorkers(r)' : ctx'[v].n <= mSendBuffer'[r]
        BY <1>7, <1>12, <3>1, <4>4
      <4>6. QED BY <1>7, <3>1, <3>3, <4>1, <4>3, <4>5
    <3>5. CASE ~(r = s /\ c.type = "IO_SEND")
      <4>1. \A v \in SendWorkers(r)' : v \in SendWorkers(r) /\ ctx'[v] = ctx[v]
        BY <1>12, <3>5
      <4>2. AtMostOne(IosOf(r, {"IO_SEND"})', SendWorkers(r)')
        BY <3>1, <3>2, <4>1, FewerIsFine
      <4>3. QED BY <1>7, <3>1, <3>2, <3>3, <4>1, <4>2
    <3>6. QED BY <3>4, <3>5
  <2>2. /\ mSendPendingCount' \in [Sessions -> {0, 1}]
        /\ mSendBuffer' \in [Sessions -> 0..LoginSize]
    BY <1>7 DEF Inv, Sends
  <2>3. QED BY <2>1, <2>2 DEF Sends, AtMostOne
<1>31. QED
  BY <1>7, <1>8, <1>20, <1>22, <1>23, <1>26, <1>27, <1>28, <1>29, <1>30 DEF Inv

-----------------------------------------------------------------------------
(* The main thread.                                                          *)

\* The session is told to connect: nobody has referred to it before.
LEMMA ConnectRequestStep ==
  ASSUME Inv, status = "running", NEW s \in Sessions, ConnectRequest(s)
  PROVE  Inv'
<1>1. Waits(s)
  BY DEF ConnectRequest, Waits
<1>2. /\ ~issued[s] /\ InFlight(s) = {} /\ Handlers(s) = {} /\ Flushers(s) = {}
      /\ mSendBuffer[s] = 0
  BY <1>1 DEF Inv, Untouched
<1>3. mConnected[s] # 1 /\ StageThreads(s) = {}
  BY <1>2, StagesOf
<1>4. mRefCount[s] = 0
  BY <1>2, ReferencesAreCounted
<1>5. PICK c : c = Context("IO_CONNECT", s, 0)
  OBVIOUS
<1>6. PICK N : /\ ios' = ios \cup N
               /\ \/ N = {c} /\ mRefCount' = [mRefCount EXCEPT ![s] = @ + 2]
                  \/ N = {} /\ mRefCount' = [mRefCount EXCEPT ![s] = @ + 1]
  BY <1>5 DEF ConnectRequest
<1>7. /\ pc' = pc /\ ctx' = ctx /\ target' = target /\ sendList' = sendList
      /\ todo' = todo \ {s} /\ issued' = [issued EXCEPT ![s] = TRUE] /\ status' = status
      /\ mCurrentConnectCount' = mCurrentConnectCount /\ stops' = stops /\ sock' = sock
      /\ mCurrentReturnCount' = mCurrentReturnCount /\ mConnected' = mConnected
      /\ mSendPendingCount' = mSendPendingCount /\ mSendBuffer' = mSendBuffer
      /\ revived' = revived
  BY <1>3 DEF ConnectRequest, IsConnected, sendVars
<1>8. c \in Contexts /\ c.sess = s /\ c.type = "IO_CONNECT"
  BY <1>5, FaultsAssumption DEF Context, Contexts
<1>9. \A t : Remote(t)' = Remote(t)
  BY <1>7 DEF Remote
<1>10. \A r : /\ Handlers(r)' = Handlers(r) /\ Flushers(r)' = Flushers(r)
              /\ StageThreads(r)' = StageThreads(r) /\ SendWorkers(r)' = SendWorkers(r)
  BY <1>7, <1>9 DEF Handlers, Flushers, StageThreads, SendWorkers
<1>11. \A r : ReceiveWorkers(r)' = ReceiveWorkers(r) /\ LoginWorkers(r)' = LoginWorkers(r)
  BY <1>7, <1>10 DEF ReceiveWorkers, LoginWorkers
<1>12. \A r, types : IosOf(r, types)' \subseteq IosOf(r, types) \cup N
  BY <1>6 DEF IosOf
<1>13. \A r, types : r # s \/ "IO_CONNECT" \notin types => IosOf(r, types)' = IosOf(r, types)
  <2>1. \A x \in N : x.sess = s /\ x.type = "IO_CONNECT"
    BY <1>6, <1>8
  <2>2. QED BY <1>6, <2>1 DEF IosOf
<1>14. \A types : IosOf(s, types) = {}
  BY <1>2 DEF IosOf, InFlight
<1>15. ReceiveWorkers(s) = {} /\ LoginWorkers(s) = {}
  BY <1>2 DEF ReceiveWorkers, LoginWorkers
<1>16. \A types : IosOf(s, types)' \subseteq {c}
  BY <1>6, <1>12, <1>14
<1>17. /\ issued' \in [Sessions -> BOOLEAN] /\ issued'[s]
       /\ \A r \in Sessions \ {s} : issued'[r] = issued[r]
  BY <1>7 DEF Inv, Fields
<1>18. /\ mRefCount' \in [Sessions -> Int]
       /\ mRefCount'[s] = 1 + Cardinality(N) /\ Cardinality(N) \in Nat
       /\ \A r \in Sessions \ {s} : mRefCount'[r] = mRefCount[r]
  <2>1. mRefCount \in [Sessions -> Int]
    BY DEF Inv, Fields
  <2>2. CASE N = {c} /\ mRefCount' = [mRefCount EXCEPT ![s] = @ + 2]
    <3>1. Cardinality(N) = 1
      BY <2>2, FS_Singleton
    <3>2. QED BY <1>4, <2>1, <2>2, <3>1
  <2>3. CASE N = {} /\ mRefCount' = [mRefCount EXCEPT ![s] = @ + 1]
    <3>1. Cardinality(N) = 0
      BY <2>3, FS_EmptySet
    <3>2. QED BY <1>4, <2>1, <2>3, <3>1
  <2>4. QED BY <1>6, <2>2, <2>3
<1>19. InFlight(s)' = N /\ \A r \in Sessions \ {s} : InFlight(r)' = InFlight(r)
  <2>1. \A x \in N : x.sess = s
    BY <1>6, <1>8
  <2>2. QED BY <1>2, <1>6, <2>1 DEF InFlight
<1>20. RefCountIsReferences'
  <2>1. ASSUME NEW r \in Sessions
        PROVE  mRefCount'[r] = References(r)'
    <3>1. CASE r = s
      <4>1. Cardinality(Handlers(r)') = 0 /\ Cardinality(Flushers(r)') = 0
        BY <1>2, <1>10, <3>1, FS_EmptySet
      <4>2. References(r)' = 1 + Cardinality(N) + 0 + 0
        BY <1>17, <1>19, <3>1, <4>1 DEF References
      <4>3. QED BY <1>18, <3>1, <4>2
    <3>2. CASE r # s
      <4>1. References(r)' = References(r)
        BY <1>10, <1>17, <1>19, <3>2 DEF References
      <4>2. QED BY <1>18, <3>2, <4>1 DEF Inv, RefCountIsReferences
    <3>3. QED BY <3>1, <3>2
  <2>2. QED BY <2>1 DEF RefCountIsReferences
<1>21. ~Waits(s)' /\ \A r \in Sessions \ {s} : Waits(r)' <=> Waits(r)
  BY <1>7 DEF Waits
<1>22. Returns'
  <2>1. mRefCount'[s] # 0
    BY <1>18
  <2>2. Returned' = Returned
    BY <1>1, <1>18, <1>21, <2>1 DEF Returned
  <2>3. QED BY <1>7, <2>2 DEF Inv, Returns
<1>23. Untouched'
  BY <1>7, <1>10, <1>17, <1>19, <1>21 DEF Inv, Untouched
<1>24. ios' \subseteq Contexts /\ IsFiniteSet(ios')
  <2>1. ios \subseteq Contexts /\ IsFiniteSet(ios)
    BY DEF Inv, Fields
  <2>2. IsFiniteSet(N)
    <3>1. IsFiniteSet({c}) /\ IsFiniteSet({})
      BY FS_Singleton, FS_EmptySet
    <3>2. N = {c} \/ N = {}
      BY <1>6
    <3>3. QED BY <3>1, <3>2
  <2>3. IsFiniteSet(ios \cup N)
    BY <2>1, <2>2, FS_Union
  <2>4. N \subseteq Contexts
    BY <1>6, <1>8
  <2>5. QED BY <1>6, <2>1, <2>3, <2>4
<1>25. Fields' /\ Control'
  BY <1>7, <1>17, <1>18, <1>24 DEF Inv, Fields, Control
<1>26. Stages'
  <2>1. ASSUME NEW r \in Sessions
        PROVE  /\ AtMostOne(IosOf(r, StageTypes)', StageThreads(r)')
               /\ mConnected'[r] = 1 => IosOf(r, StageTypes)' = {} /\ StageThreads(r)' = {}
               /\ mConnected'[r] = 1 \/ IosOf(r, StageTypes)' # {} \/ StageThreads(r)' # {}
                    => issued'[r]
    <3>1. CASE r = s
      <4>1. IosOf(s, StageTypes)' \subseteq {c} /\ StageThreads(s)' = {}
        BY <1>3, <1>10, <1>16
      <4>2. QED BY <1>3, <1>7, <1>17, <3>1, <4>1 DEF AtMostOne
    <3>2. CASE r # s
      <4>1. /\ IosOf(r, StageTypes)' = IosOf(r, StageTypes) /\ issued'[r] = issued[r]
            /\ StageThreads(r)' = StageThreads(r) /\ mConnected'[r] = mConnected[r]
        BY <1>7, <1>10, <1>13, <1>17, <3>2
      <4>2. QED BY <4>1, StagesOf
    <3>3. QED BY <3>1, <3>2
  <2>2. QED BY <2>1 DEF Stages, AtMostOne
<1>27. Receives'
  <2>1. ASSUME NEW r \in Sessions
        PROVE  AtMostOne(IosOf(r, Receiving)', ReceiveWorkers(r)')
    <3>1. CASE r = s
      <4>1. IosOf(s, Receiving)' \subseteq {c} /\ ReceiveWorkers(s)' = {}
        BY <1>11, <1>15, <1>16
      <4>2. QED BY <3>1, <4>1 DEF AtMostOne
    <3>2. CASE r # s
      <4>1. /\ IosOf(r, Receiving)' = IosOf(r, Receiving)
            /\ ReceiveWorkers(r)' = ReceiveWorkers(r)
        BY <1>11, <1>13, <3>2
      <4>2. QED BY <4>1 DEF Inv, Receives
    <3>3. QED BY <3>1, <3>2
  <2>2. QED BY <2>1 DEF Receives, AtMostOne
<1>28. Logins'
  <2>1. ASSUME NEW r \in Sessions
        PROVE  /\ AtMostOne(IosOf(r, {"IO_CONNECT"})', LoginWorkers(r)')
               /\ IosOf(r, {"IO_CONNECT"})' # {} \/ LoginWorkers(r)' # {} => mSendBuffer'[r] = 0
    <3>1. CASE r = s
      <4>1. IosOf(s, {"IO_CONNECT"})' \subseteq {c} /\ LoginWorkers(s)' = {}
        BY <1>11, <1>15, <1>16
      <4>2. QED BY <1>2, <1>7, <3>1, <4>1 DEF AtMostOne
    <3>2. CASE r # s
      <4>1. /\ IosOf(r, {"IO_CONNECT"})' = IosOf(r, {"IO_CONNECT"})
            /\ LoginWorkers(r)' = LoginWorkers(r) /\ mSendBuffer'[r] = mSendBuffer[r]
        BY <1>7, <1>11, <1>13, <3>2
      <4>2. QED BY <4>1 DEF Inv, Logins
    <3>3. QED BY <3>1, <3>2
  <2>2. QED BY <2>1 DEF Logins, AtMostOne
<1>29. Sends'
  <2>1. \A r : \A v \in SendWorkers(r)' : ctx'[v] = ctx[v]
    BY <1>7
  <2>2. \A r : IosOf(r, {"IO_SEND"})' = IosOf(r, {"IO_SEND"})
    BY <1>13
  <2>3. QED BY <1>7, <1>10, <2>1, <2>2, KeepSends
<1>30. QED
  BY <1>7, <1>20, <1>22, <1>23, <1>25, <1>26, <1>27, <1>28, <1>29 DEF Inv

\* The main thread goes on, and starts and ends nothing.
LEMMA MainWalk ==
  ASSUME Inv, status = "running", NEW l \in MainLabels, Goto(Main, l), Stages',
         todo' \subseteq Sessions, target' \in Sessions, stops' \in 0..Cardinality(Workers),
         mConnected' \in [Sessions -> {0, 1}], status' \in {"running", "exited"},
         \A r \in Sessions : Waits(r)' <=> Waits(r),
         UNCHANGED <<mCurrentConnectCount, mCurrentReturnCount, mRefCount, sendVars, ctx,
                     sendList, ios, sock, issued, revived>>
  PROVE  Inv'
<1>1. /\ ctx' = ctx /\ sendList' = sendList /\ ios' = ios /\ sock' = sock
      /\ issued' = issued /\ revived' = revived /\ mRefCount' = mRefCount
      /\ mCurrentConnectCount' = mCurrentConnectCount
      /\ mCurrentReturnCount' = mCurrentReturnCount
      /\ mSendPendingCount' = mSendPendingCount /\ mSendBuffer' = mSendBuffer
  BY DEF sendVars
<1>2. /\ Control' /\ pc' \in [Workers \cup {Main} -> MainLabels \cup WorkerLabels]
      /\ \A s : /\ Handlers(s)' = Handlers(s) /\ Flushers(s)' = Flushers(s)
                /\ SendWorkers(s)' = SendWorkers(s) /\ LoginWorkers(s)' = LoginWorkers(s)
                /\ ReceiveWorkers(s)' = ReceiveWorkers(s)
  BY <1>1, MainSets
<1>3. \A r, types : IosOf(r, types)' = IosOf(r, types) /\ InFlight(r)' = InFlight(r)
  BY <1>1 DEF IosOf, InFlight
<1>4. Fields'
  BY <1>1, <1>2 DEF Inv, Fields
<1>5. Receives'
  BY <1>2, <1>3, KeepReceives
<1>6. Sends'
  <2>1. \A r : \A v \in SendWorkers(r)' : ctx'[v] = ctx[v]
    BY <1>1
  <2>2. QED BY <1>1, <1>2, <1>3, <2>1, KeepSends
<1>7. Logins'
  BY <1>1, <1>2, <1>3, KeepLogins
<1>8. Untouched'
  BY <1>1, <1>2, <1>3 DEF Inv, Untouched
<1>9. Returns' /\ RefCountIsReferences'
  BY <1>1, <1>2, <1>3, KeepReturns, KeepReferences
<1>10. QED
  BY <1>2, <1>4, <1>5, <1>6, <1>7, <1>8, <1>9 DEF Inv

\* Nobody waits unless ConnectSessions is running.
LEMMA NobodyWaits ==
  ASSUME pc[Main] # "connect" \/ todo = {}, pc'[Main] # "connect" \/ todo' = {}
  PROVE  \A r \in Sessions : Waits(r)' <=> Waits(r)
  BY DEF Waits

\* The main thread leaves the stages alone unless it calls DisconnectEx.
LEMMA MainKeepsStages ==
  ASSUME Inv, NEW l \in MainLabels \ {"disconnectCall"}, Goto(Main, l),
         UNCHANGED <<mConnected, ctx, sendList, ios, issued>>
  PROVE  Stages'
<1>1. mConnected' = mConnected /\ ctx' = ctx /\ sendList' = sendList /\ ios' = ios /\ issued' = issued
  OBVIOUS
<1>2. l \notin StageLabels
  BY DEF MainLabels, StageLabels
<1>3. \A s : StageThreads(s)' \subseteq StageThreads(s)
  BY <1>1, <1>2, MainSets
<1>4. \A s : IosOf(s, StageTypes)' = IosOf(s, StageTypes)
  BY <1>1 DEF IosOf
<1>5. QED BY <1>1, <1>3, <1>4, KeepStages

LEMMA MainLabel ==
  ASSUME Inv, NEW l, Goto(Main, l)
  PROVE  pc'[Main] = l
  BY DEF Inv, Fields, Goto

LEMMA GetCharStep ==
  ASSUME Inv, status = "running", GetChar
  PROVE  Inv'
<1>1. /\ pc[Main] = "connect" /\ todo = {} /\ Goto(Main, "disconnectSessions") /\ todo' = Sessions
      /\ UNCHANGED <<status, target, mCurrentConnectCount, mCurrentReturnCount, mConnected,
                     mRefCount, sendVars, ctx, sendList, portVars, sock, issued, revived>>
  BY DEF GetChar
<1>2. "disconnectSessions" \in MainLabels \ {"disconnectCall"} /\ pc'[Main] = "disconnectSessions"
  BY <1>1, MainLabel DEF MainLabels
<1>3. \A r \in Sessions : Waits(r)' <=> Waits(r)
  BY <1>1, <1>2, NobodyWaits
<1>4. Stages'
  BY <1>1, <1>2, MainKeepsStages DEF portVars
<1>5. /\ todo' \subseteq Sessions /\ target' \in Sessions /\ stops' \in 0..Cardinality(Workers)
      /\ mConnected' \in [Sessions -> {0, 1}] /\ status' \in {"running", "exited"}
  BY <1>1 DEF Inv, Fields, portVars
<1>6. UNCHANGED <<mCurrentConnectCount, mCurrentReturnCount, mRefCount, sendVars, ctx,
                  sendList, ios, sock, issued, revived>>
  BY <1>1 DEF portVars
<1>7. QED
  BY <1>1, <1>2, <1>3, <1>4, <1>5, <1>6, MainWalk

LEMMA DisconnectSessionStep ==
  ASSUME Inv, status = "running", NEW s \in Sessions, DisconnectSession(s)
  PROVE  Inv'
<1>1. /\ pc[Main] = "disconnectSessions" /\ s \in todo /\ todo' = todo \ {s} /\ target' = s
      /\ mConnected' = [mConnected EXCEPT ![s] = 0]
      /\ Goto(Main, IF IsConnected(s) THEN "disconnectCall" ELSE "disconnectSessions")
      /\ UNCHANGED <<status, mCurrentConnectCount, mCurrentReturnCount, mRefCount, sendVars,
                     ctx, sendList, portVars, sock, issued, revived>>
      /\ ios' = ios /\ stops' = stops /\ ctx' = ctx /\ sendList' = sendList /\ issued' = issued
  BY DEF DisconnectSession, portVars
<1>2. PICK l \in {"disconnectCall", "disconnectSessions"} :
        Goto(Main, l) /\ (l = "disconnectCall" => IsConnected(s))
  BY <1>1
<1>3. l \in MainLabels /\ pc'[Main] = l
  BY <1>2, MainLabel DEF MainLabels
<1>4. \A r \in Sessions : Waits(r)' <=> Waits(r)
  BY <1>1, <1>3, NobodyWaits
<1>5. /\ mConnected' \in [Sessions -> {0, 1}] /\ mConnected'[s] = 0
      /\ \A r \in Sessions \ {s} : mConnected'[r] = mConnected[r]
  BY <1>1 DEF Inv, Fields
<1>6. \A r : \A t \in StageThreads(r)' :
        \/ t \in StageThreads(r)
        \/ t = Main /\ l = "disconnectCall" /\ r = s
  <2>1. l \in StageLabels => l = "disconnectCall"
    BY <1>2 DEF StageLabels
  <2>2. QED BY <1>1, <1>2, <1>3, <2>1, MainSets
<1>7. Stages'
  <2>1. \A r \in Sessions \ {s} : StageThreads(r)' \subseteq StageThreads(r)
    BY <1>6
  <2>2. CASE l = "disconnectCall"
    <3>1. mConnected[s] = 1 /\ issued[s] /\ IosOf(s, StageTypes) = {} /\ StageThreads(s) = {}
      BY <1>2, <2>2, StagesOf DEF IsConnected
    <3>2. StageThreads(s)' \subseteq {Main}
      BY <1>6, <3>1
    <3>3. AtMostOne(IosOf(s, StageTypes), StageThreads(s)')
      BY <3>1, <3>2 DEF AtMostOne
    <3>4. QED BY <1>1, <1>5, <2>1, <3>1, <3>3, StagesOneByOne
  <2>3. CASE l # "disconnectCall"
    <3>1. \A r : StageThreads(r)' \subseteq StageThreads(r)
      BY <1>6, <2>3
    <3>2. \A r : IosOf(r, StageTypes)' = IosOf(r, StageTypes)
      BY <1>1 DEF IosOf
    <3>3. \A r \in Sessions : mConnected'[r] = 1 => mConnected[r] = 1
      BY <1>5
    <3>4. QED BY <1>1, <3>1, <3>2, <3>3, KeepStages
  <2>4. QED BY <2>2, <2>3
<1>8. /\ todo' \subseteq Sessions /\ target' \in Sessions /\ stops' \in 0..Cardinality(Workers)
      /\ status' \in {"running", "exited"}
  BY <1>1 DEF Inv, Fields
<1>9. UNCHANGED <<mCurrentConnectCount, mCurrentReturnCount, mRefCount, sendVars, ctx,
                  sendList, ios, sock, issued, revived>>
  BY <1>1
<1>10. QED
  BY <1>2, <1>3, <1>4, <1>5, <1>7, <1>8, <1>9, MainWalk

LEMMA StopIoThreadsStep ==
  ASSUME Inv, status = "running", StopIoThreads
  PROVE  Inv'
<1>1. /\ pc[Main] = "disconnectSessions" /\ Goto(Main, "wait")
      /\ UNCHANGED <<status, mainVars, mCurrentConnectCount, mCurrentReturnCount, mConnected,
                     mRefCount, sendVars, ctx, sendList, ios, sock, issued, revived>>
      /\ todo' = todo /\ target' = target
  BY DEF StopIoThreads, mainVars
<1>2. "wait" \in MainLabels \ {"disconnectCall"} /\ pc'[Main] = "wait"
  BY <1>1, MainLabel DEF MainLabels
<1>3. \A r \in Sessions : Waits(r)' <=> Waits(r)
  BY <1>1, <1>2, NobodyWaits
<1>4. Stages'
  BY <1>1, <1>2, MainKeepsStages
<1>5. stops' \in 0..Cardinality(Workers)
  <2>1. Cardinality(Workers) \in Nat
    BY ThreadsAssumption, FS_CardinalityType
  <2>2. stops' = Cardinality(Workers) \/ stops' \in 0..(Cardinality(Workers) - 1)
    BY DEF StopIoThreads, StopMessages
  <2>3. QED BY <2>1, <2>2
<1>6. /\ todo' \subseteq Sessions /\ target' \in Sessions
      /\ mConnected' \in [Sessions -> {0, 1}] /\ status' \in {"running", "exited"}
  BY <1>1 DEF Inv, Fields
<1>7. UNCHANGED <<mCurrentConnectCount, mCurrentReturnCount, mRefCount, sendVars, ctx,
                  sendList, ios, sock, issued, revived>>
  BY <1>1
<1>8. QED
  BY <1>1, <1>2, <1>3, <1>4, <1>5, <1>6, <1>7, MainWalk

LEMMA ExitStep ==
  ASSUME Inv, status = "running", Exit
  PROVE  Inv'
<1>1. /\ pc[Main] = "wait" /\ Goto(Main, "ended") /\ status' = "exited"
      /\ UNCHANGED <<mainVars, mCurrentConnectCount, mCurrentReturnCount, mConnected,
                     mRefCount, sendVars, ctx, sendList, portVars, sock, issued, revived>>
      /\ todo' = todo /\ target' = target
  BY DEF Exit, mainVars
<1>2. "ended" \in MainLabels \ {"disconnectCall"} /\ pc'[Main] = "ended"
  BY <1>1, MainLabel DEF MainLabels
<1>3. \A r \in Sessions : Waits(r)' <=> Waits(r)
  BY <1>1, <1>2, NobodyWaits
<1>4. Stages'
  BY <1>1, <1>2, MainKeepsStages DEF portVars
<1>5. /\ todo' \subseteq Sessions /\ target' \in Sessions /\ stops' \in 0..Cardinality(Workers)
      /\ mConnected' \in [Sessions -> {0, 1}] /\ status' \in {"running", "exited"}
  BY <1>1 DEF Inv, Fields, portVars
<1>6. UNCHANGED <<mCurrentConnectCount, mCurrentReturnCount, mRefCount, sendVars, ctx,
                  sendList, ios, sock, issued, revived>>
  BY <1>1 DEF portVars
<1>7. QED
  BY <1>1, <1>2, <1>3, <1>4, <1>5, <1>6, MainWalk

LEMMA MainDisconnectCallStep ==
  ASSUME Inv, status = "running", DisconnectCall(Main)
  PROVE  Inv'
<1>1. /\ pc[Main] = "disconnectCall" /\ Goto(Main, "disconnectSessions")
      /\ UNCHANGED <<status, mainVars, mCurrentConnectCount, mCurrentReturnCount, mConnected,
                     sendVars, ctx, sendList, stops, issued, revived>>
      /\ todo' = todo /\ target' = target /\ ctx' = ctx /\ sendList' = sendList
      /\ stops' = stops
  BY DEF DisconnectCall, AfterDisconnect, mainVars
<1>2. PICK s \in Sessions : s = target /\ Remote(Main) = s
  BY DEF Inv, Fields, Remote
<1>3. "disconnectSessions" \in MainLabels \ {"disconnectCall"} /\ pc'[Main] = "disconnectSessions"
  BY <1>1, MainLabel DEF MainLabels
<1>4. \A r \in Sessions : Waits(r)' <=> Waits(r)
  BY <1>1, <1>3, NobodyWaits
<1>5. CASE Post("IO_DISCONNECT", s, 0) /\ sock' = [sock EXCEPT ![s] = "down"]
  <2>1. Main \in StageThreads(s)
    BY <1>1, <1>2 DEF StageThreads, StageLabels
  <2>2. "disconnectSessions" \notin StageLabels
    BY DEF StageLabels
  <2>3. \A r : StageThreads(r)' \subseteq StageThreads(r) \ {Main}
    BY <1>1, <1>3, <2>2, MainSets
  <2>4. /\ Control' /\ pc' \in [Workers \cup {Main} -> MainLabels \cup WorkerLabels]
        /\ \A r : /\ Handlers(r)' = Handlers(r) /\ Flushers(r)' = Flushers(r)
                  /\ SendWorkers(r)' = SendWorkers(r) /\ LoginWorkers(r)' = LoginWorkers(r)
                  /\ ReceiveWorkers(r)' = ReceiveWorkers(r)
    BY <1>1, <1>3, MainSets
  <2>5. QED
    BY <1>1, <1>4, <1>5, <2>1, <2>3, <2>4, DisconnectPosted
<1>6. CASE Refused /\ sock' = sock
  <2>1. ios' = ios /\ mRefCount' = mRefCount
    BY <1>6 DEF Refused
  <2>2. Stages'
    BY <1>1, <1>3, <2>1, MainKeepsStages
  <2>3. /\ todo' \subseteq Sessions /\ target' \in Sessions /\ stops' \in 0..Cardinality(Workers)
        /\ mConnected' \in [Sessions -> {0, 1}] /\ status' \in {"running", "exited"}
    BY <1>1 DEF Inv, Fields
  <2>4. UNCHANGED <<mCurrentConnectCount, mCurrentReturnCount, mRefCount, sendVars, ctx,
                    sendList, ios, sock, issued, revived>>
    BY <1>1, <1>6, <2>1
  <2>5. QED
    BY <1>1, <1>3, <1>4, <2>2, <2>3, <2>4, MainWalk
<1>7. QED
  BY <1>2, <1>5, <1>6 DEF DisconnectCall

-----------------------------------------------------------------------------
(* The invariant is inductive.                                               *)

LEMMA InitOK ==
  ASSUME Init
  PROVE  Inv
<1>1. \A w \in Workers : pc[w] = "gqcs" /\ ctx[w] = NoContext
  BY ThreadsAssumption DEF Init
<1>2. pc[Main] = "connect"
  BY DEF Init
<1>3. Control
  BY <1>1, <1>2 DEF Control, WorkerLabels, MainLabels, Holding
<1>4. IsFiniteSet(ios) /\ Cardinality(Workers) \in Nat
  BY FS_EmptySet, FS_CardinalityType, ThreadsAssumption DEF Init
<1>5. Fields
  <2>1. pc \in [Workers \cup {Main} -> MainLabels \cup WorkerLabels]
    BY DEF Init, MainLabels, WorkerLabels
  <2>2. ctx \in [Workers -> Contexts \cup {NoContext}]
    BY DEF Init
  <2>3. sendList \in [Workers -> Seq(Sessions)]
    BY DEF Init
  <2>4. stops \in 0..Cardinality(Workers)
    BY <1>4 DEF Init
  <2>5. /\ mConnected \in [Sessions -> {0, 1}] /\ mRefCount \in [Sessions -> Int]
        /\ sock \in [Sessions -> {"idle", "established", "refused", "down"}]
        /\ issued \in [Sessions -> BOOLEAN]
    BY DEF Init
  <2>6. /\ status \in {"running", "crashed", "aborted", "exited"} /\ todo \subseteq Sessions
        /\ target \in Sessions /\ mCurrentConnectCount \in Nat /\ mCurrentReturnCount \in Nat
        /\ ios \subseteq Contexts /\ revived \in BOOLEAN
    BY DEF Init
  <2>7. QED BY <1>4, <2>1, <2>2, <2>3, <2>4, <2>5, <2>6 DEF Fields
<1>6. \A s : /\ Handlers(s) = {} /\ Flushers(s) = {} /\ SendWorkers(s) = {}
             /\ InFlight(s) = {} /\ \A types : IosOf(s, types) = {}
  BY <1>1 DEF Init, Handlers, Flushers, SendWorkers, InFlight, IosOf
<1>7. \A s : ReceiveWorkers(s) = {} /\ LoginWorkers(s) = {}
  BY <1>6 DEF ReceiveWorkers, LoginWorkers
<1>8. \A s : StageThreads(s) = {}
  BY <1>1, <1>2 DEF StageThreads, StageLabels
<1>9. Stages /\ Receives /\ Logins
  BY <1>6, <1>7, <1>8 DEF Init, Stages, Receives, Logins, AtMostOne
<1>10. Sends
  BY <1>6, FaultsAssumption DEF Init, Sends, AtMostOne
<1>11. Untouched
  BY <1>6 DEF Init, Untouched
<1>12. Returns
  <2>1. Returned = {}
    BY <1>2 DEF Init, Returned, Waits
  <2>2. Cardinality(Returned) = 0
    BY <2>1, FS_EmptySet
  <2>3. QED BY <2>2 DEF Init, Returns
<1>13. RefCountIsReferences
  <2>1. Cardinality({}) = 0
    BY FS_EmptySet
  <2>2. \A s \in Sessions : References(s) = 0
    <3> SUFFICES ASSUME NEW s \in Sessions
                 PROVE  References(s) = 0
      OBVIOUS
    <3>1. ~issued[s] /\ InFlight(s) = {} /\ Handlers(s) = {} /\ Flushers(s) = {}
      BY <1>6 DEF Init
    <3>2. References(s) = 0 + 0 + 0 + 0
      BY <2>1, <3>1 DEF References
    <3>3. QED BY <3>2
  <2>3. QED BY <2>2 DEF Init, RefCountIsReferences
<1>14. status # "crashed"
  BY DEF Init
<1>15. QED
  BY <1>3, <1>5, <1>9, <1>10, <1>11, <1>12, <1>13, <1>14 DEF Inv

LEMMA StepOK ==
  ASSUME Inv, status = "running", NEW w \in Workers, Step(w)
  PROVE  Inv'
<1>1. CASE ConnectCompletion(w)     BY <1>1, ConnectCompletionStep
<1>2. CASE PreRecv(w)               BY <1>2, PreRecvStep
<1>3. CASE PreRecvCall(w)           BY <1>3, PreRecvCallStep
<1>4. CASE Unconnect(w)             BY <1>4, UnconnectStep
<1>5. CASE Established(w)           BY <1>5, EstablishedStep
<1>6. CASE SendRequest(w)           BY <1>6, SendRequestStep
<1>7. CASE PostRecv(w)              BY <1>7, PostRecvStep
<1>8. CASE PostRecvCall(w)          BY <1>8, PostRecvCallStep
<1>9. CASE RecvCompletion(w)        BY <1>9, RecvCompletionStep
<1>10. CASE SendCompletion(w)       BY <1>10, SendCompletionStep
<1>11. CASE DisconnectCompletion(w) BY <1>11, DisconnectCompletionStep
<1>12. CASE DisconnectRequest(w)    BY <1>12, DisconnectRequestStep
<1>13. CASE DisconnectCall(w)       BY <1>13, DisconnectCallStep
<1>14. CASE DeleteIoContext(w)      BY <1>14, DeleteIoContextStep
<1>15. CASE SendJob(w)              BY <1>15, SendJobStep
<1>16. CASE FlushNothing(w)         BY <1>16, FlushNothingStep
<1>17. CASE FlushSend(w)            BY <1>17, FlushSendStep
<1>18. CASE FlushRelease(w)         BY <1>18, FlushReleaseStep
<1>19. CASE Flushed(w)              BY <1>19, FlushedStep
<1>20. QED
  BY <1>1, <1>2, <1>3, <1>4, <1>5, <1>6, <1>7, <1>8, <1>9, <1>10, <1>11, <1>12, <1>13,
     <1>14, <1>15, <1>16, <1>17, <1>18, <1>19 DEF Step

LEMMA NextOK ==
  ASSUME Inv, Next
  PROVE  Inv'
<1>0. status = "running"
  BY DEF Next
<1>1. ASSUME NEW s \in Sessions, ConnectRequest(s)
      PROVE  Inv'
  BY <1>0, <1>1, ConnectRequestStep
<1>2. ASSUME NEW s \in Sessions, DisconnectSession(s)
      PROVE  Inv'
  BY <1>0, <1>2, DisconnectSessionStep
<1>3. CASE StopIoThreads
  BY <1>0, <1>3, StopIoThreadsStep
<1>4. CASE DisconnectCall(Main)
  BY <1>0, <1>4, MainDisconnectCallStep
<1>5. CASE Exit
  BY <1>0, <1>5, ExitStep
<1>6. CASE GetChar
  BY <1>0, <1>6, GetCharStep
<1>7. ASSUME NEW w \in Workers, Step(w)
      PROVE  Inv'
  BY <1>0, <1>7, StepOK
<1>8. ASSUME NEW w \in Workers, StopNow(w)
      PROVE  Inv'
  BY <1>0, <1>8, StopNowStep
<1>9. ASSUME NEW w \in Workers, NEW c \in ios, Dequeue(w, c)
      PROVE  Inv'
  BY <1>0, <1>9, DequeueStep
<1>10. QED
  BY <1>1, <1>2, <1>3, <1>4, <1>5, <1>6, <1>7, <1>8, <1>9 DEF Next, MainStep

LEMMA StutterOK ==
  ASSUME Inv, UNCHANGED vars
  PROVE  Inv'
<1>1. /\ UNCHANGED <<status, todo, target, mCurrentConnectCount, mCurrentReturnCount>>
      /\ UNCHANGED <<mConnected, mRefCount, mSendPendingCount, mSendBuffer, pc, ctx, sendList>>
      /\ UNCHANGED <<ios, stops, sock, issued, revived>>
  BY DEF vars, mainVars, sendVars, portVars
<1>2. \A t : Remote(t)' = Remote(t)
  BY <1>1 DEF Remote
<1>3. \A s : /\ Handlers(s)' = Handlers(s) /\ Flushers(s)' = Flushers(s)
             /\ StageThreads(s)' = StageThreads(s) /\ SendWorkers(s)' = SendWorkers(s)
  BY <1>1, <1>2 DEF Handlers, Flushers, StageThreads, SendWorkers
<1>4. \A s : ReceiveWorkers(s)' = ReceiveWorkers(s) /\ LoginWorkers(s)' = LoginWorkers(s)
  BY <1>1, <1>3 DEF ReceiveWorkers, LoginWorkers
<1>5. \A s, types : IosOf(s, types)' = IosOf(s, types) /\ InFlight(s)' = InFlight(s)
  BY <1>1 DEF IosOf, InFlight
<1>6. \A s : Waits(s)' <=> Waits(s)
  BY <1>1 DEF Waits
<1>7. Control' /\ Fields'
  BY <1>1 DEF Inv, Control, Fields
<1>8. Stages' /\ Receives' /\ Logins'
  BY <1>1, <1>3, <1>4, <1>5, KeepStages, KeepReceives, KeepLogins
<1>9. Sends'
  <2>1. \A s : \A w \in SendWorkers(s)' : ctx'[w] = ctx[w]
    BY <1>1
  <2>2. QED BY <1>1, <1>3, <1>5, <2>1, KeepSends
<1>10. Untouched'
  BY <1>1, <1>3, <1>5, <1>6 DEF Inv, Untouched
<1>11. Returns' /\ RefCountIsReferences'
  BY <1>1, <1>3, <1>5, <1>6, KeepReturns, KeepReferences
<1>12. QED
  BY <1>1, <1>7, <1>8, <1>9, <1>10, <1>11 DEF Inv

LEMMA Invariance == Spec => []Inv
<1>1. Init => Inv
  BY InitOK
<1>2. Inv /\ [Next]_vars => Inv'
  BY NextOK, StutterOK
<1>3. QED BY <1>1, <1>2, PTL DEF Spec

-----------------------------------------------------------------------------
(* The theorems.                                                             *)

\* Every variable has its type; in particular a session has at most one send
\* pending and never more than one login in its send buffer, so that no send
\* completion takes out of it what is not there.
THEOREM TypesAndSizes == Spec => []TypeOK
<1>1. Inv => TypeOK
  <2>1. Inv => Fields /\ Sends
    BY DEF Inv
  <2>2. 0..1 = {0, 1}
    OBVIOUS
  <2>3. QED BY <2>1, <2>2 DEF Fields, Sends, TypeOK
<1>2. QED BY <1>1, Invariance, PTL

\* The reference count of a session is the number of its references, for any number
\* of sessions and workers and whatever calls fail (Session.cpp:215-234).
THEOREM CountsReferences == Spec => []RefCountIsReferences
<1>1. Inv => RefCountIsReferences
  BY DEF Inv
<1>2. QED BY <1>1, Invariance, PTL

\* Unless a FlushSend revives one, OnRelease is called once for each session, when
\* its last reference is gone.
THEOREM ReturnsOnce == Spec => []ReturnsAreCounted
<1>1. ASSUME Inv
      PROVE  ReturnsAreCounted
  <2>1. \A s \in Sessions : mRefCount[s] = References(s)
    BY <1>1 DEF Inv, RefCountIsReferences
  <2>2. Returned =
          {s \in Sessions : References(s) = 0 /\ ~(pc[Main] = "connect" /\ s \in todo)}
    BY <2>1 DEF Returned, Waits
  <2>3. QED BY <1>1, <2>2 DEF Inv, Returns, ReturnsAreCounted
<1>2. QED BY <1>1, Invariance, PTL

\* A session is not connected twice, and its count never becomes negative.
THEOREM AssertionsHold == Spec => []NeverCrashes
<1>1. Inv => NeverCrashes
  BY DEF Inv, NeverCrashes
<1>2. QED BY <1>1, Invariance, PTL

\* A session's receive buffer, which has no lock, is used by one operation or
\* handler at a time.
THEOREM OneReceiverAtATime == Spec => []OneReceiver
<1>1. ASSUME Inv, NEW s \in Sessions
      PROVE  Cardinality(IosOf(s, Receiving)) + Cardinality(ReceiveWorkers(s)) <= 1
  <2>1. AtMostOne(IosOf(s, Receiving), ReceiveWorkers(s))
    BY <1>1 DEF Inv, Receives
  <2>2. ASSUME NEW A, \A x, y \in A : x = y
        PROVE  Cardinality(A) = 0 \/ Cardinality(A) = 1
    <3>1. CASE A = {}
      BY <3>1, FS_EmptySet
    <3>2. CASE A # {}
      <4>1. PICK x \in A : TRUE
        BY <3>2
      <4>2. A = {x}
        BY <2>2
      <4>3. QED BY <4>2, FS_Singleton
    <3>3. QED BY <3>1, <3>2
  <2>3. /\ Cardinality(IosOf(s, Receiving)) = 0 \/ Cardinality(IosOf(s, Receiving)) = 1
        /\ Cardinality(ReceiveWorkers(s)) = 0 \/ Cardinality(ReceiveWorkers(s)) = 1
    BY <2>1, <2>2 DEF AtMostOne
  <2>4. Cardinality(IosOf(s, Receiving)) = 0 \/ Cardinality(ReceiveWorkers(s)) = 0
    BY <2>1, FS_EmptySet DEF AtMostOne
  <2>5. QED BY <2>3, <2>4
<1>2. Inv => OneReceiver
  <2> SUFFICES ASSUME Inv, NEW s \in Sessions
               PROVE  Cardinality({c \in InFlight(s) : c.type \in Receiving})
                        + Cardinality({w \in Handlers(s) :
                            /\ ctx[w].type \in Receiving
                            /\ pc[w] \notin {"established", "sendRequest", "drop"}}) <= 1
    BY DEF OneReceiver
  <2>1. {c \in InFlight(s) : c.type \in Receiving} = IosOf(s, Receiving)
    BY DEF InFlight, IosOf
  <2>2. {w \in Handlers(s) : /\ ctx[w].type \in Receiving
                             /\ pc[w] \notin {"established", "sendRequest", "drop"}}
          = ReceiveWorkers(s)
    BY DEF ReceiveWorkers
  <2>3. QED BY <1>1, <2>1, <2>2
<1>3. QED BY <1>2, Invariance, PTL
=============================================================================
