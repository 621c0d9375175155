---------------------------- MODULE SessionPool -----------------------------
(***************************************************************************)
(* What the session layer promises: every session goes round               *)
(*     free -> accepting -> connected -> closing -> free                   *)
(* and one that is free is in nobody's hands.  IocpServer implements it.   *)
(***************************************************************************)
EXTENDS FiniteSets

CONSTANT Sessions

VARIABLES
  life,     \* where each session is on its way
  busy,     \* the sessions that an operation in flight or a thread refers to
  open      \* the server is running

poolSpecVars == <<life, busy, open>>

PoolInit ==
  /\ life = [s \in Sessions |-> "free"]
  /\ busy = {}
  /\ open = TRUE

\* A free session is offered to the next client.
Offer(s) ==
  /\ life[s] = "free"
  /\ life' = [life EXCEPT ![s] = "accepting"]
  /\ busy' = busy \cup {s}
  /\ UNCHANGED open

\* Offering it fails, which ends the server.
FailOffer(s) ==
  /\ life[s] = "free"
  /\ life' = [life EXCEPT ![s] = "closing"]
  /\ busy' = busy \cup {s}
  /\ open' = FALSE

\* A client has come.
Connect(s) ==
  /\ life[s] = "accepting"
  /\ life' = [life EXCEPT ![s] = "connected"]
  /\ UNCHANGED <<busy, open>>

\* The connection is given up, by whichever party.
Close(s) ==
  /\ life[s] = "connected"
  /\ life' = [life EXCEPT ![s] = "closing"]
  /\ UNCHANGED <<busy, open>>

\* The last reference to a closing session goes.
LetGo(s) ==
  /\ life[s] = "closing"
  /\ busy' = busy \ {s}
  /\ UNCHANGED <<life, open>>

\* Only then it is free again.
Recycle(s) ==
  /\ life[s] = "closing"
  /\ s \notin busy
  /\ life' = [life EXCEPT ![s] = "free"]
  /\ UNCHANGED <<busy, open>>

PoolNext ==
  /\ open
  /\ \E s \in Sessions :
       Offer(s) \/ FailOffer(s) \/ Connect(s) \/ Close(s) \/ LetGo(s) \/ Recycle(s)

PoolSpec == PoolInit /\ [][PoolNext]_poolSpecVars
=============================================================================
