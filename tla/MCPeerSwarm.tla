----------------------------- MODULE MCPeerSwarm -----------------------------
(***************************************************************************)
(* The swarm, and requests that wait for a body that another is landing,   *)
(* checked in one run: each behaviour is of one of the two, while the      *)
(* other stays as it begins.                                               *)
(***************************************************************************)
EXTENDS PeerSwarm

CONSTANTS p1, p2, f1, f2, k1, r1, r2, w1, u1, s1, b1, none, elsewhere

VARIABLES known, open, now, failedAt, cached, offered, cleared, clearing, kept, emptied,
          write, refreshing, task, at, loc

VARIABLE part

\* One address with one answer, for what is about waiting and about HTTP/3.
Plain == [method |-> "GET", want |-> none, mode |-> "follow", creds |-> TRUE]
Whole == [body |-> b1, to |-> none, same |-> FALSE]

Net == INSTANCE NetFetch WITH
  Requests <- {r1, r2}, Writes <- {w1}, Urls <- {u1}, Sites <- {s1}, Bodies <- {b1},
  Site <- [u \in {u1} |-> s1], Asks <- [u \in {u1} |-> {Plain}],
  Answers <- [u \in {u1} |-> {Whole}], None <- none, Elsewhere <- elsewhere,
  Speaks <- {s1}, PublicOnly <- FALSE, Quic <- TRUE,
  MaxRedirects <- 1, MaxClears <- 1, Lifetime <- 1, Cooldown <- 1, MaxTime <- 1

net == <<known, open, now, failedAt, cached, offered, cleared, clearing, kept, emptied,
         write, refreshing, task, at, loc>>

-----------------------------------------------------------------------------
\* A step of the swarm; a step of two requests whose origin says nothing of HTTP/3, or of
\* one over QUIC too, as time passes.
Swarming(action) == part = "swarm" /\ action /\ UNCHANGED <<part, net>>
Fetching(action) ==
  /\ part # "swarm" /\ action /\ UNCHANGED <<part, vars>>
  /\ \/ part = "two" /\ UNCHANGED <<known, open, now, failedAt>>
     \/ part = "quic" /\ at'[r2] = "idle"

Start == part \in {"swarm", "two", "quic"} /\ Init /\ Net!Init

Step == Swarming(Next) \/ Fetching(Net!Next)

both == <<part, vars, net>>

\* The fairness of each (PeerSwarm, FairSpec; NetFetch, FairSpec).
FairBoth ==
  /\ Start /\ [][Step]_both
  /\ WF_both(Swarming(Expire)) /\ \A f \in Fetches : WF_both(Swarming(Late(f)))
  /\ \A r \in {r1, r2} : WF_both(Fetching(Net!Settled(r)))
  /\ WF_both(Fetching(Net!WriteAdmits(w1) \/ Net!WriteStores(w1)))
  /\ WF_both(Fetching(Net!ClearEnds))

-----------------------------------------------------------------------------
\* A request that waits for the body another is landing goes on (fetch.rs:236).
SettlesEventually == Net!SettlesEventually
=============================================================================
