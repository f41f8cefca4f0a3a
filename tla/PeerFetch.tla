------------------------------ MODULE PeerFetch ------------------------------
(***************************************************************************)
(* What PeerHandle::fetch promises its callers: each call is answered      *)
(* once, with bytes that were checked against the hash that was asked for, *)
(* or with the news that no peer had them or that time ran out; an answer  *)
(* is final, and there is one.  crates/syndeo-peer/src/swarm.rs.           *)
(***************************************************************************)
CONSTANT Fetches

VARIABLE answer

Answers == {"right", "notfound", "timeout"}

Init == answer = [f \in Fetches |-> "uncalled"]

Call(f) == answer[f] = "uncalled" /\ answer' = [answer EXCEPT ![f] = "waiting"]

Reply(f) ==
  /\ answer[f] = "waiting"
  /\ \E a \in Answers : answer' = [answer EXCEPT ![f] = a]

\* A sweep answers every fetch that is out of time in one go.
TimeOut(S) ==
  /\ \A f \in S : answer[f] = "waiting"
  /\ answer' = [f \in Fetches |-> IF f \in S THEN "timeout" ELSE answer[f]]

\* A call that finds nobody to ask is answered before it ever waits.
CallInVain(f) == answer[f] = "uncalled" /\ answer' = [answer EXCEPT ![f] = "notfound"]

Next ==
  \/ \E f \in Fetches : Call(f) \/ Reply(f) \/ CallInVain(f)
  \/ \E S \in SUBSET Fetches : TimeOut(S)

Waiting == {f \in Fetches : answer[f] = "waiting"}

Spec == Init /\ [][Next]_answer

\* Nobody is left waiting.
FairSpec ==
  Spec /\ \A f \in Fetches : WF_answer(Reply(f) \/ \E S \in SUBSET Fetches : f \in S /\ TimeOut(S))
=============================================================================
