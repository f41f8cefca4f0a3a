------------------------------ MODULE PeerSwarm ------------------------------
(***************************************************************************)
(* The swarm's event loop: fetches that ask the connected peers, then the  *)
(* DHT, the requests in flight for them, what each peer has taken and      *)
(* given, and what is announced.  crates/syndeo-peer/src/swarm.rs, over    *)
(* protocol.rs.  libp2p is external: an outbound request is answered or    *)
(* fails once, a query reports providers and then ends, and connections    *)
(* come and go.                                                            *)
(***************************************************************************)
EXTENDS Integers, FiniteSets

CONSTANTS
  Peers,
  Fetches,        \* fetch ids, each used once
  Keys,           \* record keys
  Discovery,      \* PeerConfig::discovery
  Serve,          \* PeerConfig::serve
  Announces,      \* PeerConfig::announce
  OpeningCredit,  \* OPENING_CREDIT
  MaxLinks,       \* bound on connections to one peer
  MaxServed       \* bound on bodies given to one peer

ASSUME SwarmAssumption ==
  /\ OpeningCredit \in Nat /\ MaxLinks \in Nat /\ MaxServed \in Nat
  /\ Discovery \in BOOLEAN /\ Serve \in BOOLEAN /\ Announces \in BOOLEAN
  /\ IsFiniteSet(Peers)

VARIABLES
  running,     \* the loop runs
  links,       \* connections to each peer, as libp2p counts them
  connected,   \* State::connected
  ledgers,     \* State::ledgers
  announced,   \* State::announced
  pending,     \* State::pending: the requests in flight, by fetch and peer
  queries,     \* State::provider_queries: the fetches that have a query running
  fetches,     \* State::fetches: outstanding, asked and query of the open ones
  answer,      \* what each caller was told
  overdue      \* the fetches past their deadline

network == <<links, connected>>
books == <<ledgers, announced>>
search == <<pending, queries, fetches>>
vars == <<running, network, books, search, answer, overdue>>

Ledger == [served : Nat, received : Nat, debt : Nat]

NewFetch == [outstanding |-> 0, asked |-> {}, query |-> FALSE]

Open == {f \in Fetches : answer[f] = "waiting"}

Init ==
  /\ running = TRUE
  /\ links = [p \in Peers |-> 0] /\ connected = {}
  /\ ledgers = [p \in Peers |-> [served |-> 0, received |-> 0, debt |-> 0]]
  /\ announced = {}
  /\ pending = {} /\ queries = {} /\ fetches = [f \in Fetches |-> NewFetch]
  /\ answer = [f \in Fetches |-> "uncalled"]
  /\ overdue = {}

-----------------------------------------------------------------------------
\* Pending::finish: the entry is gone, and its caller told.
Finish(f, outcome) ==
  /\ answer' = [answer EXCEPT ![f] = outcome]
  /\ fetches' = [fetches EXCEPT ![f] = NewFetch]

\* Requests are sent to these peers, none of which was asked before.
Ask(entry, S) ==
  [entry EXCEPT !.asked = @ \cup S, !.outstanding = @ + Cardinality(S)]

\* start_provider_query: it starts one unless the entry has one.
CanQuery(entry) == Discovery /\ ~entry.query

\* Mutant: answers that are no help are left at that.
ExhaustedWaits(f, entry) ==
  /\ answer' = [answer EXCEPT ![f] = "waiting"]
  /\ fetches' = [fetches EXCEPT ![f] = entry]
  /\ UNCHANGED queries

\* exhausted: while nobody is left to be waited for, the search is widened, or given up.
Exhausted(f, entry) ==
  \/ /\ entry.outstanding > 0 \/ CanQuery(entry)
     /\ answer' = [answer EXCEPT ![f] = "waiting"]
     /\ \/ /\ entry.outstanding > 0
           /\ fetches' = [fetches EXCEPT ![f] = entry]
           /\ UNCHANGED queries
        \/ /\ entry.outstanding = 0
           /\ fetches' = [fetches EXCEPT ![f] = [entry EXCEPT !.query = TRUE]]
           /\ queries' = queries \cup {f}
  \/ /\ entry.outstanding = 0 /\ ~CanQuery(entry)
     /\ Finish(f, "notfound") /\ UNCHANGED queries

\* Command::Fetch: every connected peer is asked at once; the DHT if there is none, and
\* nobody if there is no DHT either.
Fetch(f) ==
  /\ running /\ answer[f] = "uncalled"
  /\ pending' = pending \cup ({f} \X connected)
  /\ Exhausted(f, Ask(NewFetch, connected))
  /\ UNCHANGED <<running, network, books, overdue>>

\* saturating_sub(1)
Less(n) == IF n = 0 THEN 0 ELSE n - 1

Credited(ledger) == [ledger EXCEPT !.received = @ + 1, !.debt = Less(@)]

\* BlobResponse: bytes that hash to the request, bytes that do not, more than MAX_BODY of
\* them, or none (Missing and Throttled).
Replies == {"right", "wrong", "large", "none"}

\* BlobRequest::is_satisfied_by, and the limit.
Accepts(reply) == reply = "right"

\* Message::Response: bytes that are what was asked for answer the fetch; anything else
\* counts as nothing.  An answer to a fetch that is over is dropped.
Response(f, p) ==
  LET entry == [fetches[f] EXCEPT !.outstanding = Less(@)]
  IN /\ running /\ <<f, p>> \in pending
     /\ pending' = pending \ {<<f, p>>}
     /\ \/ f \notin Open /\ UNCHANGED <<ledgers, fetches, queries, answer>>
        \/ /\ f \in Open
           /\ \E reply \in Replies :
                IF Accepts(reply)
                THEN /\ ledgers[p].received < MaxServed
                     /\ ledgers' = [ledgers EXCEPT ![p] = Credited(@)]
                     /\ Finish(f, reply) /\ UNCHANGED queries
                ELSE Exhausted(f, entry) /\ UNCHANGED ledgers
     /\ UNCHANGED <<running, network, announced, overdue>>

\* Event::OutboundFailure.
OutboundFailure(f, p) ==
  LET entry == [fetches[f] EXCEPT !.outstanding = Less(@)]
  IN /\ running /\ <<f, p>> \in pending
     /\ pending' = pending \ {<<f, p>>}
     /\ \/ f \notin Open /\ UNCHANGED <<fetches, queries, answer>>
        \/ f \in Open /\ Exhausted(f, entry)
     /\ UNCHANGED <<running, network, books, overdue>>

-----------------------------------------------------------------------------
\* handle_kademlia_event: some providers, of whom the new ones are asked.
ToAsk(f, found) == found \ fetches[f].asked

FoundProviders(f) ==
  /\ running /\ f \in queries
  /\ \E found \in SUBSET Peers :
       LET S == ToAsk(f, found)
       IN /\ S # {} /\ f \in Open
          /\ pending' = pending \cup ({f} \X S)
          /\ fetches' = [fetches EXCEPT ![f] = Ask(@, S)]
  /\ UNCHANGED <<running, network, books, queries, answer, overdue>>

\* The query is over.
QueryEnds(f) ==
  /\ running /\ f \in queries
  /\ queries' = queries \ {f}
  /\ \/ f \notin Open /\ UNCHANGED <<fetches, answer>>
     \/ /\ f \in Open /\ fetches[f].outstanding > 0
        /\ fetches' = [fetches EXCEPT ![f].query = FALSE] /\ UNCHANGED answer
     \/ f \in Open /\ fetches[f].outstanding = 0 /\ Finish(f, "notfound")
  /\ UNCHANGED <<running, network, books, pending, overdue>>

\* The deadline of a fetch passes; the sweep fails the ones it finds past theirs.
Late(f) ==
  /\ f \in Open \ overdue
  /\ overdue' = overdue \cup {f}
  /\ UNCHANGED <<running, network, books, search, answer>>

\* Mutant: only fetches that wait for nobody are swept.
ExpireIdle ==
  LET over == {f \in overdue \cap Open : fetches[f].outstanding = 0}
  IN /\ running /\ over # {}
     /\ answer' = [f \in Fetches |-> IF f \in over THEN "timeout" ELSE answer[f]]
     /\ fetches' = [f \in Fetches |-> IF f \in over THEN NewFetch ELSE fetches[f]]
     /\ UNCHANGED <<running, network, books, pending, queries, overdue>>

Expire ==
  /\ running /\ overdue \cap Open # {}
  /\ answer' = [f \in Fetches |-> IF f \in overdue \cap Open THEN "timeout" ELSE answer[f]]
  /\ fetches' = [f \in Fetches |-> IF f \in overdue \cap Open THEN NewFetch ELSE fetches[f]]
  /\ UNCHANGED <<running, network, books, pending, queries, overdue>>

-----------------------------------------------------------------------------
\* Mutant: what a peer owes is not looked at.
InCreditAlways(ledger) == TRUE

\* Ledger::in_credit
InCredit(ledger) == ledger.debt < OpeningCredit

\* serve: what the cache has to share with peers, unless it is too large.
ServeOutcomes == {"have", "missing"}

\* A body goes to the peer, who owes it.
Given(ledger) == [ledger EXCEPT !.served = @ + 1, !.debt = @ + 1]

\* Message::Request: what a peer asks for is given if this node serves, the peer is in
\* credit, and the cache has it to share.
Request(p) ==
  /\ running /\ ledgers[p].served < MaxServed
  /\ \E outcome \in ServeOutcomes :
       ledgers' = IF Serve /\ InCredit(ledgers[p]) /\ outcome = "have"
                  THEN [ledgers EXCEPT ![p] = Given(@)]
                  ELSE ledgers
  /\ UNCHANGED <<running, network, announced, search, answer, overdue>>

\* Command::Announce: published once, unless the DHT will not have it.
Announce(k) ==
  /\ running /\ Announces /\ Serve /\ k \notin announced
  /\ announced' = announced \cup {k}
  /\ UNCHANGED <<running, network, ledgers, search, answer, overdue>>

\* SwarmEvent::ConnectionEstablished, and ConnectionClosed.
Established(p) ==
  /\ running /\ links[p] < MaxLinks
  /\ links' = [links EXCEPT ![p] = @ + 1]
  /\ connected' = connected \cup {p}
  /\ UNCHANGED <<running, books, search, answer, overdue>>

Closed(p) ==
  /\ running /\ links[p] > 0
  /\ links' = [links EXCEPT ![p] = @ - 1]
  /\ connected' = IF links'[p] = 0 THEN connected \ {p} ELSE connected
  /\ UNCHANGED <<running, books, search, answer, overdue>>

\* The last handle is dropped; whoever waits still holds one.
Stop ==
  /\ running /\ Open = {}
  /\ running' = FALSE
  /\ UNCHANGED <<network, books, search, answer, overdue>>

Next ==
  \/ \E f \in Fetches :
       \/ Fetch(f) \/ FoundProviders(f) \/ QueryEnds(f) \/ Late(f)
       \/ \E p \in Peers : Response(f, p) \/ OutboundFailure(f, p)
  \/ \E p \in Peers : Request(p) \/ Established(p) \/ Closed(p)
  \/ \E k \in Keys : Announce(k)
  \/ Expire \/ Stop

Spec == Init /\ [][Next]_vars

\* Time passes, and the loop's interval is polled; nothing is assumed of peers or the DHT.
FairSpec == Spec /\ WF_vars(Expire) /\ \A f \in Fetches : WF_vars(Late(f))

-----------------------------------------------------------------------------
TypeOK ==
  /\ running \in BOOLEAN
  /\ links \in [Peers -> 0 .. MaxLinks] /\ connected \subseteq Peers
  /\ ledgers \in [Peers -> Ledger] /\ announced \subseteq Keys
  /\ pending \subseteq Fetches \X Peers /\ queries \subseteq Fetches
  /\ fetches \in [Fetches -> [outstanding : Nat, asked : SUBSET Peers, query : BOOLEAN]]
  /\ answer \in [Fetches -> {"uncalled", "waiting", "notfound", "timeout"} \cup Replies]
  /\ overdue \subseteq Fetches

\* `outstanding` is the number of requests in flight for the fetch, however answers,
\* failures, providers and deadlines interleave: the saturating subtractions never hide
\* one that is missing.
InFlight(f) == {p \in Peers : <<f, p>> \in pending}

OutstandingExact == \A f \in Open : fetches[f].outstanding = Cardinality(InFlight(f))

\* A fetch that is open waits for something: a request in flight, or a query of the DHT
\* that will end.  None is left to its deadline because the last answer was no help.
WaitsForSomething == \A f \in Open : InFlight(f) # {} \/ f \in queries

\* No peer is given more than the opening credit beyond what it gave (lib.rs, Ledger).
TakesWithinCredit == \A p \in Peers : ledgers[p].served <= OpeningCredit + ledgers[p].received

Abstract == INSTANCE PeerFetch WITH Fetches <- Fetches, answer <- answer

\* The loop keeps what PeerHandle::fetch promises.
KeepsPromise == Abstract!FairSpec

=============================================================================
