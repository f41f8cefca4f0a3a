--------------------------- MODULE PeerSwarmProofs ---------------------------
(***************************************************************************)
(* The swarm's event loop, for any number of peers, fetches and record     *)
(* keys, any opening credit and any order of events: what it keeps about a *)
(* fetch is what is in flight for it, and it implements PeerFetch.         *)
(***************************************************************************)
EXTENDS PeerSwarm, FiniteSetTheorems, TLAPS

Entry == [outstanding : Nat, asked : SUBSET Peers, query : BOOLEAN]

\* What is known of one fetch: nothing is in flight before its call, and while it is open
\* its entry says what is in flight, whom it asked and whether its query runs.
FetchOK(f) ==
  /\ answer[f] = "uncalled" => InFlight(f) = {} /\ f \notin queries
  /\ f \in Open =>
       /\ fetches[f].outstanding = Cardinality(InFlight(f))
       /\ InFlight(f) \subseteq fetches[f].asked
       /\ fetches[f].query = (f \in queries)
       /\ InFlight(f) # {} \/ f \in queries

SwarmInv == TypeOK /\ \A f \in Fetches : FetchOK(f)

\* The requests in flight for a fetch are finitely many.
LEMMA InFlightFinite ==
  ASSUME NEW f
  PROVE  IsFiniteSet(InFlight(f)) /\ Cardinality(InFlight(f)) \in Nat
<1>1. IsFiniteSet(InFlight(f))
  <2>1. InFlight(f) \in SUBSET Peers
    BY DEF InFlight
  <2> QED
    BY <2>1, FS_Subset, SwarmAssumption
<1> QED
  BY <1>1, FS_CardinalityType

\* A fetch nothing happened to is as it was.
LEMMA Elsewhere ==
  ASSUME NEW g \in Fetches, FetchOK(g), InFlight(g)' = InFlight(g),
         answer'[g] = answer[g], fetches'[g] = fetches[g], (g \in queries') = (g \in queries)
  PROVE  FetchOK(g)'
BY DEF FetchOK, Open

\* exhausted leaves a fetch that is right about what is in flight, and touches no other.
LEMMA Searched ==
  ASSUME TypeOK, NEW f \in Fetches, NEW entry \in Entry, Exhausted(f, entry),
         entry.outstanding = Cardinality(InFlight(f)'), InFlight(f)' \subseteq entry.asked,
         entry.query = (f \in queries), IsFiniteSet(InFlight(f)')
  PROVE  /\ FetchOK(f)'
         /\ answer' \in [Fetches -> {"uncalled", "waiting", "notfound", "timeout"} \cup Replies]
         /\ fetches' \in [Fetches -> Entry] /\ queries' \subseteq Fetches
         /\ \A g \in Fetches \ {f} : /\ answer'[g] = answer[g] /\ fetches'[g] = fetches[g]
                                     /\ (g \in queries') = (g \in queries)
         /\ answer'[f] \in {"waiting", "notfound"}
<1> USE DEF TypeOK, Entry
<1>1. CASE entry.outstanding > 0 /\ fetches' = [fetches EXCEPT ![f] = entry]
           /\ answer' = [answer EXCEPT ![f] = "waiting"] /\ UNCHANGED queries
  <2>1. InFlight(f)' # {}
    BY <1>1, FS_EmptySet
  <2> QED
    BY <1>1, <2>1 DEF FetchOK, Open
<1>2. CASE entry.outstanding = 0 /\ answer' = [answer EXCEPT ![f] = "waiting"]
           /\ fetches' = [fetches EXCEPT ![f] = [entry EXCEPT !.query = TRUE]]
           /\ queries' = queries \cup {f}
  <2> DEFINE e == [entry EXCEPT !.query = TRUE]
  <2>1. /\ e \in Entry /\ e.outstanding = entry.outstanding /\ e.asked = entry.asked
        /\ e.query = TRUE
    OBVIOUS
  <2> HIDE DEF e
  <2>2. fetches'[f] = e /\ f \in queries'
    BY <1>2, <2>1 DEF e
  <2>3. FetchOK(f)'
    BY <1>2, <2>1, <2>2 DEF FetchOK, Open
  <2> QED
    BY <1>2, <2>1, <2>3 DEF e
<1>3. CASE Finish(f, "notfound") /\ UNCHANGED queries
  BY <1>3 DEF Finish, FetchOK, Open, NewFetch
<1> QED
  BY <1>1, <1>2, <1>3 DEF Exhausted

\* Asking peers that were not asked adds them to what is in flight.
LEMMA Asked ==
  ASSUME NEW f \in Fetches, NEW entry \in Entry, NEW S \in SUBSET Peers,
         InFlight(f)' = InFlight(f) \cup S, InFlight(f) \cap S = {},
         entry.outstanding = Cardinality(InFlight(f)), InFlight(f) \subseteq entry.asked
  PROVE  /\ Ask(entry, S) \in Entry /\ Ask(entry, S).query = entry.query
         /\ Ask(entry, S).outstanding = Cardinality(InFlight(f)')
         /\ InFlight(f)' \subseteq Ask(entry, S).asked
<1>1. IsFiniteSet(S) /\ Cardinality(S) \in Nat
  BY FS_Subset, FS_CardinalityType, SwarmAssumption
<1>2. Cardinality(InFlight(f) \cup S) = Cardinality(InFlight(f)) + Cardinality(S)
  <2>1. IsFiniteSet(InFlight(f)) /\ Cardinality(InFlight(f)) \in Nat
    BY InFlightFinite
  <2>2. Cardinality(InFlight(f) \cup S)
          = Cardinality(InFlight(f)) + Cardinality(S) - Cardinality(InFlight(f) \cap S)
    BY <1>1, <2>1, FS_Union
  <2>3. Cardinality(InFlight(f) \cap S) = 0
    BY FS_EmptySet
  <2> QED
    BY <1>1, <2>1, <2>2, <2>3
<1>3. Ask(entry, S) \in Entry
  <2>1. entry.outstanding + Cardinality(S) \in Nat /\ entry.asked \cup S \in SUBSET Peers
    BY <1>1 DEF Entry
  <2> QED
    BY <2>1 DEF Ask, Entry
<1>4. /\ Ask(entry, S).outstanding = entry.outstanding + Cardinality(S)
      /\ Ask(entry, S).asked = entry.asked \cup S /\ Ask(entry, S).query = entry.query
  BY DEF Ask, Entry
<1> QED
  BY <1>2, <1>3, <1>4

\* An answer, or the failure of a request, takes one away.
LEMMA Returned ==
  ASSUME SwarmInv, NEW f \in Open, NEW p \in Peers, <<f, p>> \in pending,
         pending' = pending \ {<<f, p>>}
  PROVE  LET entry == [fetches[f] EXCEPT !.outstanding = Less(@)]
         IN /\ entry \in Entry /\ entry.query = (f \in queries)
            /\ entry.outstanding = Cardinality(InFlight(f)')
            /\ InFlight(f)' \subseteq entry.asked
            /\ IsFiniteSet(InFlight(f)')
<1>1. f \in Fetches /\ fetches[f] \in Entry /\ FetchOK(f)
  BY DEF SwarmInv, TypeOK, Open, Entry
<1>2. p \in InFlight(f) /\ InFlight(f)' = InFlight(f) \ {p}
  BY DEF InFlight
<1>3. /\ Cardinality(InFlight(f)') = Cardinality(InFlight(f)) - 1
      /\ IsFiniteSet(InFlight(f)') /\ Cardinality(InFlight(f)') \in Nat
  BY <1>2, InFlightFinite, FS_RemoveElement, FS_CardinalityType
<1> QED
  BY <1>1, <1>2, <1>3, InFlightFinite DEF FetchOK, Entry, Less

-----------------------------------------------------------------------------
\* Where nothing about the fetches changes, nothing about them goes wrong.
LEMMA FetchesKept ==
  ASSUME SwarmInv, UNCHANGED <<pending, queries, fetches, answer>>
  PROVE  \A g \in Fetches : FetchOK(g)'
BY Elsewhere DEF SwarmInv, InFlight

\* What an event that concerns one fetch has to show.
LEMMA OneFetch ==
  ASSUME SwarmInv, NEW f \in Fetches, FetchOK(f)',
         \A g \in Fetches \ {f} :
            /\ InFlight(g)' = InFlight(g) /\ answer'[g] = answer[g]
            /\ fetches'[g] = fetches[g] /\ (g \in queries') = (g \in queries)
  PROVE  \A g \in Fetches : FetchOK(g)'
BY Elsewhere DEF SwarmInv

\* Command::Fetch.
LEMMA FetchKeeps ==
  ASSUME SwarmInv, NEW f \in Fetches, Fetch(f)
  PROVE  SwarmInv'
<1> DEFINE entry == Ask(NewFetch, connected)
<1>1. answer[f] = "uncalled" /\ FetchOK(f) /\ InFlight(f) = {} /\ f \notin queries
  BY DEF Fetch, SwarmInv, FetchOK
<1>2. InFlight(f)' = InFlight(f) \cup connected
  BY <1>1 DEF Fetch, InFlight, SwarmInv, TypeOK
<1>3. NewFetch \in Entry /\ NewFetch.outstanding = Cardinality(InFlight(f)) /\ ~NewFetch.query
  BY <1>1, FS_EmptySet DEF NewFetch, Entry
<1>4. /\ entry \in Entry /\ entry.query = (f \in queries)
      /\ entry.outstanding = Cardinality(InFlight(f)') /\ InFlight(f)' \subseteq entry.asked
  <2>1. InFlight(f) \cap connected = {} /\ connected \in SUBSET Peers
    BY <1>1 DEF SwarmInv, TypeOK
  <2>2. InFlight(f) \subseteq NewFetch.asked
    BY <1>1
  <2>3. /\ entry \in Entry /\ entry.query = NewFetch.query
        /\ entry.outstanding = Cardinality(InFlight(f)') /\ InFlight(f)' \subseteq entry.asked
    BY <1>2, <1>3, <2>1, <2>2, Asked
  <2>4. (f \in queries) = FALSE /\ NewFetch.query = FALSE
    BY <1>1 DEF NewFetch
  <2> QED
    BY <2>3, <2>4
<1>5. IsFiniteSet(InFlight(f)')
  BY <1>1, <1>2, FS_Subset, SwarmAssumption DEF SwarmInv, TypeOK
<1> HIDE DEF entry
<1>6. /\ FetchOK(f)'
      /\ answer' \in [Fetches -> {"uncalled", "waiting", "notfound", "timeout"} \cup Replies]
      /\ fetches' \in [Fetches -> Entry] /\ queries' \subseteq Fetches
      /\ \A g \in Fetches \ {f} : /\ answer'[g] = answer[g] /\ fetches'[g] = fetches[g]
                                  /\ (g \in queries') = (g \in queries)
  BY <1>4, <1>5, Searched DEF Fetch, SwarmInv, entry
<1>7. \A g \in Fetches \ {f} : InFlight(g)' = InFlight(g)
  BY DEF Fetch, InFlight
<1>8. \A g \in Fetches : FetchOK(g)'
  BY <1>6, <1>7, OneFetch
<1> QED
  BY <1>6, <1>8 DEF SwarmInv, TypeOK, Entry, Fetch, network, books

\* What a peer owes goes down by one, and never below nothing.
LEMMA CreditedTyped ==
  ASSUME NEW ledger \in Ledger
  PROVE  /\ Credited(ledger) \in Ledger /\ Credited(ledger).served = ledger.served
         /\ Credited(ledger).received = ledger.received + 1
         /\ Credited(ledger).debt <= ledger.debt
         /\ ledger.debt <= Credited(ledger).debt + 1
<1>1. Less(ledger.debt) \in Nat /\ Less(ledger.debt) <= ledger.debt
      /\ ledger.debt <= Less(ledger.debt) + 1
  BY DEF Less, Ledger
<1>2. ledger.received + 1 \in Nat
  BY DEF Ledger
<1>3. Credited(ledger) \in Ledger
  BY <1>1, <1>2 DEF Credited, Ledger
<1>4. /\ Credited(ledger).debt = Less(ledger.debt) /\ Credited(ledger).served = ledger.served
      /\ Credited(ledger).received = ledger.received + 1
  BY DEF Credited, Ledger
<1> QED
  BY <1>1, <1>3, <1>4

\* What is given is owed.
LEMMA GivenTyped ==
  ASSUME NEW ledger \in Ledger
  PROVE  /\ Given(ledger) \in Ledger /\ Given(ledger).served = ledger.served + 1
         /\ Given(ledger).received = ledger.received
         /\ Given(ledger).debt = ledger.debt + 1
<1>1. ledger.served + 1 \in Nat /\ ledger.debt + 1 \in Nat
  BY DEF Ledger
<1>2. Given(ledger) \in Ledger
  BY <1>1 DEF Given, Ledger
<1> QED
  BY <1>2 DEF Given, Ledger

\* Message::Response.
LEMMA ResponseKeeps ==
  ASSUME SwarmInv, NEW f \in Fetches, NEW p \in Peers, Response(f, p)
  PROVE  SwarmInv'
<1> DEFINE entry == [fetches[f] EXCEPT !.outstanding = Less(@)]
<1>1. /\ <<f, p>> \in pending /\ pending' = pending \ {<<f, p>>}
      /\ UNCHANGED <<running, network, announced, overdue>>
  BY DEF Response
<1>2. \A g \in Fetches \ {f} : InFlight(g)' = InFlight(g)
  BY <1>1 DEF InFlight
<1>3. CASE f \notin Open /\ UNCHANGED <<ledgers, fetches, queries, answer>>
  <2>1. FetchOK(f)'
    BY <1>1, <1>3 DEF SwarmInv, FetchOK, Open, InFlight
  <2> QED
    BY <1>1, <1>2, <1>3, <2>1, OneFetch DEF SwarmInv, TypeOK, network
<1>4. CASE f \in Open /\ Exhausted(f, entry) /\ UNCHANGED ledgers
  <2>1. /\ FetchOK(f)'
        /\ answer' \in [Fetches -> {"uncalled", "waiting", "notfound", "timeout"} \cup Replies]
        /\ fetches' \in [Fetches -> Entry] /\ queries' \subseteq Fetches
        /\ \A g \in Fetches \ {f} : /\ answer'[g] = answer[g] /\ fetches'[g] = fetches[g]
                                    /\ (g \in queries') = (g \in queries)
    BY <1>1, <1>4, Returned, Searched DEF SwarmInv
  <2> QED
    BY <1>1, <1>2, <1>4, <2>1, OneFetch DEF SwarmInv, TypeOK, Entry, network
<1>5. CASE /\ f \in Open /\ ledgers' = [ledgers EXCEPT ![p] = Credited(@)]
           /\ Finish(f, "right") /\ UNCHANGED queries
  <2>1. FetchOK(f)'
    BY <1>5 DEF Finish, FetchOK, Open, SwarmInv, TypeOK
  <2>2. \A g \in Fetches : FetchOK(g)'
    BY <1>2, <1>5, <2>1, OneFetch DEF Finish, SwarmInv, TypeOK
  <2>3. ledgers' \in [Peers -> Ledger]
    BY <1>5, CreditedTyped DEF SwarmInv, TypeOK
  <2> QED
    BY <1>1, <1>5, <2>2, <2>3 DEF Finish, NewFetch, SwarmInv, TypeOK, network, Replies
<1> QED
  BY <1>3, <1>4, <1>5 DEF Response, Accepts, Replies

\* Event::OutboundFailure.
LEMMA FailureKeeps ==
  ASSUME SwarmInv, NEW f \in Fetches, NEW p \in Peers, OutboundFailure(f, p)
  PROVE  SwarmInv'
<1> DEFINE entry == [fetches[f] EXCEPT !.outstanding = Less(@)]
<1>1. /\ <<f, p>> \in pending /\ pending' = pending \ {<<f, p>>}
      /\ UNCHANGED <<running, network, books, overdue>>
  BY DEF OutboundFailure
<1>2. \A g \in Fetches \ {f} : InFlight(g)' = InFlight(g)
  BY <1>1 DEF InFlight
<1>3. CASE f \notin Open /\ UNCHANGED <<fetches, queries, answer>>
  <2>1. FetchOK(f)'
    BY <1>1, <1>3 DEF SwarmInv, FetchOK, Open, InFlight
  <2> QED
    BY <1>1, <1>2, <1>3, <2>1, OneFetch DEF SwarmInv, TypeOK, network, books
<1>4. CASE f \in Open /\ Exhausted(f, entry)
  <2>1. /\ FetchOK(f)'
        /\ answer' \in [Fetches -> {"uncalled", "waiting", "notfound", "timeout"} \cup Replies]
        /\ fetches' \in [Fetches -> Entry] /\ queries' \subseteq Fetches
        /\ \A g \in Fetches \ {f} : /\ answer'[g] = answer[g] /\ fetches'[g] = fetches[g]
                                    /\ (g \in queries') = (g \in queries)
    BY <1>1, <1>4, Returned, Searched DEF SwarmInv
  <2> QED
    BY <1>1, <1>2, <1>4, <2>1, OneFetch DEF SwarmInv, TypeOK, Entry, network, books
<1> QED
  BY <1>3, <1>4 DEF OutboundFailure

\* handle_kademlia_event, providers found.
LEMMA FoundKeeps ==
  ASSUME SwarmInv, NEW f \in Fetches, FoundProviders(f)
  PROVE  SwarmInv'
<1>1. PICK S \in SUBSET Peers : /\ S \cap fetches[f].asked = {} /\ f \in Open
                                /\ pending' = pending \cup ({f} \X S)
                                /\ fetches' = [fetches EXCEPT ![f] = Ask(@, S)]
  BY DEF FoundProviders, ToAsk
<1>2. f \in queries /\ UNCHANGED <<running, network, books, queries, answer, overdue>>
  BY DEF FoundProviders
<1>3. fetches[f] \in Entry /\ FetchOK(f)
  BY DEF SwarmInv, TypeOK, Entry
<1>4. InFlight(f)' = InFlight(f) \cup S
  BY <1>1 DEF InFlight
<1>5. /\ Ask(fetches[f], S) \in Entry /\ Ask(fetches[f], S).query = fetches[f].query
      /\ Ask(fetches[f], S).outstanding = Cardinality(InFlight(f)')
      /\ InFlight(f)' \subseteq Ask(fetches[f], S).asked
  BY <1>1, <1>3, <1>4, Asked DEF FetchOK
<1>6. fetches'[f] = Ask(fetches[f], S) /\ fetches' \in [Fetches -> Entry]
  BY <1>1, <1>5 DEF SwarmInv, TypeOK, Entry
<1>7. FetchOK(f)'
  BY <1>1, <1>2, <1>3, <1>5, <1>6 DEF FetchOK, Open
<1>8. \A g \in Fetches \ {f} : InFlight(g)' = InFlight(g) /\ fetches'[g] = fetches[g]
  BY <1>1 DEF InFlight, SwarmInv, TypeOK
<1>9. \A g \in Fetches : FetchOK(g)'
  BY <1>2, <1>7, <1>8, OneFetch
<1> QED
  BY <1>1, <1>2, <1>6, <1>9 DEF SwarmInv, TypeOK, Entry, network, books

\* handle_kademlia_event, the query's end.
LEMMA QueryEndsKeeps ==
  ASSUME SwarmInv, NEW f \in Fetches, QueryEnds(f)
  PROVE  SwarmInv'
<1>1. f \in queries /\ queries' = queries \ {f} /\ FetchOK(f)
      /\ UNCHANGED <<running, network, books, pending, overdue>>
  BY DEF QueryEnds, SwarmInv
<1>2. \A g \in Fetches : InFlight(g)' = InFlight(g)
  BY <1>1 DEF InFlight
<1>3. CASE f \notin Open /\ UNCHANGED <<fetches, answer>>
  <2>1. FetchOK(f)'
    BY <1>1, <1>3 DEF FetchOK, Open
  <2> QED
    BY <1>1, <1>2, <1>3, <2>1, OneFetch DEF SwarmInv, TypeOK, network, books
<1>4. CASE /\ f \in Open /\ fetches[f].outstanding > 0
           /\ fetches' = [fetches EXCEPT ![f].query = FALSE] /\ UNCHANGED answer
  <2>1. InFlight(f) # {}
    BY <1>1, <1>4, FS_EmptySet DEF FetchOK
  <2>2. fetches' \in [Fetches -> Entry] /\ fetches'[f].outstanding = fetches[f].outstanding
        /\ fetches'[f].asked = fetches[f].asked /\ fetches'[f].query = FALSE
    BY <1>4 DEF SwarmInv, TypeOK, Entry
  <2>3. FetchOK(f)'
    <3>1. f \in Open' /\ answer'[f] # "uncalled" /\ InFlight(f)' = InFlight(f)
      BY <1>2, <1>4 DEF Open
    <3>2. (f \in queries') = FALSE
      BY <1>1
    <3>3. fetches'[f].query = (f \in queries')
      BY <2>2, <3>2
    <3> QED
      BY <1>1, <1>4, <2>1, <2>2, <3>1, <3>3 DEF FetchOK
  <2>4. \A g \in Fetches \ {f} : fetches'[g] = fetches[g]
    BY <1>4 DEF SwarmInv, TypeOK
  <2> QED
    BY <1>1, <1>2, <1>4, <2>2, <2>3, <2>4, OneFetch DEF SwarmInv, TypeOK, Entry, network, books
<1>5. CASE f \in Open /\ Finish(f, "notfound")
  <2>1. FetchOK(f)'
    BY <1>5 DEF Finish, FetchOK, Open, SwarmInv, TypeOK
  <2>2. \A g \in Fetches : FetchOK(g)'
    BY <1>1, <1>2, <1>5, <2>1, OneFetch DEF Finish, SwarmInv, TypeOK
  <2> QED
    BY <1>1, <1>5, <2>2 DEF Finish, NewFetch, SwarmInv, TypeOK, network, books
<1> QED
  BY <1>3, <1>4, <1>5 DEF QueryEnds

\* expire: whatever is swept is closed, and the rest is as it was.
LEMMA ExpireKeeps ==
  ASSUME SwarmInv, Expire
  PROVE  SwarmInv'
<1>1. \A g \in Fetches : FetchOK(g)'
  <2> SUFFICES ASSUME NEW g \in Fetches
               PROVE  FetchOK(g)'
    OBVIOUS
  <2>1. FetchOK(g) /\ InFlight(g)' = InFlight(g)
    BY DEF Expire, SwarmInv, InFlight
  <2>2. CASE g \in overdue \cap Open
    BY <2>2 DEF Expire, FetchOK, Open
  <2>3. CASE g \notin overdue \cap Open
    BY <2>1, <2>3, Elsewhere DEF Expire
  <2> QED
    BY <2>2, <2>3
<1> QED
  BY <1>1 DEF Expire, NewFetch, SwarmInv, TypeOK, network, books

\* The events that are not about a fetch.
LEMMA OthersKeep ==
  ASSUME SwarmInv,
         \/ \E f \in Fetches : Late(f)
         \/ \E p \in Peers : Request(p) \/ Established(p) \/ Closed(p)
         \/ \E k \in Keys : Announce(k)
         \/ Stop \/ UNCHANGED vars
  PROVE  SwarmInv'
<1> USE SwarmAssumption DEF TypeOK, network, books, search
<1>1. UNCHANGED <<pending, queries, fetches, answer>>
  BY DEF Late, Request, Established, Closed, Announce, Stop, vars
<1>2. \A g \in Fetches : FetchOK(g)'
  BY <1>1, FetchesKept
<1>3. CASE \E f \in Fetches : Late(f)
  BY <1>1, <1>2, <1>3 DEF Late, SwarmInv, Open
<1>4. CASE \E p \in Peers : Request(p)
  <2>1. ledgers' \in [Peers -> Ledger]
    BY <1>4, GivenTyped DEF Request, SwarmInv
  <2> QED
    BY <1>1, <1>2, <1>4, <2>1 DEF Request, SwarmInv
<1>5. CASE \E p \in Peers : Established(p)
  BY <1>1, <1>2, <1>5 DEF Established, SwarmInv
<1>6. CASE \E p \in Peers : Closed(p)
  BY <1>1, <1>2, <1>6 DEF Closed, SwarmInv
<1>7. CASE \E k \in Keys : Announce(k)
  BY <1>1, <1>2, <1>7 DEF Announce, SwarmInv
<1>8. CASE Stop \/ UNCHANGED vars
  BY <1>1, <1>2, <1>8 DEF Stop, SwarmInv, vars
<1> QED
  BY <1>3, <1>4, <1>5, <1>6, <1>7, <1>8

\* The invariant holds before anything is asked for.
LEMMA InitHolds == Init => SwarmInv
<1> SUFFICES ASSUME Init PROVE SwarmInv
  OBVIOUS
<1>1. TypeOK
  BY SwarmAssumption DEF Init, TypeOK, Ledger, NewFetch
<1>2. \A f \in Fetches : FetchOK(f)
  BY DEF Init, FetchOK, InFlight, Open
<1> QED
  BY <1>1, <1>2 DEF SwarmInv

LEMMA NextHolds == SwarmInv /\ [Next]_vars => SwarmInv'
BY FetchKeeps, ResponseKeeps, FailureKeeps, FoundKeeps, QueryEndsKeeps, ExpireKeeps, OthersKeep
   DEF Next

LEMMA Inductive == Spec => []SwarmInv
<1> QED
  BY InitHolds, NextHolds, PTL DEF Spec

\* Every event keeps the loop's state well typed; the subtractions never go below nothing.
THEOREM TypeCorrect == Spec => []TypeOK
<1>1. SwarmInv => TypeOK
  BY DEF SwarmInv
<1> QED
  BY <1>1, Inductive, PTL

\* Pending::outstanding is the number of requests in flight for an open fetch.
THEOREM CountIsExact == Spec => []OutstandingExact
<1>1. SwarmInv => OutstandingExact
  BY DEF SwarmInv, OutstandingExact, FetchOK, Open
<1> QED
  BY <1>1, Inductive, PTL

\* An open fetch has a request in flight or a query that will end.
THEOREM OpenWaits == Spec => []WaitsForSomething
<1>1. SwarmInv => WaitsForSomething
  BY DEF SwarmInv, WaitsForSomething, FetchOK, Open
<1> QED
  BY <1>1, Inductive, PTL

-----------------------------------------------------------------------------
\* What a peer has taken is what it gave and what it still owes, and it owes at most the
\* opening credit.
CreditInv ==
  \A p \in Peers : /\ ledgers[p].debt <= OpeningCredit
                   /\ ledgers[p].served <= ledgers[p].debt + ledgers[p].received

LEMMA CreditKept ==
  ASSUME TypeOK, CreditInv, [Next]_vars
  PROVE  CreditInv'
<1> USE SwarmAssumption
<1>1. CASE UNCHANGED ledgers
  BY <1>1 DEF CreditInv
<1>2. CASE \E p \in Peers : ledgers' = [ledgers EXCEPT ![p] = Credited(@)]
  <2>1. PICK p \in Peers : ledgers' = [ledgers EXCEPT ![p] = Credited(@)]
    BY <1>2
  <2>2. /\ ledgers[p] \in Ledger /\ ledgers[p].served \in Nat /\ ledgers[p].received \in Nat
        /\ ledgers[p].debt \in Nat
    BY DEF TypeOK, Ledger
  <2>3. Credited(ledgers[p]).debt \in Nat
    BY <2>2, CreditedTyped DEF Ledger
  <2> QED
    BY <2>1, <2>2, <2>3, CreditedTyped DEF CreditInv, TypeOK
<1>3. CASE \E p \in Peers : /\ InCredit(ledgers[p])
                            /\ ledgers' = [ledgers EXCEPT ![p] = Given(@)]
  <2>1. PICK p \in Peers : InCredit(ledgers[p]) /\ ledgers' = [ledgers EXCEPT ![p] = Given(@)]
    BY <1>3
  <2>2. /\ ledgers[p] \in Ledger /\ ledgers[p].served \in Nat /\ ledgers[p].received \in Nat
        /\ ledgers[p].debt \in Nat
    BY DEF TypeOK, Ledger
  <2> QED
    BY <2>1, <2>2, GivenTyped DEF CreditInv, TypeOK, InCredit
<1>4. ASSUME NEW f \in Fetches, NEW p \in Peers, Response(f, p)
      PROVE  UNCHANGED ledgers \/ ledgers' = [ledgers EXCEPT ![p] = Credited(@)]
  BY <1>4 DEF Response
<1>5. ASSUME NEW p \in Peers, Request(p)
      PROVE  \/ UNCHANGED ledgers
             \/ InCredit(ledgers[p]) /\ ledgers' = [ledgers EXCEPT ![p] = Given(@)]
  BY <1>5 DEF Request
<1>6. ASSUME NEW f \in Fetches, Fetch(f) \/ FoundProviders(f) \/ QueryEnds(f) \/ Late(f)
      PROVE  UNCHANGED ledgers
  BY <1>6 DEF Fetch, FoundProviders, QueryEnds, Late, books
<1>7. ASSUME NEW k \in Keys, Announce(k)
      PROVE  UNCHANGED ledgers
  BY <1>7 DEF Announce
<1>8. Expire \/ Stop \/ UNCHANGED vars => UNCHANGED ledgers
  BY DEF Expire, Stop, vars, books
<1>9. ASSUME NEW p \in Peers, Established(p) \/ Closed(p)
       PROVE  UNCHANGED ledgers
  BY <1>9 DEF Established, Closed, books
<1>10. ASSUME NEW f \in Fetches, NEW p \in Peers, OutboundFailure(f, p)
       PROVE  UNCHANGED ledgers
  BY <1>10 DEF OutboundFailure, books
<1> QED
  BY <1>1, <1>2, <1>3, <1>4, <1>5, <1>6, <1>7, <1>8, <1>9, <1>10 DEF Next

\* No peer takes more than the opening credit beyond what it gave (Ledger::in_credit).
THEOREM CreditIsKept == Spec => []TakesWithinCredit
<1>1. Init => CreditInv
  BY SwarmAssumption DEF Init, CreditInv
<1>2. TypeOK /\ CreditInv => TakesWithinCredit
  BY SwarmAssumption DEF TypeOK, CreditInv, TakesWithinCredit, Ledger
<1> QED
  BY <1>1, <1>2, CreditKept, TypeCorrect, PTL DEF Spec

-----------------------------------------------------------------------------
\* Searching on, or giving up, is a stutter or an answer to the caller.
LEMMA SearchRefines ==
  ASSUME TypeOK, NEW f \in Fetches, NEW entry, Exhausted(f, entry)
  PROVE  \/ answer' = [answer EXCEPT ![f] = "waiting"]
         \/ answer' = [answer EXCEPT ![f] = "notfound"]
BY DEF Exhausted, Finish

LEMMA NextRefines ==
  ASSUME TypeOK, [Next]_vars
  PROVE  [Abstract!Next]_answer
<1> USE DEF Abstract!Next, Abstract!Answers
<1>1. ASSUME NEW f \in Fetches, Fetch(f)
      PROVE  Abstract!Next
  BY <1>1, SearchRefines DEF Fetch, Abstract!Call, Abstract!CallInVain
<1>2. ASSUME NEW f \in Open, NEW entry, Exhausted(f, entry)
      PROVE  [Abstract!Next]_answer
  <2>1. f \in Fetches /\ answer[f] = "waiting"
    BY DEF Open
  <2>2. CASE answer' = [answer EXCEPT ![f] = "waiting"]
    BY <2>1, <2>2 DEF TypeOK
  <2>3. CASE answer' = [answer EXCEPT ![f] = "notfound"]
    BY <2>1, <2>3 DEF Abstract!Reply
  <2> QED
    BY <1>2, <2>1, <2>2, <2>3, SearchRefines
<1>3. ASSUME NEW f \in Open, NEW a \in Abstract!Answers, Finish(f, a)
      PROVE  Abstract!Next
  BY <1>3 DEF Finish, Abstract!Reply, Open
<1>4. ASSUME NEW f \in Fetches, NEW p \in Peers, Response(f, p)
      PROVE  [Abstract!Next]_answer
  BY <1>2, <1>3, <1>4 DEF Response, Accepts
<1>5. ASSUME NEW f \in Fetches, NEW p \in Peers, OutboundFailure(f, p)
      PROVE  [Abstract!Next]_answer
  BY <1>2, <1>5 DEF OutboundFailure
<1>6. ASSUME NEW f \in Fetches, QueryEnds(f)
      PROVE  [Abstract!Next]_answer
  BY <1>3, <1>6 DEF QueryEnds
<1>7. CASE Expire
  <2>1. Abstract!TimeOut(overdue \cap Open)
    BY <1>7 DEF Expire, Open, Abstract!TimeOut
  <2>2. overdue \cap Open \in SUBSET Fetches
    BY DEF Open
  <2> QED
    BY <2>1, <2>2
<1>8. ASSUME NEW f \in Fetches, FoundProviders(f) \/ Late(f)
      PROVE  UNCHANGED answer
  BY <1>8 DEF FoundProviders, Late, search
<1>9. ASSUME NEW p \in Peers, Request(p) \/ Established(p) \/ Closed(p)
      PROVE  UNCHANGED answer
  BY <1>9 DEF Request, Established, Closed
<1>10. ASSUME NEW k \in Keys, Announce(k)
       PROVE  UNCHANGED answer
  BY <1>10 DEF Announce
<1>11. Stop \/ UNCHANGED vars => UNCHANGED answer
  BY DEF Stop, vars
<1> QED
  BY <1>1, <1>4, <1>5, <1>6, <1>7, <1>8, <1>9, <1>10, <1>11 DEF Next

\* The loop implements what PeerHandle::fetch promises: an answer comes once, is final, and is
\* checked bytes, the news that nobody had them, or that time ran out.
THEOREM Implements == Spec => Abstract!Spec
<1>1. Init => Abstract!Init
  BY DEF Init, Abstract!Init
<1> QED
  BY <1>1, NextRefines, TypeCorrect, PTL DEF Spec, Abstract!Spec

=============================================================================
