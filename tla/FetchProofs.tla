----------------------------- MODULE FetchProofs -----------------------------
(***************************************************************************)
(* Net::fetch, for any number of requests, writers, addresses, bodies,     *)
(* clears and redirects: nothing that was asked for before a clear is      *)
(* stored after it, what a caller declared is what it gets, and            *)
(* credentials stay with the origin they were for.                         *)
(***************************************************************************)
EXTENDS NetFetch, TLAPS

Landing == [url : Urls, resp : Response, since : 0 .. MaxClears, held : BOOLEAN]

\* What is shared, by its type.
SharedType ==
  /\ cached \in [Urls -> Entry \cup {None}]
  /\ cleared \in 0 .. MaxClears /\ emptied \in 0 .. MaxClears /\ clearing \in BOOLEAN
  /\ write \in [Writes -> Landing \cup {None}]
  /\ refreshing \subseteq Urls /\ task \in [Urls -> Refresh \cup {None}]

\* What a request has on its stack where it is.  A declaration is for a GET, the body of its
\* answer is kept whole, and what it is given or is about to be given satisfies it.
Where(step, l) ==
  /\ l \in Locals
  /\ step \notin {"idle", "done"} => l.url \in Urls
  /\ step \in {"check", "cond", "confirm", "accept", "store", "streaming"} => l.rec \in Response
  /\ l.want # None => l.method = "GET" /\ step \notin {"unsafe", "streaming"}
  /\ step = "peers" => l.want # None
  /\ step \in {"cond", "confirm", "store"} => Satisfies(l.want, l.mode, l.rec)
  /\ step = "done" /\ l.want # None /\ l.rec # None => l.rec.body = l.want

RequestsType ==
  /\ at \in [Requests -> Steps] /\ loc \in [Requests -> Locals]
  /\ \A r \in Requests : Where(at[r], loc[r])

\* Who may store holds the lock, and asked since the last clear.
LockOK ==
  /\ emptied <= cleared
  /\ clearing => kept = {}
  /\ \A r \in Requests : at[r] = "store" => r \in kept /\ loc[r].since = cleared
  /\ \A w \in Writes : write[w] # None /\ write[w].held => w \in kept /\ write[w].since = cleared
  /\ \A u \in Urls : u \in kept => task[u] # None /\ task[u].since = cleared
  /\ \A u \in Urls : task[u] # None => u \in refreshing

FetchInv == SharedType /\ RequestsType /\ LockOK /\ NothingFromBefore

\* A request goes on, others stay, and it takes credentials no further than their origin.
Moved(r) ==
  /\ RequestsType'
  /\ \A q \in Requests \ {r} : at'[q] = at[q] /\ loc'[q] = loc[q]
  /\ at[r] # "idle" /\ loc'[r].creds => loc[r].creds /\ Site[loc'[r].url] = Site[loc[r].url]

LEMMA BlankType == Blank \in Locals
BY FetchAssumption DEF Blank, Locals

LEMMA StartingOK ==
  ASSUME NEW method \in {"GET", "POST"}, NEW want \in Bodies \cup {None},
         NEW mode \in {"follow", "manual"}, NEW creds \in BOOLEAN, NEW url \in Urls,
         NEW visited \in SUBSET Urls, want # None => method = "GET"
  PROVE  /\ Where("settle", Starting(method, want, mode, creds, url, visited))
         /\ Starting(method, want, mode, creds, url, visited).url = url
         /\ Starting(method, want, mode, creds, url, visited).creds = creds
<1> DEFINE l == Starting(method, want, mode, creds, url, visited)
<1>1. WritesFor(url) \in SUBSET Writes
  BY DEF WritesFor
<1>2. l \in Locals /\ l.url = url /\ l.want = want /\ l.method = method
  BY <1>1, BlankType DEF Starting, Locals
<1>3. l.creds = creds
  BY <1>1, BlankType DEF Starting, Locals
<1> HIDE DEF l
<1> QED
  BY <1>2, <1>3 DEF Where, l

\* A request that goes to a step with what it may have there.
LEMMA GotoOK ==
  ASSUME RequestsType, NEW r \in Requests, NEW step \in Steps, NEW l, Where(step, l),
         Goto(r, step, l), at[r] # "idle" /\ l.creds => loc[r].creds /\ Site[l.url] = Site[loc[r].url]
  PROVE  Moved(r) /\ at'[r] = step /\ loc'[r] = l
<1>1. l \in Locals
  BY DEF Where
<1>2. /\ at' \in [Requests -> Steps] /\ loc' \in [Requests -> Locals]
      /\ at'[r] = step /\ loc'[r] = l
      /\ \A q \in Requests \ {r} : at'[q] = at[q] /\ loc'[q] = loc[q]
  BY <1>1 DEF Goto, RequestsType
<1>3. \A q \in Requests : Where(at'[q], loc'[q])
  BY <1>2 DEF RequestsType
<1> QED
  BY <1>2, <1>3 DEF Moved, RequestsType

\* The same, of a request that keeps its address and its credentials.
LEMMA StaysOK ==
  ASSUME RequestsType, NEW r \in Requests, NEW step \in Steps, NEW l, Where(step, l),
         Goto(r, step, l), l.creds = loc[r].creds, l.url = loc[r].url
  PROVE  Moved(r) /\ at'[r] = step /\ loc'[r] = l
BY GotoOK

LEMMA GivenType ==
  ASSUME NEW want \in Bodies \cup {None}, NEW resp \in Response \cup {None}
  PROVE  /\ Given(want, resp) \in Locals /\ Given(want, resp).want = want
         /\ Given(want, resp).rec = resp /\ Given(want, resp).method = "GET"
         /\ Given(want, resp).creds = FALSE
<1> USE DEF Given
<1> DEFINE l == Given(want, resp)
<1>1. l \in Locals /\ l.want = want /\ l.rec = resp
  BY BlankType DEF Locals
<1>2. l.method = "GET"
  BY DEF Blank
<1>3. l.creds = FALSE
  BY DEF Blank
<1> QED
  BY <1>1, <1>2, <1>3

\* An answer, of what satisfies the declaration.
LEMMA AnswerOK ==
  ASSUME RequestsType, NEW r \in Requests, NEW resp \in Response \cup {None}, Answer(r, resp),
         loc[r].want # None /\ resp # None => resp.body = loc[r].want
  PROVE  Moved(r) /\ at'[r] = "done"
<1> DEFINE l == Given(loc[r].want, resp)
<1>0. loc[r].want \in Bodies \cup {None}
  BY DEF RequestsType, Locals
<1>1. l \in Locals /\ l.want = loc[r].want /\ l.rec = resp /\ l.method = "GET" /\ l.creds = FALSE
  BY <1>0, GivenType
<1>3. Goto(r, "done", l)
  BY DEF Answer
<1> HIDE DEF l
<1>4. Where("done", l) /\ "done" \in Steps
  BY <1>1 DEF Where, Steps
<1> QED
  BY <1>1, <1>3, <1>4, GotoOK

LEMMA FailsOK ==
  ASSUME RequestsType, NEW r \in Requests, Fails(r)
  PROVE  Moved(r) /\ at'[r] = "done"
BY AnswerOK DEF Fails

\* What follows a response: the answer, its stream, or the next address.
LEMMA RespondOK ==
  ASSUME RequestsType, NEW r \in Requests, NEW resp \in Response, NEW streamed \in BOOLEAN,
         loc[r].url \in Urls, Respond(r, resp, streamed),
         loc[r].want # None => streamed = FALSE /\ loc[r].method = "GET"
                               /\ Satisfies(loc[r].want, loc[r].mode, resp)
  PROVE  Moved(r) /\ at'[r] # "store"
<1> DEFINE l == loc[r]
<1>0. l \in Locals
  BY DEF RequestsType
<1>1. CASE ~IsHop(l.mode, resp) /\ streamed = FALSE /\ Answer(r, resp)
  BY <1>1, AnswerOK DEF Satisfies
<1>2. CASE ~IsHop(l.mode, resp) /\ streamed = TRUE /\ Goto(r, "streaming", [l EXCEPT !.rec = resp])
  <2> DEFINE m == [l EXCEPT !.rec = resp]
  <2>1. m \in Locals /\ m.url = l.url /\ m.want = l.want /\ m.rec = resp /\ m.method = l.method
    BY <1>0 DEF Locals
  <2>2. m.creds = l.creds
    BY <1>0 DEF Locals
  <2> HIDE DEF m
  <2>3. Where("streaming", m) /\ "streaming" \in Steps
    BY <1>2, <2>1 DEF Where, Steps
  <2> QED
    BY <1>2, <2>1, <2>2, <2>3, StaysOK DEF m
<1>3. CASE WhereTo(l, resp) = "error" /\ Fails(r)
  BY <1>3, FailsOK
<1>4. CASE WhereTo(l, resp) = "caller" /\ Answer(r, resp)
  <2>1. l.want = None
    BY <1>4 DEF WhereTo
  <2> QED
    BY <1>4, <2>1, AnswerOK
<1>5. CASE IsHop(l.mode, resp) /\ WhereTo(l, resp) = "on" /\ Goto(r, "settle", Onward(l, resp))
  <2> DEFINE creds == Forwardable(l.creds, l.url, resp.to)
             method == IF resp.same THEN l.method ELSE "GET"
             visited == l.visited \cup {resp.to}
  <2>1. resp.to \in Urls
    BY <1>5 DEF IsHop, WhereTo, Response
  <2>2. /\ method \in {"GET", "POST"} /\ (l.want # None => method = "GET")
        /\ l.mode \in {"follow", "manual"} /\ visited \in SUBSET Urls
        /\ l.want \in Bodies \cup {None}
    BY <1>0, <2>1 DEF Locals
  <2>3. creds \in BOOLEAN /\ (creds => l.creds /\ Site[l.url] = Site[resp.to])
    BY DEF Forwardable
  <2>4. Onward(l, resp) = Starting(method, l.want, l.mode, creds, resp.to, visited)
    BY DEF Onward
  <2> HIDE DEF creds, method, visited
  <2> DEFINE onward == Starting(method, l.want, l.mode, creds, resp.to, visited)
  <2>7. Where("settle", onward) /\ onward.url = resp.to /\ onward.creds = creds
    BY <2>1, <2>2, <2>3, StartingOK
  <2> HIDE DEF onward
  <2>5. /\ Where("settle", Onward(l, resp)) /\ Onward(l, resp).url = resp.to
        /\ Onward(l, resp).creds = creds
    BY <2>4, <2>7 DEF onward
  <2>6. "settle" \in Steps
    BY DEF Steps
  <2> QED
    BY <1>5, <2>3, <2>5, <2>6, GotoOK
<1> QED
  BY <1>1, <1>2, <1>3, <1>4, <1>5 DEF Respond

-----------------------------------------------------------------------------
\* Every step of a request, by itself.

\* A request that asks the origin for the whole.
LEMMA FromOriginOK ==
  ASSUME RequestsType, NEW r \in Requests, loc[r].url \in Urls, FromOrigin(r),
         loc[r].want # None => loc[r].method = "GET"
  PROVE  Moved(r) /\ at'[r] = "origin"
<1> DEFINE l == loc[r]
           m == [l EXCEPT !.rec = None, !.how = "serve"]
<1>0. l \in Locals
  BY DEF RequestsType
<1>1. m \in Locals
  BY <1>0 DEF Locals
<1>2. m.url = l.url /\ m.want = l.want /\ m.method = l.method
  BY <1>0 DEF Locals
<1>3. m.creds = l.creds
  BY <1>0 DEF Locals
<1>4. Goto(r, "origin", m)
  BY DEF FromOrigin
<1> HIDE DEF m
<1>5. Where("origin", m) /\ "origin" \in Steps
  BY <1>1, <1>2 DEF Where, Steps
<1> QED
  BY <1>2, <1>3, <1>4, <1>5, StaysOK

\* A request that goes on with what it has, where that is what it may have there.
LEMMA SameOK ==
  ASSUME RequestsType, NEW r \in Requests, NEW step \in Steps, Where(step, loc[r]),
         Goto(r, step, loc[r])
  PROVE  Moved(r) /\ at'[r] = step /\ loc'[r] = loc[r]
BY StaysOK

\* A request that goes on with what the origin said.
LEMMA GotOK ==
  ASSUME RequestsType, NEW r \in Requests, NEW resp \in Response, NEW public \in BOOLEAN,
         loc[r].url \in Urls, loc[r].want # None => loc[r].method = "GET",
         Goto(r, "accept", Got(loc[r], resp, public))
  PROVE  Moved(r) /\ at'[r] = "accept"
<1> DEFINE l == loc[r]
           m == Got(l, resp, public)
<1>0. l \in Locals
  BY DEF RequestsType
<1>1. m \in Locals
  BY <1>0 DEF Locals, Got
<1>2. m.url = l.url /\ m.want = l.want /\ m.method = l.method /\ m.rec = resp
  BY <1>0 DEF Locals, Got
<1>3. m.creds = l.creds
  BY <1>0 DEF Locals, Got
<1>4. Goto(r, "accept", m)
  OBVIOUS
<1> HIDE DEF m
<1>5. Where("accept", m) /\ "accept" \in Steps
  BY <1>1, <1>2 DEF Where, Steps
<1> QED
  BY <1>2, <1>3, <1>4, <1>5, StaysOK

\* A request that is about to store holds the lock, and asked since the last clear.
Goes(r) == Moved(r) /\ (at'[r] = "store" => r \in kept' /\ loc'[r].since = cleared)

LEMMA CallOK ==
  ASSUME RequestsType, NEW r \in Requests, Call(r)
  PROVE  Goes(r)
<1>0. PICK u \in Urls :
        \E a \in Asks[u] :
          /\ a.want # None => a.method = "GET"
          /\ Goto(r, "settle", Starting(a.method, a.want, a.mode, a.creds, u, {u}))
  BY DEF Call
<1>1. PICK a \in Asks[u] :
        /\ a.want # None => a.method = "GET"
        /\ Goto(r, "settle", Starting(a.method, a.want, a.mode, a.creds, u, {u}))
  BY <1>0
<1>2. a \in Ask
  BY FetchAssumption
<1>3. /\ a.method \in {"GET", "POST"} /\ a.want \in Bodies \cup {None}
      /\ a.mode \in {"follow", "manual"} /\ a.creds \in BOOLEAN
  BY <1>2 DEF Ask
<1>4. Where("settle", Starting(a.method, a.want, a.mode, a.creds, u, {u})) /\ "settle" \in Steps
  BY <1>1, <1>3, StartingOK DEF Steps
<1>5. at[r] = "idle"
  BY DEF Call
<1> QED
  BY <1>1, <1>4, <1>5, GotoOK DEF Goes

LEMMA SettledOK ==
  ASSUME RequestsType, cleared \in 0 .. MaxClears, NEW r \in Requests, Settled(r)
  PROVE  Goes(r)
<1> DEFINE l == loc[r]
           m == [l EXCEPT !.since = cleared]
<1>0. l \in Locals /\ Where("settle", l)
  BY DEF RequestsType, Settled
<1>1. m \in Locals
  BY <1>0 DEF Locals
<1>2. m.url = l.url /\ m.want = l.want /\ m.method = l.method
  BY <1>0 DEF Locals
<1>3. m.creds = l.creds
  BY <1>0 DEF Locals
<1>4. Goto(r, "begin", m)
  BY DEF Settled
<1> HIDE DEF m
<1>5. Where("begin", m) /\ "begin" \in Steps
  BY <1>0, <1>1, <1>2 DEF Where, Steps
<1> QED
  BY <1>2, <1>3, <1>4, <1>5, StaysOK DEF Goes

LEMMA UnsafeOK ==
  ASSUME RequestsType, NEW r \in Requests, Invalidate(r) \/ UnsafeAnswer(r)
  PROVE  Goes(r)
<1>1. CASE Invalidate(r)
  <2>1. Where("begin", loc[r]) /\ loc[r].method = "POST" /\ Goto(r, "unsafe", loc[r])
    BY <1>1 DEF RequestsType, Invalidate
  <2>2. Where("unsafe", loc[r]) /\ "unsafe" \in Steps
    BY <2>1 DEF Where, Steps
  <2> QED
    BY <2>1, <2>2, SameOK DEF Goes
<1>2. CASE UnsafeAnswer(r)
  <2>1. Where("unsafe", loc[r])
    BY <1>2 DEF RequestsType, UnsafeAnswer
  <2>2. loc[r].url \in Urls /\ loc[r].want = None
    BY <2>1 DEF Where
  <2>3. CASE Fails(r)
    BY <2>3, FailsOK DEF Goes
  <2>4. CASE \E resp \in Answers[loc[r].url] : Respond(r, resp, FALSE)
    <3>1. PICK resp \in Answers[loc[r].url] : Respond(r, resp, FALSE)
      BY <2>4
    <3>2. resp \in Response
      BY <2>2, <3>1, FetchAssumption
    <3> QED
      BY <2>2, <3>1, <3>2, RespondOK DEF Goes
  <2> QED
    BY <1>2, <2>3, <2>4 DEF UnsafeAnswer
<1> QED
  BY <1>1, <1>2

LEMMA LookupOK ==
  ASSUME SharedType, RequestsType, NEW r \in Requests, Lookup(r)
  PROVE  Goes(r)
<1> DEFINE l == loc[r]
<1>0. l \in Locals /\ Where("begin", l) /\ l.url \in Urls
  BY DEF RequestsType, Lookup, Where
<1>1. CASE Goto(r, IF l.want = None THEN "origin" ELSE "peers", l)
  <2> DEFINE step == IF l.want = None THEN "origin" ELSE "peers"
  <2>1. Where(step, l) /\ step \in Steps /\ step # "store" /\ Goto(r, step, l)
    BY <1>0, <1>1 DEF Where, Steps
  <2> HIDE DEF step
  <2> QED
    BY <2>1, SameOK DEF Goes
<1>2. CASE /\ cached[l.url] # None
           /\ \E how \in {"serve", "refresh", "revalidate"} :
                Goto(r, "check", [l EXCEPT !.rec = cached[l.url].resp, !.how = how])
  <2>1. PICK how \in {"serve", "refresh", "revalidate"} :
          Goto(r, "check", [l EXCEPT !.rec = cached[l.url].resp, !.how = how])
    BY <1>2
  <2> DEFINE rec == cached[l.url].resp
  <2>2. rec \in Response
    BY <1>0, <1>2 DEF SharedType, Entry
  <2> HIDE DEF rec
  <2> DEFINE m == [l EXCEPT !.rec = rec, !.how = how]
  <2>3. m \in Locals
    BY <1>0, <2>2 DEF Locals
  <2>4. m.url = l.url /\ m.want = l.want /\ m.method = l.method /\ m.rec = rec
    BY <1>0 DEF Locals
  <2>5. m.creds = l.creds
    BY <1>0 DEF Locals
  <2>6. Goto(r, "check", m)
    BY <2>1 DEF rec
  <2> HIDE DEF m
  <2>7. Where("check", m) /\ "check" \in Steps
    BY <1>0, <2>2, <2>3, <2>4 DEF Where, Steps
  <2> QED
    BY <2>4, <2>5, <2>6, <2>7, StaysOK DEF Goes
<1> QED
  BY <1>1, <1>2 DEF Lookup

LEMMA TryPeersOK ==
  ASSUME RequestsType, NEW r \in Requests, TryPeers(r)
  PROVE  Goes(r)
<1>0. Where("peers", loc[r])
  BY DEF RequestsType, TryPeers
<1>1. loc[r] \in Locals /\ loc[r].url \in Urls /\ (loc[r].want # None => loc[r].method = "GET")
  BY <1>0 DEF Where
<1>2. CASE FromOrigin(r)
  BY <1>1, <1>2, FromOriginOK DEF Goes
<1>3. CASE Answer(r, [body |-> loc[r].want, to |-> None, same |-> FALSE])
  \* Only a request that declared a body asks peers.
  <2>1. loc[r].want \in Bodies
    BY <1>0 DEF Where, Locals
  <2> QED
    BY <1>1, <1>3, <2>1, AnswerOK DEF Goes, Response
<1> QED
  BY <1>2, <1>3 DEF TryPeers

LEMMA CheckOK ==
  ASSUME RequestsType, NEW r \in Requests, Check(r)
  PROVE  Goes(r)
<1>0. Where("check", loc[r])
  BY DEF RequestsType, Check
<1>1. /\ loc[r] \in Locals /\ loc[r].url \in Urls /\ loc[r].rec \in Response
      /\ loc[r].want # None => loc[r].method = "GET"
  BY <1>0 DEF Where
<1>2. CASE FromOrigin(r)
  BY <1>1, <1>2, FromOriginOK DEF Goes
<1>3. CASE Satisfies(loc[r].want, loc[r].mode, loc[r].rec) /\ Goto(r, "cond", loc[r])
  <2>1. Where("cond", loc[r]) /\ "cond" \in Steps
    BY <1>0, <1>3 DEF Where, Steps
  <2> QED
    BY <1>3, <2>1, SameOK DEF Goes
<1>4. CASE Satisfies(loc[r].want, loc[r].mode, loc[r].rec) /\ Respond(r, loc[r].rec, FALSE)
  BY <1>1, <1>4, RespondOK DEF Goes
<1> QED
  BY <1>2, <1>3, <1>4 DEF Check

LEMMA ConditionalOK ==
  ASSUME RequestsType, NEW r \in Requests, Conditional(r)
  PROVE  Goes(r)
<1>0. Where("cond", loc[r])
  BY DEF RequestsType, Conditional
<1>1. /\ loc[r] \in Locals /\ loc[r].url \in Urls /\ loc[r].rec \in Response
      /\ loc[r].want # None => loc[r].method = "GET"
      /\ Satisfies(loc[r].want, loc[r].mode, loc[r].rec)
  BY <1>0 DEF Where
<1>2. CASE Goto(r, "confirm", loc[r])
  <2>1. Where("confirm", loc[r]) /\ "confirm" \in Steps
    BY <1>0 DEF Where, Steps
  <2> QED
    BY <1>2, <2>1, SameOK DEF Goes
<1>3. CASE Respond(r, loc[r].rec, FALSE)
  BY <1>1, <1>3, RespondOK DEF Goes
<1>4. CASE \E resp \in Answers[loc[r].url], public \in BOOLEAN :
             Goto(r, "accept", Got(loc[r], resp, public))
  BY <1>1, <1>4, GotOK, FetchAssumption DEF Goes
<1>5. CASE Fails(r)
  BY <1>5, FailsOK DEF Goes
<1> QED
  BY <1>2, <1>3, <1>4, <1>5 DEF Conditional

LEMMA ConfirmOK ==
  ASSUME SharedType, RequestsType, NEW r \in Requests, Confirm(r)
  PROVE  Goes(r)
<1> DEFINE l == loc[r]
<1>0. Where("confirm", l)
  BY DEF RequestsType, Confirm
<1>1. /\ l \in Locals /\ l.url \in Urls /\ l.rec \in Response
      /\ l.want # None => l.method = "GET"
      /\ Satisfies(l.want, l.mode, l.rec)
  BY <1>0 DEF Where
<1>2. CASE /\ cached[l.url] # None
           /\ Goto(r, "check", [l EXCEPT !.rec = cached[l.url].resp, !.how = "serve"])
  <2> DEFINE rec == cached[l.url].resp
  <2>2. rec \in Response
    BY <1>1, <1>2 DEF SharedType, Entry
  <2> HIDE DEF rec
  <2> DEFINE m == [l EXCEPT !.rec = rec, !.how = "serve"]
  <2>3. m \in Locals
    BY <1>1, <2>2 DEF Locals
  <2>4. m.url = l.url /\ m.want = l.want /\ m.method = l.method /\ m.rec = rec
    BY <1>1 DEF Locals
  <2>5. m.creds = l.creds
    BY <1>1 DEF Locals
  <2>6. Goto(r, "check", m)
    BY <1>2 DEF rec
  <2> HIDE DEF m
  <2>7. Where("check", m) /\ "check" \in Steps
    BY <1>1, <2>2, <2>3, <2>4 DEF Where, Steps
  <2> QED
    BY <2>4, <2>5, <2>6, <2>7, StaysOK DEF Goes
<1>3. CASE Respond(r, l.rec, FALSE)
  BY <1>1, <1>3, RespondOK DEF Goes
<1>4. CASE FromOrigin(r)
  BY <1>1, <1>4, FromOriginOK DEF Goes
<1>5. CASE Fails(r)
  BY <1>5, FailsOK DEF Goes
<1> QED
  BY <1>2, <1>3, <1>4, <1>5 DEF Confirm

\* What the origin sends, over either transport.
LEMMA AnsweredOK ==
  ASSUME RequestsType, NEW r \in Requests, at[r] \in {"quic", "tcp"},
         NEW resp \in Answers[loc[r].url], NEW public \in BOOLEAN, Answered(r, resp, public)
  PROVE  Goes(r)
<1>0. Where(at[r], loc[r])
  BY DEF RequestsType
<1>1. /\ loc[r] \in Locals /\ loc[r].url \in Urls
      /\ loc[r].want # None => loc[r].method = "GET"
  BY <1>0 DEF Where
<1>2. resp \in Response
  BY <1>1, FetchAssumption
<1>3. CASE Fails(r)
  BY <1>3, FailsOK DEF Goes
<1>4. CASE Goto(r, "accept", Got(loc[r], resp, public))
  BY <1>1, <1>2, <1>4, GotOK DEF Goes
<1>5. CASE loc[r].want = None /\ Respond(r, resp, Admits(loc[r].since, public))
  <2>1. Admits(loc[r].since, public) \in BOOLEAN
    BY DEF Admits
  <2> QED
    BY <1>1, <1>2, <1>5, <2>1, RespondOK DEF Goes
<1> QED
  BY <1>3, <1>4, <1>5 DEF Answered, Collected

LEMMA OriginOK ==
  ASSUME RequestsType, NEW r \in Requests, OriginAny(r) \/ QuicRequest(r) \/ TcpRequest(r)
  PROVE  Goes(r)
<1>0. Where(at[r], loc[r]) /\ at[r] \in {"origin", "quic", "tcp"}
  BY DEF RequestsType, OriginAny, QuicRequest, TcpRequest
<1>1. \A step \in {"quic", "tcp"} : Where(step, loc[r]) /\ step \in Steps
  BY <1>0 DEF Where, Steps
<1>2. CASE \E step \in {"quic", "tcp"} : Goto(r, step, loc[r])
  BY <1>1, <1>2, SameOK DEF Goes
<1>3. CASE Fails(r)
  BY <1>3, FailsOK DEF Goes
<1>4. CASE /\ at[r] \in {"quic", "tcp"}
           /\ \E resp \in Answers[loc[r].url], public \in BOOLEAN : Answered(r, resp, public)
  BY <1>4, AnsweredOK
<1>5. CASE OriginAny(r)
  BY <1>2, <1>5 DEF OriginAny
<1>6. CASE QuicRequest(r)
  BY <1>2, <1>3, <1>4, <1>6 DEF QuicRequest
<1>7. CASE TcpRequest(r)
  BY <1>3, <1>4, <1>7 DEF TcpRequest
<1> QED
  BY <1>5, <1>6, <1>7

LEMMA AcceptOK ==
  ASSUME RequestsType, NEW r \in Requests, Accept(r)
  PROVE  Goes(r)
<1>0. Where("accept", loc[r])
  BY DEF RequestsType, Accept
<1>1. /\ loc[r] \in Locals /\ loc[r].url \in Urls /\ loc[r].rec \in Response
      /\ loc[r].want # None => loc[r].method = "GET"
  BY <1>0 DEF Where
<1>2. CASE Fails(r)
  BY <1>2, FailsOK DEF Goes
<1>3. CASE /\ Satisfies(loc[r].want, loc[r].mode, loc[r].rec)
           /\ Admits(loc[r].since, loc[r].public)
           /\ kept' = kept \cup {r} /\ Goto(r, "store", loc[r]) /\ UNCHANGED cleared
  <2>1. Where("store", loc[r]) /\ "store" \in Steps
    BY <1>0, <1>3 DEF Where, Steps
  <2>2. Moved(r) /\ loc'[r] = loc[r]
    BY <1>3, <2>1, SameOK
  <2> QED
    BY <1>3, <2>2 DEF Goes, Admits
<1>4. CASE Satisfies(loc[r].want, loc[r].mode, loc[r].rec) /\ Respond(r, loc[r].rec, FALSE)
  BY <1>1, <1>4, RespondOK DEF Goes
<1> QED
  BY <1>2, <1>3, <1>4 DEF Accept

LEMMA StoreOK ==
  ASSUME RequestsType, NEW r \in Requests, Store(r)
  PROVE  Goes(r)
<1>0. Where("store", loc[r])
  BY DEF RequestsType, Store
<1>1. /\ loc[r] \in Locals /\ loc[r].url \in Urls /\ loc[r].rec \in Response
      /\ loc[r].want # None => loc[r].method = "GET"
      /\ Satisfies(loc[r].want, loc[r].mode, loc[r].rec)
  BY <1>0 DEF Where
<1>2. Respond(r, loc[r].rec, FALSE)
  BY DEF Store
<1> QED
  BY <1>1, <1>2, RespondOK DEF Goes

LEMMA EndsOK ==
  ASSUME RequestsType, NEW r \in Requests, StreamEnds(r) \/ Return(r)
  PROVE  Goes(r)
<1>1. CASE StreamEnds(r)
  <2>1. Where("streaming", loc[r])
    BY <1>1 DEF RequestsType, StreamEnds
  <2>2. loc[r].want = None /\ loc[r].rec \in Response
    BY <2>1 DEF Where
  <2> QED
    BY <1>1, <2>2, AnswerOK DEF StreamEnds, Goes
<1>2. CASE Return(r)
  <2>1. /\ Blank.want = None /\ Blank.creds = FALSE
    BY DEF Blank
  <2>2. Where("idle", Blank) /\ "idle" \in Steps
    BY <2>1, BlankType DEF Where, Steps
  <2> QED
    BY <1>2, <2>1, <2>2, GotoOK DEF Return, Goes
<1> QED
  BY <1>1, <1>2

-----------------------------------------------------------------------------
\* What is shared.

\* The cache holds nothing from before the last clear.
CacheKept == cached' \in [Urls -> Entry \cup {None}] /\ NothingFromBefore'

LEMMA SameCache ==
  ASSUME SharedType, NothingFromBefore, UNCHANGED <<cached, emptied>>
  PROVE  CacheKept
BY DEF SharedType, NothingFromBefore, CacheKept

LEMMA Dropped ==
  ASSUME SharedType, NothingFromBefore, NEW u \in Urls, Put([cached EXCEPT ![u] = None]),
         UNCHANGED emptied
  PROVE  CacheKept
<1>1. cached' = [cached EXCEPT ![u] = None]
  BY DEF Put
<1>2. cached' \in [Urls -> Entry \cup {None}]
  BY <1>1 DEF SharedType
<1>3. \A v \in Urls : cached'[v] # None => cached'[v] = cached[v]
  BY <1>1 DEF SharedType
<1> QED
  BY <1>2, <1>3 DEF NothingFromBefore, CacheKept

\* What may be stored was asked for since the last clear.
LEMMA Stored ==
  ASSUME SharedType, NothingFromBefore, emptied <= cleared, NEW u \in Urls,
         NEW resp \in Response, NEW since, since = cleared,
         StoreAt(u, resp, since) \/ StoreVerified(u, resp, since),
         UNCHANGED <<cleared, emptied>>
  PROVE  CacheKept
<1> DEFINE e == [resp |-> resp, since |-> since]
<1>1. e \in Entry /\ e.since = cleared
  BY DEF Entry, SharedType
<1>2. CASE UNCHANGED store
  BY <1>2, SameCache DEF store
<1>3. CASE cached' = [cached EXCEPT ![u] = e]
  <2> HIDE DEF e
  <2>1. cached' \in [Urls -> Entry \cup {None}]
    BY <1>1, <1>3 DEF SharedType
  <2>2. \A v \in Urls : cached'[v] = cached[v] \/ cached'[v].since = cleared
    BY <1>1, <1>3 DEF SharedType
  <2> QED
    BY <2>1, <2>2 DEF NothingFromBefore, CacheKept, SharedType
<1> QED
  BY <1>2, <1>3 DEF StoreAt, StoreVerified, Put

\* What a step of a request may do to what is shared: the lock is its own to take and give
\* back, a write it starts does not hold it, and a refresh it starts is of an address that
\* was not being refreshed.
Touches(r) ==
  /\ CacheKept
  /\ UNCHANGED <<cleared, clearing, emptied>>
  /\ kept' = kept \/ kept' = kept \ {r} \/ (~clearing /\ kept' = kept \cup {r})
  /\ write' \in [Writes -> Landing \cup {None}]
  /\ \A w \in Writes : write'[w] = write[w] \/ ~write'[w].held
  /\ refreshing \subseteq refreshing' /\ refreshing' \subseteq Urls
  /\ task' \in [Urls -> Refresh \cup {None}]
  /\ \A u \in Urls : task'[u] = task[u] \/ (u \notin refreshing /\ u \in refreshing')

LEMMA RequestKeeps ==
  ASSUME FetchInv, NEW r \in Requests, Goes(r), Touches(r)
  PROVE  FetchInv'
<1> USE DEF FetchInv
<1>1. SharedType'
  BY DEF SharedType, Touches, CacheKept
<1>2. RequestsType' /\ NothingFromBefore'
  BY DEF Goes, Moved, Touches, CacheKept
<1>3. \A q \in Requests : at'[q] = "store" => q \in kept' /\ loc'[q].since = cleared'
  BY DEF Goes, Moved, Touches, LockOK
<1>4. \A w \in Writes : write'[w] # None /\ write'[w].held => w \in kept' /\ write'[w].since = cleared'
  BY FetchAssumption DEF Touches, LockOK
<1>5. \A u \in Urls : u \in kept' => task'[u] # None /\ task'[u].since = cleared'
  <2> SUFFICES ASSUME NEW u \in Urls, u \in kept' PROVE task'[u] # None /\ task'[u].since = cleared'
    OBVIOUS
  <2>1. u \in kept
    BY FetchAssumption DEF Touches
  <2>2. task[u] # None /\ task[u].since = cleared /\ u \in refreshing
    BY <2>1 DEF LockOK
  <2> QED
    BY <2>2 DEF Touches
<1>6. \A u \in Urls : task'[u] # None => u \in refreshing'
  BY DEF Touches, LockOK
<1>7. emptied' <= cleared' /\ (clearing' => kept' = {})
  BY DEF Touches, LockOK
<1> QED
  BY <1>1, <1>2, <1>3, <1>4, <1>5, <1>6, <1>7 DEF LockOK

\* The steps that touch nothing but the cache.
LEMMA CacheOnly ==
  ASSUME FetchInv, NEW r \in Requests, CacheKept, UNCHANGED <<lock, background>>
  PROVE  Touches(r)
BY DEF FetchInv, SharedType, LockOK, Touches, lock, background

LEMMA LockToo ==
  ASSUME FetchInv, NEW r \in Requests, CacheKept,
         UNCHANGED <<cleared, clearing, emptied, background>>,
         kept' = kept \/ kept' = kept \ {r} \/ (~clearing /\ kept' = kept \cup {r})
  PROVE  Touches(r)
BY DEF FetchInv, SharedType, LockOK, Touches, background

LEMMA SpawnOK ==
  ASSUME SharedType, NEW l \in Locals, l.url \in Urls, SpawnRefresh(l)
  PROVE  /\ write' = write /\ refreshing \subseteq refreshing' /\ refreshing' \subseteq Urls
         /\ task' \in [Urls -> Refresh \cup {None}]
         /\ \A u \in Urls : task'[u] = task[u] \/ (u \notin refreshing /\ u \in refreshing')
<1>1. CASE l.url \in refreshing
  BY <1>1 DEF SpawnRefresh, SharedType, background
<1>2. CASE l.url \notin refreshing
  <2> DEFINE t == [want |-> l.want, mode |-> l.mode, since |-> l.since, rec |-> None]
  <2>1. t \in Refresh
    BY DEF Refresh, Locals
  <2>2. /\ task' = [task EXCEPT ![l.url] = t] /\ write' = write
        /\ refreshing' = refreshing \cup {l.url}
    BY <1>2 DEF SpawnRefresh
  <2> HIDE DEF t
  <2> QED
    BY <1>2, <2>1, <2>2 DEF SharedType
<1> QED
  BY <1>1, <1>2

LEMMA LandOK ==
  ASSUME SharedType, NEW l \in Locals, l.url \in Urls, l.rec \in Response,
         Land(l) \/ TeeDiscards
  PROVE  /\ write' \in [Writes -> Landing \cup {None}]
         /\ \A w \in Writes : write'[w] = write[w] \/ ~write'[w].held
<1>1. CASE Land(l)
  <2> DEFINE e == [url |-> l.url, resp |-> l.rec, since |-> l.since, held |-> FALSE]
  <2>1. e \in Landing
    BY DEF Landing, Locals
  <2>2. ~e.held
    OBVIOUS
  <2>3. PICK w \in Writes : write' = [write EXCEPT ![w] = e]
    BY <1>1 DEF Land
  <2> HIDE DEF e
  <2> QED
    BY <2>1, <2>2, <2>3 DEF SharedType
<1>2. CASE TeeDiscards
  BY <1>2 DEF TeeDiscards, SharedType
<1> QED
  BY <1>1, <1>2

-----------------------------------------------------------------------------
\* Every step keeps the invariant.

RequestStep(r) ==
  \/ Call(r) \/ Settled(r) \/ Invalidate(r) \/ UnsafeAnswer(r) \/ Lookup(r)
  \/ TryPeers(r) \/ Check(r) \/ Conditional(r) \/ Confirm(r) \/ OriginAny(r)
  \/ QuicRequest(r) \/ TcpRequest(r) \/ Accept(r) \/ Store(r) \/ StreamEnds(r)
  \/ Return(r)

LEMMA EveryRequestGoes ==
  ASSUME FetchInv, NEW r \in Requests, RequestStep(r)
  PROVE  Goes(r)
<1>1. SharedType /\ RequestsType /\ cleared \in 0 .. MaxClears
  BY DEF FetchInv, SharedType
<1> QED
  BY <1>1, CallOK, SettledOK, UnsafeOK, LookupOK, TryPeersOK, CheckOK, ConditionalOK, ConfirmOK,
     OriginOK, AcceptOK, StoreOK, EndsOK DEF RequestStep

LEMMA EveryRequestTouches ==
  ASSUME FetchInv, NEW r \in Requests, RequestStep(r)
  PROVE  Touches(r)
<1> DEFINE l == loc[r]
<1>0. SharedType /\ NothingFromBefore /\ emptied <= cleared /\ l \in Locals
  BY DEF FetchInv, RequestsType, LockOK
<1>1. at[r] \notin {"idle", "done"} => l.url \in Urls
  BY DEF FetchInv, RequestsType, Where
<1>2. at[r] \in {"store", "streaming"} => l.rec \in Response
  BY DEF FetchInv, RequestsType, Where
<1>3. CASE UNCHANGED <<store, lock, background>>
  <2>1. CacheKept
    BY <1>0, <1>3, SameCache DEF store, lock
  <2> QED
    BY <1>3, <2>1, CacheOnly
<1>4. CASE Invalidate(r)
  <2>1. CacheKept
    BY <1>0, <1>1, <1>4, Dropped DEF Invalidate, lock
  <2> QED
    BY <1>4, <2>1, CacheOnly DEF Invalidate
<1>5. CASE Check(r)
  <2>1. CacheKept
    <3>1. UNCHANGED emptied /\ l.url \in Urls
      BY <1>1, <1>5 DEF Check, lock
    <3>2. CASE UNCHANGED cached
      BY <1>0, <3>1, <3>2, SameCache
    <3>3. CASE Put([cached EXCEPT ![l.url] = None])
      BY <1>0, <3>1, <3>3, Dropped
    <3> QED
      BY <1>5, <3>2, <3>3 DEF Check, store
  <2>2. CASE UNCHANGED background
    BY <1>5, <2>1, <2>2, CacheOnly DEF Check
  <2>3. CASE SpawnRefresh(l)
    <3>1. UNCHANGED lock /\ l.url \in Urls
      BY <1>1, <1>5 DEF Check
    <3>2. write \in [Writes -> Landing \cup {None}]
      BY <1>0 DEF SharedType
    <3> QED
      BY <1>0, <2>1, <2>3, <3>1, <3>2, SpawnOK DEF Touches, lock
  <2> QED
    BY <1>5, <2>2, <2>3 DEF Check
<1>6. CASE Conditional(r)
  <2>1. CacheKept
    BY <1>0, <1>6, SameCache DEF Conditional, store
  <2>2. kept' = kept \/ (~clearing /\ kept' = kept \cup {r})
    BY <1>6 DEF Conditional
  <2> QED
    BY <1>6, <2>1, <2>2, LockToo DEF Conditional
<1>7. CASE Confirm(r)
  <2>1. CacheKept
    <3>1. UNCHANGED emptied /\ l.url \in Urls
      BY <1>1, <1>7 DEF Confirm
    <3>2. CASE UNCHANGED store
      BY <1>0, <3>1, <3>2, SameCache DEF store
    <3>3. CASE Put([cached EXCEPT ![l.url] = None])
      BY <1>0, <3>1, <3>3, Dropped
    <3> QED
      BY <1>7, <3>2, <3>3 DEF Confirm
  <2> QED
    BY <1>7, <2>1, LockToo DEF Confirm
<1>8. CASE Accept(r)
  <2>1. CacheKept
    BY <1>0, <1>8, SameCache DEF Accept, store
  <2>2. kept' = kept \/ (~clearing /\ kept' = kept \cup {r})
    BY <1>8 DEF Accept
  <2> QED
    BY <1>8, <2>1, <2>2, LockToo DEF Accept
<1>9. CASE Store(r)
  <2>1. l.url \in Urls /\ l.rec \in Response /\ l.since = cleared
    BY <1>1, <1>2, <1>9 DEF Store, FetchInv, LockOK
  <2>2. /\ StoreAt(l.url, l.rec, l.since) \/ StoreVerified(l.url, l.rec, l.since)
        /\ UNCHANGED <<cleared, emptied>>
    BY <1>9 DEF Store
  <2>3. CacheKept
    BY <1>0, <2>1, <2>2, Stored
  <2> QED
    BY <1>9, <2>3, LockToo DEF Store
<1>10. CASE StreamEnds(r)
  <2>1. l.url \in Urls /\ l.rec \in Response
    BY <1>1, <1>2, <1>10 DEF StreamEnds
  <2>2. CacheKept
    BY <1>0, <1>10, SameCache DEF StreamEnds, store, lock
  <2>3. Land(l) \/ TeeDiscards
    BY <1>10 DEF StreamEnds
  <2> QED
    BY <1>0, <1>10, <2>1, <2>2, <2>3, LandOK DEF StreamEnds, Touches, lock, SharedType
<1> QED
  BY <1>3, <1>4, <1>5, <1>6, <1>7, <1>8, <1>9, <1>10
     DEF RequestStep, Call, Settled, UnsafeAnswer, Lookup, TryPeers, OriginAny, QuicRequest,
         TcpRequest, Return

\* What a request has on its stack once an entry it may have waited for is written.
Without(l, w) == [l EXCEPT !.waits = l.waits \ {w}]

LEMMA WithoutOK ==
  ASSUME NEW step \in Steps, NEW l, Where(step, l), NEW w
  PROVE  /\ Where(step, Without(l, w))
         /\ Without(l, w).since = l.since /\ Without(l, w).creds = l.creds
         /\ Without(l, w).url = l.url
<1> DEFINE m == Without(l, w)
<1>0. l \in Locals
  BY DEF Where
<1>1. m \in Locals
  BY <1>0 DEF Locals, Without
<1>2. /\ m.url = l.url /\ m.want = l.want /\ m.method = l.method /\ m.rec = l.rec
      /\ m.mode = l.mode /\ m.since = l.since
  BY <1>0 DEF Locals, Without
<1>3. m.creds = l.creds
  BY <1>0 DEF Locals, Without
<1> HIDE DEF m
<1>4. Where(step, m)
  BY <1>1, <1>2 DEF Where
<1> QED
  BY <1>2, <1>3, <1>4 DEF m

LEMMA OverOK ==
  ASSUME RequestsType, NEW w \in Writes, Over(w)
  PROVE  /\ RequestsType' /\ at' = at
         /\ \A r \in Requests : /\ loc'[r].since = loc[r].since /\ loc'[r].creds = loc[r].creds
                                /\ loc'[r].url = loc[r].url
<1>1. loc' = [r \in Requests |-> Without(loc[r], w)] /\ at' = at
  BY DEF Over, Without
<1>2. \A r \in Requests : at[r] \in Steps /\ Where(at[r], loc[r])
  BY DEF RequestsType
<1>3. \A r \in Requests : /\ Where(at[r], loc'[r])
                          /\ loc'[r].since = loc[r].since /\ loc'[r].creds = loc[r].creds
                          /\ loc'[r].url = loc[r].url
  BY <1>1, <1>2, WithoutOK
<1>4. \A r \in Requests : loc'[r] \in Locals
  BY <1>3 DEF Where
<1>5. loc' \in [Requests -> Locals]
  BY <1>1, <1>4
<1> QED
  BY <1>1, <1>3, <1>5 DEF RequestsType

\* The threads that write the entries of streamed bodies.
LEMMA WriteKeeps ==
  ASSUME FetchInv, NEW w \in Writes, WriteAdmits(w) \/ WriteStores(w)
  PROVE  FetchInv'
<1> USE DEF FetchInv
<1>0. SharedType /\ RequestsType /\ NothingFromBefore /\ LockOK
  OBVIOUS
<1>1. CASE WriteAdmits(w) /\ write[w].since = cleared
  <2>1. /\ kept' = kept \cup {w} /\ write' = [write EXCEPT ![w].held = TRUE] /\ ~clearing
        /\ write[w] # None
        /\ UNCHANGED <<at, loc, cached, cleared, clearing, emptied, refreshing, task>>
    BY <1>1 DEF WriteAdmits, store
  <2>2. write[w] \in Landing
    BY <2>1 DEF SharedType
  <2>3. [write[w] EXCEPT !.held = TRUE] \in Landing
    BY <2>2 DEF Landing
  <2>4. [write[w] EXCEPT !.held = TRUE].since = cleared
    BY <1>1, <2>2 DEF Landing
  <2> DEFINE e == [write[w] EXCEPT !.held = TRUE]
  <2>5. write' = [write EXCEPT ![w] = e]
    BY <2>1
  <2>6. e \in Landing /\ e.since = cleared
    BY <2>3, <2>4
  <2> HIDE DEF e
  <2>7. SharedType'
    BY <2>1, <2>5, <2>6 DEF SharedType
  <2>8. \A v \in Writes : v = w \/ write'[v] = write[v]
    BY <2>5 DEF SharedType
  <2>9. write'[w] = e
    BY <2>5 DEF SharedType
  <2>10. LockOK'
    BY <2>1, <2>6, <2>8, <2>9, FetchAssumption DEF LockOK
  <2> QED
    BY <2>1, <2>7, <2>10 DEF RequestsType, NothingFromBefore
<1>2. CASE Over(w) /\ kept' = kept \ {w} /\ CacheKept
           /\ UNCHANGED <<cleared, clearing, emptied, refreshing, task>>
  <2>1. /\ RequestsType' /\ at' = at
        /\ \A r \in Requests : loc'[r].since = loc[r].since
    BY <1>2, OverOK
  <2>2. write' = [write EXCEPT ![w] = None]
    BY <1>2 DEF Over
  <2>3. SharedType'
    BY <1>2, <2>2 DEF SharedType, CacheKept
  <2>4. \A v \in Writes : v = w \/ write'[v] = write[v]
    BY <2>2 DEF SharedType
  <2>5. write'[w] = None
    BY <2>2 DEF SharedType
  <2>6. LockOK'
    BY <1>2, <2>1, <2>4, <2>5, FetchAssumption DEF LockOK
  <2> QED
    BY <1>2, <2>1, <2>3, <2>6 DEF CacheKept
<1>3. CASE WriteAdmits(w) /\ write[w].since # cleared
  <2>1. Over(w) /\ UNCHANGED <<cached, kept, cleared, clearing, emptied, refreshing, task>>
    BY <1>3 DEF WriteAdmits, store
  <2>2. CacheKept
    BY <2>1, <1>0, SameCache
  <2>3. /\ RequestsType' /\ at' = at
        /\ \A r \in Requests : loc'[r].since = loc[r].since
    BY <2>1, OverOK
  <2>4. write' = [write EXCEPT ![w] = None]
    BY <2>1 DEF Over
  <2>5. SharedType'
    BY <2>1, <2>4 DEF SharedType
  <2>6. \A v \in Writes : write'[v] = None \/ write'[v] = write[v]
    BY <2>4 DEF SharedType
  <2>7. LockOK'
    BY <2>1, <2>3, <2>6 DEF LockOK
  <2> QED
    BY <2>2, <2>3, <2>5, <2>7 DEF CacheKept
<1>4. CASE WriteStores(w)
  <2>1. /\ write[w] \in Landing /\ write[w].since = cleared
        /\ UNCHANGED <<cleared, clearing, emptied, refreshing, task>>
    BY <1>4 DEF WriteStores, SharedType, LockOK
  <2>2. write[w].url \in Urls /\ write[w].resp \in Response
    BY <2>1 DEF Landing
  <2>3. StoreAt(write[w].url, write[w].resp, write[w].since) /\ emptied <= cleared
    BY <1>4 DEF WriteStores, LockOK
  <2>4. CacheKept
    BY <1>0, <2>1, <2>2, <2>3, Stored
  <2> QED
    BY <1>2, <1>4, <2>1, <2>4 DEF WriteStores
<1> QED
  BY <1>1, <1>3, <1>4 DEF WriteAdmits

\* Background refreshes.
LEMMA RefreshKeeps ==
  ASSUME FetchInv, NEW u \in Urls, RefreshEnds(u) \/ RefreshAdmits(u) \/ RefreshStores(u)
  PROVE  FetchInv'
<1> USE DEF FetchInv
<1>0. SharedType /\ NothingFromBefore /\ emptied <= cleared
  BY DEF LockOK
<1>1. ASSUME RefreshOver(u), u \notin kept', kept' \subseteq kept,
             \A x : x \in kept /\ x # u => x \in kept',
             CacheKept, UNCHANGED <<cleared, clearing, emptied, write, at, loc>>
      PROVE  FetchInv'
  <2>1. /\ refreshing' = refreshing \ {u} /\ task' = [task EXCEPT ![u] = None]
    BY <1>1 DEF RefreshOver
  <2>2. SharedType'
    BY <1>1, <2>1 DEF SharedType, CacheKept
  <2>3. \A v \in Urls : v = u \/ task'[v] = task[v]
    BY <2>1 DEF SharedType
  <2>4. task'[u] = None
    BY <2>1 DEF SharedType
  <2>5. \A q \in Requests : q # u
    BY FetchAssumption
  <2>6. \A w \in Writes : w # u
    BY FetchAssumption
  <2>7. LockOK'
    BY <1>1, <2>1, <2>3, <2>4, <2>5, <2>6 DEF LockOK
  <2> QED
    BY <1>1, <2>2, <2>7 DEF RequestsType, CacheKept
<1>2. CASE RefreshEnds(u)
  <2>1. CacheKept
    BY <1>0, <1>2, SameCache DEF RefreshEnds, store, lock
  <2> QED
    BY <1>1, <1>2, <2>1 DEF RefreshEnds, lock
<1>3. CASE RefreshAdmits(u)
  <2>1. /\ task[u] # None /\ task[u].since = cleared /\ ~clearing /\ kept' = kept \cup {u}
        /\ UNCHANGED <<cached, cleared, clearing, emptied, write, refreshing, at, loc>>
    BY <1>3 DEF RefreshAdmits, store
  <2>2. PICK resp \in Answers[u] \cup {None} : task' = [task EXCEPT ![u].rec = resp]
    BY <1>3 DEF RefreshAdmits
  <2>3. resp \in Response \cup {None}
    BY <2>2, FetchAssumption
  <2> DEFINE t == [task[u] EXCEPT !.rec = resp]
  <2>4. task[u] \in Refresh
    BY <2>1 DEF SharedType
  <2>5. t \in Refresh /\ t.since = cleared
    BY <2>1, <2>3, <2>4 DEF Refresh
  <2>6. task' = [task EXCEPT ![u] = t]
    BY <2>2
  <2> HIDE DEF t
  <2>7. SharedType'
    BY <2>1, <2>5, <2>6 DEF SharedType
  <2>8. \A v \in Urls : v = u \/ task'[v] = task[v]
    BY <2>6 DEF SharedType
  <2>9. task'[u] = t /\ t # None
    BY <2>5, <2>6, FetchAssumption DEF SharedType
  <2>10. LockOK'
    BY <2>1, <2>5, <2>8, <2>9 DEF LockOK
  <2> QED
    BY <2>1, <2>7, <2>10 DEF RequestsType, NothingFromBefore
<1>4. CASE RefreshStores(u)
  <2> DEFINE t == task[u]
  <2>1. /\ t \in Refresh /\ t.since = cleared /\ kept' = kept \ {u} /\ RefreshOver(u)
        /\ UNCHANGED <<cleared, clearing, emptied, write, at, loc>>
    BY <1>4 DEF RefreshStores, SharedType, LockOK
  <2>2. CacheKept
    <3>1. CASE UNCHANGED store
      BY <1>0, <2>1, <3>1, SameCache DEF store
    <3>2. CASE Put([cached EXCEPT ![u] = None])
      BY <1>0, <2>1, <3>2, Dropped
    <3>3. CASE t.rec # None /\ (StoreVerified(u, t.rec, t.since) \/ StoreAt(u, t.rec, t.since))
      <4>1. t.rec \in Response
        BY <2>1, <3>3 DEF Refresh
      <4> QED
        BY <1>0, <2>1, <3>3, <4>1, Stored
    <3> QED
      BY <1>4, <3>1, <3>2, <3>3 DEF RefreshStores
  <2> QED
    BY <1>1, <2>1, <2>2
<1> QED
  BY <1>2, <1>3, <1>4

\* Clears, evictions, and the passage of time.
LEMMA ClearKeeps ==
  ASSUME FetchInv,
         Clear \/ ClearEnds \/ (\E u \in Urls : Evict(u)) \/ Time \/ UNCHANGED vars
  PROVE  FetchInv'
<1> USE DEF FetchInv
<1>0. SharedType /\ NothingFromBefore
  OBVIOUS
<1>1. CASE Clear
  <2>1. /\ clearing' = TRUE /\ cleared' = cleared + 1 /\ cleared < MaxClears /\ kept = {}
        /\ UNCHANGED <<cached, kept, emptied, write, refreshing, task, at, loc>>
    BY <1>1 DEF Clear, store, background
  <2>2. cleared \in Nat /\ MaxClears \in Nat /\ emptied \in 0 .. MaxClears /\ emptied <= cleared
    BY FetchAssumption DEF SharedType, LockOK
  <2>3. cleared' \in 0 .. MaxClears /\ emptied' \in 0 .. MaxClears /\ emptied' <= cleared'
    BY <2>1, <2>2
  <2>4. SharedType'
    BY <2>1, <2>3 DEF SharedType
  <2>5. /\ \A r \in Requests : at'[r] # "store"
        /\ \A w \in Writes : write'[w] = None \/ ~write'[w].held
    BY <2>1 DEF LockOK
  <2>6. LockOK'
    BY <2>1, <2>3, <2>5 DEF LockOK
  <2> QED
    BY <2>1, <2>4, <2>6 DEF RequestsType, NothingFromBefore
<1>2. CASE /\ UNCHANGED <<cleared, kept, background, at, loc>> /\ clearing' \in BOOLEAN
           /\ clearing' => clearing
           /\ CacheKept /\ emptied' \in 0 .. MaxClears /\ emptied' <= cleared
  <2>1. SharedType' /\ LockOK'
    BY <1>2 DEF SharedType, LockOK, CacheKept, background
  <2> QED
    BY <1>2, <2>1 DEF RequestsType, CacheKept
<1>3. CASE ClearEnds
  <2>1. CASE UNCHANGED <<store, emptied>>
    <3>1. CacheKept
      BY <1>0, <2>1, SameCache DEF store
    <3> QED
      BY <1>2, <1>3, <2>1, <3>1 DEF ClearEnds, SharedType, LockOK
  <2>2. CASE Put([u \in Urls |-> None]) /\ emptied' = cleared
    <3>1. CacheKept
      BY <2>2 DEF Put, CacheKept, NothingFromBefore
    <3>2. cleared \in 0 .. MaxClears /\ MaxClears \in Nat
      BY FetchAssumption DEF SharedType
    <3>3. emptied' \in 0 .. MaxClears /\ emptied' <= cleared
      BY <2>2, <3>2
    <3>4. /\ UNCHANGED <<cleared, kept, background, at, loc>> /\ clearing' \in BOOLEAN
          /\ clearing' => clearing
      BY <1>3 DEF ClearEnds
    <3> QED
      BY <1>2, <3>1, <3>3, <3>4
  <2> QED
    BY <1>3, <2>1, <2>2 DEF ClearEnds
<1>4. ASSUME NEW u \in Urls, Evict(u) PROVE FetchInv'
  <2>1. CacheKept
    BY <1>0, <1>4, Dropped DEF Evict, lock
  <2> QED
    BY <1>2, <1>4, <2>1 DEF Evict, lock, SharedType, LockOK
<1>5. CASE Time \/ UNCHANGED vars
  <2>1. UNCHANGED <<store, lock, background, at, loc>>
    BY <1>5 DEF Time, vars
  <2>2. CacheKept
    BY <1>0, <2>1, SameCache DEF store, lock
  <2> QED
    BY <1>2, <2>1, <2>2 DEF lock, SharedType, LockOK
<1> QED
  BY <1>1, <1>3, <1>4, <1>5

\* The steps, by who takes them.
LEMMA Kinds ==
  ASSUME [Next]_vars
  PROVE  \/ \E r \in Requests : RequestStep(r)
         \/ \E w \in Writes : WriteAdmits(w) \/ WriteStores(w)
         \/ \E u \in Urls : RefreshEnds(u) \/ RefreshAdmits(u) \/ RefreshStores(u)
         \/ Clear \/ ClearEnds \/ (\E u \in Urls : Evict(u)) \/ Time \/ UNCHANGED vars
BY DEF Next, RequestStep

LEMMA InitInv ==
  ASSUME Init
  PROVE  FetchInv
<1>1. 0 \in 0 .. MaxClears
  BY FetchAssumption
<1>2. SharedType
  BY <1>1 DEF Init, SharedType
<1>3. LockOK
  BY DEF Init, LockOK
<1>4. NothingFromBefore
  BY DEF Init, NothingFromBefore
<1>5. Blank.want = None
  BY DEF Blank
<1>6. RequestsType
  BY <1>5, BlankType DEF Init, RequestsType, Where, Steps
<1> QED
  BY <1>2, <1>3, <1>4, <1>6 DEF FetchInv

LEMMA StepInv ==
  ASSUME FetchInv, [Next]_vars
  PROVE  FetchInv'
BY Kinds, EveryRequestGoes, EveryRequestTouches, RequestKeeps, WriteKeeps, RefreshKeeps, ClearKeeps

\* What is stored, where every request is and what it has on its stack, who holds the lock
\* of Keep, and which refreshes run agree in every state.
THEOREM FetchCorrect == Spec => []FetchInv
BY InitInv, StepInv, PTL DEF Spec

\* After a clear that succeeded nothing asked for before it is ever stored, for any number
\* of requests, streams, refreshes and clears.
THEOREM ClearedStaysClear == Spec => []NothingFromBefore
<1>1. FetchInv => NothingFromBefore
  BY DEF FetchInv
<1> QED
  BY <1>1, FetchCorrect, PTL

\* A caller that declared a body is given that body or an error, whatever redirects, peers,
\* revalidations and lost bodies there were on the way.
THEOREM DeclaredArrives == Spec => []DeclaredIsWhatArrives
<1>1. FetchInv => DeclaredIsWhatArrives
  BY DEF FetchInv, RequestsType, Where, DeclaredIsWhatArrives
<1> QED
  BY <1>1, FetchCorrect, PTL

\* No redirect, nor any chain of them, takes credentials to an origin they were not for.
THEOREM CredentialsStay == Spec => CredentialsStayHome
<1> DEFINE Stays ==
      \A r \in Requests :
        at[r] # "idle" /\ loc'[r].creds
          => loc[r].creds /\ Site[loc'[r].url] = Site[loc[r].url]
<1>1. FetchInv /\ [Next]_vars => [Stays]_vars
  <2> SUFFICES ASSUME FetchInv, [Next]_vars PROVE Stays \/ UNCHANGED vars
    OBVIOUS
  <2>1. CASE \E q \in Requests : RequestStep(q)
    <3>1. PICK q \in Requests : RequestStep(q)
      BY <2>1
    <3>2. Moved(q)
      BY <3>1, EveryRequestGoes DEF Goes
    <3> QED
      BY <3>2 DEF Moved
  <2>2. CASE \E w \in Writes : Over(w)
    BY <2>2, OverOK DEF FetchInv
  <2>3. CASE UNCHANGED loc
    BY <2>3
  <2> QED
    BY <2>1, <2>2, <2>3, Kinds
       DEF WriteAdmits, WriteStores, RefreshEnds, RefreshAdmits, RefreshStores, Clear, ClearEnds,
           Evict, Time
<1> QED
  BY <1>1, FetchCorrect, PTL DEF Spec, CredentialsStayHome
=============================================================================
