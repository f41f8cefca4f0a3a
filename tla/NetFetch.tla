------------------------------- MODULE NetFetch -------------------------------
(***************************************************************************)
(* Net::fetch: a request as it goes through the cache, the peers and the   *)
(* origin, beside background refreshes, bodies whose entries are still     *)
(* being written (Landing), and clears of the cache (Keep).                *)
(* crates/syndeo-net/src/fetch.rs, over Http3.  The cache is what its      *)
(* callers see of it: one response per address, changed at once.  What is  *)
(* behind that is CacheStore's.                                            *)
(***************************************************************************)
EXTENDS Http3, FiniteSets

CONSTANTS
  Requests,      \* tasks that call fetch
  Writes,        \* blocking threads that write the entries of streamed bodies
  Urls,          \* addresses: normalised URLs with their partition
  Site,          \* the origin of each
  Bodies,        \* bodies, each named by the one hash that it satisfies
  None,          \* no body, no address, no entry, no response
  Elsewhere,     \* a Location that cannot be followed
  Asks,          \* what callers ask for there: method, declared body, mode, credentials
  Answers,       \* what the origin may answer at each address
  Speaks,        \* the origins that say anything of HTTP/3
  PublicOnly,    \* NetConfig::cache_public_addresses_only
  MaxRedirects,  \* NetConfig::max_redirects
  MaxClears      \* bound on clears of the cache

Ask ==
  [method : {"GET", "POST"}, want : Bodies \cup {None}, mode : {"follow", "manual"},
   creds : BOOLEAN]

Response == [body : Bodies, to : Urls \cup {None, Elsewhere}, same : BOOLEAN]

Entry == [resp : Response, since : 0 .. MaxClears]

Refresh ==
  [want : Bodies \cup {None}, mode : {"follow", "manual"}, since : 0 .. MaxClears,
   rec : Response \cup {None}]

ASSUME FetchAssumption ==
  /\ Site \in [Urls -> Sites]
  /\ Asks \in [Urls -> SUBSET Ask]
  /\ Answers \in [Urls -> SUBSET Response]
  /\ Speaks \subseteq Sites
  /\ PublicOnly \in BOOLEAN
  /\ MaxRedirects \in Nat /\ MaxClears \in Nat
  /\ Requests \cap Writes = {} /\ Requests \cap Urls = {} /\ Writes \cap Urls = {}
  /\ None \notin Bodies /\ None \notin Urls /\ None \notin Response
  /\ None \notin Entry /\ None \notin Refresh

VARIABLES
  cached,      \* the cache: an entry or None per address
  offered,     \* contents peers may ask for
  cleared,     \* Net::cleared, how often the cache was cleared
  clearing,    \* its lock is held exclusively
  kept,        \* its lock is held shared, by these
  emptied,     \* history: the count at the last clear that succeeded
  write,       \* Landing::pending: the entries being written
  refreshing,  \* Net::refreshing
  task,        \* the refresh of an address that is running
  at, loc      \* where each request is, and what it has on its stack

store == <<cached, offered>>
lock == <<cleared, clearing, kept, emptied>>
background == <<write, refreshing, task>>
vars == <<http3, store, lock, background, at, loc>>

Steps == {"idle", "settle", "begin", "check", "peers", "cond", "confirm", "accept", "store",
          "origin", "quic", "tcp", "unsafe", "streaming", "done"}

Blank ==
  [method |-> "GET", want |-> None, mode |-> "follow", creds |-> FALSE, url |-> None,
   visited |-> {}, waits |-> {}, since |-> 0, rec |-> None, how |-> "serve", public |-> FALSE]

Init ==
  /\ Http3Init
  /\ cached = [u \in Urls |-> None] /\ offered = {}
  /\ cleared = 0 /\ clearing = FALSE /\ kept = {} /\ emptied = 0
  /\ write = [w \in Writes |-> None]
  /\ refreshing = {} /\ task = [u \in Urls |-> None]
  /\ at = [r \in Requests |-> "idle"] /\ loc = [r \in Requests |-> Blank]

-----------------------------------------------------------------------------
\* What the cache does for its callers.

Held(c) == {c[u].resp.body : u \in {v \in Urls : c[v] # None}}

Put(c) == cached' = c /\ offered' = offered \cap Held(c)

\* Cache::store, which may also refuse what the policy does not let it keep.
StoreAt(u, resp, since) ==
  \/ Put([cached EXCEPT ![u] = [resp |-> resp, since |-> since]])
  \/ UNCHANGED store

\* A store followed by the grant to peers of a body that was checked.
StoreVerified(u, resp, since) ==
  \/ LET c == [cached EXCEPT ![u] = [resp |-> resp, since |-> since]]
     IN cached' = c /\ offered' = (offered \cap Held(c)) \cup {resp.body}
  \/ UNCHANGED store

\* Landing::settled, when it is called.
WritesFor(u) == {w \in Writes : write[w] # None /\ write[w].url = u}

\* Mutant: only the address the response came from is looked at.
AdmitsWhenever(since, public) == public \/ ~PublicOnly

\* Keep::admits: may a response be stored that was asked for when the count was `since`?
Admits(since, public) == (public \/ ~PublicOnly) /\ since = cleared

\* is_hop: a redirect that fetch will follow, or try to.
IsHop(mode, resp) == mode = "follow" /\ resp.to # None

\* Mutant: no redirect is checked, whether or not it will be followed.
SatisfiesUnlessRedirect(want, mode, resp) == want = None \/ resp.to # None \/ resp.body = want

\* stored_satisfies, and the same of what the origin sent: a redirect on the way is not
\* what was declared, one that is the answer must be.
Satisfies(want, mode, resp) == want = None \/ IsHop(mode, resp) \/ resp.body = want

-----------------------------------------------------------------------------
\* The redirects of fetch, and where a request goes next.

Goto(r, step, l) == at' = [at EXCEPT ![r] = step] /\ loc' = [loc EXCEPT ![r] = l]

\* What a caller asked for, and got.
Given(want, resp) == [Blank EXCEPT !.want = want, !.rec = resp]

\* The answer is given.
Answer(r, resp) == Goto(r, "done", Given(loc[r].want, resp))

Fails(r) == Answer(r, None)

\* The origin is asked for the whole of it.
FromOrigin(r) == Goto(r, "origin", [loc[r] EXCEPT !.rec = None, !.how = "serve"])

\* Mutant: headers are passed on as they are.
ForwardableAll(creds, from, to) == creds

\* forwardable_headers: credentials go on only to the origin they were for.
Forwardable(creds, from, to) == creds /\ Site[from] = Site[to]

\* What a request has on its stack as fetch_once begins, and what it waits for.
Starting(method, want, mode, creds, url, visited) ==
  [Blank EXCEPT !.method = method, !.want = want, !.mode = mode, !.creds = creds, !.url = url,
                !.visited = visited, !.waits = WritesFor(url)]

\* The same, where a redirect leads.
Onward(l, resp) ==
  Starting(IF resp.same THEN l.method ELSE "GET", l.want, l.mode,
           Forwardable(l.creds, l.url, resp.to), resp.to, l.visited \cup {resp.to})

\* Where a redirect leads: on, to the caller as it is, or to an error once there were too
\* many, one comes round again, or there was a declaration for it to keep.
WhereTo(l, resp) ==
  IF Cardinality(l.visited) > MaxRedirects \/ resp.to \in l.visited THEN "error"
  ELSE IF resp.to # Elsewhere THEN "on"
  ELSE IF l.want # None THEN "error" ELSE "caller"

\* The body of the loop in fetch after fetch_once: the response is the answer, or an
\* error, or leads on to the next address, its own body dropped.  An answer whose body
\* is still arriving, and may be stored, is streamed.
Respond(r, resp, streamed) ==
  LET l == loc[r]
  IN \/ ~IsHop(l.mode, resp) /\ ~streamed /\ Answer(r, resp)
     \/ ~IsHop(l.mode, resp) /\ streamed /\ Goto(r, "streaming", [l EXCEPT !.rec = resp])
     \/ /\ IsHop(l.mode, resp)
        /\ \/ WhereTo(l, resp) = "error" /\ Fails(r)
           \/ WhereTo(l, resp) = "caller" /\ Answer(r, resp)
           \/ /\ WhereTo(l, resp) = "on"
              /\ Goto(r, "settle", Onward(l, resp))

\* A caller asks.  A declaration with another method than GET is refused.
Call(r) ==
  /\ at[r] = "idle"
  /\ \E u \in Urls : \E a \in Asks[u] :
       /\ a.want # None => a.method = "GET"
       /\ Goto(r, "settle", Starting(a.method, a.want, a.mode, a.creds, u, {u}))
  /\ UNCHANGED <<http3, store, lock, background>>

\* Mutant: it waits until nothing at all is being written for the address.
SettledWhenQuiet(r) ==
  /\ at[r] = "settle" /\ WritesFor(loc[r].url) = {} /\ ~clearing
  /\ Goto(r, "begin", [loc[r] EXCEPT !.since = cleared])
  /\ UNCHANGED <<http3, store, lock, background>>

\* fetch_once: the entries being written for the address have landed; what is stored from
\* here on was asked for now.
Settled(r) ==
  /\ at[r] = "settle" /\ loc[r].waits = {} /\ ~clearing
  /\ Goto(r, "begin", [loc[r] EXCEPT !.since = cleared])
  /\ UNCHANGED <<http3, store, lock, background>>

\* An unsafe method: invalidate, then ask, over TCP and without storing.
Invalidate(r) ==
  /\ at[r] = "begin" /\ loc[r].method = "POST"
  /\ Put([cached EXCEPT ![loc[r].url] = None])
  /\ Goto(r, "unsafe", loc[r])
  /\ UNCHANGED <<http3, lock, background>>

UnsafeAnswer(r) ==
  /\ at[r] = "unsafe"
  /\ Fails(r) \/ \E resp \in Answers[loc[r].url] : Respond(r, resp, FALSE)
  /\ UNCHANGED <<http3, store, lock, background>>

\* The cache is looked up: which of its answers it gives is the policy's.
Lookup(r) ==
  /\ at[r] = "begin" /\ loc[r].method = "GET"
  /\ \/ Goto(r, IF loc[r].want = None THEN "origin" ELSE "peers", loc[r])
     \/ /\ cached[loc[r].url] # None
        /\ \E how \in {"serve", "refresh", "revalidate"} :
             Goto(r, "check", [loc[r] EXCEPT !.rec = cached[loc[r].url].resp, !.how = how])
  /\ UNCHANGED <<http3, store, lock, background>>

\* try_peers: what a peer sends is checked before it is used, and not kept.
TryPeers(r) ==
  /\ at[r] = "peers"
  /\ \/ FromOrigin(r)
     \/ Answer(r, [body |-> loc[r].want, to |-> None, same |-> FALSE])
  /\ UNCHANGED <<http3, store, lock, background>>

\* spawn_refresh, unless one is running for the entry.
SpawnRefresh(l) ==
  IF l.url \in refreshing THEN UNCHANGED background
  ELSE /\ refreshing' = refreshing \cup {l.url}
       /\ task' = [task EXCEPT ![l.url] = [want |-> l.want, mode |-> l.mode, since |-> l.since,
                                           rec |-> None]]
       /\ UNCHANGED write

\* stored_satisfies, and what follows when it does: a body that was declared and matches
\* is shared with peers if it is still held; one that does not is dropped if it is still
\* the one stored, and the origin is asked.
Check(r) ==
  LET l == loc[r]
  IN /\ at[r] = "check"
     /\ IF Satisfies(l.want, l.mode, l.rec)
        THEN /\ offered' = IF l.want # None /\ ~IsHop(l.mode, l.rec)
                           THEN offered \cup ({l.rec.body} \cap Held(cached)) ELSE offered
             /\ UNCHANGED cached
             /\ IF l.how = "revalidate" THEN Goto(r, "cond", l) ELSE Respond(r, l.rec, FALSE)
             /\ IF l.how = "refresh" THEN SpawnRefresh(l) ELSE UNCHANGED background
        ELSE /\ IF cached[l.url] # None /\ cached[l.url].resp.body = l.rec.body
                THEN Put([cached EXCEPT ![l.url] = None]) ELSE UNCHANGED store
             /\ FromOrigin(r)
             /\ UNCHANGED background
     /\ UNCHANGED <<http3, lock>>

-----------------------------------------------------------------------------
\* Revalidation.

\* What the origin said, as accept_declared and store are given it.
Got(l, resp, public) == [l EXCEPT !.rec = resp, !.public = public, !.how = "serve"]

\* The conditional request, over TCP: confirmed, answered in full, or failed.
Conditional(r) ==
  LET l == loc[r]
  IN /\ at[r] = "cond"
     /\ \/ /\ ~clearing
           /\ \E public \in BOOLEAN :
                IF Admits(l.since, public)
                THEN kept' = kept \cup {r} /\ Goto(r, "confirm", l)
                ELSE UNCHANGED kept /\ Respond(r, l.rec, FALSE)
        \/ /\ \E resp \in Answers[l.url], public \in BOOLEAN :
                Goto(r, "accept", Got(l, resp, public))
           /\ UNCHANGED kept
        \/ (Fails(r) \/ Respond(r, l.rec, FALSE)) /\ UNCHANGED kept
     /\ UNCHANGED <<http3, store, cleared, clearing, emptied, background>>

\* record_not_modified, under the lock: the entry as it is now is served, or the one that
\* was looked up if it is gone; a body that was lost is fetched again, once and without
\* a validator (refetch_lost), so that "unchanged" is then a failure.
Confirm(r) ==
  LET l == loc[r]
  IN /\ at[r] = "confirm"
     /\ kept' = kept \ {r}
     /\ \/ /\ cached[l.url] # None
           /\ Goto(r, "check", [l EXCEPT !.rec = cached[l.url].resp, !.how = "serve"])
           /\ UNCHANGED store
        \/ cached[l.url] = None /\ Respond(r, l.rec, FALSE) /\ UNCHANGED store
        \/ /\ cached[l.url] # None
           /\ Put([cached EXCEPT ![l.url] = None])
           /\ FromOrigin(r)
        \/ Fails(r) /\ UNCHANGED store
     /\ UNCHANGED <<http3, cleared, clearing, emptied, background>>

-----------------------------------------------------------------------------
\* The origin.

\* origin_any: over QUIC where the origin advertised it and has not failed of late.
OriginAny(r) ==
  LET s == Site[loc[r].url]
  IN /\ at[r] = "origin"
     /\ known' = Looked(s)
     /\ Goto(r, IF Quic /\ ShouldTry(s) THEN "quic" ELSE "tcp", loc[r])
     /\ UNCHANGED <<open, now, failedAt, store, lock, background>>

\* collect_body: all of it, unless it is cut short or too large.
Collected(r, resp, public) ==
  \/ Fails(r)
  \/ Goto(r, "accept", Got(loc[r], resp, public))

\* fetch_from_origin: the response is kept whole where a body was declared, and streamed
\* to the caller otherwise, into the cache too if it may be kept.
Answered(r, resp, public) ==
  \/ loc[r].want # None /\ Collected(r, resp, public)
  \/ /\ loc[r].want = None /\ ~clearing
     /\ Respond(r, resp, Admits(loc[r].since, public))

\* QuicClient::request: an answer, or a failure, after which the request goes over TCP
\* unless the origin may have acted on it.
QuicRequest(r) ==
  LET s == Site[loc[r].url]
  IN /\ at[r] = "quic"
     /\ \/ /\ \E resp \in Answers[loc[r].url], public \in BOOLEAN : Answered(r, resp, public)
           /\ open' = Connected(s)
           /\ UNCHANGED <<known, failedAt>>
        \/ \E reached \in {"nothing", "request"} :
             /\ s \in open => reached = "request"
             /\ known' = CoolDown(s) /\ failedAt' = [failedAt EXCEPT ![s] = now]
             /\ open' = open \ {s}
             /\ IF MayRetryOverTcp(loc[r].method, reached) THEN Goto(r, "tcp", loc[r]) ELSE Fails(r)
     /\ UNCHANGED <<now, store, lock, background>>

\* origin_headers, and what the response says about HTTP/3.
TcpRequest(r) ==
  LET s == Site[loc[r].url]
  IN /\ at[r] = "tcp"
     /\ \/ \E field \in IF s \in Speaks THEN Fields ELSE {"none"}, resp \in Answers[loc[r].url], public \in BOOLEAN :
             Answered(r, resp, public) /\ known' = Observed(s, field)
        \/ Fails(r) /\ UNCHANGED known
     /\ UNCHANGED <<open, now, failedAt, store, lock, background>>

\* accept_declared, and the whole answer to a conditional request: what does not match
\* the declaration is an error; the rest is stored if it may be.
Accept(r) ==
  LET l == loc[r]
  IN /\ at[r] = "accept"
     /\ \/ ~Satisfies(l.want, l.mode, l.rec) /\ Fails(r) /\ UNCHANGED kept
        \/ /\ Satisfies(l.want, l.mode, l.rec) /\ ~clearing
           /\ IF Admits(l.since, l.public) THEN kept' = kept \cup {r} /\ Goto(r, "store", l)
              ELSE UNCHANGED kept /\ Respond(r, l.rec, FALSE)
     /\ UNCHANGED <<http3, store, cleared, clearing, emptied, background>>

\* Net::store, under the lock, and the grant to peers of a body that was declared.
Store(r) ==
  LET l == loc[r]
  IN /\ at[r] = "store"
     /\ kept' = kept \ {r}
     /\ IF l.want # None /\ ~IsHop(l.mode, l.rec) THEN StoreVerified(l.url, l.rec, l.since)
        ELSE StoreAt(l.url, l.rec, l.since)
     /\ Respond(r, l.rec, FALSE)
     /\ UNCHANGED <<http3, cleared, clearing, emptied, background>>

-----------------------------------------------------------------------------
\* Streamed bodies.

\* land: the entry is written by a thread of its own.
Land(l) ==
  \E w \in Writes :
    /\ write[w] = None
    /\ write' = [write EXCEPT ![w] = [url |-> l.url, resp |-> l.rec, since |-> l.since,
                                      held |-> FALSE]]

\* Tee: the file of a body that outgrew what is cached, could not be written or was cut
\* short is given up, and the transfer goes on.
TeeDiscards == UNCHANGED write

\* stream_body: the last byte went to the caller, or the caller dropped it.
StreamEnds(r) ==
  /\ at[r] = "streaming"
  /\ Answer(r, loc[r].rec)
  /\ Land(loc[r]) \/ TeeDiscards
  /\ UNCHANGED <<http3, store, lock, refreshing, task>>

\* The write is over, however it went: whoever waits for it goes on (Landed::drop).
Over(w) ==
  /\ write' = [write EXCEPT ![w] = None]
  /\ loc' = [r \in Requests |-> [loc[r] EXCEPT !.waits = @ \ {w}]]
  /\ UNCHANGED at

\* write_streamed asks again whether it may store what arrived.
WriteAdmits(w) ==
  /\ write[w] # None /\ ~write[w].held /\ ~clearing
  /\ IF write[w].since = cleared
     THEN /\ kept' = kept \cup {w}
          /\ write' = [write EXCEPT ![w].held = TRUE]
          /\ UNCHANGED <<at, loc>>
     ELSE Over(w) /\ UNCHANGED kept
  /\ UNCHANGED <<http3, store, cleared, clearing, emptied, refreshing, task>>

WriteStores(w) ==
  /\ write[w] # None /\ write[w].held
  /\ kept' = kept \ {w}
  /\ StoreAt(write[w].url, write[w].resp, write[w].since)
  /\ Over(w)
  /\ UNCHANGED <<http3, cleared, clearing, emptied, refreshing, task>>

-----------------------------------------------------------------------------
\* Background refreshes.

RefreshOver(u) ==
  /\ refreshing' = refreshing \ {u}
  /\ task' = [task EXCEPT ![u] = None]

\* refresh_entry: the origin fails, or answers what may not be kept.
RefreshEnds(u) ==
  /\ task[u] # None /\ u \notin kept
  /\ RefreshOver(u)
  /\ UNCHANGED <<http3, store, lock, write, at, loc>>

\* It answers what may be: the entry is confirmed, or replaced unless it is not what was
\* declared.
RefreshAdmits(u) ==
  /\ task[u] # None /\ u \notin kept /\ ~clearing
  /\ task[u].since = cleared
  /\ \E resp \in Answers[u] \cup {None} : task' = [task EXCEPT ![u].rec = resp]
  /\ kept' = kept \cup {u}
  /\ UNCHANGED <<http3, store, cleared, clearing, emptied, write, refreshing, at, loc>>

RefreshStores(u) ==
  LET t == task[u]
  IN /\ u \in kept
     /\ kept' = kept \ {u}
     /\ \/ t.rec = None /\ UNCHANGED store
        \/ t.rec = None /\ Put([cached EXCEPT ![u] = None])
        \/ /\ t.rec # None
           /\ IF ~Satisfies(t.want, t.mode, t.rec) THEN UNCHANGED store
              ELSE IF t.want # None /\ ~IsHop(t.mode, t.rec)
                   THEN StoreVerified(u, t.rec, t.since) ELSE StoreAt(u, t.rec, t.since)
     /\ RefreshOver(u)
     /\ UNCHANGED <<http3, cleared, clearing, emptied, write, at, loc>>

-----------------------------------------------------------------------------
\* Clears, and what else empties the cache.

\* clear_cache: the count goes up under the lock, held until the cache is empty, or the
\* clear has failed.
Clear ==
  /\ cleared < MaxClears /\ ~clearing /\ kept = {}
  /\ clearing' = TRUE /\ cleared' = cleared + 1
  /\ UNCHANGED <<http3, store, kept, emptied, background, at, loc>>

ClearEnds ==
  /\ clearing /\ clearing' = FALSE
  /\ \/ Put([u \in Urls |-> None]) /\ emptied' = cleared
     \/ UNCHANGED <<store, emptied>>
  /\ UNCHANGED <<http3, cleared, kept, background, at, loc>>

\* The cache's own eviction.
Evict(u) ==
  /\ cached[u] # None
  /\ Put([cached EXCEPT ![u] = None])
  /\ UNCHANGED <<http3, lock, background, at, loc>>

Return(r) ==
  /\ at[r] = "done"
  /\ Goto(r, "idle", Blank)
  /\ UNCHANGED <<http3, store, lock, background>>

Time == Tick /\ UNCHANGED <<store, lock, background, at, loc>>

Next ==
  \/ \E r \in Requests :
       \/ Call(r) \/ Settled(r) \/ Invalidate(r) \/ UnsafeAnswer(r) \/ Lookup(r)
       \/ TryPeers(r) \/ Check(r) \/ Conditional(r) \/ Confirm(r) \/ OriginAny(r)
       \/ QuicRequest(r) \/ TcpRequest(r) \/ Accept(r) \/ Store(r) \/ StreamEnds(r)
       \/ Return(r)
  \/ \E w \in Writes : WriteAdmits(w) \/ WriteStores(w)
  \/ \E u \in Urls : RefreshEnds(u) \/ RefreshAdmits(u) \/ RefreshStores(u) \/ Evict(u)
  \/ Clear \/ ClearEnds \/ Time

Spec == Init /\ [][Next]_vars

\* A request that waits goes on when it can; threads that write entries and the clear
\* keep taking their steps.  Nothing is assumed of origins, peers or callers.
FairSpec ==
  /\ Spec
  /\ \A r \in Requests : WF_vars(Settled(r))
  /\ \A w \in Writes : WF_vars(WriteAdmits(w) \/ WriteStores(w))
  /\ WF_vars(ClearEnds)

-----------------------------------------------------------------------------
Locals ==
  [method : {"GET", "POST"}, want : Bodies \cup {None}, mode : {"follow", "manual"},
   creds : BOOLEAN, url : Urls \cup {None}, visited : SUBSET Urls, waits : SUBSET Writes,
   since : 0 .. MaxClears, rec : Response \cup {None},
   how : {"serve", "refresh", "revalidate"}, public : BOOLEAN]

\* A clear that succeeded leaves nothing behind, then or later: whatever is stored was
\* asked for after it, however long its answer was on the way, and whichever of a body
\* as it streams, a whole one, a revalidation or a refresh stores it.
NothingFromBefore == \A u \in Urls : cached[u] # None => cached[u].since >= emptied

\* A caller that declared what the bytes must be gets those bytes or an error, whether they
\* come from the cache, from a revalidation that races with a store, from a peer, from the
\* origin or from where a redirect leads; and it is never handed a body that is still
\* arriving (the assertion in stream_body).
DeclaredIsWhatArrives ==
  \A r \in Requests :
    loc[r].want # None =>
      /\ at[r] # "streaming"
      /\ at[r] = "done" /\ loc[r].rec # None => loc[r].rec.body = loc[r].want

\* A redirect to another origin does not carry the credentials that were for the first,
\* nor does one back to it.
CredentialsStayHome ==
  [][\A r \in Requests :
       at[r] # "idle" /\ loc'[r].creds
         => loc[r].creds /\ Site[loc'[r].url] = Site[loc[r].url]]_vars

\* Nobody waits for ever for an entry that is being written, whether it is written, may
\* not be stored any more, or fails.
SettlesEventually == \A r \in Requests : at[r] = "settle" ~> at[r] # "settle"

=============================================================================
