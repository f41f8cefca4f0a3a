-------------------------------- MODULE Proxy --------------------------------
(***************************************************************************)
(* The connections of the proxy: who is admitted, what a tunnel carries    *)
(* and where its requests may go, how a body is bounded, how a WebSocket   *)
(* is joined, and how a request that comes back to the proxy is stopped.   *)
(* crates/syndeo-proxy/src/main.rs, auth.rs, websocket.rs and stats.rs.    *)
(* What the fetch itself does is NetFetch; the browser, the origins and    *)
(* HTTP's parsing are external.  The requests a tunnel multiplexes share   *)
(* nothing here, so a connection has one at a time.                        *)
(***************************************************************************)

CONSTANTS
  Conns,    \* connections to the proxy's listener
  Sites,    \* hosts that are somewhere else
  Own,      \* the proxy's own address, written as one
  Alias,    \* a name that leads back to it
  Stats,    \* syndeo.local
  None      \* no tunnel, no target

Hosts == Sites \cup {Own, Alias, Stats}

Origins == [scheme : {"http", "https"}, host : Hosts]

ASSUME ProxyAssumption == None \notin Origins /\ Own \notin Sites /\ Alias \notin Sites

Requests == [form : {"connect", "absolute", "origin"}, to : Origins,
             cred : BOOLEAN, via : BOOLEAN]

VARIABLES
  auth,     \* whether the proxy was started with a credential (Proxy::auth)
  conn      \* each connection: its step, whose it is, its tunnel, whether the tunnel's
            \* CONNECT and its latest request had the credential, and the target

proxyVars == <<auth, conn>>

Closed == [step |-> "closed", by |-> "client", tunnel |-> None,
           opened |-> FALSE, cred |-> FALSE, target |-> None]

ProxyInit == auth \in BOOLEAN /\ conn = [c \in Conns |-> Closed]

Update(c, record) == conn' = [conn EXCEPT ![c] = record]

\* serve: a connection, of a client or of the proxy itself, to its own listener.
Accept(c) ==
  /\ conn[c].step = "closed"
  /\ Update(c, [Closed EXCEPT !.step = "open"])
  /\ UNCHANGED auth

\* Answered, and listened to for the next request.
Answered(c) ==
  [conn[c] EXCEPT !.step = IF conn[c].tunnel = None THEN "open" ELSE "inside",
                  !.target = IF conn[c].by = "proxy" THEN @ ELSE None]

-----------------------------------------------------------------------------
\* handle.

\* append_our_via.
AppendOurVia(r) == [r EXCEPT !.via = TRUE]

\* forwardable: what is sent on carries nothing of the connection it came by, the credential
\* least of all; and our Via.
Onward(target) ==
  AppendOurVia([form |-> "origin", to |-> target, cred |-> FALSE, via |-> FALSE])

\* What may be said on a connection: by a client anything; by the proxy what it sent on,
\* which another proxy between may have put in absolute form.
Says(c) ==
  IF conn[c].by = "client" THEN Requests
  ELSE {[Onward(conn[c].target) EXCEPT !.form = f] : f \in {"origin", "absolute"}}

\* Mutant: a connection that was admitted once is admitted from then on.
AdmitsConnection(c, r) == auth => r.cred \/ conn[c].cred

\* ProxyAuth::admits: each request answers for itself.
Admits(c, r) == auth => r.cred

\* handle: a request to the proxy itself.
Outside(c, r) == conn[c].step = "open" /\ r \in Says(c)

\* tunnel_service: a request inside a tunnel.
Inside(c, r) == conn[c].step = "inside" /\ r \in Requests

\* auth::required: 407, and closed if the request has a body.
Unauthorised(c, r) ==
  /\ Outside(c, r) /\ ~Admits(c, r)
  /\ Update(c, conn[c]) \/ Update(c, Closed)
  /\ UNCHANGED auth

\* via_names_us: one of the Via's entries, comments left out, is ours.
ViaNamesUs(r) == r.via

\* targets_this_proxy: the address written as one.
TargetsThisProxy(origin) == origin.host = Own

\* connect: 508 for one that has been here or names us; otherwise 200, and a tunnel whose
\* scheme its first byte will tell.
Connect(c, r) ==
  /\ Outside(c, r) /\ Admits(c, r) /\ r.form = "connect"
  /\ IF ViaNamesUs(r) \/ TargetsThisProxy(r.to) THEN Update(c, Answered(c))
     ELSE Update(c, [conn[c] EXCEPT !.step = "tunnel", !.tunnel = r.to, !.opened = r.cred])
  /\ UNCHANGED auth

-----------------------------------------------------------------------------
\* The tunnel.

\* tunnel_origin: the CONNECT's authority under the scheme that the tunnel turned out to carry.
TunnelOrigin(c, scheme) == [conn[c].tunnel EXCEPT !.scheme = scheme]

\* The first byte is TLS's or it is not.
FirstByte(c) ==
  /\ conn[c].step = "tunnel"
  /\ \/ Update(c, [conn[c] EXCEPT !.step = "handshake", !.tunnel = TunnelOrigin(c, "https")])
     \/ Update(c, [conn[c] EXCEPT !.step = "inside", !.tunnel = TunnelOrigin(c, "http")])
  /\ UNCHANGED auth

\* TlsAcceptor::accept, with the leaf for the host.
Handshake(c) ==
  /\ conn[c].step = "handshake"
  /\ Update(c, [conn[c] EXCEPT !.step = "inside"])
  /\ UNCHANGED auth

\* A silent tunnel's time is over, no leaf could be minted, the browser refused the leaf,
\* or either end of any connection is gone.
Hangup(c) ==
  /\ conn[c].step # "closed"
  /\ Update(c, Closed)
  /\ UNCHANGED auth

-----------------------------------------------------------------------------
\* forward.

\* same_origin: scheme, host and port after defaults.
SameOrigin(r, tunnel) == r.form = "absolute" /\ r.to = tunnel

\* target_url: a tunnel's requests are for its origin; an absolute URL is the target;
\* otherwise the Host header names it.
Target(r, tunnel) ==
  IF tunnel # None THEN IF r.form = "origin" \/ SameOrigin(r, tunnel) THEN tunnel ELSE None
  ELSE IF r.form = "absolute" THEN r.to
  ELSE [scheme |-> "http", host |-> r.to.host]

\* stats::intercept.
Intercepted(origin) == origin.host = Stats

\* Answered without asking anyone: it has been here, it is nobody's, it is the statistics,
\* it was said to the proxy as if to a website, or it names the proxy.
AnsweredHere(r, tunnel) ==
  LET target == Target(r, tunnel) IN
  \/ ViaNamesUs(r) \/ target = None
  \/ Intercepted(target) \/ (tunnel = None /\ r.form = "origin") \/ TargetsThisProxy(target)

\* websocket::upgrading: no handshake, one, or one that is refused.
Upgrading == {"No", "WebSocket", "Refused"}

\* Up to the first wait: answered here; a WebSocket to be opened; one that is no handshake,
\* refused and the connection closed; or a body to collect.
Forward(c, r) ==
  /\ Inside(c, r) \/ (Outside(c, r) /\ Admits(c, r) /\ r.form # "connect")
  /\ LET asked == [conn[c] EXCEPT !.target = Target(r, conn[c].tunnel), !.cred = r.cred]
     IN IF AnsweredHere(r, conn[c].tunnel)
        THEN Update(c, [Answered(c) EXCEPT !.cred = r.cred])
        ELSE \E upgrading \in Upgrading :
               Update(c, CASE upgrading = "WebSocket" -> [asked EXCEPT !.step = "dial"]
                           [] upgrading = "No" -> [asked EXCEPT !.step = "body"]
                           [] upgrading = "Refused" -> Closed)
  /\ UNCHANGED auth

\* The body, as declared and as it comes: all of it, too long and the connection closed, or
\* broken off.
Collect(c) ==
  /\ conn[c].step = "body"
  /\ \/ Update(c, [conn[c] EXCEPT !.step = "fetch"])
     \/ Update(c, Answered(c))
     \/ Update(c, Closed)
  /\ UNCHANGED auth

\* Net::fetch answered, or failed (502).
Respond(c) ==
  /\ conn[c].step = "fetch"
  /\ Update(c, Answered(c))
  /\ UNCHANGED auth

\* websocket::open, reach: the origin cannot be reached (502), does not answer in time
\* (504), does not switch, or its 101 is not for this handshake's key (switched).
NotSwitched(c) ==
  /\ conn[c].step = "dial"
  /\ Update(c, Answered(c))
  /\ UNCHANGED auth

\* A 101 for this handshake's key joins the two connections.
Switch(c) ==
  /\ conn[c].step = "dial"
  /\ Update(c, [conn[c] EXCEPT !.step = "joined"])
  /\ UNCHANGED auth

\* The target's name leads back to the proxy, which so becomes its own client.
Reach(c, d) ==
  /\ conn[c].step \in {"fetch", "dial"} /\ conn[c].target.host \in {Own, Alias}
  /\ conn[d].step = "closed"
  /\ Update(d, [Closed EXCEPT !.step = "open", !.by = "proxy", !.target = conn[c].target])
  /\ UNCHANGED auth

ProxyNext ==
  \E c \in Conns :
    \/ Accept(c) \/ FirstByte(c) \/ Handshake(c) \/ Hangup(c)
    \/ Collect(c) \/ Respond(c) \/ Switch(c) \/ NotSwitched(c)
    \/ \E r \in Requests : Unauthorised(c, r) \/ Connect(c, r) \/ Forward(c, r)
    \/ \E d \in Conns : Reach(c, d)

ProxySpec == ProxyInit /\ [][ProxyNext]_proxyVars

-----------------------------------------------------------------------------
Steps == {"closed", "open", "tunnel", "handshake", "inside", "body", "fetch", "dial", "joined"}

Records == [step : Steps, by : {"client", "proxy"}, tunnel : Origins \cup {None},
            opened : BOOLEAN, cred : BOOLEAN, target : Origins \cup {None}]

Asking == {"body", "fetch", "dial", "joined"}

\* Nothing is asked for anyone who did not show the credential the proxy was started with:
\* outside a tunnel this very request did, though the connection carried admitted requests
\* before it; inside, the CONNECT did, and the request is for the origin that was let in.
OnlyAdmittedAsk ==
  \A c \in Conns :
    conn[c].step \in Asking =>
      IF conn[c].tunnel = None THEN auth => conn[c].cred
      ELSE /\ auth => conn[c].opened
           /\ conn[c].target = conn[c].tunnel

\* A request that comes back to the proxy, by whatever name, asks nobody again and opens
\* no tunnel: a loop costs one hop.  And nothing asks for the proxy's own address.
LoopsStop ==
  \A c \in Conns :
    /\ conn[c].by = "proxy" => conn[c].step \in {"closed", "open"}
    /\ conn[c].step \in Asking => conn[c].target.host # Own
=============================================================================
