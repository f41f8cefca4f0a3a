----------------------------- MODULE ProxyProofs -----------------------------
(***************************************************************************)
(* The proxy, for any number of connections and hosts: who is asked for,   *)
(* and how a loop ends.  Its authority, for any number of runs that are    *)
(* killed: the two files agree.  The example tools, for any number of      *)
(* runs that seed them: they appear whole.  The processes: an owner and    *)
(* its proxy, for any number of questions; any number of shells on a home; *)
(* and a fetch over the network process's socket, of any length.           *)
(***************************************************************************)
EXTENDS Proxy, Authority, Tools, Owner, Supervisor, NetService, Integers, TLAPS

\* A connection: inside a tunnel, the CONNECT was admitted, and what is asked is for its
\* origin; outside, the request was; and the proxy is its own client no further than asking.
Fine(k) ==
  /\ k \in Records
  /\ k.tunnel # None /\ auth => k.opened
  /\ k.step \in {"tunnel", "handshake", "inside"} => k.tunnel # None
  /\ k.step \in Asking =>
       /\ k.target # None /\ k.target.host # Own
       /\ k.tunnel # None => k.target = k.tunnel
       /\ k.tunnel = None /\ auth => k.cred
  /\ k.by = "proxy" => /\ k.step \in {"closed", "open"}
                       /\ k.target # None /\ k.tunnel = None

ProxyInv == auth \in BOOLEAN /\ conn \in [Conns -> Records] /\ \A c \in Conns : Fine(conn[c])

LEMMA UpdateOK ==
  ASSUME ProxyInv, NEW c \in Conns, NEW k, Fine(k), Update(c, k), UNCHANGED auth
  PROVE  ProxyInv'
<1>1. k \in Records
  BY DEF Fine
<1>2. conn' \in [Conns -> Records]
  BY <1>1 DEF ProxyInv, Update
<1>3. \A d \in Conns : conn'[d] = k \/ conn'[d] = conn[d]
  BY DEF ProxyInv, Update
<1> QED
  BY <1>2, <1>3 DEF ProxyInv, Fine

LEMMA ClosedOK == Fine(Closed)
<1>1. Closed.step = "closed" /\ Closed.tunnel = None /\ Closed.by = "client"
  BY DEF Closed
<1>2. Closed \in Records
  BY DEF Closed, Records, Steps
<1> QED
  BY <1>1, <1>2 DEF Fine, Asking

\* A connection that goes on, and otherwise stays as it is.
LEMMA OnOK ==
  ASSUME NEW k \in Records, NEW next \in Steps
  PROVE  /\ [k EXCEPT !.step = next] \in Records /\ [k EXCEPT !.step = next].step = next
         /\ [k EXCEPT !.step = next].by = k.by /\ [k EXCEPT !.step = next].tunnel = k.tunnel
         /\ [k EXCEPT !.step = next].target = k.target
         /\ [k EXCEPT !.step = next].opened = k.opened /\ [k EXCEPT !.step = next].cred = k.cred
<1> DEFINE m == [k EXCEPT !.step = next]
<1>1. /\ m \in Records /\ m.step = next /\ m.by = k.by /\ m.tunnel = k.tunnel
      /\ m.target = k.target
  BY DEF Records
<1>2. m.opened = k.opened
  BY DEF Records
<1>3. m.cred = k.cred
  BY DEF Records
<1> QED
  BY <1>1, <1>2, <1>3

\* A connection that waits for its next request.
LEMMA AnsweredOK ==
  ASSUME ProxyInv, NEW c \in Conns
  PROVE  /\ Fine(Answered(c)) /\ Answered(c).by = conn[c].by
         /\ Answered(c).step \in {"open", "inside"}
<1> DEFINE k == conn[c]
           m == Answered(c)
           next == IF k.tunnel = None THEN "open" ELSE "inside"
           target == IF k.by = "proxy" THEN k.target ELSE None
<1>1. k \in Records /\ Fine(k)
  BY DEF ProxyInv
<1>2. m = [k EXCEPT !.step = next, !.target = target]
  BY DEF Answered
<1>3. next \in Steps /\ target \in Origins \cup {None}
  BY <1>1 DEF Steps, Records
<1>4. /\ m \in Records /\ m.step = next /\ m.by = k.by /\ m.tunnel = k.tunnel
      /\ m.target = target
  BY <1>1, <1>2, <1>3 DEF Records
<1>5. m.opened = k.opened
  BY <1>1, <1>2 DEF Records
<1>6. m.step \in {"open", "inside"} /\ (m.step = "inside" => m.tunnel # None)
  BY <1>4
<1>7. m.by = "proxy" => m.step \in {"closed", "open"} /\ m.target # None /\ m.tunnel = None
  BY <1>1, <1>4 DEF Fine
<1>8. m.tunnel # None /\ auth => m.opened
  BY <1>1, <1>4, <1>5 DEF Fine
<1> HIDE DEF m
<1>9. Fine(m)
  BY <1>4, <1>6, <1>7, <1>8 DEF Fine, Asking
<1> QED
  BY <1>4, <1>6, <1>9 DEF m

\* What may be said on a connection; the proxy, which sent it on, says that it has been here.
LEMMA SaysOK ==
  ASSUME ProxyInv, NEW c \in Conns, NEW r \in Says(c)
  PROVE  /\ conn[c].by = "client" => r \in Requests
         /\ conn[c].by = "proxy" => ViaNamesUs(r) /\ r.form # "connect"
<1>1. CASE conn[c].by = "client"
  BY <1>1 DEF Says
<1>2. CASE conn[c].by # "client"
  <2> DEFINE target == conn[c].target
             plain == [form |-> "origin", to |-> target, cred |-> FALSE, via |-> FALSE]
             R == [form : {"origin", "absolute"}, to : {target}, cred : {FALSE}, via : BOOLEAN]
  <2>1. PICK f \in {"origin", "absolute"} : r = [Onward(target) EXCEPT !.form = f]
    BY <1>2 DEF Says
  <2>2. plain \in R
    OBVIOUS
  <2>3. Onward(target) = [plain EXCEPT !.via = TRUE]
    BY DEF Onward, AppendOurVia
  <2> HIDE DEF plain
  <2>4. Onward(target) \in R /\ Onward(target).via = TRUE
    BY <2>2, <2>3
  <2>5. r.form = f
    BY <2>1, <2>4
  <2>6. r.via = TRUE
    BY <2>1, <2>4
  <2> QED
    BY <1>2, <2>5, <2>6 DEF ViaNamesUs
<1> QED
  BY <1>1, <1>2

\* A step of a connection that asks nobody: it ends, is answered here or waits.
LEMMA QuietOK ==
  ASSUME ProxyInv, NEW c \in Conns, NEW r \in Requests,
         \/ Accept(c) \/ Hangup(c) \/ Unauthorised(c, r) \/ Handshake(c) \/ Collect(c)
         \/ Respond(c) \/ NotSwitched(c) \/ Switch(c)
  PROVE  ProxyInv'
<1> DEFINE k == conn[c]
           On(next) == [k EXCEPT !.step = next]
<1>1. k \in Records /\ Fine(k) /\ Fine(Closed) /\ Fine(Answered(c))
  BY ClosedOK, AnsweredOK DEF ProxyInv
<1>2. ASSUME k.step \in Asking, NEW next \in Asking PROVE Fine(On(next))
  <2>1. next \in Steps /\ next \notin {"tunnel", "handshake", "inside"}
    BY <1>2 DEF Asking, Steps
  <2>2. /\ On(next) \in Records /\ On(next).step = next
        /\ On(next).by = k.by /\ On(next).tunnel = k.tunnel
        /\ On(next).target = k.target
        /\ On(next).opened = k.opened /\ On(next).cred = k.cred
    BY <1>1, <2>1, OnOK
  <2>3. k.by # "proxy"
    BY <1>1, <1>2 DEF Fine, Asking
  <2> HIDE DEF On
  <2> QED
    BY <1>1, <1>2, <2>1, <2>2, <2>3 DEF Fine
<1>3. CASE Accept(c)
  <2> DEFINE m == [Closed EXCEPT !.step = "open"]
  <2>1. Closed \in Records /\ "open" \in Steps
    BY ClosedOK DEF Fine, Steps
  <2>2. m \in Records /\ m.step = "open" /\ m.by = Closed.by /\ m.tunnel = Closed.tunnel
    BY <2>1, OnOK
  <2>3. Closed.by = "client" /\ Closed.tunnel = None
    BY DEF Closed
  <2>4. Update(c, m) /\ UNCHANGED auth
    BY <1>3 DEF Accept
  <2> HIDE DEF m
  <2>5. Fine(m)
    BY <2>2, <2>3 DEF Fine, Asking
  <2> QED
    BY <2>4, <2>5, UpdateOK
<1>4. CASE Hangup(c)
  BY <1>1, <1>4, UpdateOK DEF Hangup
<1>5. CASE Unauthorised(c, r)
  BY <1>1, <1>5, UpdateOK DEF Unauthorised
<1>6. CASE Handshake(c)
  <2>1. k.step = "handshake" /\ Update(c, On("inside")) /\ UNCHANGED auth
    BY <1>6 DEF Handshake
  <2>2. /\ On("inside") \in Records /\ On("inside").step = "inside"
        /\ On("inside").by = k.by /\ On("inside").tunnel = k.tunnel
        /\ On("inside").opened = k.opened
    BY <1>1, OnOK DEF Steps
  <2> HIDE DEF On
  <2>3. Fine(On("inside"))
    BY <1>1, <2>1, <2>2 DEF Fine, Asking
  <2> QED
    BY <2>1, <2>3, UpdateOK
<1>7. CASE Collect(c)
  <2>1. "body" \in Asking /\ "fetch" \in Asking
    BY DEF Asking
  <2>2. k.step = "body" /\ UNCHANGED auth
        /\ (Update(c, On("fetch")) \/ Update(c, Answered(c)) \/ Update(c, Closed))
    BY <1>7 DEF Collect
  <2>3. Fine(On("fetch"))
    BY <1>2, <2>1, <2>2
  <2> HIDE DEF On
  <2> QED
    BY <1>1, <2>2, <2>3, UpdateOK
<1>8. CASE Respond(c) \/ NotSwitched(c)
  BY <1>1, <1>8, UpdateOK DEF Respond, NotSwitched
<1>9. CASE Switch(c)
  <2>1. "dial" \in Asking /\ "joined" \in Asking
    BY DEF Asking
  <2>2. k.step = "dial" /\ Update(c, On("joined")) /\ UNCHANGED auth
    BY <1>9 DEF Switch
  <2>3. Fine(On("joined"))
    BY <1>2, <2>1, <2>2
  <2> HIDE DEF On
  <2> QED
    BY <2>2, <2>3, UpdateOK
<1> QED
  BY <1>3, <1>4, <1>5, <1>6, <1>7, <1>8, <1>9

\* A tunnel is opened, or its first byte tells its scheme.
LEMMA TunnelOK ==
  ASSUME ProxyInv, NEW c \in Conns, NEW r \in Requests, Connect(c, r) \/ FirstByte(c)
  PROVE  ProxyInv'
<1> DEFINE k == conn[c]
<1>1. k \in Records /\ Fine(k) /\ Fine(Answered(c))
  BY AnsweredOK DEF ProxyInv
<1>2. CASE Connect(c, r) /\ Update(c, Answered(c))
  BY <1>1, <1>2, UpdateOK DEF Connect
<1>3. CASE Connect(c, r) /\ Update(c, [k EXCEPT !.step = "tunnel", !.tunnel = r.to, !.opened = r.cred])
  <2> DEFINE m == [k EXCEPT !.step = "tunnel", !.tunnel = r.to, !.opened = r.cred]
  <2>1. r \in Says(c) /\ r.form = "connect" /\ Admits(c, r) /\ UNCHANGED auth
    BY <1>3 DEF Connect, Outside
  <2>2. k.by # "proxy"
    BY <2>1, SaysOK
  <2>3. r.to \in Origins /\ r.cred \in BOOLEAN /\ r.to # None
    BY ProxyAssumption DEF Requests
  <2>4. m \in Records /\ m.step = "tunnel" /\ m.by = k.by /\ m.tunnel = r.to
    BY <1>1, <2>3 DEF Records, Steps
  <2>5. m.opened = r.cred
    BY <1>1 DEF Records
  <2>6. auth => m.opened
    BY <2>1, <2>5 DEF Admits
  <2>7. Update(c, m)
    BY <1>3
  <2> HIDE DEF m
  <2>8. Fine(m)
    BY <2>2, <2>3, <2>4, <2>6 DEF Fine, Asking
  <2> QED
    BY <2>1, <2>7, <2>8, UpdateOK
<1>4. ASSUME NEW next \in {"handshake", "inside"}, NEW scheme \in {"https", "http"}, FirstByte(c),
             Update(c, [k EXCEPT !.step = next, !.tunnel = TunnelOrigin(c, scheme)])
      PROVE  ProxyInv'
  <2> DEFINE tunnel == TunnelOrigin(c, scheme)
             m == [k EXCEPT !.step = next, !.tunnel = tunnel]
  <2>1. k.step = "tunnel" /\ UNCHANGED auth
    BY <1>4 DEF FirstByte
  <2>2. k.tunnel \in Origins /\ k.tunnel # None
    BY <1>1, <2>1 DEF Fine, Records
  <2>3. tunnel \in Origins /\ tunnel # None
    BY <2>2, ProxyAssumption DEF TunnelOrigin, Origins
  <2> HIDE DEF tunnel
  <2>4. m \in Records /\ m.step = next /\ m.by = k.by /\ m.tunnel = tunnel
    BY <1>1, <2>3 DEF Records, Steps
  <2>5. m.opened = k.opened
    BY <1>1 DEF Records
  <2>6. k.by # "proxy" /\ (auth => k.opened)
    BY <1>1, <2>1, <2>2 DEF Fine
  <2>7. auth => m.opened
    BY <2>5, <2>6
  <2>8. Update(c, m)
    BY <1>4 DEF tunnel
  <2> HIDE DEF m
  <2>9. Fine(m)
    BY <2>3, <2>4, <2>6, <2>7 DEF Fine, Asking
  <2> QED
    BY <2>1, <2>8, <2>9, UpdateOK
<1>5. CASE FirstByte(c)
  BY <1>4, <1>5 DEF FirstByte
<1> QED
  BY <1>2, <1>3, <1>5 DEF Connect

LEMMA TargetOK ==
  ASSUME NEW r \in Requests, NEW tunnel \in Origins \cup {None}
  PROVE  /\ Target(r, tunnel) \in Origins \cup {None}
         /\ tunnel # None => Target(r, tunnel) \in {tunnel, None}
<1>1. r.to \in Origins
  BY DEF Requests
<1>2. r.to.host \in Hosts
  BY <1>1 DEF Origins
<1>3. [scheme |-> "http", host |-> r.to.host] \in Origins
  BY <1>2 DEF Origins
<1> QED
  BY <1>1, <1>3 DEF Target

LEMMA ForwardOK ==
  ASSUME ProxyInv, NEW c \in Conns, NEW r \in Requests, Forward(c, r)
  PROVE  ProxyInv'
<1> DEFINE k == conn[c]
           target == Target(r, k.tunnel)
           inner == [k EXCEPT !.target = target, !.cred = r.cred]
<1>1. k \in Records /\ Fine(k) /\ Fine(Answered(c)) /\ Fine(Closed) /\ UNCHANGED auth
  BY AnsweredOK, ClosedOK DEF ProxyInv, Forward
<1>2. r.cred \in BOOLEAN /\ target \in Origins \cup {None}
  BY <1>1, TargetOK DEF Requests, Records
<1>3. CASE Update(c, [Answered(c) EXCEPT !.cred = r.cred])
  <2> DEFINE a == Answered(c)
             m == [a EXCEPT !.cred = r.cred]
  <2>1. a \in Records /\ a.step \notin Asking
    BY <1>1, AnsweredOK DEF Fine, Asking
  <2> HIDE DEF a
  <2>2. /\ m \in Records /\ m.step = a.step /\ m.by = a.by /\ m.tunnel = a.tunnel
        /\ m.target = a.target
    BY <1>2, <2>1 DEF Records
  <2>3. m.opened = a.opened
    BY <2>1 DEF Records
  <2>4. m.tunnel # None /\ auth => m.opened
    BY <1>1, <2>2, <2>3 DEF Fine, a
  <2>5. Update(c, m)
    BY <1>3 DEF a
  <2> HIDE DEF m
  <2>6. Fine(m)
    BY <1>1, <2>1, <2>2, <2>4 DEF Fine, a
  <2> QED
    BY <1>1, <2>5, <2>6, UpdateOK
<1>4. CASE Update(c, Closed)
  BY <1>1, <1>4, UpdateOK
<1>5. ASSUME ~AnsweredHere(r, k.tunnel), NEW next \in {"dial", "body"},
             Update(c, [inner EXCEPT !.step = next])
      PROVE  ProxyInv'
  <2>1. target # None /\ target.host # Own /\ ~ViaNamesUs(r)
    BY <1>5 DEF AnsweredHere, TargetsThisProxy
  <2>2. k.tunnel # None => target = k.tunnel
    BY <1>1, <2>1, TargetOK DEF Records
  \* Outside a tunnel this very request was admitted.
  <2>3. k.tunnel = None /\ auth => r.cred
    BY <1>1 DEF Forward, Inside, Fine, Admits
  <2>4. k.by # "proxy"
    BY <1>1, <2>1, SaysOK DEF Forward, Inside, Outside, Fine
  <2> HIDE DEF target
  <2>5. /\ inner \in Records /\ inner.by = k.by /\ inner.tunnel = k.tunnel
        /\ inner.target = target
    BY <1>1, <1>2 DEF Records
  <2>6. inner.opened = k.opened
    BY <1>1 DEF Records
  <2>7. inner.cred = r.cred
    BY <1>1 DEF Records
  <2> HIDE DEF inner
  <2> DEFINE m == [inner EXCEPT !.step = next]
  <2>8. next \in Steps /\ next \in Asking /\ next \notin {"tunnel", "handshake", "inside"}
    BY DEF Steps, Asking
  <2>9. /\ m \in Records /\ m.step = next /\ m.by = k.by /\ m.tunnel = k.tunnel
        /\ m.target = target
    BY <2>5, <2>8, OnOK
  <2>10. m.opened = k.opened /\ m.cred = r.cred
    BY <2>5, <2>6, <2>7, <2>8, OnOK
  <2>11. /\ m.tunnel = None /\ auth => m.cred
         /\ m.tunnel # None /\ auth => m.opened
    BY <1>1, <2>3, <2>9, <2>10 DEF Fine
  <2>12. Update(c, m)
    BY <1>5
  <2> HIDE DEF m
  <2>13. Fine(m)
    BY <2>1, <2>2, <2>4, <2>8, <2>9, <2>11 DEF Fine
  <2> QED
    BY <1>1, <2>12, <2>13, UpdateOK
<1>6. CASE AnsweredHere(r, k.tunnel)
  BY <1>3, <1>6 DEF Forward
<1>7. CASE ~AnsweredHere(r, k.tunnel)
  <2>1. PICK upgrading \in Upgrading :
          Update(c, CASE upgrading = "WebSocket" -> [inner EXCEPT !.step = "dial"]
                      [] upgrading = "No" -> [inner EXCEPT !.step = "body"]
                      [] upgrading = "Refused" -> Closed)
    BY <1>7 DEF Forward
  <2> HIDE DEF inner
  <2>2. \/ Update(c, [inner EXCEPT !.step = "dial"]) \/ Update(c, [inner EXCEPT !.step = "body"])
        \/ Update(c, Closed)
    BY <2>1 DEF Upgrading
  <2> QED
    BY <1>4, <1>5, <1>7, <2>2 DEF inner
<1> QED
  BY <1>6, <1>7

\* The proxy becomes its own client.
LEMMA ReachOK ==
  ASSUME ProxyInv, NEW c \in Conns, NEW d \in Conns, Reach(c, d)
  PROVE  ProxyInv'
<1> DEFINE target == conn[c].target
           m == [Closed EXCEPT !.step = "open", !.by = "proxy", !.target = target]
<1>1. /\ conn[c] \in Records /\ target # None /\ Closed \in Records /\ Closed.tunnel = None
      /\ Update(d, m) /\ UNCHANGED auth
  BY ClosedOK DEF ProxyInv, Reach, Fine, Asking, Closed
<1>2. target \in Origins
  BY <1>1 DEF Records
<1> HIDE DEF target
<1>3. /\ m \in Records /\ m.step = "open" /\ m.by = "proxy" /\ m.target = target
      /\ m.tunnel = None
  BY <1>1, <1>2 DEF Records, Steps
<1> HIDE DEF m
<1>4. Fine(m)
  BY <1>1, <1>3 DEF Fine, Asking
<1> QED
  BY <1>1, <1>4, UpdateOK

LEMMA ProxyKeeps ==
  ASSUME ProxyInv, [ProxyNext]_proxyVars
  PROVE  ProxyInv'
<1>1. ASSUME NEW c \in Conns, NEW r \in Requests,
             \/ Accept(c) \/ FirstByte(c) \/ Handshake(c) \/ Hangup(c)
             \/ Collect(c) \/ Respond(c) \/ Switch(c) \/ NotSwitched(c)
             \/ Unauthorised(c, r) \/ Connect(c, r) \/ Forward(c, r)
      PROVE  ProxyInv'
  BY <1>1, QuietOK, TunnelOK, ForwardOK
<1>2. \E r : r \in Requests
  <2> DEFINE o == [scheme |-> "http", host |-> Own]
             r == [form |-> "origin", to |-> o, cred |-> FALSE, via |-> FALSE]
  <2>1. o \in Origins
    BY DEF Origins, Hosts
  <2> HIDE DEF o
  <2>2. r \in Requests
    BY <2>1 DEF Requests
  <2> QED
    BY <2>2
<1>3. CASE UNCHANGED proxyVars
  BY <1>3 DEF proxyVars, ProxyInv, Fine
<1> QED
  BY <1>1, <1>2, <1>3, ReachOK DEF ProxyNext

\* Whoever asks was admitted, in every state of the proxy.
THEOREM ProxyCorrect == ProxySpec => []ProxyInv
<1>1. ProxyInit => ProxyInv
  BY ClosedOK DEF ProxyInit, ProxyInv, Fine
<1> QED
  BY <1>1, ProxyKeeps, PTL DEF ProxySpec

\* Nothing is asked for whoever did not show the credential: each request outside a tunnel by
\* itself, and inside by the CONNECT, whose origin it is for.
THEOREM AskersAdmitted == ProxySpec => []OnlyAdmittedAsk
<1>1. ProxyInv => OnlyAdmittedAsk
  BY DEF ProxyInv, Fine, OnlyAdmittedAsk
<1> QED
  BY <1>1, ProxyCorrect, PTL

\* A request that comes back to the proxy asks nobody and opens no tunnel, and the proxy's own
\* address is never asked for.
THEOREM LoopsEnd == ProxySpec => []LoopsStop
<1>1. ProxyInv => LoopsStop
  BY DEF ProxyInv, Fine, LoopsStop
<1> QED
  BY <1>1, ProxyCorrect, PTL

-----------------------------------------------------------------------------
\* The two files of the authority.

Pairs == [key : Keys \cup {Nothing}, cert : Keys \cup {Nothing}]

\* A certificate is for the key beside it, and what a run is about to write is a pair, whose
\* key comes first.
AuthorityInv ==
  /\ files \in Pairs /\ fresh \in Pairs /\ step \in {"off", "key", "cert", "up"}
  /\ PairMatches
  /\ step \in {"key", "cert"} =>
       fresh.key \in Keys /\ fresh.cert = fresh.key /\ files.cert = Nothing
  /\ step = "key" => files.key = Nothing
  /\ step = "cert" => files.key = fresh.key

LEMMA PairOK ==
  ASSUME NEW key \in Keys \cup {Nothing}, NEW cert \in Keys \cup {Nothing}
  PROVE  Pair(key, cert) \in Pairs /\ Pair(key, cert).key = key /\ Pair(key, cert).cert = cert
BY DEF Pair, Pairs

LEMMA AuthorityKeeps ==
  ASSUME AuthorityInv, [AuthorityNext]_authority
  PROVE  AuthorityInv'
<1> USE DEF AuthorityInv
<1>1. CASE LoadPair
  BY <1>1 DEF LoadPair, PairMatches
<1>2. CASE CertifyAgain
  <2>1. files.key \in Keys
    BY <1>2 DEF CertifyAgain, Pairs
  <2>2. /\ fresh' \in Pairs /\ fresh'.key = files.key /\ fresh'.cert = files.key
        /\ step' = "cert" /\ files' = files /\ files.cert = Nothing
    BY <1>2, <2>1, PairOK DEF CertifyAgain
  <2> QED
    BY <2>1, <2>2 DEF PairMatches
<1>3. CASE Generate
  <2>1. PICK k \in Keys \ made : fresh' = Pair(k, k)
    BY <1>3 DEF Generate
  <2>2. /\ fresh' \in Pairs /\ fresh'.key = k /\ fresh'.cert = k
        /\ step' = "key" /\ files' = files /\ files.key = Nothing
    BY <1>3, <2>1, PairOK DEF Generate
  <2> QED
    BY <2>1, <2>2 DEF PairMatches
<1>4. CASE WriteKey
  <2>1. /\ files' = [files EXCEPT !["key"] = fresh["key"]] /\ fresh' = fresh
        /\ step = "key" /\ step' = "cert"
    BY <1>4 DEF WriteKey, WriteNew
  <2>2. files' \in Pairs /\ files'.key = fresh.key /\ files'.cert = files.cert
    BY <2>1 DEF Pairs
  <2> QED
    BY <2>1, <2>2 DEF PairMatches
<1>5. CASE WriteCert
  <2>1. /\ files' = [files EXCEPT !["cert"] = fresh["cert"]] /\ fresh' = fresh
        /\ step = "cert" /\ step' = "up"
    BY <1>5 DEF WriteCert, WriteNew
  <2>2. files' \in Pairs /\ files'.key = files.key /\ files'.cert = fresh.cert
    BY <2>1 DEF Pairs
  <2>3. files' = fresh
    BY <2>1, <2>2 DEF Pairs
  <2> QED
    BY <2>1, <2>2, <2>3 DEF PairMatches
<1>6. CASE RunEnds
  <2>1. NoPair \in Pairs
    BY PairOK DEF NoPair
  <2> QED
    BY <1>6, <2>1 DEF RunEnds, PairMatches
<1>7. CASE UNCHANGED <<files, fresh, step>>
  BY <1>7 DEF PairMatches
<1> QED
  BY <1>1, <1>2, <1>3, <1>4, <1>5, <1>6, <1>7
     DEF AuthorityNext, InsertLeaf, GetLeaf, TrustInLoginKeychain, UntrustLocal, UntrustByName,
         authority

\* A certificate on disk is for the key beside it wherever any number of runs are killed, if
\* it was so in the directory that the first of them found.
THEOREM PairsMatch ==
  ASSUME \A s \in Starts : s.cert # Nothing => s.cert = s.key
  PROVE  AuthoritySpec => []PairMatches
<1>1. AuthorityInit => AuthorityInv
  <2>1. NoPair \in Pairs
    BY PairOK DEF NoPair
  <2> QED
    BY <2>1, AuthorityAssumption DEF AuthorityInit, AuthorityInv, PairMatches, Pairs
<1>2. AuthorityInv => PairMatches
  BY DEF AuthorityInv
<1> QED
  BY <1>1, <1>2, AuthorityKeeps, PTL DEF AuthoritySpec

-----------------------------------------------------------------------------
\* The example tools.

Runs ==
  [at : {"idle", "read", "stale", "make", "write", "publish", "discard", "over"},
   has : SUBSET ToolNames, cut : BOOLEAN]

Stagings ==
  [is : {"none", "made", "stale"}, whole : SUBSET ToolNames, part : SUBSET ToolNames]

Directories ==
  [is : Seeders \cup {"none", "person"}, whole : SUBSET ToolNames, part : SUBSET ToolNames]

\* A run and its staging directory: it is there while the run writes, holds nothing but the
\* run's tools, and is left behind only by a run that was cut off.
Seeding(run, st) ==
  /\ run \in Runs /\ st \in Stagings
  /\ st.is = "none" => st.whole = {} /\ st.part = {}
  /\ run.at \in {"idle", "read", "stale", "make"} => st.is = "none"
  /\ run.at \in {"stale", "make", "write", "publish", "discard"} => run.has # {}
  /\ run.at \in {"write", "publish", "discard"} => st.is = "made"
  /\ run.at = "write" => st.whole \cup st.part \subseteq run.has /\ st.whole \cap st.part = {}
  /\ run.at = "publish" => st.whole = run.has /\ st.part = {}
  /\ run.cut => run.at = "over"
  /\ run.at = "over" /\ ~run.cut => st.is = "none"

ToolsInv ==
  /\ seeder \in [Seeders -> Runs] /\ staging \in [Seeders -> Stagings] /\ tools \in Directories
  /\ \A r \in Seeders : Seeding(seeder[r], staging[r])
  /\ \A r \in Seeders : tools.is = r =>
       /\ seeder[r].at = "over"
       /\ tools.part = {} /\ tools.whole = seeder[r].has /\ tools.whole # {}
  /\ saidNo => tools.is = "person"

LEMMA NoDirectoryOK ==
  /\ NoDirectory \in Stagings /\ NoDirectory \in Directories
  /\ NoDirectory.is = "none" /\ NoDirectory.whole = {} /\ NoDirectory.part = {}
BY DEF NoDirectory, Stagings, Directories

\* A step of a run that is not over, and of its directory alone.
LEMMA SeedingStep ==
  ASSUME ToolsInv, NEW r \in Seeders, NEW run, NEW st, Seeding(run, st),
         seeder' = [seeder EXCEPT ![r] = run], staging' = [staging EXCEPT ![r] = st],
         UNCHANGED <<tools, saidNo>>,
         seeder[r].at # "over" \/ run = seeder[r]
  PROVE  ToolsInv'
<1>1. run \in Runs /\ st \in Stagings
  BY DEF Seeding
<1>2. seeder' \in [Seeders -> Runs] /\ staging' \in [Seeders -> Stagings]
  BY <1>1 DEF ToolsInv
<1>3. /\ seeder'[r] = run /\ staging'[r] = st
      /\ \A q \in Seeders \ {r} : seeder'[q] = seeder[q] /\ staging'[q] = staging[q]
  BY DEF ToolsInv
<1>4. \A q \in Seeders : Seeding(seeder'[q], staging'[q])
  BY <1>3 DEF ToolsInv
<1>5. \A q \in Seeders : tools.is = q => seeder'[q] = seeder[q]
  BY <1>3 DEF ToolsInv
<1> QED
  BY <1>2, <1>4, <1>5 DEF ToolsInv

\* A run that goes on.
LEMMA RunOK ==
  ASSUME NEW run \in Runs, NEW at \in {"idle", "read", "stale", "make", "write", "publish",
                                       "discard", "over"}
  PROVE  /\ [run EXCEPT !.at = at] \in Runs /\ [run EXCEPT !.at = at].at = at
         /\ [run EXCEPT !.at = at].has = run.has /\ [run EXCEPT !.at = at].cut = run.cut
<1>1. /\ [run EXCEPT !.at = at] \in Runs /\ [run EXCEPT !.at = at].at = at
      /\ [run EXCEPT !.at = at].has = run.has
  BY DEF Runs
<1>2. [run EXCEPT !.at = at].cut = run.cut
  BY DEF Runs
<1> QED
  BY <1>1, <1>2

LEMMA ToolsStep ==
  ASSUME ToolsInv, NEW r \in Seeders, NEW at \in {"idle", "read", "stale", "make", "write",
                                                  "publish", "discard", "over"}, Step(r, at)
  PROVE  seeder' = [seeder EXCEPT ![r] = [seeder[r] EXCEPT !.at = at]]
BY DEF ToolsInv, Step

LEMMA LookKeeps ==
  ASSUME ToolsInv, UNCHANGED saidNo, NEW r \in Seeders, Look(r)
  PROVE  ToolsInv'
<1> DEFINE run == seeder[r]
           at == IF tools.is = "none" THEN "read" ELSE "over"
           run2 == [run EXCEPT !.at = at]
<1>1. run \in Runs /\ Seeding(run, staging[r]) /\ run.at = "idle"
  BY DEF ToolsInv, Look
<1>2. run2 \in Runs /\ run2.at = at /\ run2.has = run.has /\ run2.cut = run.cut
  <2>1. at \in {"idle", "read", "stale", "make", "write", "publish",
                 "discard", "over"}
    OBVIOUS
  <2> HIDE DEF at, run
  <2> QED
    BY ZenonT(30), <1>1, <2>1, RunOK
<1>3. seeder' = [seeder EXCEPT ![r] = run2] /\ staging' = [staging EXCEPT ![r] = staging[r]]
  <2>1. Step(r, at) /\ staging' = staging
    BY DEF Look
  <2> QED
    BY <2>1, ToolsStep DEF ToolsInv
<1>4. Seeding(run2, staging[r])
  <2> HIDE DEF run, run2
  <2> QED
    BY <1>1, <1>2 DEF Seeding
<1> HIDE DEF run2
<1> QED
  BY <1>1, <1>3, <1>4, SeedingStep DEF Look

LEMMA ReadToolsKeeps ==
  ASSUME ToolsInv, UNCHANGED saidNo, NEW r \in Seeders, ReadTools(r)
  PROVE  ToolsInv'
<1> DEFINE run == seeder[r]
<1>1. run \in Runs /\ Seeding(run, staging[r]) /\ run.at = "read"
  BY DEF ToolsInv, ReadTools
<1>2. PICK has \in SUBSET ToolNames :
        seeder' = [seeder EXCEPT ![r].has = has,
                                 ![r].at = IF has = {} THEN "over" ELSE "stale"]
  BY DEF ReadTools
<1> DEFINE at == IF has = {} THEN "over" ELSE "stale"
           run1 == [run EXCEPT !.has = has]
           run2 == [run1 EXCEPT !.at = at]
<1>3. run1 \in Runs /\ run1.has = has
  BY <1>1 DEF Runs
<1>4. run1.cut = run.cut
  BY <1>1 DEF Runs
<1>5. run2 \in Runs /\ run2.at = at /\ run2.has = has /\ run2.cut = run.cut
  <2>0. at \in {"idle", "read", "stale", "make", "write", "publish",
                 "discard", "over"}
    OBVIOUS
  <2> HIDE DEF run1, at
  <2>1. [run1 EXCEPT !.at = at] \in Runs /\ [run1 EXCEPT !.at = at].at = at
        /\ [run1 EXCEPT !.at = at].has = run1.has /\ [run1 EXCEPT !.at = at].cut = run1.cut
    BY ZenonT(30), <1>3, <2>0, RunOK
  <2> QED
    BY <2>1, <1>3, <1>4
<1>6. seeder' = [seeder EXCEPT ![r] = run2] /\ staging' = [staging EXCEPT ![r] = staging[r]]
  <2>1. seeder' = [seeder EXCEPT ![r] = run2]
    BY <1>2 DEF ToolsInv
  <2> QED
    BY <2>1 DEF ReadTools, ToolsInv
<1>7. Seeding(run2, staging[r])
  <2> HIDE DEF run, run2
  <2> QED
    BY <1>1, <1>5 DEF Seeding
<1> HIDE DEF run2
<1> QED
  BY <1>1, <1>6, <1>7, SeedingStep DEF ReadTools

LEMMA MakeStagingKeeps ==
  ASSUME ToolsInv, UNCHANGED saidNo, NEW r \in Seeders, MakeStaging(r)
  PROVE  ToolsInv'
<1> DEFINE run == seeder[r]
           st == staging[r]
<1>1. run \in Runs /\ st \in Stagings /\ Seeding(run, st) /\ run.at = "make"
  BY DEF ToolsInv, MakeStaging
<1>2. CASE Step(r, "write") /\ staging' = [staging EXCEPT ![r].is = "made"]
  <2> DEFINE run2 == [run EXCEPT !.at = "write"]
             st2 == [st EXCEPT !.is = "made"]
  <2>1. run2 \in Runs /\ run2.at = "write" /\ run2.has = run.has /\ run2.cut = run.cut
    BY <1>1, RunOK
  <2>2. st2 \in Stagings /\ st2.is = "made" /\ st2.whole = st.whole /\ st2.part = st.part
    BY <1>1 DEF Stagings
  <2>3. seeder' = [seeder EXCEPT ![r] = run2]
    BY <1>2, ToolsStep
  <2>4. staging' = [staging EXCEPT ![r] = st2]
    BY <1>2 DEF ToolsInv
  <2>5. Seeding(run2, st2)
    <3> HIDE DEF run, st, run2, st2
    <3> QED
      BY <1>1, <2>1, <2>2 DEF Seeding
  <2> HIDE DEF run2, st2
  <2> QED
    BY <1>1, <2>3, <2>4, <2>5, SeedingStep DEF MakeStaging
<1>3. CASE Step(r, "over") /\ UNCHANGED staging
  <2> DEFINE run2 == [run EXCEPT !.at = "over"]
  <2>1. run2 \in Runs /\ run2.at = "over" /\ run2.has = run.has /\ run2.cut = run.cut
    BY <1>1, RunOK
  <2>2. seeder' = [seeder EXCEPT ![r] = run2]
    BY <1>3, ToolsStep
  <2>3. staging' = [staging EXCEPT ![r] = st]
    BY <1>3 DEF ToolsInv
  <2>4. Seeding(run2, st)
    <3> HIDE DEF run, st, run2
    <3> QED
      BY <1>1, <2>1 DEF Seeding
  <2> HIDE DEF run2
  <2> QED
    BY <1>1, <2>2, <2>3, <2>4, SeedingStep DEF MakeStaging
<1> QED
  BY <1>2, <1>3 DEF MakeStaging

LEMMA WriteToolKeeps ==
  ASSUME ToolsInv, UNCHANGED saidNo, NEW r \in Seeders, WriteTool(r)
  PROVE  ToolsInv'
<1> DEFINE run == seeder[r]
           st == staging[r]
<1>1. run \in Runs /\ st \in Stagings /\ Seeding(run, st) /\ run.at = "write"
  BY DEF ToolsInv, WriteTool
<1>2. seeder' = [seeder EXCEPT ![r] = run]
  BY DEF ToolsInv, WriteTool
<1>3. CASE /\ st.part = {}
           /\ \E f \in run.has \ Files(r) : staging' = [staging EXCEPT ![r].part = {f}]
  <2>1. PICK f \in run.has \ Files(r) : staging' = [staging EXCEPT ![r].part = {f}]
    BY <1>3
  <2> DEFINE st2 == [st EXCEPT !.part = {f}]
  <2>2. f \in run.has /\ f \notin st.whole /\ f \in ToolNames
    BY <1>1 DEF Files, Runs
  <2>3. st2 \in Stagings /\ st2.is = st.is /\ st2.whole = st.whole /\ st2.part = {f}
    BY <1>1, <2>2 DEF Stagings
  <2>4. staging' = [staging EXCEPT ![r] = st2]
    BY <2>1 DEF ToolsInv
  <2>5. Seeding(run, st2)
    <3> HIDE DEF run, st, st2
    <3> QED
      BY <1>1, <2>2, <2>3 DEF Seeding
  <2> HIDE DEF st2
  <2> QED
    BY <1>1, <1>2, <2>4, <2>5, SeedingStep DEF WriteTool
<1>4. CASE \E f \in st.part :
             staging' = [staging EXCEPT ![r].part = {}, ![r].whole = @ \cup {f}]
  <2>1. PICK f \in st.part : staging' = [staging EXCEPT ![r].part = {}, ![r].whole = @ \cup {f}]
    BY <1>4
  <2> DEFINE st1 == [st EXCEPT !.part = {}]
             st2 == [st1 EXCEPT !.whole = st.whole \cup {f}]
  <2>2. f \in ToolNames /\ f \in run.has
    BY <1>1 DEF Stagings, Seeding
  <2>3. st1 \in Stagings /\ st1.is = st.is /\ st1.whole = st.whole /\ st1.part = {}
    BY <1>1 DEF Stagings
  <2>4. st2 \in Stagings /\ st2.is = st.is /\ st2.whole = st.whole \cup {f} /\ st2.part = {}
    <3>1. st.whole \cup {f} \in SUBSET ToolNames
      BY <1>1, <2>2 DEF Stagings
    <3> HIDE DEF st1
    <3> QED
      BY <2>3, <3>1 DEF Stagings
  <2>5. staging' = [staging EXCEPT ![r] = st2]
    BY <2>1 DEF ToolsInv
  <2>6. Seeding(run, st2)
    <3> HIDE DEF run, st, st2
    <3> QED
      BY <1>1, <2>2, <2>4 DEF Seeding
  <2> HIDE DEF st2
  <2> QED
    BY <1>1, <1>2, <2>5, <2>6, SeedingStep DEF WriteTool
<1> QED
  BY <1>3, <1>4 DEF WriteTool

LEMMA StagedKeeps ==
  ASSUME ToolsInv, UNCHANGED saidNo, NEW r \in Seeders, Staged(r)
  PROVE  ToolsInv'
<1> DEFINE run == seeder[r]
           st == staging[r]
           at == IF st.whole = run.has THEN "publish" ELSE "discard"
           run2 == [run EXCEPT !.at = at]
<1>1. run \in Runs /\ st \in Stagings /\ Seeding(run, st) /\ run.at = "write"
  BY DEF ToolsInv, Staged
<1>2. run2 \in Runs /\ run2.at = at /\ run2.has = run.has /\ run2.cut = run.cut
  <2>1. at \in {"idle", "read", "stale", "make", "write", "publish",
                 "discard", "over"}
    OBVIOUS
  <2> HIDE DEF at, run
  <2> QED
    BY ZenonT(30), <1>1, <2>1, RunOK
<1>3. seeder' = [seeder EXCEPT ![r] = run2] /\ staging' = [staging EXCEPT ![r] = st]
  <2>1. Step(r, at) /\ staging' = staging
    BY DEF Staged
  <2> QED
    BY <2>1, ToolsStep DEF ToolsInv
<1>4. Seeding(run2, st)
  <2> HIDE DEF run, st, run2
  <2> QED
    BY <1>1, <1>2 DEF Seeding
<1> HIDE DEF run2
<1> QED
  BY <1>1, <1>3, <1>4, SeedingStep DEF Staged

LEMMA CutOffKeeps ==
  ASSUME ToolsInv, UNCHANGED saidNo, NEW r \in Seeders, CutOff(r)
  PROVE  ToolsInv'
<1> DEFINE run == seeder[r]
           st == staging[r]
           run1 == [run EXCEPT !.at = "over"]
           run2 == [run1 EXCEPT !.cut = TRUE]
<1>1. run \in Runs /\ st \in Stagings /\ Seeding(run, st) /\ run.at # "over"
  BY DEF ToolsInv, CutOff
<1>2. run1 \in Runs /\ run1.at = "over"
  BY <1>1, RunOK
<1>3. run2 \in Runs /\ run2.at = "over"
  <2> HIDE DEF run1
  <2> QED
    BY <1>2 DEF Runs
<1>4. run2.cut
  <2> HIDE DEF run1
  <2> QED
    BY <1>2 DEF Runs
<1>5. seeder' = [seeder EXCEPT ![r] = run2] /\ staging' = [staging EXCEPT ![r] = st]
  BY DEF CutOff, ToolsInv
<1>6. Seeding(run2, st)
  <2> HIDE DEF run, st, run2
  <2> QED
    BY <1>1, <1>3, <1>4 DEF Seeding
<1> HIDE DEF run2
<1> QED
  BY <1>1, <1>5, <1>6, SeedingStep DEF CutOff

\* A file is removed from a directory.
LEMMA RemovedOK ==
  ASSUME NEW st \in Stagings, NEW f
  PROVE  Without(st, f) \in Stagings /\ Without(st, f).is = st.is
<1> DEFINE st1 == [st EXCEPT !.whole = st.whole \ {f}]
<1>1. st1 \in Stagings /\ st1.is = st.is /\ st1.whole = st.whole \ {f} /\ st1.part = st.part
  BY DEF Stagings
<1>2. Without(st, f) = [st1 EXCEPT !.part = st1.part \ {f}]
  BY <1>1 DEF Stagings, Without
<1> HIDE DEF st1
<1> QED
  BY <1>1, <1>2 DEF Stagings

LEMMA RemoveStaleKeeps ==
  ASSUME ToolsInv, UNCHANGED saidNo, NEW r \in Seeders, RemoveStale(r)
  PROVE  ToolsInv'
<1>1. CASE /\ UNCHANGED seeder
           /\ \E s \in Abandoned(r) : staging' = [staging EXCEPT ![s] = WithoutOne(s)]
  <2>1. PICK s \in Seeders : /\ staging[s].is = "stale"
                             /\ staging' = [staging EXCEPT ![s] = WithoutOne(s)]
    BY <1>1 DEF Abandoned
  <2> DEFINE run == seeder[s]
             st == staging[s]
             f == CHOOSE f \in Files(s) : TRUE
             st2 == WithoutOne(s)
  <2>2. run \in Runs /\ st \in Stagings /\ Seeding(run, st) /\ st.is = "stale"
    BY <2>1 DEF ToolsInv
  <2>3. run.at = "over" /\ run.cut
    <3> HIDE DEF run, st
    <3> QED
      BY <2>2 DEF Seeding, Runs
  <2>4. Without(st, f) \in Stagings /\ Without(st, f).is = "stale"
    <3> HIDE DEF f, st
    <3> QED
      BY <2>2, RemovedOK
  <2>5. st2 \in Stagings /\ (st2.is = "none" => st2.whole = {} /\ st2.part = {})
    <3>1. CASE Files(s) = {}
      BY <3>1, NoDirectoryOK DEF WithoutOne
    <3>2. CASE Files(s) # {}
      BY <2>4, <3>2 DEF WithoutOne
    <3> QED
      BY <3>1, <3>2
  <2>6. seeder' = [seeder EXCEPT ![s] = run]
    BY <1>1 DEF ToolsInv
  <2>7. staging' = [staging EXCEPT ![s] = st2]
    BY <2>1
  <2>8. Seeding(run, st2)
    <3> HIDE DEF run, st2
    <3> QED
      BY <2>2, <2>3, <2>5 DEF Seeding
  <2> HIDE DEF st2
  <2> QED
    BY <2>6, <2>7, <2>8, SeedingStep DEF RemoveStale
<1>2. CASE Step(r, "make") /\ UNCHANGED staging
  <2> DEFINE run == seeder[r]
             st == staging[r]
             run2 == [run EXCEPT !.at = "make"]
  <2>1. run \in Runs /\ st \in Stagings /\ Seeding(run, st) /\ run.at = "stale"
    BY DEF ToolsInv, RemoveStale
  <2>2. run2 \in Runs /\ run2.at = "make" /\ run2.has = run.has /\ run2.cut = run.cut
    BY <2>1, RunOK
  <2>3. seeder' = [seeder EXCEPT ![r] = run2]
    BY <1>2, ToolsStep
  <2>4. staging' = [staging EXCEPT ![r] = st]
    BY <1>2 DEF ToolsInv
  <2>5. Seeding(run2, st)
    <3> HIDE DEF run, st, run2
    <3> QED
      BY <2>1, <2>2 DEF Seeding
  <2> HIDE DEF run2
  <2> QED
    BY <2>1, <2>3, <2>4, <2>5, SeedingStep DEF RemoveStale
<1> QED
  BY <1>1, <1>2 DEF RemoveStale

LEMMA DiscardKeeps ==
  ASSUME ToolsInv, UNCHANGED saidNo, NEW r \in Seeders, Discard(r)
  PROVE  ToolsInv'
<1> DEFINE run == seeder[r]
           st == staging[r]
<1>1. run \in Runs /\ st \in Stagings /\ Seeding(run, st) /\ run.at = "discard"
  BY DEF ToolsInv, Discard
<1>2. CASE \E f \in Files(r) : /\ UNCHANGED seeder
                               /\ staging' = [staging EXCEPT ![r] = Without(@, f)]
  <2>1. PICK f \in Files(r) : /\ UNCHANGED seeder
                              /\ staging' = [staging EXCEPT ![r] = Without(@, f)]
    BY <1>2
  <2> DEFINE st2 == Without(st, f)
  <2>2. st2 \in Stagings /\ st2.is = st.is
    <3> HIDE DEF st
    <3> QED
      BY <1>1, RemovedOK
  <2>3. seeder' = [seeder EXCEPT ![r] = run] /\ staging' = [staging EXCEPT ![r] = st2]
    BY <2>1 DEF ToolsInv
  <2>4. Seeding(run, st2)
    <3> HIDE DEF run, st, st2
    <3> QED
      BY <1>1, <2>2 DEF Seeding
  <2> HIDE DEF st2
  <2> QED
    BY <1>1, <2>3, <2>4, SeedingStep DEF Discard
<1>3. CASE staging' = [staging EXCEPT ![r] = NoDirectory] /\ Step(r, "over")
  <2> DEFINE run2 == [run EXCEPT !.at = "over"]
  <2>1. run2 \in Runs /\ run2.at = "over" /\ run2.has = run.has /\ run2.cut = run.cut
    BY <1>1, RunOK
  <2>2. seeder' = [seeder EXCEPT ![r] = run2]
    BY <1>3, ToolsStep
  <2>3. Seeding(run2, NoDirectory)
    <3> HIDE DEF run, st, run2
    <3> QED
      BY <1>1, <2>1, NoDirectoryOK DEF Seeding
  <2> HIDE DEF run2
  <2> QED
    BY <1>1, <1>3, <2>2, <2>3, SeedingStep DEF Discard
<1> QED
  BY <1>2, <1>3 DEF Discard

\* The directory is what the run staged, or stays in the way.
LEMMA PublishKeeps ==
  ASSUME ToolsInv, UNCHANGED saidNo, NEW r \in Seeders, Publish(r)
  PROVE  ToolsInv'
<1> DEFINE run == seeder[r]
           st == staging[r]
<1>1. run \in Runs /\ st \in Stagings /\ Seeding(run, st) /\ run.at = "publish"
  BY DEF ToolsInv, Publish
<1>2. CASE /\ tools.is = "none" /\ tools' = [st EXCEPT !.is = r]
           /\ staging' = [staging EXCEPT ![r] = NoDirectory] /\ Step(r, "over")
  <2> DEFINE run2 == [run EXCEPT !.at = "over"]
  <2>1. run2 \in Runs /\ run2.at = "over" /\ run2.has = run.has /\ run2.cut = run.cut
    BY <1>1, RunOK
  <2>2. seeder' = [seeder EXCEPT ![r] = run2]
    BY <1>2, ToolsStep
  <2>3. st.whole = run.has /\ st.part = {} /\ run.has # {} /\ ~run.cut
    <3> HIDE DEF run, st
    <3> QED
      BY <1>1 DEF Seeding
  <2>4. Seeding(run2, NoDirectory)
    <3> HIDE DEF run, st, run2
    <3> QED
      BY <1>1, <2>1, NoDirectoryOK DEF Seeding
  <2>5. /\ tools' \in Directories /\ tools'.is = r
        /\ tools'.whole = st.whole /\ tools'.part = st.part
    BY <1>1, <1>2 DEF Stagings, Directories
  <2> HIDE DEF run2, st
  <2>6. seeder' \in [Seeders -> Runs] /\ staging' \in [Seeders -> Stagings]
    BY <1>2, <2>1, <2>2, NoDirectoryOK DEF ToolsInv
  <2>7. /\ seeder'[r] = run2 /\ staging'[r] = NoDirectory
        /\ \A q \in Seeders \ {r} : seeder'[q] = seeder[q] /\ staging'[q] = staging[q]
    BY <1>2, <2>2 DEF ToolsInv
  <2>8. \A q \in Seeders : Seeding(seeder'[q], staging'[q])
    BY <2>4, <2>7 DEF ToolsInv
  <2>9. saidNo' => tools'.is = "person"
    BY <1>2 DEF ToolsInv
  <2>10. \A q \in Seeders : tools'.is = q => q = r
    BY <2>5
  <2>11. /\ seeder'[r].at = "over"
         /\ tools'.part = {} /\ tools'.whole = seeder'[r].has /\ tools'.whole # {}
    BY <2>1, <2>3, <2>5, <2>7
  <2> QED
    BY <2>5, <2>6, <2>8, <2>9, <2>10, <2>11 DEF ToolsInv
<1>3. CASE Step(r, "discard") /\ UNCHANGED <<tools, staging>>
  <2> DEFINE run2 == [run EXCEPT !.at = "discard"]
  <2>1. run2 \in Runs /\ run2.at = "discard" /\ run2.has = run.has /\ run2.cut = run.cut
    BY <1>1, RunOK
  <2>2. seeder' = [seeder EXCEPT ![r] = run2]
    BY <1>3, ToolsStep
  <2>3. staging' = [staging EXCEPT ![r] = st]
    BY <1>3 DEF ToolsInv
  <2>4. Seeding(run2, st)
    <3> HIDE DEF run, st, run2
    <3> QED
      BY <1>1, <2>1 DEF Seeding
  <2> HIDE DEF run2
  <2> QED
    BY <1>1, <1>3, <2>2, <2>3, <2>4, SeedingStep
<1> QED
  BY <1>2, <1>3 DEF Publish, CanRename

LEMMA HourKeeps ==
  ASSUME ToolsInv, UNCHANGED saidNo, Hour
  PROVE  ToolsInv'
<1> DEFINE Aged(q) == [staging[q] EXCEPT !.is = "stale"]
<1>1. \A q \in Seeders : /\ Aged(q) \in Stagings /\ Aged(q).is = "stale"
                         /\ Aged(q).whole = staging[q].whole /\ Aged(q).part = staging[q].part
  <2> TAKE q \in Seeders
  <2>1. staging[q] \in Stagings
    BY DEF ToolsInv
  <2> QED
    BY <2>1 DEF Stagings
<1>2. /\ UNCHANGED <<tools, seeder>> /\ \A q \in Seeders : seeder[q].at \in {"idle", "over"}
      /\ staging' = [q \in Seeders |-> IF staging[q].is = "made" THEN Aged(q) ELSE staging[q]]
  BY DEF Hour
<1> HIDE DEF Aged
<1>3. staging' \in [Seeders -> Stagings]
  BY <1>1, <1>2 DEF ToolsInv
<1>4. \A q \in Seeders : Seeding(seeder'[q], staging'[q])
  <2> TAKE q \in Seeders
  <2>1. Seeding(seeder[q], staging[q]) /\ seeder' = seeder
    BY <1>2 DEF ToolsInv
  <2>2. CASE staging[q].is = "made"
    <3>1. staging'[q] = Aged(q)
      BY <1>2, <2>2
    <3> DEFINE run == seeder[q]
               st == staging[q]
               st2 == Aged(q)
    <3>2. run.at \in {"idle", "over"} /\ Seeding(run, st) /\ st.is = "made"
          /\ st2 \in Stagings /\ st2.is = "stale"
      BY <1>1, <1>2, <2>1, <2>2
    <3>3. Seeding(run, st2)
      <4> HIDE DEF run, st, st2
      <4> QED
        BY <3>2 DEF Seeding
    <3> QED
      BY <2>1, <3>1, <3>3
  <2>3. CASE staging[q].is # "made"
    BY <1>2, <2>1, <2>3
  <2> QED
    BY <2>2, <2>3
<1> QED
  BY <1>2, <1>3, <1>4 DEF ToolsInv

LEMMA SayNoKeeps ==
  ASSUME ToolsInv, SayNo
  PROVE  ToolsInv'
<1>1. tools' \in Directories /\ tools'.is = "person"
  BY DEF SayNo, NoDirectory, Directories
<1>2. \A q \in Seeders : tools'.is # q
  BY <1>1, ToolsAssumption
<1> QED
  BY <1>1, <1>2 DEF SayNo, ToolsInv

\* "tools" appears whole or not at all, with what one run was shipped with, never where a person
\* made the directory, and a run that was not cut off leaves nothing else behind: seed_with.
THEOREM ToolsAppearWhole == ToolsSpec => []ToolsWhole
<1>1. ToolsInit => ToolsInv
  <2> SUFFICES ASSUME ToolsInit PROVE ToolsInv
    OBVIOUS
  <2> DEFINE run == [at |-> "idle", has |-> {}, cut |-> FALSE]
  <2>1. run \in Runs /\ run.at = "idle"
    BY DEF Runs
  <2>2. run.cut = FALSE
    OBVIOUS
  <2>3. seeder = [r \in Seeders |-> run]
    BY DEF ToolsInit
  <2>4. Seeding(run, NoDirectory)
    <3> HIDE DEF run
    <3> QED
      BY <2>1, <2>2, NoDirectoryOK DEF Seeding
  <2> HIDE DEF run
  <2>5. tools = NoDirectory /\ staging = [r \in Seeders |-> NoDirectory] /\ ~saidNo
    BY DEF ToolsInit
  <2>6. \A q \in Seeders : tools.is # q
    BY <2>5, NoDirectoryOK, ToolsAssumption
  <2> QED
    BY <2>1, <2>3, <2>4, <2>5, <2>6, NoDirectoryOK DEF ToolsInv
<1>2. ToolsInv /\ [ToolsNext]_toolsVars => ToolsInv'
  <2> SUFFICES ASSUME ToolsInv, [ToolsNext]_toolsVars PROVE ToolsInv'
    OBVIOUS
  <2>1. CASE UNCHANGED toolsVars
    BY <2>1 DEF toolsVars, ToolsInv
  <2>2. CASE ToolsNext
    BY <2>2, SayNoKeeps, HourKeeps, LookKeeps, ReadToolsKeeps, RemoveStaleKeeps,
       MakeStagingKeeps, WriteToolKeeps, StagedKeeps, PublishKeeps, DiscardKeeps, CutOffKeeps
       DEF ToolsNext
  <2> QED
    BY <2>1, <2>2
<1>3. ToolsInv => ToolsWhole
  BY DEF ToolsInv, Seeding, ToolsWhole
<1> QED
  BY <1>1, <1>2, <1>3, PTL DEF ToolsSpec

-----------------------------------------------------------------------------
\* The owner of a proxy, and the pipes between them.

Lines == [line : {"ready", "answer", "refused"}, of : Nat \cup BrowserHosts]

IsAnswer(l) == l.line = "answer"

\* The lines of the pipe hold one answer at most.
OneAnswer == \A i, j \in DOMAIN stdout : IsAnswer(stdout[i]) /\ IsAnswer(stdout[j]) => i = j

NoAnswer == \A i \in DOMAIN stdout : ~IsAnswer(stdout[i])

\* While a question waits, whatever is on its way is about that question, and is there once:
\* in the pipe to the proxy, in the one from it, or in the channel.
InStep ==
  /\ \A i \in DOMAIN answers : answers[i] = Cleared(asked)
  /\ \A i \in DOMAIN stdout : IsAnswer(stdout[i]) => stdout[i] = Cleared(asked)
  /\ OneAnswer
  /\ answers # <<>> => NoAnswer
  /\ child \in Running => stdin = <<>> \/ (stdin = <<asked>> /\ answers = <<>> /\ NoAnswer)

\* Between questions nothing is on its way, unless one was given up.
NothingComes == NoAnswer /\ (child \in Running => stdin = <<>>)

OwnerInv ==
  /\ stdin \in Seq(Nat) /\ stdout \in Seq(Lines) /\ answers \in Seq(Lines) /\ asked \in Nat
  /\ child = "clearing" => stdin # <<>>
  /\ child = "starting" => stdout = <<>>
  /\ heard = "announcement" =>
       /\ owner \notin {"open", "asking"} /\ answers = <<>> /\ ~outOfStep
       /\ owner = "starting" => NothingComes
       /\ \A i \in 2 .. Len(stdout) : stdout[i].line # "ready"
  /\ heard = "answers" =>
       /\ child # "starting" /\ \A i \in DOMAIN stdout : stdout[i].line # "ready"
  /\ heard = "over" => child \in {"exited", "reaped"} /\ stdout = <<>>
  /\ heard \in {"announcement", "answers", "over"}
  /\ owner = "asking" => ~outOfStep /\ InStep
  /\ owner = "open" /\ ~outOfStep => NothingComes
  /\ AnswersInStep

USE DEF IsAnswer

LEMMA LinesOK ==
  /\ Ready \in Lines /\ ~IsAnswer(Ready)
  /\ \A n \in Nat : Cleared(n) \in Lines /\ Cleared(n).line = "answer"
  /\ \A h \in BrowserHosts : Refusal(h) \in Lines /\ Refusal(h).line = "refused"
BY DEF Lines, Ready, Cleared, Refusal

LEMMA AnnounceKeeps ==
  ASSUME OwnerInv, Announce
  PROVE  OwnerInv'
<1>1. CASE stdout' = stdout
  BY <1>1 DEF OwnerInv, Announce, InStep, OneAnswer, NoAnswer, NothingComes, AnswersInStep, Running
<1>2. CASE child' = "listening" /\ stdout' = Append(stdout, Ready)
  <2>1. stdout = <<>> /\ stdout' = <<Ready>> /\ stdout' \in Seq(Lines)
    BY <1>2, LinesOK DEF OwnerInv, Announce
  <2>2. NoAnswer' /\ OneAnswer' /\ Len(stdout') = 1
    BY <2>1, LinesOK DEF NoAnswer, OneAnswer
  <2>3. heard = "announcement"
    BY <2>1 DEF OwnerInv, Announce
  <2> QED
    BY <1>2, <2>1, <2>2, <2>3
       DEF OwnerInv, Announce, NothingComes, AnswersInStep, Running
<1> QED
  BY <1>1, <1>2 DEF Announce

LEMMA TakeCommandKeeps ==
  ASSUME OwnerInv, TakeCommand
  PROVE  OwnerInv'
BY DEF OwnerInv, TakeCommand, pipes, InStep, OneAnswer, NoAnswer, NothingComes, AnswersInStep,
       Running

LEMMA AnswerCommandKeeps ==
  ASSUME OwnerInv, AnswerCommand
  PROVE  OwnerInv'
<1>1. /\ stdin # <<>> /\ Head(stdin) \in Nat /\ Tail(stdin) \in Seq(Nat)
      /\ stdin \in Seq(Nat) /\ stdout \in Seq(Lines) /\ child = "clearing"
      /\ child' = "listening" /\ stdin' = Tail(stdin)
      /\ stdout' = Append(stdout, Cleared(Head(stdin)))
      /\ UNCHANGED <<owner, signal, answers, heard, hosts, asked, outOfStep, taken>>
  BY DEF OwnerInv, AnswerCommand
<1> DEFINE new == Cleared(Head(stdin))
<1>2. new \in Lines /\ IsAnswer(new) /\ new.line # "ready"
  BY <1>1, LinesOK
<1> HIDE DEF new
<1>3. /\ stdout' \in Seq(Lines) /\ Len(stdout') = Len(stdout) + 1
      /\ \A i \in DOMAIN stdout : stdout'[i] = stdout[i] /\ i \in 1 .. Len(stdout)
      /\ stdout'[Len(stdout) + 1] = new
      /\ \A i \in DOMAIN stdout' : i \in DOMAIN stdout \/ i = Len(stdout) + 1
  BY <1>1, <1>2 DEF new
<1>4. ASSUME owner = "asking"
      PROVE  InStep'
  <2>1. stdin = <<asked>> /\ answers = <<>> /\ NoAnswer
    BY <1>1, <1>4 DEF OwnerInv, InStep, Running
  <2>2. new = Cleared(asked) /\ stdin' = <<>>
    BY <1>1, <2>1 DEF new
  <2> QED
    BY <1>1, <1>3, <2>1, <2>2 DEF InStep, OneAnswer, NoAnswer
<1>5. ~(owner = "open" /\ ~outOfStep) /\ ~(owner = "starting" /\ heard = "announcement")
  BY <1>1 DEF OwnerInv, NothingComes, Running
<1>6. heard # "over" /\ (heard = "announcement" => \A i \in 2 .. Len(stdout') : stdout'[i].line # "ready")
  BY <1>1, <1>2, <1>3 DEF OwnerInv
<1>7. heard = "answers" => \A i \in DOMAIN stdout' : stdout'[i].line # "ready"
  BY <1>2, <1>3 DEF OwnerInv
<1> QED
  BY <1>1, <1>3, <1>4, <1>5, <1>6, <1>7 DEF OwnerInv, AnswersInStep

LEMMA HandshakeFailedKeeps ==
  ASSUME OwnerInv, NEW h \in BrowserHosts, HandshakeFailed(h)
  PROVE  OwnerInv'
<1>1. /\ stdout \in Seq(Lines) /\ child \in {"listening", "clearing"}
      /\ stdout' = Append(stdout, Refusal(h))
      /\ UNCHANGED <<owner, child, signal, stdin, answers, heard, asked, outOfStep, taken>>
  BY DEF OwnerInv, HandshakeFailed
<1> DEFINE new == Refusal(h)
<1>2. new \in Lines /\ ~IsAnswer(new) /\ new.line # "ready"
  BY LinesOK
<1> HIDE DEF new
<1>3. /\ stdout' \in Seq(Lines) /\ Len(stdout') = Len(stdout) + 1
      /\ \A i \in DOMAIN stdout : stdout'[i] = stdout[i] /\ i \in 1 .. Len(stdout)
      /\ stdout'[Len(stdout) + 1] = new
      /\ \A i \in DOMAIN stdout' : i \in DOMAIN stdout \/ i = Len(stdout) + 1
  BY <1>1, <1>2 DEF new
<1>4. /\ NoAnswer => NoAnswer'
      /\ OneAnswer => OneAnswer'
      /\ NothingComes => NothingComes'
  BY <1>1, <1>2, <1>3 DEF NoAnswer, OneAnswer, NothingComes
<1>5. InStep => InStep'
  BY <1>1, <1>2, <1>3, <1>4 DEF InStep
<1>6. /\ heard = "announcement" => \A i \in 2 .. Len(stdout') : stdout'[i].line # "ready"
      /\ heard = "answers" => \A i \in DOMAIN stdout' : stdout'[i].line # "ready"
      /\ heard # "over"
  BY SMTT(30), <1>1, <1>2, <1>3 DEF OwnerInv
<1> QED
  BY <1>1, <1>3, <1>4, <1>5, <1>6 DEF OwnerInv, AnswersInStep

\* The proxy ends, or stops doing anything.
LEMMA EndKeeps ==
  ASSUME OwnerInv, child' \in {"exited", "reaped", "stuck"},
         child' = "stuck" => child \in Running,
         heard = "over" => child' # "stuck",
         owner' = owner \/ owner' \notin {"starting", "open", "asking"},
         UNCHANGED <<pipes, asked, outOfStep, taken>>
  PROVE  OwnerInv'
BY DEF OwnerInv, pipes, InStep, OneAnswer, NoAnswer, NothingComes, AnswersInStep, Running

\* One line less.
LEMMA LineTaken ==
  ASSUME stdout \in Seq(Lines), stdout # <<>>, stdout' = Tail(stdout)
  PROVE  /\ stdout' \in Seq(Lines) /\ Head(stdout) = stdout[1] /\ Head(stdout) \in Lines
         /\ \A i \in DOMAIN stdout' : i + 1 \in DOMAIN stdout /\ stdout'[i] = stdout[i + 1]
         /\ 1 \in DOMAIN stdout
         /\ NoAnswer => NoAnswer'
         /\ OneAnswer => OneAnswer'
         /\ OneAnswer /\ IsAnswer(Head(stdout)) => NoAnswer'
<1>1. /\ stdout' \in Seq(Lines) /\ Head(stdout) = stdout[1] /\ Head(stdout) \in Lines
      /\ \A i \in DOMAIN stdout' : i + 1 \in DOMAIN stdout /\ stdout'[i] = stdout[i + 1]
      /\ 1 \in DOMAIN stdout
      /\ \A i \in DOMAIN stdout' : i \in Nat /\ i + 1 # 1
  OBVIOUS
<1>2. NoAnswer => NoAnswer'
  BY <1>1 DEF NoAnswer
<1>3. OneAnswer => OneAnswer'
  BY <1>1 DEF OneAnswer
<1>4. OneAnswer /\ IsAnswer(Head(stdout)) => NoAnswer'
  BY <1>1 DEF OneAnswer, NoAnswer
<1> QED
  BY <1>1, <1>2, <1>3, <1>4

LEMMA ReadLineKeeps ==
  ASSUME OwnerInv, ReadLine
  PROVE  OwnerInv'
<1>1. /\ stdout \in Seq(Lines) /\ answers \in Seq(Lines) /\ stdout # <<>>
      /\ stdout' = Tail(stdout) /\ heard = "answers" /\ child # "starting"
      /\ UNCHANGED <<owner, child, signal, stdin, heard, asked, outOfStep, taken>>
  BY DEF OwnerInv, ReadLine
<1>2. /\ stdout' \in Seq(Lines) /\ Head(stdout) = stdout[1] /\ Head(stdout) \in Lines
      /\ \A i \in DOMAIN stdout' : i + 1 \in DOMAIN stdout /\ stdout'[i] = stdout[i + 1]
      /\ 1 \in DOMAIN stdout
      /\ NoAnswer => NoAnswer'
      /\ OneAnswer => OneAnswer'
      /\ OneAnswer /\ IsAnswer(Head(stdout)) => NoAnswer'
  BY <1>1, LineTaken
<1>3. \A i \in DOMAIN stdout' : stdout'[i].line # "ready"
  BY <1>1, <1>2 DEF OwnerInv
<1>4. Head(stdout).line \in {"answer", "refused"}
  BY <1>1, <1>2 DEF OwnerInv, Lines
<1>5. \/ Head(stdout).line = "refused" /\ answers' = answers
      \/ IsAnswer(Head(stdout)) /\ answers' = Append(answers, Head(stdout))
  BY <1>4 DEF ReadLine
<1>6. answers' \in Seq(Lines)
  BY <1>1, <1>2, <1>5
<1>7. ASSUME owner = "asking"
      PROVE  InStep'
  <2>1. InStep
    BY <1>7 DEF OwnerInv
  <2>2. CASE Head(stdout).line = "refused" /\ answers' = answers
    BY <1>1, <1>2, <2>1, <2>2 DEF InStep
  <2>3. CASE IsAnswer(Head(stdout)) /\ answers' = Append(answers, Head(stdout))
    <3>1. Head(stdout) = Cleared(asked) /\ ~NoAnswer /\ NoAnswer'
      BY <1>2, <2>1, <2>3 DEF InStep, NoAnswer
    <3>2. answers = <<>> /\ (child \in Running => stdin = <<>>)
      BY <2>1, <3>1 DEF InStep
    <3>3. answers' = <<Cleared(asked)>>
      BY <2>3, <3>1, <3>2
    <3> QED
      BY <1>1, <1>2, <2>1, <3>1, <3>2, <3>3 DEF InStep
  <2> QED
    BY <1>5, <2>2, <2>3
<1>8. owner = "open" /\ ~outOfStep => NothingComes'
  BY <1>1, <1>2 DEF OwnerInv, NothingComes
<1> QED
  BY <1>1, <1>2, <1>3, <1>6, <1>7, <1>8 DEF OwnerInv, AnswersInStep

LEMMA StartedKeeps ==
  ASSUME OwnerInv, Started
  PROVE  OwnerInv'
<1>1. /\ stdout \in Seq(Lines) /\ stdout # <<>> /\ stdout' = Tail(stdout)
      /\ heard = "announcement" /\ heard' = "answers" /\ owner' = "open" /\ owner = "starting"
      /\ UNCHANGED <<child, signal, stdin, answers, asked, outOfStep, taken>>
  BY DEF OwnerInv, Started
<1>2. /\ stdout' \in Seq(Lines)
      /\ \A i \in DOMAIN stdout' : i + 1 \in DOMAIN stdout /\ stdout'[i] = stdout[i + 1]
      /\ NoAnswer => NoAnswer'
  BY <1>1, LineTaken
<1>3. \A i \in DOMAIN stdout' : i + 1 \in 2 .. Len(stdout)
  BY <1>1
<1>4. child # "starting"
  BY <1>1 DEF OwnerInv
<1>5. \A i \in DOMAIN stdout' : stdout'[i].line # "ready"
  BY <1>1, <1>2, <1>3 DEF OwnerInv
<1> QED
  BY <1>1, <1>2, <1>4, <1>5 DEF OwnerInv, NothingComes, AnswersInStep

LEMMA AskToClearKeeps ==
  ASSUME OwnerInv, AskToClear
  PROVE  OwnerInv'
<1>1. /\ NothingComes /\ asked \in Nat /\ stdin \in Seq(Nat) /\ heard # "announcement"
      /\ answers' = <<>> /\ asked' = asked + 1 /\ stdin' = Append(stdin, asked + 1)
      /\ owner' = "asking" /\ ~outOfStep
      /\ UNCHANGED <<child, signal, stdout, heard, outOfStep, taken>>
  BY DEF OwnerInv, AskToClear
<1>2. stdin' \in Seq(Nat) /\ stdin' # <<>> /\ asked' \in Nat
  BY <1>1
<1>3. NoAnswer' /\ OneAnswer'
  BY <1>1 DEF NothingComes, NoAnswer, OneAnswer
<1>4. child \in Running => stdin' = <<asked'>>
  BY <1>1 DEF NothingComes
<1>5. InStep'
  BY <1>1, <1>3, <1>4 DEF InStep, NoAnswer
<1> QED
  BY <1>1, <1>2, <1>3, <1>5 DEF OwnerInv, AnswersInStep, NoAnswer

LEMMA TakeAnswerKeeps ==
  ASSUME OwnerInv, TakeAnswer
  PROVE  OwnerInv'
<1>1. /\ InStep /\ answers # <<>> /\ answers \in Seq(Lines) /\ answers' = Tail(answers)
      /\ taken' = taken \cup {<<asked, Head(answers)>>} /\ owner' = "open" /\ ~outOfStep
      /\ UNCHANGED <<child, signal, stdin, stdout, heard, asked, outOfStep>>
  BY DEF OwnerInv, TakeAnswer
<1>2. Head(answers) = Cleared(asked) /\ answers' \in Seq(Lines)
  BY <1>1 DEF InStep
<1>3. AnswersInStep'
  BY <1>1, <1>2 DEF OwnerInv, AnswersInStep
<1>4. NothingComes'
  BY <1>1 DEF InStep, NothingComes, NoAnswer
<1>5. heard # "announcement"
  BY <1>1 DEF OwnerInv
<1> QED
  BY <1>1, <1>2, <1>3, <1>4, <1>5 DEF OwnerInv, NoAnswer

LEMMA GivenUpKeeps ==
  ASSUME OwnerInv, AnswerLate \/ ProxyStopped
  PROVE  OwnerInv'
<1>1. CASE AnswerLate
  BY <1>1 DEF OwnerInv, AnswerLate, pipes, AnswersInStep, NothingComes, NoAnswer
<1>2. CASE ProxyStopped
  <2>1. NothingComes'
    BY <1>2 DEF OwnerInv, ProxyStopped, pipes, NothingComes, NoAnswer, Running
  <2> QED
    BY <1>2, <2>1 DEF OwnerInv, ProxyStopped, pipes, AnswersInStep, NothingComes, NoAnswer
<1> QED
  BY <1>1, <1>2

\* The owner leaves, one way or another.
LEMMA LeaveKeeps ==
  ASSUME OwnerInv, owner' \notin {"starting", "open", "asking"},
         UNCHANGED <<child, pipes, asked, outOfStep, taken>>
  PROVE  OwnerInv'
BY DEF OwnerInv, pipes, AnswersInStep, NoAnswer

LEMMA OwnerStep == OwnerInv /\ [OwnerNext]_ownerVars => OwnerInv'
<1> SUFFICES ASSUME OwnerInv, [OwnerNext]_ownerVars PROVE OwnerInv'
  OBVIOUS
<1>1. CASE UNCHANGED ownerVars
  BY <1>1 DEF ownerVars, pipes, OwnerInv, InStep, OneAnswer, NoAnswer, NothingComes, AnswersInStep
<1>2. CASE StdinCloses \/ Crash \/ Hang
  BY <1>2, EndKeeps DEF StdinCloses, Crash, Hang, Running, OwnerInv
<1>3. CASE Escalate
  <2>1. \/ child' = "exited"
        \/ child' = child
    BY <1>3 DEF Escalate
  <2>2. CASE child' = "exited"
    BY <1>3, <2>2, EndKeeps DEF Escalate
  <2>3. CASE child' = child
    BY <1>3, <2>3 DEF Escalate, pipes, OwnerInv, InStep, OneAnswer, NoAnswer, NothingComes,
                      AnswersInStep
  <2> QED
    BY <2>1, <2>2, <2>3
<1>4. CASE Reap
  BY <1>4, EndKeeps DEF Reap
<1>5. CASE NotStarted \/ QuitOwner \/ OwnerDies
  BY <1>5, LeaveKeeps DEF NotStarted, QuitOwner, OwnerDies
<1>6. CASE TakeRefused
  BY <1>6 DEF TakeRefused, pipes, OwnerInv, InStep, OneAnswer, NoAnswer, NothingComes,
              AnswersInStep
<1>7. CASE ReadEnd
  BY <1>7 DEF ReadEnd, OwnerInv, InStep, OneAnswer, NoAnswer, NothingComes, AnswersInStep
<1> QED
  BY <1>1, <1>2, <1>3, <1>4, <1>5, <1>6, <1>7, AnnounceKeeps, TakeCommandKeeps,
     AnswerCommandKeeps, HandshakeFailedKeeps, ReadLineKeeps, StartedKeeps, AskToClearKeeps,
     TakeAnswerKeeps, GivenUpKeeps DEF OwnerNext, ChildNext

\* An answer that the owner takes is the answer to the question it waits for, whenever the proxy
\* crashes, hangs or says refusals between, and whichever questions were given up.
THEOREM AnswersKeepStep == OwnerSpec => []AnswersInStep
<1>1. OwnerInit => OwnerInv
  BY DEF OwnerInit, OwnerInv, NothingComes, NoAnswer, AnswersInStep
<1>2. OwnerInv => AnswersInStep
  BY DEF OwnerInv
<1> QED
  BY <1>1, <1>2, OwnerStep, PTL DEF OwnerSpec

HIDE DEF IsAnswer

-----------------------------------------------------------------------------
\* The shells on one home, and their children.

\* What a shell and a process are.
ShellRecords ==
  [step : {"off", "starting", "waiting", "open", "stopping", "gone"}, version : Nat,
   install : Installs, plan : Seq(Kinds), waits : Kinds]

Processes == [step : {"none", "spawned", "bound", "exited"}, version : Nat]

\* A shell that was not started has no children, and the children of a packaged one have its
\* version: the image is looked for beside the shell's own, or it is not found.
ShellInv ==
  /\ shell \in [Shells -> ShellRecords] /\ proc \in [Shells -> [Kinds -> Processes]]
  /\ installed \in Nat
  /\ \A s \in Shells, k \in Kinds : shell[s].step = "off" => proc[s][k].step = "none"
  /\ OneRelease

\* A child that changes its step keeps its version, and a shell what it was started as.
LEMMA ChildrenKeep ==
  ASSUME ShellInv, UNCHANGED shell, UNCHANGED installed,
         proc' \in [Shells -> [Kinds -> Processes]],
         \A s \in Shells, k \in Kinds :
           \/ proc'[s][k] = proc[s][k]
           \/ proc[s][k].step # "none" /\ proc'[s][k].version = proc[s][k].version
  PROVE  ShellInv'
BY DEF ShellInv, OneRelease

LEMMA ExitKeeps ==
  ASSUME ShellInv, NEW s \in Shells, NEW k \in Kinds, NEW stage \in {"bound", "exited"},
         proc[s][k].step # "none", proc' = [proc EXCEPT ![s][k].step = stage],
         UNCHANGED <<shell, installed>>
  PROVE  ShellInv'
<1>1. proc \in [Shells -> [Kinds -> Processes]] /\ proc[s][k] \in Processes
  BY DEF ShellInv
<1>2. \A x \in Processes : /\ [x EXCEPT !.step = stage] \in Processes
                           /\ [x EXCEPT !.step = stage].version = x.version
  BY DEF Processes
<1>3. /\ proc' \in [Shells -> [Kinds -> Processes]]
      /\ proc'[s][k] = [proc[s][k] EXCEPT !.step = stage]
      /\ \A r \in Shells, j \in Kinds : <<r, j>> # <<s, k>> => proc'[r][j] = proc[r][j]
  BY <1>1, <1>2
<1> QED
  BY <1>1, <1>2, <1>3, ChildrenKeep

\* A shell that goes on keeps its version, how it is installed, and whether it was started.
LEMMA ShellsKeep ==
  ASSUME ShellInv, UNCHANGED installed,
         shell' \in [Shells -> ShellRecords], proc' \in [Shells -> [Kinds -> Processes]],
         \A s \in Shells :
           /\ shell'[s].version = shell[s].version /\ shell'[s].install = shell[s].install
           /\ shell'[s].step = "off" => shell[s].step = "off",
         \A s \in Shells, k \in Kinds :
           /\ proc[s][k].step = "none" => proc'[s][k].step = "none"
           /\ proc'[s][k].version = proc[s][k].version
  PROVE  ShellInv'
<1>1. \A s \in Shells, k \in Kinds : shell'[s].step = "off" => proc'[s][k].step = "none"
  BY DEF ShellInv
<1>2. OneRelease'
  <2> SUFFICES ASSUME NEW s \in Shells, NEW k \in Kinds,
                      shell'[s].install = "package", proc'[s][k].step # "none"
               PROVE  proc'[s][k].version = shell'[s].version
    BY DEF OneRelease
  <2>1. shell[s].install = "package" /\ proc[s][k].step # "none"
    OBVIOUS
  <2> QED
    BY <2>1 DEF ShellInv, OneRelease
<1> QED
  BY <1>1, <1>2 DEF ShellInv

LEMMA StartShellKeeps ==
  ASSUME ShellInv, NEW s \in Shells, StartShell(s)
  PROVE  ShellInv'
<1>1. PICK install \in Installs, plan \in Plans :
        shell' = [shell EXCEPT ![s] = [step |-> "starting", version |-> installed,
                                       install |-> install, plan |-> plan, waits |-> "agent"]]
  BY DEF StartShell, RunningImage
<1>2. plan \in Seq(Kinds)
  <2>1. "net" \in Kinds /\ "keystore" \in Kinds /\ "agent" \in Kinds
    BY DEF Kinds
  <2>2. /\ <<"net">> \in Seq(Kinds) /\ <<"keystore">> \in Seq(Kinds)
        /\ <<"net", "keystore", "agent">> \in Seq(Kinds)
    BY <2>1
  <2> QED
    BY <2>2 DEF Plans
<1> DEFINE new == [step |-> "starting", version |-> installed, install |-> install,
                   plan |-> plan, waits |-> "agent"]
<1>3. new \in ShellRecords /\ new.step = "starting"
  BY <1>2 DEF ShellRecords, ShellInv, Kinds
<1> HIDE DEF new
<1>4. shell' = [shell EXCEPT ![s] = new]
  BY <1>1 DEF new
<1>5. shell \in [Shells -> ShellRecords] /\ shell[s].step = "off"
      /\ proc' = proc /\ installed' = installed
  BY DEF ShellInv, StartShell
<1>6. /\ shell' \in [Shells -> ShellRecords] /\ shell'[s].step # "off"
      /\ \A r \in Shells \ {s} : shell'[r] = shell[r]
  BY <1>3, <1>4, <1>5
<1>7. \A k \in Kinds : proc[s][k].step = "none"
  BY <1>5 DEF ShellInv
<1> QED
  BY ZenonT(30), <1>5, <1>6, <1>7 DEF ShellInv, OneRelease

LEMMA StartChildKeeps ==
  ASSUME ShellInv, NEW s \in Shells, StartChild(s)
  PROVE  ShellInv'
<1> DEFINE k == Head(shell[s].plan)
<1>1. /\ shell \in [Shells -> ShellRecords] /\ shell[s] \in ShellRecords
      /\ proc \in [Shells -> [Kinds -> Processes]] /\ installed \in Nat
      /\ shell[s].step = "starting"
  BY DEF ShellInv, StartChild
<1>2. k \in Kinds /\ Tail(shell[s].plan) \in Seq(Kinds)
  BY <1>1 DEF StartChild, ShellRecords
<1>3. PICK v \in Locate(s) :
        proc' = [proc EXCEPT ![s][k] = [step |-> "spawned", version |-> v]]
  BY DEF StartChild
<1>4. v \in Nat /\ (shell[s].install = "package" => v = shell[s].version)
  BY <1>1 DEF Locate, InBundle, InPackage, ShellRecords, Installs
<1> DEFINE stage == IF k = "agent" THEN "open" ELSE "waiting"
           new == [shell[s] EXCEPT !.step = stage, !.plan = Tail(@), !.waits = k]
           started == [step |-> "spawned", version |-> v]
<1>5. /\ new \in ShellRecords /\ new.step # "off"
      /\ new.version = shell[s].version /\ new.install = shell[s].install
  BY <1>1, <1>2 DEF ShellRecords
<1>6. started \in Processes /\ started.version = v /\ started.step # "none"
  BY <1>4 DEF Processes
<1>7. shell' = [shell EXCEPT ![s] = new] /\ installed' = installed
  BY DEF StartChild
<1>8. proc' = [proc EXCEPT ![s][k] = started]
  BY <1>3
<1> HIDE DEF new, started, k, stage
<1>9. /\ shell' \in [Shells -> ShellRecords] /\ shell'[s] = new
      /\ \A r \in Shells \ {s} : shell'[r] = shell[r]
  BY <1>1, <1>5, <1>7
<1>10. /\ proc' \in [Shells -> [Kinds -> Processes]] /\ proc'[s][k] = started
       /\ \A r \in Shells, j \in Kinds : <<r, j>> # <<s, k>> => proc'[r][j] = proc[r][j]
  BY <1>1, <1>2, <1>6, <1>8
<1>11. \A r \in Shells, j \in Kinds : shell'[r].step = "off" => proc'[r][j].step = "none"
  BY <1>5, <1>9, <1>10 DEF ShellInv
<1>12. OneRelease'
  <2> SUFFICES ASSUME NEW r \in Shells, NEW j \in Kinds,
                      shell'[r].install = "package", proc'[r][j].step # "none"
               PROVE  proc'[r][j].version = shell'[r].version
    BY DEF OneRelease
  <2>1. shell'[r].install = shell[r].install /\ shell'[r].version = shell[r].version
    BY <1>5, <1>9
  <2>2. CASE r = s /\ j = k
    BY <2>1, <2>2, <1>4, <1>6, <1>10
  <2>3. CASE <<r, j>> # <<s, k>>
    BY <2>1, <2>3, <1>10 DEF ShellInv, OneRelease
  <2> QED
    BY <2>2, <2>3
<1> QED
  BY <1>1, <1>7, <1>9, <1>10, <1>11, <1>12 DEF ShellInv

\* The children of a shell that ends: killed, or left to notice.
LEMMA GoneKeeps ==
  ASSUME ShellInv, NEW s \in Shells, shell[s].step # "off",
         shell' = [shell EXCEPT ![s] = ShellGone(s)], UNCHANGED installed,
         \/ UNCHANGED proc
         \/ proc' = [proc EXCEPT ![s] = [k \in Kinds |->
               IF Alive(s, k) THEN [proc[s][k] EXCEPT !.step = "exited"] ELSE proc[s][k]]]
  PROVE  ShellInv'
<1>1. /\ shell \in [Shells -> ShellRecords] /\ shell[s] \in ShellRecords
      /\ proc \in [Shells -> [Kinds -> Processes]]
  BY DEF ShellInv
<1>2. /\ ShellGone(s) \in ShellRecords /\ ShellGone(s).step = "gone"
      /\ ShellGone(s).version = shell[s].version /\ ShellGone(s).install = shell[s].install
  <2>1. <<>> \in Seq(Kinds) /\ "agent" \in Kinds
    BY DEF Kinds
  <2> QED
    BY <1>1, <2>1 DEF ShellGone, ShellRecords
<1>3. /\ shell' \in [Shells -> ShellRecords] /\ shell'[s] = ShellGone(s)
      /\ \A r \in Shells \ {s} : shell'[r] = shell[r]
  BY <1>1, <1>2
<1>4. /\ proc' \in [Shells -> [Kinds -> Processes]]
      /\ \A r \in Shells, k \in Kinds :
           /\ proc[r][k].step = "none" => proc'[r][k].step = "none"
           /\ proc'[r][k].version = proc[r][k].version
  <2> DEFINE ended == [k \in Kinds |->
               IF Alive(s, k) THEN [proc[s][k] EXCEPT !.step = "exited"] ELSE proc[s][k]]
  <2>1. \A x \in Processes : /\ [x EXCEPT !.step = "exited"] \in Processes
                             /\ [x EXCEPT !.step = "exited"].version = x.version
    BY DEF Processes
  <2>2. ended \in [Kinds -> Processes]
    BY <1>1, <2>1
  <2>3. \A k \in Kinds : /\ proc[s][k].step = "none" => ended[k].step = "none"
                         /\ ended[k].version = proc[s][k].version
    BY <1>1, <2>1 DEF Alive
  <2>4. proc' = proc \/ proc' = [proc EXCEPT ![s] = ended]
    OBVIOUS
  <2> HIDE DEF ended
  <2> QED
    BY <1>1, <2>2, <2>3, <2>4
<1> QED
  BY <1>2, <1>3, <1>4, ShellsKeep

LEMMA ShellStepKeeps ==
  ASSUME ShellInv, NEW s \in Shells, NEW stage \in {"open", "starting", "stopping"},
         NEW waits \in Kinds,
         shell' = [shell EXCEPT ![s].step = stage, ![s].waits = waits],
         UNCHANGED <<installed, proc>>
  PROVE  ShellInv'
<1>1. shell \in [Shells -> ShellRecords] /\ proc \in [Shells -> [Kinds -> Processes]]
      /\ shell[s] \in ShellRecords
  BY DEF ShellInv
<1> DEFINE new == [shell[s] EXCEPT !.step = stage, !.waits = waits]
<1>2. /\ new \in ShellRecords /\ new.step # "off"
      /\ new.version = shell[s].version /\ new.install = shell[s].install
  BY <1>1 DEF ShellRecords
<1>3. shell' = [shell EXCEPT ![s] = new]
  OBVIOUS
<1> HIDE DEF new
<1>4. /\ shell' \in [Shells -> ShellRecords] /\ shell'[s] = new
      /\ \A r \in Shells \ {s} : shell'[r] = shell[r]
  BY <1>1, <1>2, <1>3
<1> QED
  BY <1>1, <1>2, <1>4, ShellsKeep

LEMMA ShellsStep == ShellInv /\ [SupervisorNext]_supervisor => ShellInv'
<1> SUFFICES ASSUME ShellInv, [SupervisorNext]_supervisor PROVE ShellInv'
  OBVIOUS
<1>1. CASE UNCHANGED supervisor
  BY <1>1 DEF supervisor, ShellInv, OneRelease
<1>2. CASE Upgrade
  BY <1>2 DEF Upgrade, ShellInv, OneRelease
<1>3. ASSUME NEW s \in Shells, WaitReady(s)
      PROVE  ShellInv'
  <2>1. "agent" \in Kinds
    BY DEF Kinds
  <2>2. PICK stage \in {"open", "starting"} :
          shell' = [shell EXCEPT ![s].step = stage, ![s].waits = "agent"]
    BY <1>3 DEF WaitReady
  <2> QED
    BY <1>3, <2>1, <2>2, ShellStepKeeps DEF WaitReady
<1>4. ASSUME NEW s \in Shells, ShutsDown(s)
      PROVE  ShellInv'
  <2>1. shell[s].waits \in Kinds
    BY DEF ShellInv, ShellRecords
  <2>2. shell' = [shell EXCEPT ![s].step = "stopping", ![s].waits = shell[s].waits]
    BY <1>4 DEF ShutsDown, ShellInv, ShellRecords
  <2> QED
    BY <1>4, <2>1, <2>2, ShellStepKeeps DEF ShutsDown
<1>5. ASSUME NEW s \in Shells, Failed(s) \/ Stopped(s) \/ ShellDies(s)
      PROVE  ShellInv'
  BY <1>5, GoneKeeps DEF Failed, Stopped, ShellDies
<1>6. ASSUME NEW s \in Shells, NEW k \in Kinds, Bind(s, k)
      PROVE  ShellInv'
  <2>1. PICK stage \in {"bound", "exited"} : proc' = [proc EXCEPT ![s][k].step = stage]
    BY <1>6 DEF Bind
  <2> QED
    BY <1>6, <2>1, ExitKeeps DEF Bind
<1>7. ASSUME NEW s \in Shells, NEW k \in Kinds,
             Exit(s, k) \/ ParentGone(s, k) \/ Terminated(s, k)
      PROVE  ShellInv'
  BY <1>7, ExitKeeps DEF Exit, ParentGone, Terminated, Alive
<1> QED
  BY <1>1, <1>2, <1>3, <1>4, <1>5, <1>6, <1>7, StartShellKeeps, StartChildKeeps
     DEF SupervisorNext

\* An upgrade never pairs two releases: whatever is installed, between the start of a packaged
\* shell and that of a child, the child has the shell's version.
THEOREM ReleasesMatch == SupervisorSpec => []OneRelease
<1>1. SupervisorInit => ShellInv
  <2> SUFFICES ASSUME SupervisorInit PROVE ShellInv
    OBVIOUS
  <2> DEFINE off == [step |-> "off", version |-> 0, install |-> "tree", plan |-> <<>>,
                     waits |-> "agent"]
  <2>1. off \in ShellRecords
    BY DEF ShellRecords, Installs, Kinds
  <2>2. NoProcess \in Processes /\ NoProcess.step = "none"
    BY DEF NoProcess, Processes
  <2>3. shell = [s \in Shells |-> off] /\ proc = [s \in Shells |-> [k \in Kinds |-> NoProcess]]
    BY DEF SupervisorInit
  <2>4. installed \in Nat
    BY DEF SupervisorInit
  <2> HIDE DEF off
  <2> QED
    BY <2>1, <2>2, <2>3, <2>4 DEF ShellInv, OneRelease
<1>2. ShellInv => OneRelease
  BY DEF ShellInv
<1> QED
  BY <1>1, <1>2, ShellsStep, PTL DEF SupervisorSpec

-----------------------------------------------------------------------------
\* A fetch over the socket of the network process.

Frames == [kind : {"begin", "chunk", "end", "error"}, piece : Nat]

\* The frame before the next one to be read: the beginning is number 0, the chunks follow.
Before == IF client = "body" THEN Len(got) ELSE 0 - 1

Listens == client \in {"idle", "begun", "body"}

Sound == question.integrity \in {"none", "matches"}

\* What is on the wire follows what was read, without a gap, up to what was sent.
WireFollows ==
  \A i \in DOMAIN wire :
    /\ wire[i].kind = "begin" => Sound
    /\ wire[i].kind = "chunk" => wire[i].piece = Before + i
    /\ wire[i].kind = "end" =>
         Sound /\ server = "over" /\ sent = Body(question) /\ sent + 1 = Before + i

ServiceInv ==
  /\ question \in Questions /\ sent \in Nat /\ wire \in Seq(Frames) /\ got \in Seq(Nat)
  /\ client \in {"idle", "begun", "body", "whole", "refused"}
  /\ server \in {"idle", "asked", "streaming", "over"}
  /\ got = [n \in 1 .. Len(got) |-> n] /\ Len(got) <= WholeLimit
  /\ client \in {"idle", "begun"} => got = <<>>
  /\ server \in {"idle", "asked"} => wire = <<>> /\ sent = 0 /\ client \in {"idle", "begun"}
  /\ client = "idle" => server = "idle"
  /\ server = "streaming" => Sound /\ (Listens => Before + Len(wire) = sent)
  /\ Listens => WireFollows
  /\ client = "body" => Sound
  /\ WholeOrNothing

LEMMA BodyOK == \A q \in Questions : Body(q) \in Nat
BY ServiceAssumption DEF Questions, Body

LEMMA FramesOK ==
  /\ \A kind \in {"begin", "end", "error"} : Frame(kind) \in Frames /\ Frame(kind).kind = kind
  /\ \A n \in Nat : Chunk(n) \in Frames /\ Chunk(n).kind = "chunk" /\ Chunk(n).piece = n
BY DEF Frames, Frame, Chunk

\* What a frame does to the wire, while somebody listens.
LEMMA Sending ==
  ASSUME wire \in Seq(Frames), NEW frame \in Frames, Send(frame), Listens
  PROVE  /\ wire' \in Seq(Frames) /\ Len(wire') = Len(wire) + 1
         /\ \A i \in DOMAIN wire : wire'[i] = wire[i]
         /\ wire'[Len(wire) + 1] = frame
         /\ \A i \in DOMAIN wire' : i \in DOMAIN wire \/ i = Len(wire) + 1
<1>1. wire' = Append(wire, frame)
  BY DEF Send, Listens
<1> QED
  BY <1>1

\* A step of the server: the frame it sends has the number that follows.
LEMMA ServerKeeps ==
  ASSUME ServiceInv, server # "idle", server # "over", NEW frame \in Frames, Send(frame),
         UNCHANGED <<question, client, got>>, sent' \in Nat,
         server' \in {"streaming", "over"},
         server' = "streaming" => Sound /\ (Listens => Before + Len(wire) + 1 = sent'),
         frame.kind = "begin" => Sound,
         frame.kind = "chunk" /\ Listens => frame.piece = Before + Len(wire) + 1,
         frame.kind = "end" =>
           /\ Sound /\ server' = "over" /\ sent' = Body(question)
           /\ Listens => sent' + 1 = Before + Len(wire) + 1
  PROVE  ServiceInv'
<1>1. /\ wire \in Seq(Frames) /\ client' = client /\ got' = got /\ question' = question
      /\ Listens' = Listens /\ Before' = Before /\ Sound' = Sound /\ got \in Seq(Nat)
  BY DEF ServiceInv, Listens, Before, Sound
<1>2. client # "idle"
  BY DEF ServiceInv
<1>3. WholeOrNothing'
  BY <1>1 DEF ServiceInv, WholeOrNothing
<1>4. CASE Listens
  <2>1. /\ wire' \in Seq(Frames) /\ Len(wire') = Len(wire) + 1
        /\ \A i \in DOMAIN wire : wire'[i] = wire[i]
        /\ wire'[Len(wire) + 1] = frame
        /\ \A i \in DOMAIN wire' : i \in DOMAIN wire \/ i = Len(wire) + 1
    BY <1>1, <1>4, Sending
  <2>2. Before \in Int /\ Len(wire) \in Nat
    BY <1>1 DEF Before
  <2>3. \A i \in DOMAIN wire : wire[i].kind # "end"
    BY <1>4 DEF ServiceInv, WireFollows
  <2>4. WireFollows'
    <3> SUFFICES ASSUME NEW i \in DOMAIN wire'
                 PROVE  /\ wire'[i].kind = "begin" => Sound
                        /\ wire'[i].kind = "chunk" => wire'[i].piece = Before + i
                        /\ wire'[i].kind = "end" =>
                             /\ Sound /\ server' = "over" /\ sent' = Body(question)
                             /\ sent' + 1 = Before + i
      BY <1>1 DEF WireFollows
    <3>1. i \in DOMAIN wire \/ i = Len(wire) + 1
      BY <2>1
    <3>2. CASE i \in DOMAIN wire
      BY <1>4, <2>1, <2>3, <3>2 DEF ServiceInv, WireFollows
    <3>3. CASE i = Len(wire) + 1
      <4>1. wire'[i] = frame /\ Before + i = Before + Len(wire) + 1
        BY <2>1, <2>2, <3>3
      <4> QED
        BY <1>4, <4>1
    <3> QED
      BY <3>1, <3>2, <3>3
  <2>5. server' = "streaming" => Before + Len(wire') = sent'
    BY <1>4, <2>1, <2>2
  <2> QED
    BY <1>1, <1>2, <1>3, <1>4, <2>1, <2>4, <2>5 DEF ServiceInv
<1>5. CASE ~Listens
  <2>1. wire' = wire
    BY <1>5 DEF Send, Listens, ServiceInv
  <2> QED
    BY <1>1, <1>2, <1>3, <1>5, <2>1 DEF ServiceInv, Listens
<1> QED
  BY <1>4, <1>5

LEMMA ServerStepKeeps ==
  ASSUME ServiceInv, Take \/ Refuse \/ Begin \/ SendChunk \/ CutShort \/ FetchEnd \/ ServerDies
  PROVE  ServiceInv'
<1>0. /\ wire \in Seq(Frames) /\ sent \in Nat /\ question \in Questions /\ got \in Seq(Nat)
      /\ Body(question) \in Nat /\ Before \in Int /\ Len(wire) \in Nat
  BY BodyOK DEF ServiceInv, Before
<1>1. CASE Take
  BY <1>1 DEF Take, ServiceInv, WireFollows, Before, Listens, Sound, WholeOrNothing
<1>2. CASE Refuse
  BY <1>0, <1>2, ServerKeeps, FramesOK DEF Refuse
<1>3. CASE Begin
  <2>1. server = "asked" /\ wire = <<>> /\ sent = 0 /\ client # "body" /\ Sound
    BY <1>3 DEF ServiceInv, Begin, Sound
  <2>2. Before + Len(wire) + 1 = sent
    BY <2>1 DEF Before
  <2> QED
    BY <1>0, <1>3, <2>1, <2>2, ServerKeeps, FramesOK DEF Begin
<1>4. CASE SendChunk
  <2>1. Sound /\ (Listens => Before + Len(wire) = sent)
    BY <1>4 DEF ServiceInv, SendChunk
  <2>2. Chunk(sent + 1) \in Frames /\ Chunk(sent + 1).kind = "chunk"
        /\ Chunk(sent + 1).piece = sent + 1
    BY <1>0, FramesOK
  <2> QED
    BY <1>0, <1>4, <2>1, <2>2, ServerKeeps DEF SendChunk
<1>5. CASE CutShort
  BY <1>0, <1>5, ServerKeeps, FramesOK DEF CutShort
<1>6. CASE FetchEnd
  <2>1. Sound /\ (Listens => Before + Len(wire) = sent)
    BY <1>6 DEF ServiceInv, FetchEnd
  <2> QED
    BY <1>0, <1>6, <2>1, ServerKeeps, FramesOK DEF FetchEnd
<1>7. CASE ServerDies
  <2>1. WireFollows => WireFollows'
    BY <1>7 DEF ServerDies, WireFollows, Before, Sound
  <2> QED
    BY <1>7, <2>1 DEF ServerDies, ServiceInv, Listens, WholeOrNothing, Sound
<1> QED
  BY <1>1, <1>2, <1>3, <1>4, <1>5, <1>6, <1>7

\* A client that gives up keeps nothing.
LEMMA RefusedKeeps ==
  ASSUME ServiceInv, client \in {"begun", "body"}, client' = "refused",
         wire' \in Seq(Frames), wire = <<>> => server = "over",
         UNCHANGED <<question, server, sent, got>>
  PROVE  ServiceInv'
BY DEF ServiceInv, Listens, WholeOrNothing, Sound

LEMMA Reading ==
  ASSUME ServiceInv, NEW kind, Read(kind)
  PROVE  /\ wire' \in Seq(Frames) /\ wire # <<>> /\ wire[1].kind = kind /\ Head(wire) = wire[1]
         /\ 1 \in DOMAIN wire /\ Len(wire') = Len(wire) - 1 /\ Len(wire) \in Nat
         /\ \A i \in DOMAIN wire' :
              i \in Nat /\ i + 1 \in DOMAIN wire /\ wire'[i] = wire[i + 1]
BY DEF ServiceInv, Read

LEMMA ClientStepKeeps ==
  ASSUME ServiceInv, Ask \/ ReadBegin \/ ReadChunk \/ ReadFetchEnd \/ ReadError \/ ReadClosed
  PROVE  ServiceInv'
<1>0. /\ wire \in Seq(Frames) /\ sent \in Nat /\ question \in Questions /\ got \in Seq(Nat)
      /\ Body(question) \in Nat /\ Len(wire) \in Nat /\ Len(got) \in Nat /\ WholeLimit \in Nat
  BY BodyOK, ServiceAssumption DEF ServiceInv
<1>1. CASE Ask
  BY <1>1 DEF Ask, ServiceInv, WireFollows, Before, Listens, Sound, WholeOrNothing
<1>2. ASSUME ReadBegin, client' = "body"
      PROVE  ServiceInv'
  <2>1. /\ wire' \in Seq(Frames) /\ wire # <<>> /\ wire[1].kind = "begin"
        /\ 1 \in DOMAIN wire /\ Len(wire') = Len(wire) - 1
        /\ \A i \in DOMAIN wire' :
             i \in Nat /\ i + 1 \in DOMAIN wire /\ wire'[i] = wire[i + 1]
    BY <1>2, Reading DEF ReadBegin
  <2>2. /\ client = "begun" /\ got = <<>> /\ got' = <<>> /\ Len(got) = 0 /\ WireFollows
        /\ UNCHANGED <<question, server, sent>>
    BY <1>2 DEF ReadBegin, ServiceInv, Listens
  <2>3. Sound
    BY <2>1, <2>2 DEF WireFollows
  <2>4. Before = 0 - 1 /\ Before' = 0
    BY <1>2, <2>2 DEF Before
  <2>5. WireFollows'
    BY <2>1, <2>2, <2>4 DEF WireFollows, Sound
  <2>6. server = "streaming" => Before' + Len(wire') = sent
    BY <1>0, <2>1, <2>2, <2>4 DEF ServiceInv, Listens
  <2>7. server \notin {"idle", "asked"}
    BY <2>1 DEF ServiceInv
  <2> QED
    BY <1>2, <2>1, <2>2, <2>3, <2>5, <2>6, <2>7 DEF ServiceInv, WholeOrNothing, Sound
<1>3. ASSUME ReadChunk, client' = client
      PROVE  ServiceInv'
  <2>1. /\ wire' \in Seq(Frames) /\ wire # <<>> /\ wire[1].kind = "chunk"
        /\ Head(wire) = wire[1]
        /\ 1 \in DOMAIN wire /\ Len(wire') = Len(wire) - 1
        /\ \A i \in DOMAIN wire' :
             i \in Nat /\ i + 1 \in DOMAIN wire /\ wire'[i] = wire[i + 1]
    BY <1>3, Reading DEF ReadChunk
  <2>2. /\ client = "body" /\ WireFollows /\ Sound /\ Len(got) + 1 <= WholeLimit
        /\ UNCHANGED <<question, server, sent>>
        /\ got' = Append(got, wire[1].piece)
    BY <1>0, <1>3, <2>1 DEF ReadChunk, ServiceInv, Listens
  <2>3. wire[1].piece = Len(got) + 1
    BY <2>1, <2>2 DEF WireFollows, Before
  <2>4. /\ got' \in Seq(Nat) /\ Len(got') = Len(got) + 1
        /\ got' = [n \in 1 .. Len(got') |-> n]
    BY <1>0, <2>2, <2>3 DEF ServiceInv
  <2>5. Before' = Before + 1 /\ Before = Len(got)
    BY <1>3, <2>2, <2>4 DEF Before
  <2>6. WireFollows'
    <3> SUFFICES ASSUME NEW i \in DOMAIN wire'
                 PROVE  /\ wire'[i].kind = "begin" => Sound
                        /\ wire'[i].kind = "chunk" => wire'[i].piece = Before' + i
                        /\ wire'[i].kind = "end" =>
                             /\ Sound /\ server = "over" /\ sent = Body(question)
                             /\ sent + 1 = Before' + i
      BY <2>2 DEF WireFollows, Sound
    <3>1. i \in Nat /\ i + 1 \in DOMAIN wire /\ wire'[i] = wire[i + 1]
      BY <2>1
    <3>2. Before' + i = Before + (i + 1)
      BY <1>0, <2>5, <3>1
    <3>3. /\ wire[i + 1].kind = "begin" => Sound
          /\ wire[i + 1].kind = "chunk" => wire[i + 1].piece = Before + (i + 1)
          /\ wire[i + 1].kind = "end" =>
               Sound /\ server = "over" /\ sent = Body(question) /\ sent + 1 = Before + (i + 1)
      BY <2>2, <3>1 DEF WireFollows
    <3> QED
      BY <3>1, <3>2, <3>3
  <2>7. ASSUME server = "streaming" PROVE Before' + Len(wire') = sent
    <3>1. Before + Len(wire) = sent
      BY <2>2, <2>7 DEF ServiceInv, Listens
    <3>2. Len(wire') = Len(wire) - 1 /\ Before' = Before + 1 /\ Before \in Nat
      BY <1>0, <2>1, <2>5
    <3> QED
      BY <1>0, <3>1, <3>2
  <2>8. server \notin {"idle", "asked"}
    BY <2>1 DEF ServiceInv
  <2> QED
    BY <1>3, <2>1, <2>2, <2>4, <2>6, <2>7, <2>8 DEF ServiceInv, WholeOrNothing, Sound
<1>4. CASE ReadFetchEnd
  <2>1. wire[1].kind = "end" /\ 1 \in DOMAIN wire /\ wire' \in Seq(Frames) /\ wire # <<>>
    BY <1>4, Reading DEF ReadFetchEnd
  <2>2. client = "body" /\ WireFollows /\ client' = "whole"
        /\ UNCHANGED <<question, server, sent, got>>
    BY <1>4 DEF ReadFetchEnd, ServiceInv, Listens
  <2>3. /\ Sound /\ server = "over" /\ sent = Body(question) /\ sent + 1 = Len(got) + 1
    BY <2>1, <2>2 DEF WireFollows, Before
  <2>4. Len(got) = Body(question)
    BY <1>0, <2>3
  <2> QED
    BY <2>1, <2>2, <2>3, <2>4 DEF ServiceInv, WholeOrNothing, Sound, Listens
<1>5. CASE ReadError \/ ReadClosed
  <2>1. wire' \in Seq(Frames) /\ (wire = <<>> => server = "over")
    BY <1>0, <1>5, Reading DEF ReadError, ReadClosed
  <2> QED
    BY <1>5, <2>1, RefusedKeeps DEF ReadError, ReadClosed
<1>6. ASSUME ReadBegin \/ ReadChunk, client' = "refused"
      PROVE  ServiceInv'
  <2>1. wire' \in Seq(Frames) /\ wire # <<>>
    BY <1>6, Reading DEF ReadBegin, ReadChunk
  <2>2. got' = got
    BY <1>6 DEF ReadBegin, ReadChunk
  <2> QED
    BY <1>6, <2>1, <2>2, RefusedKeeps DEF ReadBegin, ReadChunk
<1>7. ReadBegin => client' \in {"body", "refused"}
  BY DEF ReadBegin
<1>8. ReadChunk => client' = client \/ client' = "refused"
  BY DEF ReadChunk
<1> QED
  BY <1>1, <1>2, <1>3, <1>4, <1>5, <1>6, <1>7, <1>8

\* What a client takes for a page is the whole body, in order, and within the limit, for bodies
\* and limits of any size: a stream that is cut short is an error.
THEOREM PagesAreWhole == ServiceSpec => []WholeOrNothing
<1>1. ServiceInit => ServiceInv
  BY ServiceAssumption DEF ServiceInit, ServiceInv, WireFollows, WholeOrNothing, Listens, Before, Sound
<1>2. ServiceInv /\ [ServiceNext]_service => ServiceInv'
  <2> SUFFICES ASSUME ServiceInv, [ServiceNext]_service PROVE ServiceInv'
    OBVIOUS
  <2>1. CASE UNCHANGED service
    BY <2>1 DEF service, ServiceInv, WireFollows, WholeOrNothing, Listens, Before, Sound
  <2> QED
    BY <2>1, ServerStepKeeps, ClientStepKeeps DEF ServiceNext
<1>3. ServiceInv => WholeOrNothing
  BY DEF ServiceInv
<1> QED
  BY <1>1, <1>2, <1>3, PTL DEF ServiceSpec
=============================================================================
