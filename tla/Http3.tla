-------------------------------- MODULE Http3 --------------------------------
(***************************************************************************)
(* When a request goes over QUIC: what origins advertised (AltSvc), the    *)
(* cooldown after an attempt that failed, and the connections that are     *)
(* kept (QuicClient).  crates/syndeo-net/src/h3.rs.                        *)
(***************************************************************************)
EXTENDS Naturals

CONSTANTS
  Sites,      \* authorities
  Lifetime,   \* DEFAULT_ALT_SVC_LIFETIME, and the most that `ma` may ask for
  Cooldown,   \* FAILURE_COOLDOWN
  MaxTime,    \* bound: the clock stops there
  Quic        \* whether a QUIC endpoint could be opened

ASSUME Http3Assumption == /\ Lifetime \in Nat /\ Cooldown \in Nat /\ MaxTime \in Nat
                          /\ Quic \in BOOLEAN

VARIABLES
  known,      \* AltSvc::known
  open,       \* QuicClient::connections, the authorities that have one
  now,        \* Instant::now()
  failedAt    \* history: when the last attempt to an authority failed

http3 == <<known, open, now, failedAt>>

Unknown == [says |-> "nothing", until |-> 0]

Advertisement ==
  [says : {"nothing", "available", "failed"}, until : 0 .. MaxTime + Lifetime + Cooldown]

Never == MaxTime + 1

Http3Init ==
  /\ known = [s \in Sites |-> Unknown]
  /\ open = {}
  /\ now = 0
  /\ failedAt = [s \in Sites |-> Never]

\* AltSvc::should_try, and what it forgets as it looks.
ShouldTry(s) == known[s].says = "available" /\ known[s].until > now

Looked(s) == IF known[s].until > now THEN known ELSE [known EXCEPT ![s] = Unknown]

\* What the Alt-Svc field of a response says: nothing, "clear", or "h3" with a lifetime.
Fields == {"none", "clear", "h3"}

\* AltSvc::observe.
Observed(s, field) ==
  CASE field = "none"  -> known
    [] field = "clear" -> [known EXCEPT ![s] = Unknown]
    [] field = "h3"    -> [known EXCEPT ![s] = [says |-> "available", until |-> now + Lifetime]]

\* AltSvc::failed.
CoolDown(s) == [known EXCEPT ![s] = [says |-> "failed", until |-> now + Cooldown]]

\* may_retry_over_tcp: how far the attempt got matters only to what is not idempotent.
MayRetryOverTcp(method, reached) == reached = "nothing" \/ method = "GET"

\* sender_for: a connection that is there is used, dead or not; a new one is added unless
\* another request added one meanwhile.
Connected(s) == open \cup {s}

Tick == now < MaxTime /\ now' = now + 1 /\ UNCHANGED <<known, open, failedAt>>

Http3Type ==
  /\ known \in [Sites -> Advertisement]
  /\ open \subseteq Sites
  /\ now \in 0 .. MaxTime
  /\ failedAt \in [Sites -> 0 .. Never]
=============================================================================
