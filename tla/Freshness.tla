----------------------------- MODULE Freshness ------------------------------
(***************************************************************************)
(* How old a stored response is, whether it may be stored, and whether it  *)
(* may answer a request.  crates/syndeo-cache/src/policy.rs, the parts of  *)
(* headers.rs it reads, and the times that fetch.rs gives the responses it *)
(* stores.  One address, with its origin, a cache on the way to it, and a  *)
(* clock of each: this cache's runs true, the origin's may be wrong.       *)
(*                                                                         *)
(* A field or a directive that is not there is Absent.                     *)
(***************************************************************************)
EXTENDS Naturals

CONSTANTS
  MaxTime,        \* bound on the clock
  Skews,          \* how far the origin's clock may be ahead of true time
  Responses,      \* what the origin says of its responses
  Demands,        \* what requests say
  Divisor,        \* one over opts.heuristic_fraction
  MaxHeuristic,   \* opts.max_heuristic_lifetime
  NoControl,      \* the directives of a response that has none
  Unreadable,     \* an Expires that is not a date
  Absent

\* A number that may not be there.
Number == Nat \cup {Absent}

Controls ==
  [maxAge : Number, sMaxage : Number, staleIfError : Number, staleWhileRevalidate : Number,
   noStore : BOOLEAN, noCache : BOOLEAN, mustUnderstand : BOOLEAN, private : BOOLEAN,
   public : BOOLEAN, mustRevalidate : BOOLEAN, proxyRevalidate : BOOLEAN]

ASSUME FreshnessAssumption ==
  /\ MaxTime \in Nat /\ Skews \subseteq Nat /\ Divisor \in Nat \ {0} /\ MaxHeuristic \in Nat
  /\ Absent \notin Nat
  /\ Responses \subseteq [status : Nat, control : Controls, expires : Number \cup {Unreadable},
                          lastModified : Number, etag : BOOLEAN, dated : BOOLEAN,
                          setsCookie : BOOLEAN, variesOnAll : BOOLEAN]
  /\ Demands \subseteq [noStore : BOOLEAN, noCache : BOOLEAN, conditional : BOOLEAN,
                        authorized : BOOLEAN, maxAge : Number, minFresh : Number,
                        maxStale : Number]

VARIABLES
  clock,   \* true time
  asking,  \* when the request under way was sent, or Absent
  stored,  \* the entry, or Absent
  skew,    \* the origin's clock
  shared   \* opts.shared

freshness == <<clock, asking, stored, skew, shared>>

Or(value, default) == IF value = Absent THEN default ELSE value

\* saturating_sub.
Less(a, b) == IF a > b THEN a - b ELSE 0

AtLeast(a, b) == IF a > b THEN a ELSE b

-----------------------------------------------------------------------------
\* freshness_lifetime.
Lifetime(e) ==
  LET date == Or(e.date, e.responseTime) IN
  CASE shared /\ e.control.sMaxage # Absent -> e.control.sMaxage
    [] ~(shared /\ e.control.sMaxage # Absent) /\ e.control.maxAge # Absent -> e.control.maxAge
    [] OTHER ->
         IF e.expires = Unreadable THEN 0
         ELSE IF e.expires # Absent THEN Less(e.expires, date)
         ELSE IF e.status \in {301, 308} THEN MaxHeuristic
         ELSE IF e.lastModified # Absent
         THEN LET tenth == Less(date, e.lastModified) \div Divisor IN
              IF tenth < MaxHeuristic THEN tenth ELSE MaxHeuristic
         ELSE 0

Explicit(e) == \/ shared /\ e.control.sMaxage # Absent
               \/ e.control.maxAge # Absent \/ e.expires # Absent

\* current_age, without the time that the response was kept.
AgeOnArrival(e, now) == AtLeast(Less(e.responseTime, Or(e.date, e.responseTime)), Or(e.age, 0))

\* current_age.
CurrentAge(e, now) ==
  LET apparent == Less(e.responseTime, Or(e.date, e.responseTime))
      corrected == Or(e.age, 0) + Less(e.responseTime, e.requestTime)
  IN AtLeast(apparent, corrected) + Less(now, e.responseTime)

\* is_heuristically_cacheable.
Heuristic(status) == status \in {200, 203, 204, 206, 300, 301, 308, 404, 405, 410, 414, 501}

\* has_validator.
HasValidator(e) == e.etag \/ e.lastModified # Absent

\* storability, of the answer to a GET of ordinary size.
Storable(e, demand) ==
  /\ ~demand.noStore
  /\ e.control.noStore => e.control.mustUnderstand /\ Heuristic(e.status)
  /\ shared => /\ ~e.control.private
               /\ demand.authorized => e.control.public \/ e.control.sMaxage # Absent \/ e.control.mustRevalidate
               /\ e.setsCookie => e.control.public
  /\ ~e.variesOnAll /\ e.status # 304
  /\ Heuristic(e.status) \/ Explicit(e)
  /\ Lifetime(e) # 0 \/ HasValidator(e)

Pinned(e) == e.control.mustRevalidate \/ (shared /\ e.control.proxyRevalidate)

\* stale_if_error_allowance.
StaleIfError(e, staleness) ==
  IF Pinned(e) \/ e.control.noCache \/ e.control.staleIfError = Absent \/ staleness > e.control.staleIfError
  THEN Absent ELSE e.control.staleIfError - staleness

\* evaluate, and what lookup makes of it.
Evaluate(e, demand, now) ==
  LET age == CurrentAge(e, now)
      lifetime == Lifetime(e)
      staleness == Less(age, lifetime)
      minFresh == Or(demand.minFresh, 0)
  IN CASE demand.conditional \/ demand.noStore -> "unusable"
       [] ~(demand.conditional \/ demand.noStore)
            /\ (demand.noCache \/ e.control.noCache
                  \/ (demand.maxAge # Absent /\ age > demand.maxAge)) -> "revalidate"
       [] OTHER ->
            IF age + minFresh < lifetime THEN "fresh"
            ELSE IF minFresh > 0 /\ age < lifetime THEN "revalidate"
            ELSE IF ~Pinned(e) /\ demand.maxStale # Absent /\ staleness <= demand.maxStale
            THEN "stale"
            ELSE IF ~Pinned(e) /\ e.control.staleWhileRevalidate # Absent
                    /\ staleness <= e.control.staleWhileRevalidate
            THEN "stale and refreshed"
            ELSE "revalidate"

-----------------------------------------------------------------------------
FreshnessInit ==
  /\ clock = 0 /\ asking = Absent /\ stored = Absent
  /\ skew \in Skews /\ shared \in BOOLEAN

Tick == clock < MaxTime /\ clock' = clock + 1 /\ UNCHANGED <<asking, stored, skew, shared>>

SendRequest == asking = Absent /\ asking' = clock /\ UNCHANGED <<clock, stored, skew, shared>>

\* What the origin said at a time, sent on by the cache on the way at another.
Stamped(response, born, passed) ==
  [f \in DOMAIN response \cup {"date", "age"} |->
     CASE f = "date" -> IF response.dated THEN born + skew ELSE Absent
       [] f = "age" -> IF passed = born THEN Absent ELSE passed - born
       [] f = "expires" -> IF response.expires \in {Absent, Unreadable} THEN response.expires
                           ELSE born + skew + response.expires
       [] OTHER -> response[f]]

\* The times fetch.rs stores a response with: the head's, of one that is streamed, or the end's,
\* and when it ended.  The time the request was sent is not kept; delay remembers it, and
\* confirmed the date of the 304 that confirmed the entry.
With(said, born, headed) ==
  [f \in DOMAIN said \cup {"requestTime", "responseTime", "born", "delay", "confirmed"} |->
     CASE f = "requestTime" -> headed
       [] f = "responseTime" -> clock
       [] f = "born" -> born
       [] f = "delay" -> headed - asking
       [] f = "confirmed" -> Absent
       [] OTHER -> said[f]]

\* An answer: made at the origin or kept on the way, and stored if it may be.
Answer ==
  /\ asking # Absent /\ asking' = Absent /\ UNCHANGED <<clock, skew, shared>>
  /\ \E response \in Responses, headed \in asking .. clock : \E passed \in asking .. headed :
     \E born \in 0 .. passed :
       LET entry == With(Stamped(response, born, passed), born, headed) IN
       /\ born < asking => passed > born
       /\ \E storable \in {Storable(entry, demand) : demand \in Demands} :
            stored' = IF storable THEN entry ELSE stored

\* apply_304: each field that the 304 has is replaced as a whole, Cache-Control with every
\* directive of it; the rest stay.
Apply304(e, said) ==
  [f \in DOMAIN e |->
     IF f \in {"date", "age", "expires", "lastModified"} /\ said[f] # Absent THEN said[f]
     ELSE IF f = "control" /\ said.control # NoControl THEN said.control ELSE e[f]]

\* record_not_modified: at the end of the answer, both times are the clock's.
NotModifiedAnswer ==
  /\ asking # Absent /\ stored # Absent /\ HasValidator(stored)
  /\ asking' = Absent /\ UNCHANGED <<clock, skew, shared>>
  /\ \E response \in Responses, born \in asking .. clock :
       LET said == Stamped(response, born, born) IN
       stored' = [Apply304(stored, said) EXCEPT !.requestTime = clock, !.responseTime = clock,
                                                !.born = born, !.delay = clock - asking,
                                                !.confirmed = said.date]

FreshnessNext == Tick \/ SendRequest \/ Answer \/ NotModifiedAnswer

-----------------------------------------------------------------------------
TrueAge(e) == clock - e.born

Uses == {"fresh", "stale", "stale and refreshed"}

\* However wrong the origin's clock is, and whatever was kept on the way, nothing is used past
\* what its origin and the request allow by more than the time its response took to begin:
\* a fresh response is younger than its lifetime, a stale one within the window it or the
\* request gives, never one that has to be confirmed, and never one older than the request takes.
UsedWithLeave ==
  stored # Absent =>
    \A demand \in Demands :
      LET use == Evaluate(stored, demand, clock)
          age == Less(TrueAge(stored), stored.delay)
          lifetime == Lifetime(stored)
      IN use \in Uses =>
           /\ ~stored.control.noCache /\ ~demand.noCache /\ ~demand.conditional /\ ~demand.noStore
           /\ demand.maxAge # Absent => age <= demand.maxAge
           /\ use = "fresh" => age + Or(demand.minFresh, 0) < lifetime
           /\ use # "fresh" =>
                /\ ~stored.control.mustRevalidate
                /\ shared => ~stored.control.proxyRevalidate
                /\ Less(age, lifetime) <=
                     IF use = "stale" THEN demand.maxStale ELSE stored.control.staleWhileRevalidate

\* A fresh response is younger than its lifetime.
FreshIsYoung ==
  stored # Absent =>
    \A demand \in Demands :
      Evaluate(stored, demand, clock) = "fresh" => TrueAge(stored) < Lifetime(stored)

FreshnessSpec == FreshnessInit /\ [][FreshnessNext]_freshness
=============================================================================
