--------------------------- MODULE SequentialProofs ---------------------------
(***************************************************************************)
(* The policy of the cache, the program an agent runs, the ranges of a     *)
(* body and the budget of a page: for any responses, requests, delays and  *)
(* clocks, for any lines that arrive in any pieces, for any ranges in any  *)
(* order, and for any page parsed with any budget.                         *)
(***************************************************************************)
EXTENDS Freshness, AgentClient, Ranges, PageBudget, Integers, FiniteSetTheorems,
        SequenceTheorems, WellFoundedInduction, TLAPS

(***************************************************************************)
(* Freshness.                                                              *)
(***************************************************************************)

\* The fields an entry has, and the bound on its age that the times it was stored with keep:
\* it is no older than what it says and the time it was on its way.
Entry(e) ==
  /\ {"requestTime", "responseTime", "born", "delay", "date", "age", "expires", "lastModified",
      "control", "confirmed"} \subseteq DOMAIN e
  /\ e = [f \in DOMAIN e |-> e[f]]
  /\ e.requestTime \in Nat /\ e.responseTime \in Nat /\ e.born \in Nat /\ e.delay \in Nat
  /\ e.date \in Number /\ e.age \in Number /\ e.lastModified \in Number
  /\ e.expires \in Number \cup {Unreadable} /\ e.control \in Controls
  /\ e.requestTime <= e.responseTime /\ e.responseTime <= clock /\ e.born <= clock
  /\ clock - e.born <= e.delay + Or(e.age, 0) + (e.responseTime - e.requestTime)
                         + (clock - e.responseTime)

FreshnessInv ==
  /\ clock \in Nat /\ skew \in Nat /\ shared \in BOOLEAN
  /\ asking # Absent => asking \in Nat /\ asking <= clock
  /\ stored # Absent => Entry(stored)

LEMMA OrOK == \A v \in Number : Or(v, 0) \in Nat
BY FreshnessAssumption DEF Or, Number

\* current_age is never less than the true age, but for the time a response took to begin.
LEMMA AgeIsBounded ==
  ASSUME clock \in Nat, NEW e, Entry(e)
  PROVE  /\ CurrentAge(e, clock) \in Nat
         /\ Less(TrueAge(e), e.delay) <= CurrentAge(e, clock)
         /\ Less(TrueAge(e), e.delay) \in Nat
<1>1. /\ e.requestTime \in Nat /\ e.responseTime \in Nat /\ e.born \in Nat /\ e.delay \in Nat
      /\ e.requestTime <= e.responseTime /\ e.responseTime <= clock /\ e.born <= clock
      /\ clock - e.born <= e.delay + Or(e.age, 0) + (e.responseTime - e.requestTime)
                             + (clock - e.responseTime)
      /\ Or(e.age, 0) \in Nat
  BY OrOK DEF Entry
<1> DEFINE apparent == Less(e.responseTime, Or(e.date, e.responseTime))
           corrected == Or(e.age, 0) + Less(e.responseTime, e.requestTime)
<1>2. Or(e.date, e.responseTime) \in Nat
  BY <1>1 DEF Or, Entry, Number
<1>3. apparent \in Nat
  BY <1>1, <1>2 DEF Less
<1>4. corrected = Or(e.age, 0) + (e.responseTime - e.requestTime) /\ corrected \in Nat
  BY <1>1 DEF Less
<1>5. CurrentAge(e, clock) = AtLeast(apparent, corrected) + Less(clock, e.responseTime)
  BY DEF CurrentAge
<1> HIDE DEF apparent, corrected
<1>6. AtLeast(apparent, corrected) \in Nat /\ AtLeast(apparent, corrected) >= corrected
  BY <1>3, <1>4 DEF AtLeast
<1>7. Less(clock, e.responseTime) = clock - e.responseTime
  BY <1>1 DEF Less
<1>8. Less(TrueAge(e), e.delay) \in Nat
      /\ (Less(TrueAge(e), e.delay) = 0 \/ Less(TrueAge(e), e.delay) = clock - e.born - e.delay)
  BY <1>1 DEF Less, TrueAge
<1> QED
  BY <1>1, <1>4, <1>5, <1>6, <1>7, <1>8

LEMMA ControlsOK ==
  \A c \in Controls : /\ c.maxAge \in Number /\ c.sMaxage \in Number
                      /\ c.staleWhileRevalidate \in Number
BY DEF Controls

LEMMA LifetimeOK ==
  ASSUME clock \in Nat, NEW e, Entry(e)
  PROVE  Lifetime(e) \in Int
<1> DEFINE date == Or(e.date, e.responseTime)
<1>1. date \in Nat /\ e.lastModified \in Number /\ e.expires \in Number \cup {Unreadable}
      /\ e.control \in Controls
  BY DEF Entry, Or, Number
<1>2. e.control.maxAge \in Number /\ e.control.sMaxage \in Number
  BY <1>1, ControlsOK
<1> DEFINE tenth == Less(date, e.lastModified) \div Divisor
           guess == IF tenth < MaxHeuristic THEN tenth ELSE MaxHeuristic
           implied == IF e.expires = Unreadable THEN 0
                      ELSE IF e.expires # Absent THEN Less(e.expires, date)
                      ELSE IF e.status \in {301, 308} THEN MaxHeuristic
                      ELSE IF e.lastModified # Absent THEN guess ELSE 0
<1>3. Lifetime(e) = CASE shared /\ e.control.sMaxage # Absent -> e.control.sMaxage
                      [] ~(shared /\ e.control.sMaxage # Absent) /\ e.control.maxAge # Absent
                           -> e.control.maxAge
                      [] OTHER -> implied
  BY DEF Lifetime
<1>4. e.lastModified # Absent => guess \in Int
  <2>1. e.lastModified # Absent => Less(date, e.lastModified) \in Nat
    BY <1>1 DEF Less, Number
  <2>2. \A a \in Nat : a \div Divisor \in Int
    BY FreshnessAssumption
  <2> HIDE DEF date
  <2> QED
    BY <2>1, <2>2, FreshnessAssumption
<1>5. e.expires \in Number /\ e.expires # Absent => Less(e.expires, date) \in Int
  BY <1>1 DEF Less, Number
<1>6. implied \in Int
  <2> HIDE DEF guess, date
  <2> QED
    BY <1>1, <1>4, <1>5, FreshnessAssumption
<1> HIDE DEF implied
<1> QED
  BY <1>2, <1>3, <1>6 DEF Number

\* What evaluate says of an entry of such an age and lifetime.
LEMMA EvaluateOK ==
  ASSUME FreshnessInv, stored # Absent, NEW demand \in Demands,
         Evaluate(stored, demand, clock) \in Uses
  PROVE  LET use == Evaluate(stored, demand, clock)
             now == CurrentAge(stored, clock)
         IN /\ ~stored.control.noCache /\ ~demand.noCache /\ ~demand.conditional /\ ~demand.noStore
            /\ demand.maxAge # Absent => ~(now > demand.maxAge)
            /\ use = "fresh" => now + Or(demand.minFresh, 0) < Lifetime(stored)
            /\ use # "fresh" =>
                 /\ ~Pinned(stored)
                 /\ use = "stale" => /\ demand.maxStale # Absent
                                     /\ Less(now, Lifetime(stored)) <= demand.maxStale
                 /\ use # "stale" =>
                      /\ stored.control.staleWhileRevalidate # Absent
                      /\ Less(now, Lifetime(stored)) <= stored.control.staleWhileRevalidate
<1> DEFINE e == stored
           now == CurrentAge(e, clock)
           lifetime == Lifetime(e)
           staleness == Less(now, lifetime)
           minFresh == Or(demand.minFresh, 0)
           barred == demand.conditional \/ demand.noStore
           asks == demand.noCache \/ e.control.noCache
                     \/ (demand.maxAge # Absent /\ now > demand.maxAge)
           rest == IF now + minFresh < lifetime THEN "fresh"
                   ELSE IF minFresh > 0 /\ now < lifetime THEN "revalidate"
                   ELSE IF ~Pinned(e) /\ demand.maxStale # Absent /\ staleness <= demand.maxStale
                   THEN "stale"
                   ELSE IF ~Pinned(e) /\ e.control.staleWhileRevalidate # Absent
                           /\ staleness <= e.control.staleWhileRevalidate
                   THEN "stale and refreshed"
                   ELSE "revalidate"
           use == Evaluate(e, demand, clock)
<1>1. use = CASE barred -> "unusable"
              [] ~barred /\ asks -> "revalidate"
              [] OTHER -> rest
  BY DEF Evaluate
<1>2. use # "unusable" /\ use # "revalidate"
  BY DEF Uses
<1>3. ~barred /\ ~asks /\ use = rest
  <2> HIDE DEF barred, asks, rest, use
  <2> QED
    BY <1>1, <1>2
<1>4. /\ use = "fresh" => now + minFresh < lifetime
      /\ use # "fresh" =>
           /\ ~Pinned(e)
           /\ use = "stale" => demand.maxStale # Absent /\ staleness <= demand.maxStale
           /\ use # "stale" => /\ e.control.staleWhileRevalidate # Absent
                               /\ staleness <= e.control.staleWhileRevalidate
  <2>1. rest # "revalidate"
    <3> HIDE DEF rest, use
    <3> QED
      BY <1>2, <1>3
  <2> HIDE DEF use, now, lifetime, staleness, minFresh
  <2> QED
    BY <1>3, <2>1
<1> QED
  BY <1>3, <1>4

LEMMA DemandsOK ==
  \A d \in Demands : d.maxAge \in Number /\ d.minFresh \in Number /\ d.maxStale \in Number
BY FreshnessAssumption

LEMMA UsesAreAllowed == FreshnessInv => UsedWithLeave
<1> SUFFICES ASSUME FreshnessInv, stored # Absent, NEW demand \in Demands,
                    Evaluate(stored, demand, clock) \in Uses
             PROVE  LET use == Evaluate(stored, demand, clock)
                        age == Less(TrueAge(stored), stored.delay)
                        lifetime == Lifetime(stored)
                    IN /\ ~stored.control.noCache /\ ~demand.noCache /\ ~demand.conditional
                       /\ ~demand.noStore
                       /\ demand.maxAge # Absent => age <= demand.maxAge
                       /\ use = "fresh" => age + Or(demand.minFresh, 0) < lifetime
                       /\ use # "fresh" =>
                            /\ ~stored.control.mustRevalidate
                            /\ shared => ~stored.control.proxyRevalidate
                            /\ Less(age, lifetime) <=
                                 IF use = "stale" THEN demand.maxStale
                                 ELSE stored.control.staleWhileRevalidate
  BY DEF UsedWithLeave
<1> DEFINE use == Evaluate(stored, demand, clock)
           age == Less(TrueAge(stored), stored.delay)
           now == CurrentAge(stored, clock)
           lifetime == Lifetime(stored)
           window == stored.control.staleWhileRevalidate
<1>1. clock \in Nat /\ Entry(stored)
  BY DEF FreshnessInv
<1>2. now \in Nat /\ age \in Nat /\ age <= now /\ lifetime \in Int
  BY <1>1, AgeIsBounded, LifetimeOK
<1>3. /\ ~stored.control.noCache /\ ~demand.noCache /\ ~demand.conditional /\ ~demand.noStore
      /\ demand.maxAge # Absent => ~(now > demand.maxAge)
      /\ use = "fresh" => now + Or(demand.minFresh, 0) < lifetime
      /\ use # "fresh" =>
           /\ ~Pinned(stored)
           /\ use = "stale" => demand.maxStale # Absent /\ Less(now, lifetime) <= demand.maxStale
           /\ use # "stale" => window # Absent /\ Less(now, lifetime) <= window
  BY EvaluateOK
<1>4. /\ demand.maxAge \in Number /\ demand.maxStale \in Number /\ window \in Number
      /\ Or(demand.minFresh, 0) \in Nat
  BY <1>1, DemandsOK, OrOK, ControlsOK DEF Entry
<1> HIDE DEF use, age, now, lifetime, window
<1>5. demand.maxAge # Absent => age <= demand.maxAge
  BY <1>2, <1>3, <1>4 DEF Number
<1>6. use = "fresh" => age + Or(demand.minFresh, 0) < lifetime
  BY <1>2, <1>3, <1>4
<1>7. Less(age, lifetime) <= Less(now, lifetime) /\ Less(age, lifetime) \in Int
      /\ Less(now, lifetime) \in Int
  BY <1>2 DEF Less
<1>8. use # "fresh" => Less(age, lifetime) <= IF use = "stale" THEN demand.maxStale ELSE window
  BY <1>3, <1>4, <1>7 DEF Number
<1>9. use # "fresh" => /\ ~stored.control.mustRevalidate
                       /\ shared => ~stored.control.proxyRevalidate
  BY <1>3 DEF Pinned
<1> QED
  BY <1>3, <1>5, <1>6, <1>8, <1>9 DEF use, age, lifetime, window

\* The entry that an answer makes, and the one that a 304 confirms.
LEMMA AnsweredOK ==
  ASSUME FreshnessInv, asking # Absent, NEW response \in Responses, NEW headed \in asking .. clock,
         NEW passed \in asking .. headed, NEW born \in 0 .. passed
  PROVE  Entry(With(Stamped(response, born, passed), born, headed))
<1> DEFINE said == Stamped(response, born, passed)
           e == With(said, born, headed)
<1>1. /\ clock \in Nat /\ asking \in Nat /\ headed \in Nat /\ passed \in Nat /\ born \in Nat
      /\ asking <= passed /\ passed <= headed /\ headed <= clock /\ born <= passed /\ skew \in Nat
  BY DEF FreshnessInv
<1>2. /\ response \in [status : Nat, control : Controls, expires : Number \cup {Unreadable},
                       lastModified : Number, etag : BOOLEAN, dated : BOOLEAN,
                       setsCookie : BOOLEAN, variesOnAll : BOOLEAN]
  BY FreshnessAssumption
<1>3. /\ {"control", "expires", "lastModified"} \subseteq DOMAIN response
      /\ response.control \in Controls /\ response.expires \in Number \cup {Unreadable}
      /\ response.lastModified \in Number
  BY <1>2
<1>4. /\ DOMAIN said = DOMAIN response \cup {"date", "age"}
      /\ said.control = response.control /\ said.lastModified = response.lastModified
      /\ said.date = IF response.dated THEN born + skew ELSE Absent
      /\ said.age = IF passed = born THEN Absent ELSE passed - born
      /\ said.expires = IF response.expires \in {Absent, Unreadable} THEN response.expires
                        ELSE born + skew + response.expires
  BY <1>3 DEF Stamped
<1> HIDE DEF said
<1>5. /\ DOMAIN e = DOMAIN said \cup {"requestTime", "responseTime", "born", "delay", "confirmed"}
      /\ e.requestTime = headed /\ e.responseTime = clock /\ e.born = born
      /\ e.delay = headed - asking
      /\ e.control = said.control /\ e.lastModified = said.lastModified /\ e.date = said.date
      /\ e.age = said.age /\ e.expires = said.expires
      /\ e = [f \in DOMAIN e |-> e[f]]
  BY <1>3, <1>4 DEF With
<1> HIDE DEF e
<1>6. e.date \in Number /\ e.age \in Number /\ e.expires \in Number \cup {Unreadable}
  BY <1>1, <1>3, <1>4, <1>5 DEF Number
<1>7. Or(e.age, 0) = passed - born
  BY <1>1, <1>4, <1>5, FreshnessAssumption DEF Or
<1>8. /\ e.requestTime \in Nat /\ e.responseTime \in Nat /\ e.born \in Nat /\ e.delay \in Nat
      /\ e.requestTime <= e.responseTime /\ e.responseTime <= clock /\ e.born <= clock
      /\ clock - e.born <= e.delay + Or(e.age, 0) + (e.responseTime - e.requestTime)
                             + (clock - e.responseTime)
  BY <1>1, <1>5, <1>7
<1>9. Entry(e)
  BY <1>3, <1>4, <1>5, <1>6, <1>8 DEF Entry
<1> QED
  BY <1>9 DEF e, said

LEMMA ConfirmedOK ==
  ASSUME FreshnessInv, asking # Absent, stored # Absent, NEW response \in Responses,
         NEW born \in asking .. clock
  PROVE  LET said == Stamped(response, born, born) IN
         Entry([Apply304(stored, said) EXCEPT !.requestTime = clock, !.responseTime = clock,
                                              !.born = born, !.delay = clock - asking,
                                              !.confirmed = said.date])
<1> DEFINE said == Stamped(response, born, born)
           kept == Apply304(stored, said)
           e == [kept EXCEPT !.requestTime = clock, !.responseTime = clock,
                             !.born = born, !.delay = clock - asking, !.confirmed = said.date]
<1>1. /\ clock \in Nat /\ asking \in Nat /\ born \in Nat /\ asking <= born /\ born <= clock
      /\ skew \in Nat /\ Entry(stored)
  BY DEF FreshnessInv
<1>2. /\ response \in [status : Nat, control : Controls, expires : Number \cup {Unreadable},
                       lastModified : Number, etag : BOOLEAN, dated : BOOLEAN,
                       setsCookie : BOOLEAN, variesOnAll : BOOLEAN]
  BY FreshnessAssumption
<1>3. /\ {"control", "expires", "lastModified"} \subseteq DOMAIN response
      /\ response.control \in Controls /\ response.expires \in Number \cup {Unreadable}
      /\ response.lastModified \in Number
  BY <1>2
<1>4. /\ said.control \in Controls /\ said.lastModified \in Number
      /\ said.date \in Number /\ said.age \in Number /\ said.expires \in Number \cup {Unreadable}
  <2>1. /\ said.control = response.control /\ said.lastModified = response.lastModified
        /\ said.date = IF response.dated THEN born + skew ELSE Absent
        /\ said.age = Absent
        /\ said.expires = IF response.expires \in {Absent, Unreadable} THEN response.expires
                          ELSE born + skew + response.expires
    BY <1>3 DEF Stamped
  <2> HIDE DEF said
  <2> QED
    BY <1>1, <1>3, <2>1 DEF Number
<1> HIDE DEF said
<1>5. /\ DOMAIN kept = DOMAIN stored
      /\ kept = [f \in DOMAIN kept |-> kept[f]]
      /\ kept.control \in {said.control, stored.control}
      /\ kept.date \in {said.date, stored.date} /\ kept.age \in {said.age, stored.age}
      /\ kept.expires \in {said.expires, stored.expires}
      /\ kept.lastModified \in {said.lastModified, stored.lastModified}
  BY <1>1 DEF Apply304, Entry
<1> HIDE DEF kept
<1>6. /\ DOMAIN e = DOMAIN kept /\ e = [f \in DOMAIN e |-> e[f]]
      /\ {"requestTime", "responseTime", "born", "delay", "date", "age", "expires",
          "lastModified", "control", "confirmed"} \subseteq DOMAIN e
      /\ e.requestTime = clock /\ e.responseTime = clock /\ e.born = born
      /\ e.delay = clock - asking
      /\ e.control = kept.control /\ e.date = kept.date /\ e.age = kept.age
      /\ e.expires = kept.expires /\ e.lastModified = kept.lastModified
  BY <1>1, <1>5 DEF Entry
<1> HIDE DEF e
<1>7. /\ e.control \in Controls /\ e.date \in Number /\ e.age \in Number
      /\ e.expires \in Number \cup {Unreadable} /\ e.lastModified \in Number
  BY <1>1, <1>4, <1>5, <1>6 DEF Entry
<1>8. Or(e.age, 0) \in Nat
  BY <1>7, OrOK
<1>9. /\ e.requestTime \in Nat /\ e.responseTime \in Nat /\ e.born \in Nat /\ e.delay \in Nat
      /\ e.requestTime <= e.responseTime /\ e.responseTime <= clock /\ e.born <= clock
      /\ clock - e.born <= e.delay + Or(e.age, 0) + (e.responseTime - e.requestTime)
                             + (clock - e.responseTime)
  BY <1>1, <1>6, <1>8
<1>10. Entry(e)
  BY <1>6, <1>7, <1>9 DEF Entry
<1> QED
  BY <1>10 DEF e, kept, said

LEMMA TickKeeps ==
  ASSUME FreshnessInv, Tick
  PROVE  FreshnessInv'
<1>1. clock' = clock + 1 /\ clock \in Nat /\ UNCHANGED <<asking, stored, skew, shared>>
  BY DEF Tick, FreshnessInv
<1>2. ASSUME stored # Absent
      PROVE  Entry(stored)'
  <2>1. Entry(stored)
    BY <1>2 DEF FreshnessInv
  <2>2. Or(stored.age, 0) \in Nat
    BY <2>1, OrOK DEF Entry
  <2> QED
    BY <1>1, <2>1, <2>2 DEF Entry
<1> QED
  BY <1>1, <1>2 DEF FreshnessInv

LEMMA AnswersKeep ==
  ASSUME FreshnessInv, Answer \/ NotModifiedAnswer
  PROVE  FreshnessInv'
<1>1. asking # Absent /\ asking' = Absent /\ UNCHANGED <<clock, skew, shared>>
  BY DEF Answer, NotModifiedAnswer
<1>2. CASE Answer
  <2>1. PICK response \in Responses, headed \in asking .. clock :
          \E passed \in asking .. headed : \E born \in 0 .. passed :
            stored' \in {stored, With(Stamped(response, born, passed), born, headed)}
    BY <1>2 DEF Answer
  <2>2. PICK passed \in asking .. headed :
          \E born \in 0 .. passed :
            stored' \in {stored, With(Stamped(response, born, passed), born, headed)}
    BY <2>1
  <2>3. PICK born \in 0 .. passed :
          stored' \in {stored, With(Stamped(response, born, passed), born, headed)}
    BY <2>2
  <2>4. Entry(With(Stamped(response, born, passed), born, headed))
    BY <1>1, AnsweredOK
  <2>5. stored' # Absent => \E e : stored' = e /\ Entry(e)
    BY <2>3, <2>4 DEF FreshnessInv
  <2>6. stored' # Absent => Entry(stored)'
    BY <1>1, <2>5 DEF Entry
  <2> QED
    BY <1>1, <2>6 DEF FreshnessInv
<1>3. CASE NotModifiedAnswer
  <2>1. PICK response \in Responses, born \in asking .. clock :
          LET said == Stamped(response, born, born) IN
          stored' = [Apply304(stored, said) EXCEPT !.requestTime = clock, !.responseTime = clock,
                                                   !.born = born, !.delay = clock - asking,
                                                   !.confirmed = said.date]
    BY <1>3 DEF NotModifiedAnswer
  <2>2. stored # Absent
    BY <1>3 DEF NotModifiedAnswer
  <2>3. \E e : stored' = e /\ Entry(e)
    BY <1>1, <2>1, <2>2, ConfirmedOK
  <2>4. Entry(stored)'
    BY <1>1, <2>3 DEF Entry
  <2> QED
    BY <1>1, <2>4 DEF FreshnessInv
<1> QED
  BY <1>2, <1>3

\* However wrong the origin's clock is, and however long a response was kept on the way, nothing
\* is used past what its origin and the request allow by more than the time it took to begin:
\* for all headers, requests, lengths of time, and numbers of confirmations.
THEOREM UsedOnlyWithLeave == FreshnessSpec => []UsedWithLeave
<1>1. FreshnessInit => FreshnessInv
  BY FreshnessAssumption DEF FreshnessInit, FreshnessInv
<1>2. FreshnessInv /\ [FreshnessNext]_freshness => FreshnessInv'
  <2> SUFFICES ASSUME FreshnessInv, [FreshnessNext]_freshness PROVE FreshnessInv'
    OBVIOUS
  <2>1. CASE UNCHANGED freshness
    BY <2>1 DEF freshness, FreshnessInv, Entry
  <2>2. CASE SendRequest
    BY <2>2 DEF SendRequest, FreshnessInv, Entry
  <2> QED
    BY <2>1, <2>2, TickKeeps, AnswersKeep DEF FreshnessNext
<1> QED
  BY <1>1, <1>2, UsesAreAllowed, PTL DEF FreshnessSpec

(***************************************************************************)
(* Induction over numbers, and the sequence that FlattenSeq makes of       *)
(* several.                                                                *)
(***************************************************************************)

LEMMA LeastOf ==
  ASSUME NEW T, T \subseteq Nat, T # {}
  PROVE  \E m \in T : \A k \in T : m <= k
<1> DEFINE Below == {0 .. k : k \in T}
<1>1. Below \subseteq FiniteSubsetsOf(Nat)
  <2>1. \A k \in Nat : IsFiniteSet(0 .. k) /\ 0 .. k \subseteq Nat
    BY FS_Interval
  <2> QED BY <2>1 DEF FiniteSubsetsOf
<1>2. Below # {}
  OBVIOUS
<1>3. \E x \in Below : \A y \in Below : <<y, x>> \notin StrictSubsetOrdering(Nat)
  <2>1. IsWellFoundedOn(StrictSubsetOrdering(Nat), FiniteSubsetsOf(Nat))
    BY FS_StrictSubsetOrderingWellFounded
  <2> HIDE DEF Below
  <2> QED BY <1>1, <1>2, <2>1, WFMin
<1>4. PICK m \in T : \A y \in Below : <<y, 0 .. m>> \notin StrictSubsetOrdering(Nat)
  BY <1>3
<1>5. ASSUME NEW k \in T, k < m
      PROVE  FALSE
  <2>1. 0 .. k \in Below
    OBVIOUS
  <2>2. 0 .. k \subseteq 0 .. m /\ 0 .. k # 0 .. m /\ 0 .. k \subseteq Nat /\ 0 .. m \subseteq Nat
    <3>1. m \in 0 .. m /\ m \notin 0 .. k
      BY <1>5
    <3> QED BY <1>5, <3>1
  <2>3. <<0 .. k, 0 .. m>> \in StrictSubsetOrdering(Nat)
    BY <2>2 DEF StrictSubsetOrdering
  <2> QED BY <1>4, <2>1, <2>3
<1> QED BY <1>5

LEMMA Reaches ==
  ASSUME NEW P, 0 \in P, \A n \in Nat : n \in P => n + 1 \in P
  PROVE  Nat \subseteq P
<1> SUFFICES ASSUME Nat \ P # {} PROVE FALSE
  OBVIOUS
<1>1. PICK m \in Nat \ P : \A k \in Nat \ P : m <= k
  BY LeastOf
<1>2. m # 0 /\ m - 1 \in Nat /\ m - 1 \in P
  BY <1>1
<1> QED BY <1>1, <1>2

\* The texts that FlattenSeq makes one of, put one after the other.
LEMMA Flattening ==
  ASSUME NEW X, NEW seqs \in Seq(Seq(X)), Len(seqs) > 0
  PROVE  \E f \in [1 .. Len(seqs) -> Seq(X)] :
           /\ \A i \in 1 .. Len(seqs) : f[i] = IF i = 1 THEN seqs[i] ELSE f[i - 1] \o seqs[i]
           /\ FlattenSeq(seqs) = f[Len(seqs)]
<1> DEFINE n == Len(seqs)
           step(f, i) == IF i = 1 THEN seqs[i] ELSE f[i - 1] \o seqs[i]
           Upto(k) == \E f \in [1 .. k -> Seq(X)] : \A i \in 1 .. k : f[i] = step(f, i)
           P == {k \in Nat : k <= n => Upto(k)}
<1>1. 0 \in P
  <2>1. \A i \in 1 .. 0 : FALSE
    OBVIOUS
  <2>2. [i \in 1 .. 0 |-> <<>>] \in [1 .. 0 -> Seq(X)]
    BY <2>1
  <2>3. Upto(0)
    BY <2>1, <2>2
  <2> HIDE DEF Upto
  <2> QED BY <2>3
<1>2. ASSUME NEW k \in Nat, k \in P
      PROVE  k + 1 \in P
  <2> SUFFICES ASSUME k + 1 <= n
               PROVE  Upto(k + 1)
    <3> HIDE DEF Upto
    <3> QED OBVIOUS
  <2>0. Upto(k)
    <3> HIDE DEF Upto
    <3> QED BY <1>2
  <2>1. PICK f \in [1 .. k -> Seq(X)] : \A i \in 1 .. k : f[i] = step(f, i)
    BY <2>0
  <2>2. step(f, k + 1) \in Seq(X)
    <3>1. seqs[k + 1] \in Seq(X)
      OBVIOUS
    <3>2. k + 1 # 1 => f[k] \in Seq(X)
      OBVIOUS
    <3> QED BY <3>1, <3>2
  <2> DEFINE g == [i \in 1 .. (k + 1) |-> IF i = k + 1 THEN step(f, k + 1) ELSE f[i]]
  <2>3. g \in [1 .. (k + 1) -> Seq(X)]
    <3>1. \A i \in 1 .. (k + 1) : i # k + 1 => i \in 1 .. k
      OBVIOUS
    <3> HIDE DEF step
    <3> QED BY <2>2, <3>1
  <2>4. \A i \in 1 .. (k + 1) : g[i] = step(g, i)
    <3> SUFFICES ASSUME NEW i \in 1 .. (k + 1) PROVE g[i] = step(g, i)
      OBVIOUS
    <3>1. i # 1 => i - 1 \in 1 .. k /\ g[i - 1] = f[i - 1]
      OBVIOUS
    <3>2. step(g, i) = step(f, i)
      <4> HIDE DEF g
      <4> QED BY <3>1
    <3>3. g[i] = step(f, i)
      <4>1. CASE i = k + 1
        <5> HIDE DEF step
        <5> QED BY <4>1
      <4>2. CASE i # k + 1
        <5>1. i \in 1 .. k
          BY <4>2
        <5> HIDE DEF step
        <5> QED BY <2>1, <4>2, <5>1
      <4> QED BY <4>1, <4>2
    <3> QED BY <3>2, <3>3
  <2> QED BY <2>3, <2>4
<1>3. Upto(n)
  <2>1. Nat \subseteq P
    <3> HIDE DEF P
    <3> QED BY <1>1, <1>2, Reaches
  <2> HIDE DEF Upto
  <2> QED BY <2>1
<1>4. PICK f \in [1 .. n -> Seq(X)] : \A i \in 1 .. n : f[i] = step(f, i)
  BY <1>3
<1> DEFINE F == CHOOSE g : g = [i \in 1 .. n |-> IF i = 1 THEN seqs[i] ELSE g[i - 1] \o seqs[i]]
<1>5. f = [i \in 1 .. n |-> IF i = 1 THEN seqs[i] ELSE f[i - 1] \o seqs[i]]
  BY <1>4
<1>6. F = [i \in 1 .. n |-> IF i = 1 THEN seqs[i] ELSE F[i - 1] \o seqs[i]]
  <2> HIDE DEF n
  <2> QED BY <1>5
<1>7. FlattenSeq(seqs) = F[n]
  BY DEF FlattenSeq
<1> HIDE DEF F
<1>8. \A i \in 1 .. n : F[i] = IF i = 1 THEN seqs[i] ELSE F[i - 1] \o seqs[i]
  BY <1>6
<1> DEFINE Q == {k \in Nat : k \in 1 .. n => F[k] \in Seq(X)}
<1>9. 1 .. n \subseteq Q
  <2>1. 0 \in Q
    OBVIOUS
  <2>2. ASSUME NEW k \in Nat, k \in Q
        PROVE  k + 1 \in Q
    <3> SUFFICES ASSUME k + 1 \in 1 .. n PROVE F[k + 1] \in Seq(X)
      OBVIOUS
    <3>1. seqs[k + 1] \in Seq(X)
      BY SMTT(30)
    <3>2. k # 0 => F[k] \in Seq(X)
      BY <2>2
    <3>3. F[k + 1] = IF k = 0 THEN seqs[k + 1] ELSE F[k] \o seqs[k + 1]
      BY <1>8
    <3> QED BY <3>1, <3>2, <3>3
  <2>3. Nat \subseteq Q
    <3> HIDE DEF Q
    <3> QED BY <2>1, <2>2, Reaches
  <2> QED BY <2>3
<1>10. F \in [1 .. n -> Seq(X)]
  BY <1>6, <1>9
<1> QED
  BY <1>7, <1>8, <1>10

\* Two texts, one after the other.
LEMMA Joined ==
  ASSUME NEW X, NEW s \in Seq(X), NEW t \in Seq(X)
  PROVE  /\ Len(s \o t) = Len(s) + Len(t)
         /\ \A p \in 1 .. Len(s) : p \in 1 .. Len(s \o t) /\ (s \o t)[p] = s[p]
         /\ \A q \in 1 .. Len(t) : /\ Len(s) + q \in 1 .. Len(s \o t)
                                  /\ (s \o t)[Len(s) + q] = t[q]
OBVIOUS

\* Where each text is found, in the one that is made of them.
Placing(place, seqs, text, X) ==
  /\ place \in [1 .. (Len(seqs) + 1) -> Nat] /\ place[1] = 1
  /\ \A i \in 1 .. Len(seqs) : place[i + 1] = place[i] + Len(seqs[i])
  /\ text \in Seq(X) /\ Len(text) = place[Len(seqs) + 1] - 1
  /\ \A i \in 1 .. Len(seqs) : \A q \in 1 .. Len(seqs[i]) :
       /\ place[i] + q - 1 \in 1 .. Len(text)
       /\ text[place[i] + q - 1] = seqs[i][q]

LEMMA Flattened ==
  ASSUME NEW X, NEW seqs \in Seq(Seq(X)), Len(seqs) > 0
  PROVE  \E start : Placing(start, seqs, FlattenSeq(seqs), X)
<1> DEFINE n == Len(seqs)
<1>1. PICK f \in [1 .. n -> Seq(X)] :
        /\ \A i \in 1 .. n : f[i] = IF i = 1 THEN seqs[i] ELSE f[i - 1] \o seqs[i]
        /\ FlattenSeq(seqs) = f[n]
  BY Flattening
<1>2. /\ n \in Nat /\ n >= 1
      /\ \A i \in 1 .. n : f[i] \in Seq(X) /\ seqs[i] \in Seq(X)
      /\ f[1] = seqs[1]
      /\ \A k \in Nat : k # 0 /\ k + 1 \in 1 .. n => f[k + 1] = f[k] \o seqs[k + 1]
  <2>1. n \in Nat /\ n >= 1 /\ \A i \in 1 .. n : seqs[i] \in Seq(X)
    OBVIOUS
  <2> HIDE DEF n
  <2>2. \A i \in 1 .. n : f[i] \in Seq(X)
    OBVIOUS
  <2>3. 1 \in 1 .. n
    BY <2>1
  <2>4. f[1] = seqs[1]
    BY <1>1, <2>3
  <2>5. ASSUME NEW k \in Nat, k # 0, k + 1 \in 1 .. n
        PROVE  f[k + 1] = f[k] \o seqs[k + 1]
    <3>1. f[k + 1] = IF k + 1 = 1 THEN seqs[k + 1] ELSE f[(k + 1) - 1] \o seqs[k + 1]
      BY <1>1, <2>5
    <3>2. k + 1 # 1 /\ (k + 1) - 1 = k
      BY <2>5
    <3> QED
      BY <3>1, <3>2
  <2> QED
    BY <2>1, <2>2, <2>4, <2>5
<1> DEFINE start == [i \in 1 .. (n + 1) |-> IF i = 1 THEN 1 ELSE Len(f[i - 1]) + 1]
<1> HIDE DEF n
<1>3. \A i \in 2 .. (n + 1) : i - 1 \in 1 .. n /\ start[i] = Len(f[i - 1]) + 1
  BY <1>2
<1>4. start \in [1 .. (n + 1) -> Nat] /\ start[1] = 1
  <2>1. \A i \in 1 .. (n + 1) : i # 1 => i - 1 \in 1 .. n
    BY <1>2
  <2> QED
    BY <1>2, <2>1
<1> HIDE DEF start
<1>5. \A i \in 1 .. n : i # 1 => i - 1 \in 1 .. n /\ i \in 2 .. (n + 1)
  BY <1>2
<1>6. ASSUME NEW i \in 1 .. n
      PROVE  start[i + 1] = start[i] + Len(seqs[i]) /\ start[i + 1] = Len(f[i]) + 1
  <2>1. i + 1 \in 2 .. (n + 1) /\ (i + 1) - 1 = i
    BY <1>2
  <2>2. start[i + 1] = Len(f[i]) + 1
    BY <1>3, <2>1
  <2>3. CASE i = 1
    <3>1. f[i] = seqs[i] /\ Len(seqs[i]) \in Nat /\ start[i] = 1
      BY <1>2, <1>4, <2>3
    <3> QED
      BY <2>2, <3>1
  <2>4. CASE i # 1
    <3>0. i - 1 \in Nat /\ i - 1 # 0 /\ (i - 1) + 1 = i
      BY <2>4
    <3>1. /\ f[i] = f[i - 1] \o seqs[i] /\ f[i - 1] \in Seq(X) /\ seqs[i] \in Seq(X)
          /\ start[i] = Len(f[i - 1]) + 1
      BY <1>2, <1>3, <1>5, <2>4, <3>0
    <3>2. Len(f[i]) = Len(f[i - 1]) + Len(seqs[i])
      BY <3>1
    <3> DEFINE a == Len(f[i - 1])
               b == Len(seqs[i])
    <3>3. a \in Nat /\ b \in Nat /\ Len(f[i]) = a + b /\ start[i] = a + 1
      BY <3>1, <3>2
    <3> HIDE DEF a, b
    <3>4. start[i + 1] = start[i] + b
      BY <2>2, <3>3
    <3> QED
      BY <2>2, <3>4 DEF b
  <2> QED
    BY <2>3, <2>4
<1> DEFINE Found(k) == \A i \in 1 .. k : \A q \in 1 .. Len(seqs[i]) :
                         /\ start[i] + q - 1 \in 1 .. Len(f[k])
                         /\ f[k][start[i] + q - 1] = seqs[i][q]
           P == {k \in Nat : k \in 1 .. n => Found(k)}
<1>7. ASSUME NEW k \in Nat, k \in P
      PROVE  k + 1 \in P
  <2> SUFFICES ASSUME k + 1 \in 1 .. n PROVE Found(k + 1)
    <3> HIDE DEF Found
    <3> QED OBVIOUS
  <2>1. seqs[k + 1] \in Seq(X) /\ f[k + 1] \in Seq(X)
    BY <1>2
  <2>2. CASE k = 0
    <3>1. f[1] = seqs[1] /\ start[1] = 1 /\ k + 1 = 1
      BY <1>2, <1>4, <2>2
    <3>2. \A q \in 1 .. Len(seqs[1]) : 1 + q - 1 = q
      BY <2>1, <3>1
    <3> QED
      BY <2>1, <3>1, <3>2
  <2>3. CASE k # 0
    <3>1. k \in 1 .. n /\ f[k] \in Seq(X) /\ Len(f[k]) \in Nat
      BY <1>2, <2>3
    <3>2. Found(k)
      <4> HIDE DEF Found
      <4> QED BY <1>7, <3>1
    <3>3. f[k + 1] = f[k] \o seqs[k + 1] /\ start[k + 1] = Len(f[k]) + 1
      BY <1>2, <1>6, <2>3, <3>1
    <3>4. /\ Len(f[k + 1]) = Len(f[k]) + Len(seqs[k + 1])
          /\ \A p \in 1 .. Len(f[k]) : p \in 1 .. Len(f[k + 1]) /\ f[k + 1][p] = f[k][p]
          /\ \A q \in 1 .. Len(seqs[k + 1]) :
               /\ Len(f[k]) + q \in 1 .. Len(f[k + 1])
               /\ f[k + 1][Len(f[k]) + q] = seqs[k + 1][q]
      <4> DEFINE s == f[k]
                 t == seqs[k + 1]
      <4>1. /\ Len(s \o t) = Len(s) + Len(t)
            /\ \A p \in 1 .. Len(s) : p \in 1 .. Len(s \o t) /\ (s \o t)[p] = s[p]
            /\ \A q \in 1 .. Len(t) : /\ Len(s) + q \in 1 .. Len(s \o t)
                                     /\ (s \o t)[Len(s) + q] = t[q]
        <5> HIDE DEF s, t
        <5>1. s \in Seq(X) /\ t \in Seq(X)
          BY <2>1, <3>1 DEF s, t
        <5> QED
          BY <5>1, Joined
      <4> QED
        BY <3>3, <4>1
    <3> SUFFICES ASSUME NEW i \in 1 .. (k + 1), NEW q \in 1 .. Len(seqs[i])
                 PROVE  /\ start[i] + q - 1 \in 1 .. Len(f[k + 1])
                        /\ f[k + 1][start[i] + q - 1] = seqs[i][q]
      OBVIOUS
    <3>5. CASE i = k + 1
      <4>1. start[i] + q - 1 = Len(f[k]) + q
        BY <2>1, <3>1, <3>3, <3>5
      <4> QED
        BY <3>4, <3>5, <4>1
    <3>6. CASE i # k + 1
      <4>1. i \in 1 .. k
        BY <3>6
      <4>2. /\ start[i] + q - 1 \in 1 .. Len(f[k])
            /\ f[k][start[i] + q - 1] = seqs[i][q]
        BY <3>2, <4>1
      <4> QED
        BY <3>4, <4>2
    <3> QED
      BY <3>5, <3>6
  <2> QED
    BY <2>2, <2>3
<1>8. Found(n)
  <2>1. 0 \in P
    OBVIOUS
  <2>2. Nat \subseteq P
    <3> HIDE DEF P
    <3> QED BY <1>7, <2>1, Reaches
  <2>3. n \in 1 .. n
    BY <1>2
  <2> HIDE DEF Found
  <2> QED BY <1>2, <2>2, <2>3
<1>9. Len(f[n]) = start[n + 1] - 1
  <2>1. n \in 1 .. n /\ Len(f[n]) \in Nat
    BY <1>2
  <2> QED
    BY <1>6, <2>1
<1>10. FlattenSeq(seqs) = f[n] /\ f[n] \in Seq(X)
  <2>1. n \in 1 .. n
    BY <1>2
  <2> QED
    BY <1>1, <1>2, <2>1 DEF n
<1> QED
  <2>1. \A i \in 1 .. n : start[i + 1] = start[i] + Len(seqs[i])
    BY <1>6
  <2>2. /\ FlattenSeq(seqs) \in Seq(X) /\ Len(FlattenSeq(seqs)) = start[n + 1] - 1
        /\ \A i \in 1 .. n : \A q \in 1 .. Len(seqs[i]) :
             /\ start[i] + q - 1 \in 1 .. Len(FlattenSeq(seqs))
             /\ FlattenSeq(seqs)[start[i] + q - 1] = seqs[i][q]
    BY <1>8, <1>9, <1>10
  <2>3. Placing(start, seqs, FlattenSeq(seqs), X)
    BY <1>4, <2>1, <2>2 DEF n, Placing
  <2> QED
    BY <2>3

(***************************************************************************)
(* What an agent is sent, as it is laid out in the text that is read.      *)
(***************************************************************************)

\* Where the lines are in the text: each is its number, so many times, and is followed by what
\* ends it, except perhaps the last.
Layout(start, text) ==
  /\ start \in [1 .. (Len(lines) + 1) -> Nat] /\ start[1] = 1
  /\ text \in Seq(Nat \cup {Newline})
  /\ Len(lines) = 0 => text = <<>>
  /\ \A i \in 1 .. Len(lines) :
       /\ start[i + 1] = start[i] + lines[i].length + 1
       /\ start[i] + lines[i].length <= Len(text) + 1
       /\ i < Len(lines) => start[i] + lines[i].length <= Len(text)
       /\ i = Len(lines) => Len(text) <= start[i] + lines[i].length
       /\ \A p \in start[i] .. (start[i] + lines[i].length - 1) : text[p] = i
       /\ start[i] + lines[i].length <= Len(text) => text[start[i] + lines[i].length] = Newline

LinesOK == \E n \in Nat : lines \in [1 .. n -> Lines]

LEMMA LinesAre ==
  ASSUME LinesOK
  PROVE  /\ lines \in [1 .. Len(lines) -> Lines] /\ Len(lines) \in Nat
         /\ DOMAIN lines = 1 .. Len(lines)
         /\ \A i \in 1 .. Len(lines) : lines[i] \in Lines /\ lines[i].length \in Nat
<1>1. PICK n \in Nat : lines \in [1 .. n -> Lines]
  BY DEF LinesOK
<1>2. Len(lines) = n
  BY <1>1
<1> QED
  BY <1>1, <1>2, LinesAssumption

LEMMA Repeated ==
  ASSUME NEW X, NEW k \in Nat, NEW x \in X
  PROVE  /\ [m \in 1 .. k |-> x] \in Seq(X) /\ Len([m \in 1 .. k |-> x]) = k
         /\ \A q \in 1 .. k : [m \in 1 .. k |-> x][q] = x
<1> DEFINE f == [m \in 1 .. k |-> x]
<1>1. f \in [1 .. k -> X] /\ \A q \in 1 .. k : f[q] = x
  OBVIOUS
<1> HIDE DEF f
<1>2. f \in Seq(X) /\ Len(f) = k
  BY <1>1
<1> QED
  BY <1>1, <1>2 DEF f

\* Texts that hold each line and what ends it, put one after the other, are laid out as the lines
\* are.
LEMMA LaidOut ==
  ASSUME LinesOK, NEW ends \in BOOLEAN, NEW seqs \in Seq(Seq(Nat \cup {Newline})),
         Len(seqs) = Len(lines),
         \A i \in 1 .. Len(lines) :
           /\ i < Len(lines) \/ ends =>
                /\ Len(seqs[i]) = lines[i].length + 1
                /\ seqs[i][lines[i].length + 1] = Newline
           /\ ~(i < Len(lines) \/ ends) => Len(seqs[i]) = lines[i].length
           /\ \A q \in 1 .. lines[i].length : q \in 1 .. Len(seqs[i]) /\ seqs[i][q] = i
  PROVE  \E start : Layout(start, FlattenSeq(seqs))
<1> DEFINE n == Len(lines)
           X == Nat \cup {Newline}
           text == FlattenSeq(seqs)
<1>1. /\ n \in Nat /\ DOMAIN lines = 1 .. n
      /\ \A i \in 1 .. n : lines[i].length \in Nat
  BY LinesAre
<1>2. /\ Len(seqs) = n
      /\ \A i \in 1 .. n :
           /\ i < n \/ ends =>
                Len(seqs[i]) = lines[i].length + 1 /\ seqs[i][lines[i].length + 1] = Newline
           /\ ~(i < n \/ ends) => Len(seqs[i]) = lines[i].length
           /\ \A q \in 1 .. lines[i].length : q \in 1 .. Len(seqs[i]) /\ seqs[i][q] = i
  OBVIOUS
<1>7. CASE n = 0
  <2>1. seqs = <<>>
    BY <1>2, <1>7
  <2>2. text = <<>>
    BY <2>1 DEF FlattenSeq
  <2>3. [i \in {1} |-> 1] \in [1 .. (n + 1) -> Nat]
    BY <1>7
  <2>4. \A i \in 1 .. n : FALSE
    BY <1>7
  <2> DEFINE only == [i \in {1} |-> 1]
  <2>5. only[1] = 1 /\ text \in Seq(X)
    BY <2>2
  <2>6. Layout(only, text)
    <3> HIDE DEF only, n, X
    <3>1. only \in [1 .. (n + 1) -> Nat]
      BY <2>3 DEF only
    <3>2. \A i \in 1 .. n : FALSE
      BY <2>4
    <3> QED
      BY <1>7, <2>2, <2>5, <3>1, <3>2 DEF Layout, n, X
  <2> QED
    BY <2>6
<1>8. CASE n # 0
  <2>1. PICK place \in [1 .. (n + 1) -> Nat] :
          /\ place[1] = 1
          /\ \A i \in 1 .. n : place[i + 1] = place[i] + Len(seqs[i])
          /\ text \in Seq(X)
          /\ Len(text) = place[n + 1] - 1
          /\ \A i \in 1 .. n : \A q \in 1 .. Len(seqs[i]) :
               /\ place[i] + q - 1 \in 1 .. Len(text)
               /\ text[place[i] + q - 1] = seqs[i][q]
    <3>1. Len(seqs) > 0
      BY <1>1, <1>2, <1>8
    <3>2. PICK found : Placing(found, seqs, FlattenSeq(seqs), X)
      BY <3>1, Flattened
    <3>3. Len(seqs) = n
      BY <1>2
    <3> HIDE DEF n, X, text
    <3>4. Placing(found, seqs, text, X)
      BY <3>2 DEF text
    <3> QED
      BY <3>3, <3>4 DEF Placing
  <2> DEFINE start == [place EXCEPT ![n + 1] = place[n] + lines[n].length + 1]
  <2>2. /\ start \in [1 .. (n + 1) -> Nat] /\ start[n + 1] = place[n] + lines[n].length + 1
        /\ \A i \in 1 .. n : start[i] = place[i] /\ i \in 1 .. (n + 1) /\ i + 1 \in 1 .. (n + 1)
        /\ \A i \in 1 .. n : i < n => start[i + 1] = place[i + 1]
        /\ start[1] = 1 /\ n \in 1 .. n
    <3>1. n \in Nat /\ n # 0 /\ lines[n].length \in Nat /\ n \in 1 .. (n + 1) /\ 1 \in 1 .. (n + 1)
      BY <1>1, <1>8
    <3>2. place[n] + lines[n].length + 1 \in Nat
      BY SMTT(30), <2>1, <3>1
    <3> HIDE DEF n
    <3>3. start \in [1 .. (n + 1) -> Nat]
      BY <3>2
    <3>4. start[n + 1] = place[n] + lines[n].length + 1
      BY <3>1
    <3>5. \A i \in 1 .. (n + 1) : i # n + 1 => start[i] = place[i]
      OBVIOUS
    <3> HIDE DEF start
    <3>6. \A i \in 1 .. n : i # n + 1 /\ i \in 1 .. (n + 1) /\ i + 1 \in 1 .. (n + 1)
      BY <3>1
    <3>7. \A i \in 1 .. n : i < n => i + 1 # n + 1
      BY <3>1
    <3>8. \A i \in 1 .. n : start[i] = place[i]
      BY <3>5, <3>6
    <3>9. \A i \in 1 .. n : i < n => start[i + 1] = place[i + 1]
      BY <3>5, <3>6, <3>7
    <3>10. start[1] = 1 /\ n \in 1 .. n
      <4>1. 1 \in 1 .. n /\ n \in 1 .. n
        BY <3>1
      <4> QED
        BY <2>1, <3>8, <4>1
    <3> QED
      BY <3>3, <3>4, <3>6, <3>8, <3>9, <3>10
  <2> HIDE DEF start
  <2>3. ASSUME NEW i \in 1 .. n
        PROVE  /\ start[i + 1] = start[i] + lines[i].length + 1
               /\ start[i] + lines[i].length <= Len(text) + 1
               /\ i < n => start[i] + lines[i].length <= Len(text)
               /\ i = n => Len(text) <= start[i] + lines[i].length
               /\ \A p \in start[i] .. (start[i] + lines[i].length - 1) : text[p] = i
               /\ start[i] + lines[i].length <= Len(text) =>
                    text[start[i] + lines[i].length] = Newline
    <3> DEFINE l == lines[i].length
               a == place[i]
               m == Len(seqs[i])
    <3>1. /\ l \in Nat /\ a \in Nat /\ m \in Nat /\ start[i] = a /\ place[i + 1] = a + m
          /\ Len(text) \in Nat /\ n \in Nat /\ i \in Nat /\ i <= n
      <4>1. seqs[i] \in Seq(X)
        BY <1>2
      <4>2. m \in Nat /\ l \in Nat
        BY <1>1, <4>1
      <4>3. start[i] = a /\ place[i + 1] = a + m /\ i \in 1 .. (n + 1)
        BY <2>1, <2>2
      <4>4. a \in Nat
        BY <4>3
      <4>5. Len(text) \in Nat
        BY <2>1
      <4> QED
        BY <1>1, <4>2, <4>3, <4>4, <4>5
    <3>2. /\ i < n \/ ends => m = l + 1 /\ seqs[i][l + 1] = Newline
          /\ ~(i < n \/ ends) => m = l
          /\ \A q \in 1 .. l : q \in 1 .. m /\ seqs[i][q] = i
      BY <1>2
    <3>3. \A q \in 1 .. m : /\ a + q - 1 \in 1 .. Len(text)
                            /\ text[a + q - 1] = seqs[i][q]
      BY <2>1
    <3>4. i = n => Len(text) = a + m - 1
      BY <2>1, <3>1
    <3>5. start[i + 1] = a + l + 1
      BY <2>2, <3>1, <3>2
    <3> HIDE DEF n, l, a, m
    <3>6. m >= 1 => a + m - 1 <= Len(text)
      <4>1. m >= 1 => m \in 1 .. m
        BY <3>1
      <4>2. m >= 1 => a + m - 1 \in 1 .. Len(text)
        BY <3>3, <4>1
      <4> QED
        BY <3>1, <4>2
    <3>7. \A p \in a .. (a + l - 1) : text[p] = i
      <4> SUFFICES ASSUME NEW p \in a .. (a + l - 1) PROVE text[p] = i
        OBVIOUS
      <4>1. p - a + 1 \in 1 .. l /\ a + (p - a + 1) - 1 = p
        BY <3>1
      <4> QED
        BY <3>2, <3>3, <4>1
    <3>8. i < n \/ ends => a + l <= Len(text) /\ text[a + l] = Newline
      <4>1. i < n \/ ends => l + 1 \in 1 .. m /\ a + (l + 1) - 1 = a + l
        BY <3>1, <3>2
      <4>2. i < n \/ ends => a + (l + 1) - 1 \in 1 .. Len(text)
                             /\ text[a + (l + 1) - 1] = seqs[i][l + 1]
        BY <3>3, <4>1
      <4> QED
        BY SMTT(30), <3>1, <3>2, <4>1, <4>2
    <3>9. a + l <= Len(text) + 1
      BY <3>1, <3>2, <3>4, <3>6
    <3>10. i = n => Len(text) <= a + l
      BY <3>1, <3>2, <3>4
    <3>11. a + l <= Len(text) => i < n \/ ends
      BY <3>1, <3>2, <3>4
    <3> QED
      BY <3>1, <3>5, <3>7, <3>8, <3>9, <3>10, <3>11 DEF l, a
  <2>4. Layout(start, text)
    BY <1>8, <2>1, <2>2, <2>3 DEF Layout
  <2> QED
    BY <2>4
<1> QED
  BY <1>7, <1>8

LEMMA InitialLayout ==
  ASSUME LinesOK, NEW ends \in BOOLEAN,
         input = FlattenSeq([i \in DOMAIN lines |->
                               Units(i) \o IF i < Len(lines) \/ ends THEN <<Newline>> ELSE <<>>])
  PROVE  \E start : Layout(start, input)
<1> DEFINE n == Len(lines)
           X == Nat \cup {Newline}
           end(i) == IF i < n \/ ends THEN <<Newline>> ELSE <<>>
           part(i) == Units(i) \o end(i)
           seqs == [i \in DOMAIN lines |-> part(i)]
<1>1. /\ n \in Nat /\ DOMAIN lines = 1 .. n
      /\ \A i \in 1 .. n : lines[i].length \in Nat
  BY LinesAre
<1>2. ASSUME NEW i \in 1 .. n
      PROVE  /\ Units(i) \in Seq(X) /\ Len(Units(i)) = lines[i].length
             /\ \A q \in 1 .. lines[i].length : Units(i)[q] = i
  <2>1. lines[i].length \in Nat /\ i \in Nat
    BY <1>1
  <2>2. i \in X
    BY <2>1
  <2> HIDE DEF X
  <2> QED
    BY <2>1, <2>2, Repeated DEF Units
<1>3. ASSUME NEW i \in 1 .. n
      PROVE  /\ end(i) \in Seq(X)
             /\ i < n \/ ends => Len(end(i)) = 1 /\ end(i)[1] = Newline
             /\ ~(i < n \/ ends) => Len(end(i)) = 0
  <2>1. Newline \in X
    OBVIOUS
  <2> HIDE DEF X, n
  <2>2. CASE i < n \/ ends
    <3>1. end(i) = <<Newline>>
      BY <2>2
    <3> HIDE DEF end
    <3> QED
      BY <2>1, <2>2, <3>1
  <2>3. CASE ~(i < n \/ ends)
    <3>1. end(i) = <<>>
      BY <2>3
    <3> HIDE DEF end
    <3> QED
      BY <2>3, <3>1
  <2> QED
    BY <2>2, <2>3
<1>4. ASSUME NEW i \in 1 .. n
      PROVE  /\ part(i) \in Seq(X)
             /\ i < n \/ ends =>
                  Len(part(i)) = lines[i].length + 1 /\ part(i)[lines[i].length + 1] = Newline
             /\ ~(i < n \/ ends) => Len(part(i)) = lines[i].length
             /\ \A q \in 1 .. lines[i].length : q \in 1 .. Len(part(i)) /\ part(i)[q] = i
  <2> DEFINE s == Units(i)
             t == end(i)
  <2>1. s \in Seq(X) /\ t \in Seq(X)
    BY <1>2, <1>3
  <2>2. /\ s \o t \in Seq(X) /\ Len(s \o t) = Len(s) + Len(t)
        /\ \A p \in 1 .. Len(s) : p \in 1 .. Len(s \o t) /\ (s \o t)[p] = s[p]
        /\ \A q \in 1 .. Len(t) : (s \o t)[Len(s) + q] = t[q]
    <3> HIDE DEF s, t
    <3> QED BY <2>1, Joined
  <2>3. Len(s) = lines[i].length /\ lines[i].length \in Nat
        /\ \A q \in 1 .. lines[i].length : s[q] = i
    BY <1>1, <1>2
  <2>4. /\ i < n \/ ends => Len(t) = 1 /\ t[1] = Newline
        /\ ~(i < n \/ ends) => Len(t) = 0
    BY <1>3
  <2>5. part(i) = s \o t
    OBVIOUS
  <2> HIDE DEF s, t, part, n
  <2> QED
    BY SMTT(30), <2>2, <2>3, <2>4, <2>5
<1> HIDE DEF part, end
<1>5. seqs \in Seq(Seq(X)) /\ Len(seqs) = n /\ \A i \in 1 .. n : seqs[i] = part(i)
  <2>1. seqs \in [1 .. n -> Seq(X)]
    BY <1>1, <1>4
  <2> QED
    BY <1>1, <2>1
<1>6. input = FlattenSeq(seqs)
  BY DEF part, end
<1> HIDE DEF seqs
<1>7. \E start : Layout(start, FlattenSeq(seqs))
  <2>1. \A i \in 1 .. Len(lines) :
           /\ i < Len(lines) \/ ends =>
                /\ Len(seqs[i]) = lines[i].length + 1
                /\ seqs[i][lines[i].length + 1] = Newline
           /\ ~(i < Len(lines) \/ ends) => Len(seqs[i]) = lines[i].length
           /\ \A q \in 1 .. lines[i].length : q \in 1 .. Len(seqs[i]) /\ seqs[i][q] = i
    BY <1>4, <1>5
  <2> QED
    BY <1>5, <2>1, LaidOut
<1> QED
  BY <1>6, <1>7

(***************************************************************************)
(* Where reading is, in that text.                                         *)
(***************************************************************************)

\* What has not been read is the end of the text.
Suffix(text) ==
  /\ input \in Seq(Nat \cup {Newline}) /\ Len(input) <= Len(text)
  /\ \A j \in 1 .. Len(input) : input[j] = text[Len(text) - Len(input) + j]

\* Where in the text reading is.
Place(text) == Len(text) - Len(input) + 1

\* How much of the next line was read, and what is kept of it.
Partial(start, text) ==
  /\ read < Len(lines) =>
       LET got == Place(text) - start[read + 1] IN
       /\ got \in 0 .. lines[read + 1].length
       /\ tooLong => line = <<>> /\ got > MaxRequest
       /\ ~tooLong => line = [m \in 1 .. got |-> read + 1] /\ got <= MaxRequest
  /\ read = Len(lines) => input = <<>> /\ line = <<>> /\ ~tooLong

\* The next line was read, with what ends it.
After(start, text) ==
  /\ read < Len(lines)
  /\ Place(text) = start[read + 2] \/ (read + 1 = Len(lines) /\ input = <<>>)

WholeLine ==
  /\ tooLong <=> Long(lines[read + 1])
  /\ ~tooLong => line = Units(read + 1)

Handled == line = <<>> /\ ~tooLong /\ IsAnswered(read + 1)

Reading(start, text) ==
  /\ Layout(start, text) /\ Suffix(text) /\ read \in 0 .. Len(lines)
  /\ at \in {"read", "connect"} => Partial(start, text)
  /\ at \in {"line", "call", "answered", "print"} => After(start, text)
  /\ at = "line" => WholeLine
  /\ at \in {"call", "answered", "print"} => Handled

Kinds ==
  /\ kind \in {"one", "session", "mcp"} /\ LinesOK
  /\ at \in {"connect", "read", "line", "call", "answered", "print", "over"}
  /\ kind = "one" => Len(lines) = 1 /\ at \notin {"read", "line"}
  /\ kind = "mcp" => at # "connect"
  /\ kind # "mcp" => sought \in {"nothing", "line"}
  /\ status = "done" => at = "over"

ReadingInv == kind # "one" => \E start, text : Reading(start, text)

LEMMA Taken ==
  ASSUME NEW X, NEW s \in Seq(X), NEW k \in 0 .. Len(s)
  PROVE  /\ SubSeq(s, 1, k) \in Seq(X) /\ Len(SubSeq(s, 1, k)) = k
         /\ \A j \in 1 .. k : SubSeq(s, 1, k)[j] = s[j]
         /\ SubSeq(s, k + 1, Len(s)) \in Seq(X) /\ Len(SubSeq(s, k + 1, Len(s))) = Len(s) - k
         /\ \A j \in 1 .. (Len(s) - k) : SubSeq(s, k + 1, Len(s))[j] = s[k + j]
OBVIOUS

LEMMA NextLine ==
  ASSUME Kinds, NEW start, NEW text, Reading(start, text), After(start, text),
         read' = read + 1, line' = <<>>, tooLong' = FALSE, at' \in {"read", "connect"},
         UNCHANGED <<lines, input>>
  PROVE  Reading(start, text)'
<1> DEFINE n == Len(lines)
           p == Len(text) - Len(input) + 1
<1>1. /\ n \in Nat /\ read \in 0 .. n /\ read < n /\ Len(text) \in Nat /\ Len(input) \in Nat
      /\ \A i \in 1 .. n : lines[i].length \in Nat /\ start[i] \in Nat
      /\ start[n + 1] \in Nat
      /\ p = start[read + 2] \/ (read + 1 = n /\ input = <<>>)
      /\ start[n + 1] = start[n] + lines[n].length + 1
      /\ Len(text) <= start[n] + lines[n].length
      /\ input \in Seq(Nat \cup {Newline}) /\ Len(input) <= Len(text)
  <2>1. n \in Nat /\ \A i \in 1 .. n : lines[i].length \in Nat
    BY LinesAre DEF Kinds
  <2>2. start \in [1 .. (n + 1) -> Nat] /\ text \in Seq(Nat \cup {Newline})
    BY DEF Reading, Layout
  <2>3. read \in 0 .. n /\ read < n /\ input \in Seq(Nat \cup {Newline}) /\ Len(input) <= Len(text)
    BY DEF Reading, After, Suffix
  <2>4. p = start[read + 2] \/ (read + 1 = n /\ input = <<>>)
    BY DEF After, Place
  <2>5. n \in 1 .. n
    BY <2>1, <2>3
  <2>6. start[n + 1] = start[n] + lines[n].length + 1 /\ Len(text) <= start[n] + lines[n].length
    BY <2>5 DEF Reading, Layout
  <2>7. Len(text) \in Nat /\ Len(input) \in Nat
    BY <2>2, <2>3
  <2>8. \A i \in 1 .. n : start[i] \in Nat
    BY SMTT(30), <2>1, <2>2
  <2>9. start[n + 1] \in Nat
    BY <2>1, <2>2
  <2> QED
    BY <2>1, <2>3, <2>4, <2>6, <2>7, <2>8, <2>9
<1>2. Layout(start, text)' /\ Suffix(text)' /\ read' \in 0 .. n /\ lines' = lines /\ input' = input
  <2>1. Layout(start, text) /\ Suffix(text)
    BY DEF Reading
  <2>2. Layout(start, text)'
    BY <2>1 DEF Layout
  <2>3. Suffix(text)'
    BY <2>1 DEF Suffix
  <2>4. read' \in 0 .. n
    BY <1>1
  <2> QED
    BY <2>2, <2>3, <2>4
<1>3. ASSUME read' < n
      PROVE  LET got == p - start[read' + 1] IN
             /\ got \in 0 .. lines[read' + 1].length
             /\ line' = [m \in 1 .. got |-> read' + 1] /\ got <= MaxRequest
  <2>1. p - start[read' + 1] = 0 /\ read' + 1 \in 1 .. n
    <3>1. read' + 1 = read + 2 /\ read + 1 # n /\ read' + 1 \in 1 .. n
      BY <1>1, <1>3
    <3>2. start[read + 2] \in Nat /\ p = start[read + 2]
      BY <1>1, <3>1
    <3> QED
      BY <3>1, <3>2
  <2>2. [m \in 1 .. 0 |-> read' + 1] = <<>>
    OBVIOUS
  <2>3. 0 \in 0 .. lines[read' + 1].length /\ 0 <= MaxRequest
    BY <1>1, <2>1, LinesAssumption
  <2> QED
    BY <2>1, <2>2, <2>3
<1>4. ASSUME read' = n
      PROVE  input = <<>>
  <2>1. CASE p = start[read + 2]
    <3>0. start[n] \in Nat /\ lines[n].length \in Nat /\ n + 1 = read + 2
      BY <1>1, <1>4
    <3>1. p >= Len(text) + 1
      BY <1>1, <2>1, <3>0
    <3> HIDE DEF n
    <3>2. Len(input) = 0
      BY <1>1, <3>1
    <3> QED
      BY <1>1, <3>2
  <2> QED
    BY <1>1, <2>1
<1>5. Partial(start, text)'
  BY <1>2, <1>3, <1>4 DEF Partial, Place
<1> QED
  BY <1>2, <1>5 DEF Reading

\* The same unit, so many times.
Run(t, v, k) ==
  t \in Seq(Nat \cup {Newline}) /\ Len(t) = k /\ \A x \in 1 .. k : t[x] = v

LEMMA Continued ==
  ASSUME NEW v, NEW j \in Nat, NEW m \in Nat, NEW s, NEW t, Run(s, v, m), Run(t, v, j)
  PROVE  s \o t = [x \in 1 .. (m + j) |-> v]
<1> DEFINE both == s \o t
<1>1. both \in Seq(Nat \cup {Newline}) /\ Len(both) = m + j
  BY DEF Run
<1>2. ASSUME NEW q \in 1 .. (m + j)
      PROVE  both[q] = v
  <2>1. CASE q <= m
    BY <2>1 DEF Run
  <2>2. CASE ~(q <= m)
    <3>1. q - m \in 1 .. j /\ both[q] = t[q - m]
      BY <2>2 DEF Run
    <3>2. \A x \in 1 .. j : t[x] = v
      BY DEF Run
    <3> QED
      BY <3>1, <3>2
  <2> QED
    BY <2>1, <2>2
<1> HIDE DEF both
<1>3. DOMAIN both = 1 .. (m + j) /\ both = [x \in DOMAIN both |-> both[x]]
  BY <1>1
<1>4. both = [x \in 1 .. (m + j) |-> v]
  BY <1>2, <1>3
<1> QED
  BY <1>4 DEF both

LEMMA PieceReads ==
  ASSUME Kinds, NEW start, NEW text, Reading(start, text), Piece
  PROVE  Reading(start, text)'
<1> DEFINE n == Len(lines)
           p == Len(text) - Len(input) + 1
           i == read + 1
           s == start[i]
           l == lines[i].length
           k == Len(input)
<1>0. /\ at = "read" /\ input # <<>> /\ Layout(start, text) /\ Suffix(text) /\ read \in 0 .. n
      /\ Partial(start, text) /\ UNCHANGED <<kind, lines, read>>
  BY DEF Piece, Reading
<1>1. /\ n \in Nat /\ read < n /\ i \in 1 .. n
      /\ input \in Seq(Nat \cup {Newline}) /\ text \in Seq(Nat \cup {Newline})
      /\ k \in Nat /\ Len(text) \in Nat /\ k <= Len(text)
      /\ l \in Nat /\ s \in Nat /\ MaxRequest \in Nat /\ p \in Nat
  <2>1. n \in Nat /\ \A j \in 1 .. n : lines[j].length \in Nat
    BY LinesAre DEF Kinds
  <2>2. start \in [1 .. (n + 1) -> Nat] /\ text \in Seq(Nat \cup {Newline})
    BY <1>0 DEF Layout
  <2>3. input \in Seq(Nat \cup {Newline}) /\ k <= Len(text)
    BY <1>0 DEF Suffix
  <2>4. read # n
    BY <1>0 DEF Partial
  <2>5. read < n /\ i \in 1 .. n
    BY <1>0, <2>1, <2>4
  <2>6. s \in Nat /\ l \in Nat
    BY <2>1, <2>2, <2>5
  <2>7. k \in Nat /\ Len(text) \in Nat /\ p \in Nat
    BY <2>2, <2>3
  <2> QED
    BY <2>1, <2>2, <2>3, <2>5, <2>6, <2>7, LinesAssumption
<1>2. /\ start[i + 1] = s + l + 1 /\ s + l <= Len(text) + 1
      /\ \A x \in s .. (s + l - 1) : text[x] = i
      /\ s + l <= Len(text) => text[s + l] = Newline
  BY <1>0, <1>1 DEF Layout
<1>3. /\ s <= p /\ p <= s + l
      /\ tooLong => line = <<>> /\ p - s > MaxRequest
      /\ ~tooLong => line = [m \in 1 .. (p - s) |-> i] /\ p - s <= MaxRequest
  <2>1. LET got == Place(text) - start[read + 1] IN
        /\ got \in 0 .. lines[read + 1].length
        /\ tooLong => line = <<>> /\ got > MaxRequest
        /\ ~tooLong => line = [m \in 1 .. got |-> read + 1] /\ got <= MaxRequest
    BY <1>0, <1>1 DEF Partial
  <2>2. p - s \in 0 .. l
    BY <2>1 DEF Place
  <2>3. s <= p /\ p <= s + l
    BY <1>1, <2>2
  <2> QED
    BY <2>1, <2>3 DEF Place
<1>4. \A j \in 1 .. k : input[j] = text[p - 1 + j]
  <2>1. p - 1 = Len(text) - k
    BY <1>1
  <2> QED
    BY <1>0, <2>1 DEF Suffix
<1>5. PICK c \in 1 .. k :
        LET found == {x \in 1 .. c : input[x] = Newline}
            end == CHOOSE x \in found : \A y \in found : x <= y
            part == IF found = {} THEN SubSeq(input, 1, c) ELSE SubSeq(input, 1, end - 1)
        IN /\ tooLong' = NowTooLong(part)
           /\ line' = IF NowTooLong(part) THEN <<>> ELSE line \o part
           /\ input' = SubSeq(input, (IF found = {} THEN c ELSE end) + 1, Len(input))
           /\ at' = IF found = {} THEN "read" ELSE "line"
  BY DEF Piece
<1> DEFINE found == {x \in 1 .. c : input[x] = Newline}
           end == CHOOSE x \in found : \A y \in found : x <= y
           upto == s + l - p + 1
<1>15. /\ tooLong' = NowTooLong(IF found = {} THEN SubSeq(input, 1, c) ELSE SubSeq(input, 1, end - 1))
       /\ line' = IF NowTooLong(IF found = {} THEN SubSeq(input, 1, c) ELSE SubSeq(input, 1, end - 1))
                  THEN <<>>
                  ELSE line \o IF found = {} THEN SubSeq(input, 1, c) ELSE SubSeq(input, 1, end - 1)
       /\ input' = SubSeq(input, (IF found = {} THEN c ELSE end) + 1, Len(input))
       /\ at' = IF found = {} THEN "read" ELSE "line"
  BY <1>5
<1>6. \A x \in 1 .. k : x < upto => input[x] = i /\ input[x] # Newline
  <2> SUFFICES ASSUME NEW x \in 1 .. k, x < upto PROVE input[x] = i /\ i # Newline
    OBVIOUS
  <2>1. p - 1 + x \in s .. (s + l - 1)
    <3> HIDE DEF n, p, s, l, i, k
    <3> QED BY <1>1, <1>3 DEF upto
  <2>2. i \in Nat
    BY <1>1
  <2> QED
    BY <1>2, <1>4, <2>1, <2>2, LinesAssumption
<1>7. \A x \in 1 .. k : x = upto => input[x] = Newline
  <2> SUFFICES ASSUME NEW x \in 1 .. k, x = upto PROVE input[x] = Newline
    OBVIOUS
  <2>1. p - 1 + x = s + l
    <3> HIDE DEF n, p, s, l, i, k
    <3> QED BY <1>1, <1>3 DEF upto
  <2>2. p - 1 + x <= Len(text)
    <3> HIDE DEF s, l
    <3> QED BY <1>1
  <2> QED
    BY <1>2, <1>4, <2>1, <2>2
<1>8. upto \in Nat /\ upto >= 1
  <2> HIDE DEF n, p, s, l, i, k
  <2> QED
    BY <1>1, <1>3 DEF upto
<1> DEFINE m == p - s
<1>9. m \in Nat /\ p = s + m /\ upto = l - m + 1
  <2> HIDE DEF n, p, s, l, i, k
  <2> QED
    BY <1>1, <1>3 DEF upto, m
<1>10. ASSUME NEW part \in Seq(Nat \cup {Newline}), NEW j \in Nat, Len(part) = j,
              \A x \in 1 .. j : part[x] = i,
              tooLong' = NowTooLong(part),
              line' = IF NowTooLong(part) THEN <<>> ELSE line \o part
       PROVE  /\ tooLong' <=> m + j > MaxRequest
              /\ tooLong' => line' = <<>>
              /\ ~tooLong' => line' = [x \in 1 .. (m + j) |-> i]
  <2>1. CASE tooLong
    <3>1. m > MaxRequest
      BY <1>3, <2>1
    <3>2. NowTooLong(part)
      BY <2>1 DEF NowTooLong
    <3> HIDE DEF m
    <3>3. m + j > MaxRequest
      BY <1>1, <1>9, <3>1
    <3> QED
      BY <1>10, <3>2, <3>3
  <2>2. CASE ~tooLong
    <3>1. line = [x \in 1 .. m |-> i]
      BY <1>3, <2>2
    <3>2. i \in Nat \cup {Newline}
      BY <1>1
    <3> HIDE DEF m, i
    <3>3. /\ line \in Seq(Nat \cup {Newline}) /\ Len(line) = m
          /\ \A q \in 1 .. m : line[q] = i
      BY <1>9, <3>1, <3>2, Repeated
    <3>4. NowTooLong(part) <=> m + j > MaxRequest
      BY <1>10, <2>2, <3>3 DEF NowTooLong
    <3>5. line \o part = [x \in 1 .. (m + j) |-> i]
      <4>1. Run(part, i, j)
        BY <1>10 DEF Run
      <4>2. Run(line, i, m)
        BY <3>3 DEF Run
      <4>3. m \in Nat
        BY <1>9
      <4> QED
        BY <4>1, <4>2, <4>3, Continued
    <3> QED
      BY <1>10, <3>4, <3>5
  <2> QED
    BY <2>1, <2>2
<1>11. ASSUME NEW j \in 0 .. k, input' = SubSeq(input, j + 1, Len(input))
       PROVE  /\ Suffix(text)' /\ Place(text)' = p + j
  <2>1. /\ input' \in Seq(Nat \cup {Newline}) /\ Len(input') = k - j
        /\ \A x \in 1 .. (k - j) : input'[x] = input[j + x]
    BY <1>1, <1>11, Taken
  <2>2. \A x \in 1 .. (k - j) : j + x \in 1 .. k /\ p - 1 + (j + x) = Len(text) - Len(input') + x
    BY <1>1, <2>1
  <2>3. \A x \in 1 .. Len(input') : input'[x] = text[Len(text) - Len(input') + x]
    BY <1>4, <2>1, <2>2
  <2>4. Len(input') <= Len(text)
    BY <1>1, <2>1
  <2> QED
    BY <1>1, <2>1, <2>3, <2>4 DEF Suffix, Place
<1>12. Layout(start, text)' /\ read' \in 0 .. Len(lines') /\ read' = read /\ lines' = lines
  BY <1>0 DEF Layout
<1>13. CASE found = {}
  <2> DEFINE part == SubSeq(input, 1, c)
  <2>1. /\ tooLong' = NowTooLong(part) /\ line' = IF NowTooLong(part) THEN <<>> ELSE line \o part
        /\ input' = SubSeq(input, c + 1, Len(input)) /\ at' = "read"
    BY <1>5, <1>13
  <2>2. c < upto
    <3> SUFFICES ASSUME c >= upto PROVE FALSE
      BY <1>8
    <3>1. upto \in 1 .. c /\ upto \in 1 .. k
      BY <1>8
    <3>2. upto \in found
      BY <1>7, <3>1
    <3> QED
      BY <1>13, <3>2
  <2>3. /\ part \in Seq(Nat \cup {Newline}) /\ Len(part) = c
        /\ \A x \in 1 .. c : part[x] = i
    <3>1. c \in 0 .. Len(input)
      OBVIOUS
    <3>2. /\ part \in Seq(Nat \cup {Newline}) /\ Len(part) = c
          /\ \A x \in 1 .. c : part[x] = input[x]
      BY <1>1, <3>1, Taken
    <3>3. \A x \in 1 .. c : x \in 1 .. k /\ x < upto
      BY <1>8, <2>2
    <3> QED
      BY <1>6, <3>2, <3>3
  <2>4. /\ tooLong' <=> m + c > MaxRequest
        /\ tooLong' => line' = <<>>
        /\ ~tooLong' => line' = [x \in 1 .. (m + c) |-> i]
    <3>1. c \in Nat
      OBVIOUS
    <3> HIDE DEF part, m, i, upto
    <3> QED
      BY <1>10, <2>1, <2>3, <3>1
  <2>5. Suffix(text)' /\ Place(text)' = p + c
    <3>1. c \in 0 .. k
      OBVIOUS
    <3> QED
      BY <1>11, <2>1, <3>1
  <2>6. Place(text)' - s = m + c /\ m + c \in 0 .. l
    <3> HIDE DEF n, p, s, l, i, k
    <3> QED
      BY <1>1, <1>9, <2>2, <2>5
  <2>7. /\ m + c <= MaxRequest \/ m + c > MaxRequest
        /\ m + c <= MaxRequest => ~(m + c > MaxRequest)
        /\ read # Len(lines)
    <3>1. read # Len(lines) /\ c \in Nat
      BY <1>0, <1>1
    <3> HIDE DEF m
    <3> QED
      BY <1>1, <1>9, <3>1
  <2>8. Partial(start, text)'
    <3> HIDE DEF m
    <3>1. LET got == Place(text)' - start[read' + 1] IN
          /\ got \in 0 .. lines'[read' + 1].length
          /\ tooLong' => line' = <<>> /\ got > MaxRequest
          /\ ~tooLong' => line' = [x \in 1 .. got |-> read' + 1] /\ got <= MaxRequest
      BY <1>12, <2>4, <2>6, <2>7
    <3> QED
      BY <1>12, <2>7, <3>1 DEF Partial
  <2> QED
    BY <1>12, <2>1, <2>5, <2>8 DEF Reading
<1>14. CASE found # {}
  <2>0. /\ tooLong' = NowTooLong(SubSeq(input, 1, end - 1))
        /\ line' = IF NowTooLong(SubSeq(input, 1, end - 1)) THEN <<>>
                   ELSE line \o SubSeq(input, 1, end - 1)
        /\ input' = SubSeq(input, end + 1, Len(input)) /\ at' = "line"
    <3> HIDE DEF found, end
    <3> QED
      BY <1>14, <1>15
  <2>1. end \in found /\ \A y \in found : end <= y
    <3>1. found \subseteq Nat
      OBVIOUS
    <3> HIDE DEF found
    <3> QED
      BY <1>14, <3>1, LeastOf
  <2> HIDE DEF end
  <2> DEFINE part == SubSeq(input, 1, end - 1)
  <2>2. /\ tooLong' = NowTooLong(part) /\ line' = IF NowTooLong(part) THEN <<>> ELSE line \o part
        /\ input' = SubSeq(input, end + 1, Len(input)) /\ at' = "line"
    BY <2>0
  <2>3. end = upto
    <3>1. end \in 1 .. k /\ input[end] = Newline /\ end <= c
      BY <2>1
    <3>2. end >= upto
      BY <1>6, <1>8, <3>1
    <3>3. upto \in 1 .. k /\ upto \in 1 .. c
      BY <1>8, <3>1, <3>2
    <3>4. upto \in found
      BY <1>7, <3>3
    <3> QED
      BY <1>8, <2>1, <3>1, <3>2, <3>4
  <2>4. /\ part \in Seq(Nat \cup {Newline}) /\ Len(part) = l - m
        /\ \A x \in 1 .. (l - m) : part[x] = i
        /\ l - m \in Nat
    <3>1. end - 1 \in 0 .. Len(input) /\ end - 1 = l - m
      <4>1. end \in 1 .. k
        BY <2>1
      <4> HIDE DEF l, m, upto
      <4> QED
        BY <1>1, <1>9, <2>3, <4>1
    <3>2. /\ part \in Seq(Nat \cup {Newline}) /\ Len(part) = end - 1
          /\ \A x \in 1 .. (end - 1) : part[x] = input[x]
      BY <1>1, <3>1, Taken
    <3>3. \A x \in 1 .. (end - 1) : x \in 1 .. k /\ x < upto
      BY <2>1, <2>3
    <3> QED
      BY <1>6, <3>1, <3>2, <3>3
  <2>5. /\ tooLong' <=> m + (l - m) > MaxRequest
        /\ ~tooLong' => line' = [x \in 1 .. (m + (l - m)) |-> i]
    <3> HIDE DEF part, m, i, upto, l
    <3> QED
      BY <1>10, <2>2, <2>4
  <2>6. m + (l - m) = l
    BY <1>1, <1>9
  <2>7. Suffix(text)' /\ Place(text)' = p + end
    <3>1. end \in 0 .. k
      BY <2>1
    <3> QED
      BY <1>11, <2>2, <3>1
  <2>8. Place(text)' = start[read + 2]
    <3>1. i + 1 = read + 2
      BY <1>0
    <3>2. p + end = s + l + 1
      <4> HIDE DEF n, p, s, l, i, k
      <4> QED BY <1>1, <2>3 DEF upto
    <3> QED
      BY <1>2, <2>7, <3>1, <3>2
  <2>9. After(start, text)'
    BY <1>1, <1>12, <2>8 DEF After
  <2>10. WholeLine'
    BY <1>12, <2>5, <2>6 DEF WholeLine, Long, Units
  <2> QED
    BY <1>12, <2>2, <2>7, <2>9, <2>10 DEF Reading
<1> QED
  BY <1>13, <1>14

LEMMA AtTheEnd ==
  ASSUME Kinds, NEW start, NEW text, Reading(start, text), at = "read", input = <<>>,
         read # Len(lines)
  PROVE  read + 1 = Len(lines) /\ WholeLine
<1> DEFINE n == Len(lines)
           i == read + 1
           s == start[i]
           l == lines[i].length
           t == Len(text)
<1>1. /\ n \in Nat /\ i \in 1 .. n /\ l \in Nat /\ s \in Nat /\ t \in Nat /\ MaxRequest \in Nat
      /\ s + l <= t + 1 /\ (i < n => s + l <= t)
      /\ read \in Nat
  <2>1. n \in Nat /\ \A j \in 1 .. n : lines[j].length \in Nat
    BY LinesAre DEF Kinds
  <2>2. read \in 0 .. n /\ Layout(start, text)
    BY DEF Reading
  <2>3. i \in 1 .. n /\ read \in Nat
    BY <2>1, <2>2
  <2>4. start \in [1 .. (n + 1) -> Nat] /\ text \in Seq(Nat \cup {Newline})
    BY <2>2 DEF Layout
  <2>5. s + l <= t + 1 /\ (i < n => s + l <= t)
    BY <2>2, <2>3 DEF Layout
  <2>6. s \in Nat /\ t \in Nat
    BY SMTT(30), <2>1, <2>3, <2>4
  <2> QED
    BY <2>1, <2>3, <2>5, <2>6, LinesAssumption
<1>2. Place(text) = t + 1
  BY <1>1 DEF Place
<1>3. LET got == Place(text) - start[read + 1] IN
      /\ got \in 0 .. lines[read + 1].length
      /\ tooLong => line = <<>> /\ got > MaxRequest
      /\ ~tooLong => line = [m \in 1 .. got |-> read + 1] /\ got <= MaxRequest
  <2>1. read < n
    BY <1>1
  <2> QED
    BY <2>1 DEF Reading, Partial
<1>4. Place(text) - s \in 0 .. l /\ Place(text) - s = t + 1 - s
  <2>1. Place(text) - s \in 0 .. l
    BY <1>3
  <2> HIDE DEF s, l, t
  <2>2. Place(text) - s = t + 1 - s
    BY <1>1, <1>2
  <2> QED
    BY <2>1, <2>2
<1>5. t + 1 = s + l /\ Place(text) - s = l /\ i = n
  <2> HIDE DEF n, i, s, l, t
  <2> QED
    BY <1>1, <1>4
<1>6. /\ tooLong => l > MaxRequest
      /\ ~tooLong => line = [m \in 1 .. l |-> i] /\ l <= MaxRequest
  BY <1>3, <1>5
<1>7. tooLong <=> l > MaxRequest
  <2> HIDE DEF l
  <2> QED
    BY <1>1, <1>6
<1>8. WholeLine
  BY <1>6, <1>7 DEF WholeLine, Long, Units
<1> QED
  BY <1>5, <1>8

\* What was read is understood as what was sent.
LEMMA Understood ==
  ASSUME Kinds, kind # "one", WholeLine, read + 1 \in 1 .. Len(lines), NEW is,
         is = IF tooLong THEN "long" ELSE IF line = <<>> THEN "blank" ELSE lines[line[1]].is
  PROVE  IsAnswered(read + 1) <=> ~(is = "blank" \/ (kind = "mcp" /\ is = "notification"))
<1> DEFINE i == read + 1
<1>1. /\ lines[i].length \in Nat /\ lines[i] \in Lines
      /\ lines[i].is \in {"call", "eval", "answered", "notification", "garbled", "bytes"}
  BY LinesAre, LinesAssumption DEF Kinds
<1>2. CASE tooLong
  BY <1>2 DEF WholeLine, IsAnswered
<1>3. CASE ~tooLong
  <2>1. line = Units(i) /\ ~Long(lines[i])
    BY <1>3 DEF WholeLine
  <2>2. line = [m \in 1 .. lines[i].length |-> i]
    BY <2>1 DEF Units
  <2>3. CASE lines[i].length = 0
    <3>1. line = <<>>
      BY <2>2, <2>3
    <3>2. is = "blank"
      BY <1>3, <3>1
    <3> QED
      BY <2>1, <2>3, <3>2 DEF IsAnswered
  <2>4. CASE lines[i].length # 0
    <3>1. 1 \in 1 .. lines[i].length
      BY <1>1, <2>4
    <3>2. line[1] = i /\ line # <<>>
      <4>1. line[1] = i /\ 1 \in DOMAIN line
        BY <2>2, <3>1
      <4>2. 1 \notin DOMAIN <<>>
        OBVIOUS
      <4> QED
        BY <4>1, <4>2
    <3>3. is = lines[i].is
      BY <1>3, <3>2
    <3>4. is # "blank" /\ lines[i].length > 0
      BY <1>1, <2>4, <3>3
    <3> HIDE DEF i
    <3>5. IsAnswered(i) <=> (kind = "mcp" => lines[i].is # "notification")
      BY <2>1, <3>4 DEF IsAnswered
    <3> QED
      BY <3>3, <3>4, <3>5 DEF i
  <2> QED
    BY <2>3, <2>4
<1> QED
  BY <1>2, <1>3

LEMMA Remains ==
  ASSUME NEW start, NEW text, Reading(start, text),
         kind' = kind, lines' = lines, input' = input, line' = line, tooLong' = tooLong, read' = read,
         at' \in {"read", "connect"} => at \in {"read", "connect"},
         at' \in {"call", "answered", "print"} => at \in {"call", "answered", "print"},
         at' = "line" => at = "line"
  PROVE  Reading(start, text)'
<1>1. Layout(start, text)' /\ Suffix(text)' /\ read' \in 0 .. Len(lines')
  BY DEF Reading, Layout, Suffix
<1>2. Partial(start, text)' <=> Partial(start, text)
  BY DEF Partial, Place
<1>3. After(start, text)' <=> After(start, text)
  BY DEF After, Place
<1>4. WholeLine' <=> WholeLine
  BY DEF WholeLine, Units, Long
<1>5. Handled' <=> Handled
  BY DEF Handled, IsAnswered, Long
<1> QED
  BY <1>1, <1>2, <1>3, <1>4, <1>5 DEF Reading

LEMMA AfterIsIn ==
  ASSUME Kinds, NEW start, NEW text, Reading(start, text), After(start, text)
  PROVE  read + 1 \in 1 .. Len(lines) /\ read \in Nat
<1>1. Len(lines) \in Nat /\ read \in 0 .. Len(lines) /\ read < Len(lines)
  BY LinesAre DEF Kinds, Reading, After
<1> QED
  BY <1>1

LEMMA HandleReads ==
  ASSUME Kinds, kind # "one", NEW start, NEW text, Reading(start, text), Handle
  PROVE  Reading(start, text)' /\ (read' # read <=> ~IsAnswered(read + 1))
           /\ read' \in {read, read + 1} /\ (read' # read <=> at' = "read")
<1> DEFINE is == IF tooLong THEN "long" ELSE IF line = <<>> THEN "blank" ELSE lines[line[1]].is
           here == is \in {"long", "garbled", "bytes"} \/ (kind = "mcp" /\ is = "answered")
           silent == is = "blank" \/ (kind = "mcp" /\ is = "notification")
<1>1. /\ at = "line"
      /\ \/ silent /\ at' = "read" /\ read' = read + 1
         \/ here /\ at' = "print" /\ read' = read
         \/ ~here /\ ~silent /\ at' = "call" /\ read' = read
      /\ line' = <<>> /\ tooLong' = FALSE
      /\ kind' = kind /\ lines' = lines /\ input' = input
  BY DEF Handle
<1>2. After(start, text) /\ WholeLine
  BY <1>1 DEF Reading
<1>3. read + 1 \in 1 .. Len(lines) /\ read \in Nat
  BY <1>2, AfterIsIn
<1>4. IsAnswered(read + 1) <=> ~silent
  BY <1>2, <1>3, Understood
<1>5. here => ~silent
  OBVIOUS
<1> HIDE DEF here, silent
<1>6. CASE silent /\ at' = "read" /\ read' = read + 1
  <2>1. Reading(start, text)'
    BY <1>1, <1>2, <1>6, NextLine
  <2> QED
    BY <1>3, <1>4, <1>6, <2>1
<1>7. CASE ~silent /\ at' \in {"print", "call"} /\ read' = read
  <2>1. Layout(start, text)' /\ Suffix(text)' /\ read' \in 0 .. Len(lines')
    BY <1>1, <1>7 DEF Reading, Layout, Suffix
  <2>2. After(start, text)'
    BY <1>1, <1>2, <1>7 DEF After, Place
  <2>3. IsAnswered(read + 1)' <=> IsAnswered(read + 1)
    BY <1>1, <1>7 DEF IsAnswered, Long
  <2>4. Handled'
    BY <1>1, <1>4, <1>7, <2>3 DEF Handled
  <2>5. Reading(start, text)'
    BY <1>7, <2>1, <2>2, <2>4 DEF Reading
  <2> QED
    BY <1>4, <1>7, <2>5
<1> QED
  BY <1>1, <1>5, <1>6, <1>7

LEMMA PrintReads ==
  ASSUME Kinds, kind # "one", NEW start, NEW text, Reading(start, text), PrintLine
  PROVE  Reading(start, text)'
<1>1. /\ at = "print" /\ kind' = kind /\ lines' = lines
      /\ input' = input /\ line' = line /\ tooLong' = tooLong
      /\ (at' = "read" /\ read' = read + 1) \/ (at' = "over" /\ read' = read)
  BY DEF PrintLine, Exit
<1>2. After(start, text) /\ Handled
  BY <1>1 DEF Reading
<1>3. CASE at' = "read" /\ read' = read + 1
  <2>1. line' = <<>> /\ tooLong' = FALSE
    <3>1. line = <<>> /\ ~tooLong
      BY <1>2 DEF Handled
    <3> QED
      BY <1>1, <3>1
  <2> QED
    BY <1>1, <1>2, <1>3, <2>1, NextLine
<1>4. CASE at' = "over" /\ read' = read
  BY <1>1, <1>4, Remains
<1> QED
  BY <1>1, <1>3, <1>4

LEMMA ReadingStep ==
  ASSUME Kinds, ReadingInv, ClientNext
  PROVE  ReadingInv'
<1>0. kind' = kind
  BY DEF ClientNext, Piece, EndOfInput, Handle, CallConnects, Call, CallAnswered, ControlAnswered, PrintLine,
         Dropped
<1> SUFFICES ASSUME kind # "one"
             PROVE  \E start, text : Reading(start, text)'
  BY <1>0 DEF ReadingInv
<1>1. PICK start, text : Reading(start, text)
  BY DEF ReadingInv
<1>2. CASE Piece
  BY <1>1, <1>2, PieceReads
<1>3. CASE EndOfInput
  <2>1. /\ at = "read" /\ input = <<>> /\ kind' = kind /\ lines' = lines /\ input' = input
        /\ line' = line /\ tooLong' = tooLong /\ read' = read
        /\ IF line = <<>> /\ ~tooLong THEN at' = "over" ELSE at' = "line"
    BY <1>3 DEF EndOfInput, Exit
  <2>2. CASE at' = "over"
    <3>1. Reading(start, text)'
      BY <1>1, <2>1, <2>2, Remains
    <3> QED
      BY <3>1
  <2>3. CASE at' = "line"
    <3>1. Partial(start, text) /\ read \in 0 .. Len(lines)
      BY <1>1, <2>1 DEF Reading
    <3>2. read # Len(lines)
      BY <2>1, <2>3, <3>1 DEF Partial
    <3>3. read + 1 = Len(lines) /\ WholeLine
      BY <1>1, <2>1, <3>2, AtTheEnd
    <3>4. Layout(start, text)' /\ Suffix(text)'
      BY <1>1, <2>1 DEF Reading, Layout, Suffix
    <3>5. After(start, text)
      BY <2>1, <3>1, <3>3 DEF After
    <3>6. After(start, text)' /\ WholeLine'
      BY <2>1, <3>3, <3>5 DEF After, Place, WholeLine, Units, Long
    <3>7. Reading(start, text)'
      BY <2>1, <2>3, <3>1, <3>4, <3>6 DEF Reading
    <3> QED
      BY <3>7
  <2> QED
    BY <2>1, <2>2, <2>3
<1>4. CASE Handle
  BY <1>1, <1>4, HandleReads
<1>5. CASE CallConnects
  <2>1. /\ kind' = kind /\ lines' = lines /\ input' = input
        /\ line' = line /\ tooLong' = tooLong /\ read' = read
    BY <1>5 DEF CallConnects
  <2>2. \/ at = "connect" /\ at' \in {"read", "over"}
        \/ at = "call" /\ at' \in {"call", "print", "over"}
    BY <1>5 DEF CallConnects, Exit, Kinds
  <2>3. Reading(start, text)'
    BY <1>1, <2>1, <2>2, Remains
  <2> QED
    BY <2>3
<1>6. CASE Call
  <2>1. /\ kind' = kind /\ lines' = lines /\ input' = input
        /\ line' = line /\ tooLong' = tooLong /\ read' = read /\ at = "call" /\ at' = "answered"
    BY <1>6 DEF Call, reading
  <2>2. Reading(start, text)'
    BY <1>1, <2>1, Remains
  <2> QED
    BY <2>2
<1>7. CASE CallAnswered \/ ControlAnswered
  <2>1. /\ kind' = kind /\ lines' = lines /\ input' = input
        /\ line' = line /\ tooLong' = tooLong /\ read' = read
        /\ at = "answered" /\ at' \in {"call", "print", "over"}
    <3>1. CASE CallAnswered
      <4>1. at' \in {"call", "print"}
        BY <3>1 DEF CallAnswered
      <4> QED
        BY <3>1, <4>1 DEF CallAnswered, reading
    <3>2. CASE ControlAnswered
      BY <3>2 DEF ControlAnswered, reading, Exit
    <3> QED
      BY <1>7, <3>1, <3>2
  <2>2. Reading(start, text)'
    BY <1>1, <2>1, Remains
  <2> QED
    BY <2>2
<1>8. CASE PrintLine
  BY <1>1, <1>8, PrintReads
<1>9. CASE Dropped
  <2>1. /\ kind' = kind /\ lines' = lines /\ input' = input
        /\ line' = line /\ tooLong' = tooLong /\ read' = read /\ at' = at
    BY <1>9 DEF Dropped, reading
  <2>2. Reading(start, text)'
    BY <1>1, <2>1, Remains
  <2> QED
    BY <2>2
<1> QED
  BY <1>2, <1>3, <1>4, <1>5, <1>6, <1>7, <1>8, <1>9 DEF ClientNext

(***************************************************************************)
(* What was answered and what was done.                                    *)
(***************************************************************************)

Answers == [line : Nat, done : BOOLEAN]

OutLines == {out[i].line : i \in DOMAIN out}

\* What was answered, by where the program is.
OutInv ==
  /\ out \in Seq(Answers)
  /\ \A i, j \in DOMAIN out : i < j => out[i].line < out[j].line
  /\ at # "over" => OutLines = Answerable(IF kind = "one" THEN 0 ELSE read)
  /\ status = "done" /\ kind # "one" => OutLines = Answerable(Len(lines))

\* What was done, by where the program is.
DoneInv ==
  /\ done \in [1 .. Len(lines) -> Nat] /\ \A i \in 1 .. Len(lines) : done[i] <= 1
  /\ \A i \in DOMAIN out : out[i].done => done[out[i].line] = 1
  /\ at # "over" => \A i \in 1 .. Len(lines) : i > Now => done[i] = 0
  /\ at \in {"connect", "read", "line", "call"} =>
       \A i \in 1 .. Len(lines) : i = Now => done[i] = 0
  /\ at = "answered" =>
       /\ sought = "scope" \/ answer = "not granted" => done[Now] = 0
       /\ answer = "done" /\ sought # "scope" => done[Now] = 1
  /\ at = "print" /\ answer = "done" => done[Now] = 1
  /\ kind = "one" /\ status = "done" => done[1] = 1

ClientInv == Kinds /\ ReadingInv /\ OutInv /\ DoneInv

LEMMA KindsStep ==
  ASSUME Kinds, ClientNext
  PROVE  Kinds' /\ kind' = kind /\ lines' = lines /\ at # "over"
<1>1. kind' = kind /\ lines' = lines /\ at # "over"
  BY DEF ClientNext, Piece, EndOfInput, Handle, CallConnects, Call, CallAnswered, ControlAnswered, PrintLine,
         Dropped
<1>2. LinesOK' /\ kind' \in {"one", "session", "mcp"} /\ status # "done"
  BY <1>1 DEF Kinds, LinesOK
<1>3. CASE Piece
  <2>1. at = "read" /\ at' \in {"read", "line"} /\ kind # "one" /\ sought' = sought /\ status' = status
    BY <1>3 DEF Piece
  <2> QED
    BY <1>1, <1>2, <2>1 DEF Kinds
<1>4. CASE EndOfInput
  <2>1. /\ at = "read" /\ at' \in {"over", "line"} /\ kind # "one" /\ sought' = sought
        /\ at' = "over" \/ status' = status
    BY <1>4 DEF EndOfInput, Exit
  <2> QED
    BY <1>1, <1>2, <2>1 DEF Kinds
<1>5. CASE Handle
  <2>1. /\ at = "line" /\ at' \in {"read", "print", "call"} /\ sought' \in {sought, "line"}
        /\ status' = status
    BY <1>5 DEF Handle
  <2> QED
    BY <1>1, <1>2, <2>1 DEF Kinds
<1>6. CASE CallConnects
  <2>1. /\ at' \in {"call", "read", "print", "over"} /\ sought' \in {sought, "line"}
        /\ at' = "over" \/ status' = status
        /\ sought' = "line" /\ kind = "mcp" => sought = "line"
        /\ kind = "one" => at' # "read"
    BY <1>6 DEF CallConnects, Exit, Kinds
  <2> QED
    BY <1>1, <1>2, <2>1 DEF Kinds
<1>7. CASE Call
  <2>1. at = "call" /\ at' = "answered" /\ sought' = sought /\ status' = status
    BY <1>7 DEF Call
  <2> QED
    BY <1>1, <1>2, <2>1 DEF Kinds
<1>8. CASE CallAnswered
  <2>1. at' \in {"call", "print"} /\ kind = "mcp" /\ status' = status
    BY <1>8 DEF CallAnswered
  <2> QED
    BY <1>1, <1>2, <2>1 DEF Kinds
<1>9. CASE ControlAnswered
  <2>1. /\ at' \in {"over", "print"} /\ sought' = sought
        /\ at' = "over" \/ status' = status
    BY <1>9 DEF ControlAnswered, Exit
  <2> QED
    BY <1>1, <1>2, <2>1 DEF Kinds
<1>10. CASE PrintLine
  <2>1. /\ at' \in {"over", "read"} /\ sought' = "nothing"
        /\ at' = "over" \/ status' = status
        /\ kind = "one" => at' = "over"
    BY <1>10 DEF PrintLine, Exit
  <2> QED
    BY <1>1, <1>2, <2>1 DEF Kinds
<1>11. CASE Dropped
  <2>1. at' = at /\ sought' = sought /\ status' = status
    BY <1>11 DEF Dropped
  <2> QED
    BY <1>1, <1>2, <2>1 DEF Kinds
<1> QED
  BY <1>1, <1>3, <1>4, <1>5, <1>6, <1>7, <1>8, <1>9, <1>10, <1>11 DEF ClientNext

LEMMA AnswerableIs ==
  ASSUME NEW k \in Nat
  PROVE  /\ Answerable(0) = {}
         /\ \A i \in Answerable(k) : i \in Nat /\ i <= k
         /\ IsAnswered(k + 1) => Answerable(k + 1) = Answerable(k) \cup {k + 1}
         /\ ~IsAnswered(k + 1) => Answerable(k + 1) = Answerable(k)
<1>1. 1 .. (k + 1) = (1 .. k) \cup {k + 1} /\ 1 .. 0 = {}
  OBVIOUS
<1>2. \A i \in 1 .. k : i \in Nat /\ i <= k
  OBVIOUS
<1> QED
  BY <1>1, <1>2 DEF Answerable

LEMMA AnswerableStays ==
  ASSUME kind' = kind, lines' = lines
  PROVE  \A i : IsAnswered(i)' <=> IsAnswered(i)
BY DEF IsAnswered, Long

LEMMA NowIsIn ==
  ASSUME Kinds, ReadingInv, at \in {"call", "answered", "print"}
  PROVE  /\ Now \in 1 .. Len(lines) /\ Len(lines) \in Nat
         /\ kind # "one" => Now = read + 1 /\ read \in Nat /\ IsAnswered(read + 1)
         /\ kind = "one" => Now = 1
<1>1. Len(lines) \in Nat
  BY LinesAre DEF Kinds
<1>2. CASE kind = "one"
  BY <1>1, <1>2 DEF Kinds, Now
<1>3. CASE kind # "one"
  <2>1. PICK start, text : Reading(start, text)
    BY <1>3 DEF ReadingInv
  <2>2. After(start, text) /\ Handled
    BY <2>1 DEF Reading
  <2>3. read + 1 \in 1 .. Len(lines) /\ read \in Nat
    BY <2>1, <2>2, AfterIsIn
  <2> QED
    BY <1>1, <1>3, <2>2, <2>3 DEF Now, Handled
<1> QED
  BY <1>2, <1>3

\* An answer more, to a line after those that were answered.
LEMMA AnswerMore ==
  ASSUME out \in Seq(Answers), NEW r \in Answers, out' = Append(out, r),
         \A i, j \in DOMAIN out : i < j => out[i].line < out[j].line,
         \A i \in DOMAIN out : out[i].line < r.line
  PROVE  /\ out' \in Seq(Answers)
         /\ \A i, j \in DOMAIN out' : i < j => out'[i].line < out'[j].line
         /\ OutLines' = OutLines \cup {r.line}
         /\ \A i \in DOMAIN out' : (i \in DOMAIN out /\ out'[i] = out[i]) \/ out'[i] = r
<1> DEFINE n == Len(out)
<1>1. /\ n \in Nat /\ out' \in Seq(Answers) /\ DOMAIN out = 1 .. n /\ DOMAIN out' = 1 .. (n + 1)
      /\ out'[n + 1] = r /\ \A i \in 1 .. n : out'[i] = out[i]
  OBVIOUS
<1> HIDE DEF n
<1>2. \A i \in 1 .. (n + 1) : i = n + 1 \/ (i \in 1 .. n /\ i < n + 1)
  BY <1>1
<1>3. ASSUME NEW i \in 1 .. (n + 1), NEW j \in 1 .. (n + 1), i < j
      PROVE  out'[i].line < out'[j].line
  <2>1. i \in 1 .. n
    BY <1>1, <1>3
  <2>2. out'[i] = out[i] /\ i \in DOMAIN out
    BY <1>1, <2>1
  <2>3. CASE j = n + 1
    BY <1>1, <2>2, <2>3
  <2>4. CASE j \in 1 .. n
    BY <1>1, <1>3, <2>2, <2>4
  <2> QED
    BY <1>2, <2>3, <2>4
<1>4. OutLines' = OutLines \cup {r.line}
  <2>1. OutLines' = {out'[i].line : i \in 1 .. (n + 1)} /\ OutLines = {out[i].line : i \in 1 .. n}
    BY <1>1 DEF OutLines
  <2>2. n + 1 \in 1 .. (n + 1) /\ \A i \in 1 .. n : i \in 1 .. (n + 1)
    BY <1>1
  <2>3. \A x \in OutLines' : x \in OutLines \cup {r.line}
    BY <1>1, <1>2, <2>1
  <2>4. \A x \in OutLines : x \in OutLines'
    BY <1>1, <2>1, <2>2
  <2>5. r.line \in OutLines'
    BY <1>1, <2>1, <2>2
  <2> QED
    BY <2>3, <2>4, <2>5
<1>5. \A i \in DOMAIN out' : (i \in DOMAIN out /\ out'[i] = out[i]) \/ out'[i] = r
  BY <1>1, <1>2
<1> QED
  BY <1>1, <1>3, <1>4, <1>5

LEMMA OutBelow ==
  ASSUME Kinds, OutInv, at # "over", kind # "one" => read \in Nat
  PROVE  \A i \in DOMAIN out : out[i].line < Now
<1> SUFFICES ASSUME NEW i \in DOMAIN out PROVE out[i].line < Now
  OBVIOUS
<1>1. out[i].line \in OutLines
  BY DEF OutLines
<1>2. CASE kind = "one"
  <2>1. OutLines = Answerable(0)
    BY <1>2 DEF OutInv
  <2> QED
    BY <1>1, <2>1, AnswerableIs
<1>3. CASE kind # "one"
  <2>1. OutLines = Answerable(read) /\ read \in Nat
    BY <1>3 DEF OutInv
  <2>2. out[i].line \in Nat /\ out[i].line <= read
    BY <1>1, <2>1, AnswerableIs
  <2> QED
    BY <1>3, <2>1, <2>2 DEF Now
<1> QED
  BY <1>2, <1>3

LEMMA OutSame ==
  ASSUME OutInv, at # "over", out' = out, kind' = kind, lines' = lines,
         at' # "over" => kind = "one" \/ read' = read, status' # "done" \/ kind = "one"
  PROVE  OutInv'
<1>1. OutLines' = OutLines
  BY DEF OutLines
<1>2. \A i : IsAnswered(i)' <=> IsAnswered(i)
  BY AnswerableStays
<1>3. at' # "over" => OutLines' = Answerable(IF kind = "one" THEN 0 ELSE read)'
  BY <1>1, <1>2 DEF OutInv, Answerable
<1> QED
  BY <1>3 DEF OutInv

LEMMA ReadIsNat ==
  ASSUME Kinds, ReadingInv
  PROVE  kind # "one" => read \in Nat /\ read <= Len(lines)
<1> SUFFICES ASSUME kind # "one" PROVE read \in Nat /\ read <= Len(lines)
  OBVIOUS
<1>1. PICK start, text : Reading(start, text)
  BY DEF ReadingInv
<1>2. read \in 0 .. Len(lines) /\ Len(lines) \in Nat
  BY <1>1, LinesAre DEF Reading, Kinds
<1> QED
  BY <1>2

LEMMA OutStep ==
  ASSUME Kinds, ReadingInv, OutInv, ClientNext
  PROVE  OutInv'
<1>1. kind' = kind /\ lines' = lines /\ at # "over"
  BY KindsStep
<1>2. \A i : IsAnswered(i)' <=> IsAnswered(i)
  BY <1>1, AnswerableStays
<1>3. kind # "one" => read \in Nat /\ read <= Len(lines)
  BY ReadIsNat
<1>4. status # "done" /\ kind \in {"one", "session", "mcp"}
  BY <1>1 DEF Kinds
<1>5. CASE Piece
  <2>1. out' = out /\ read' = read /\ status' = status
    BY <1>5 DEF Piece
  <2> QED
    BY <1>1, <1>4, <2>1, OutSame
<1>6. CASE EndOfInput
  <2>1. /\ at = "read" /\ input = <<>> /\ kind # "one" /\ out' = out /\ read' = read
        /\ \/ line = <<>> /\ ~tooLong /\ at' = "over" /\ status' = "done"
           \/ status' = status
    BY <1>6 DEF EndOfInput, Exit
  <2>2. CASE status' = status
    BY <1>1, <1>4, <2>1, <2>2, OutSame
  <2>3. CASE line = <<>> /\ ~tooLong /\ at' = "over" /\ status' = "done"
    <3>1. OutLines = Answerable(read)
      BY <2>1 DEF OutInv
    <3>2. Answerable(read) = Answerable(Len(lines))
      <4>1. CASE read = Len(lines)
        BY <4>1
      <4>2. CASE read # Len(lines)
        <5>1. PICK start, text : Reading(start, text)
          BY <2>1 DEF ReadingInv
        <5>2. read + 1 = Len(lines) /\ WholeLine
          BY <2>1, <4>2, <5>1, AtTheEnd
        <5>3. read + 1 \in 1 .. Len(lines)
          BY <1>3, <2>1, <5>2
        <5> DEFINE is == IF tooLong THEN "long" ELSE IF line = <<>> THEN "blank" ELSE lines[line[1]].is
        <5>4. is = "blank"
          BY <2>3
        <5>5. ~IsAnswered(read + 1)
          <6>1. IsAnswered(read + 1) <=> ~(is = "blank" \/ (kind = "mcp" /\ is = "notification"))
            BY <2>1, <5>2, <5>3, Understood
          <6> HIDE DEF is
          <6> QED
            BY <5>4, <6>1
        <5>6. Answerable(read + 1) = Answerable(read)
          BY <1>3, <2>1, <5>5, AnswerableIs
        <5> QED
          BY <5>2, <5>6
      <4> QED
        BY <4>1, <4>2
    <3>3. OutLines' = OutLines /\ Answerable(Len(lines))' = Answerable(Len(lines))
      BY <1>1, <1>2, <2>1 DEF OutLines, Answerable
    <3> QED
      BY <2>1, <2>3, <3>1, <3>2, <3>3 DEF OutInv
  <2> QED
    BY <2>1, <2>2, <2>3
<1>7. CASE Handle
  <2>1. out' = out /\ status' = status /\ at = "line"
    BY <1>7 DEF Handle
  <2>2. kind # "one"
    BY <2>1 DEF Kinds
  <2>3. PICK start, text : Reading(start, text)
    BY <2>2 DEF ReadingInv
  <2>4. /\ (read' # read <=> ~IsAnswered(read + 1))
        /\ read' \in {read, read + 1}
    BY <1>7, <2>2, <2>3, HandleReads
  <2>5. CASE read' = read
    BY <1>1, <1>4, <2>1, <2>5, OutSame
  <2>6. CASE read' # read
    <3>1. OutLines = Answerable(read) /\ Answerable(read + 1) = Answerable(read)
      BY <1>1, <1>3, <2>2, <2>4, <2>6, AnswerableIs DEF OutInv
    <3>2. OutLines' = OutLines /\ Answerable(read)' = Answerable(read + 1)
      BY <1>1, <1>2, <2>1, <2>4, <2>6 DEF OutLines, Answerable
    <3> QED
      BY <1>1, <1>4, <2>1, <2>2, <3>1, <3>2 DEF OutInv
  <2> QED
    BY <2>5, <2>6
<1>8. CASE CallConnects
  <2>1. out' = out /\ read' = read /\ status' # "done"
    BY <1>4, <1>8 DEF CallConnects, Exit
  <2> QED
    BY <1>1, <2>1, OutSame
<1>9. CASE Call
  <2>1. out' = out /\ read' = read /\ status' = status
    BY <1>9 DEF Call, reading
  <2> QED
    BY <1>1, <1>4, <2>1, OutSame
<1>10. CASE CallAnswered
  <2>1. out' = out /\ read' = read /\ status' = status
    BY <1>10 DEF CallAnswered, reading
  <2> QED
    BY <1>1, <1>4, <2>1, OutSame
<1>11. CASE ControlAnswered
  <2>1. /\ at = "answered" /\ kind # "mcp" /\ read' = read
        /\ \/ /\ out' = Append(out, [line |-> Now, done |-> FALSE])
              /\ at' = "over" /\ status' = "unreachable"
           \/ out' = out /\ status' = status
    BY <1>11 DEF ControlAnswered, Exit, reading
  <2>2. CASE out' = out /\ status' = status
    BY <1>1, <1>4, <2>1, <2>2, OutSame
  <2>3. CASE /\ out' = Append(out, [line |-> Now, done |-> FALSE])
             /\ at' = "over" /\ status' = "unreachable"
    <3> DEFINE r == [line |-> Now, done |-> FALSE]
    <3>1. r \in Answers /\ r.line = Now
      <4>1. Now \in Nat
        BY <2>1, NowIsIn
      <4> QED
        BY <4>1 DEF Answers
    <3>2. \A i \in DOMAIN out : out[i].line < Now
      BY <1>1, <1>3, OutBelow
    <3>3. out' = Append(out, r)
      BY <2>3
    <3> HIDE DEF r
    <3>4. out' \in Seq(Answers) /\ \A i, j \in DOMAIN out' : i < j => out'[i].line < out'[j].line
      BY <3>1, <3>2, <3>3, AnswerMore DEF OutInv
    <3> QED
      BY <2>3, <3>4 DEF OutInv
  <2> QED
    BY <2>1, <2>2, <2>3
<1>12. CASE PrintLine
  <2>1. /\ at = "print"
        /\ \/ /\ out' = Append(out, [line |-> Now, done |-> answer = "done"]) /\ read' = read + 1
              /\ kind # "one" => at' = "read" /\ status' = status
              /\ kind = "one" => at' = "over"
           \/ out' = out /\ at' = "over" /\ (kind = "one" \/ status' = "failed")
    BY <1>12 DEF PrintLine, Exit
  <2>2. CASE out' = out /\ at' = "over" /\ (kind = "one" \/ status' = "failed")
    BY <1>1, <2>2, OutSame
  <2>3. CASE /\ out' = Append(out, [line |-> Now, done |-> answer = "done"]) /\ read' = read + 1
             /\ kind # "one" => at' = "read" /\ status' = status
             /\ kind = "one" => at' = "over"
    <3> DEFINE r == [line |-> Now, done |-> answer = "done"]
    <3>1. r \in Answers /\ r.line = Now
      <4>1. Now \in Nat
        BY <2>1, NowIsIn
      <4>2. (answer = "done") \in BOOLEAN
        OBVIOUS
      <4> QED
        BY <4>1, <4>2 DEF Answers
    <3>2. \A i \in DOMAIN out : out[i].line < Now
      BY <1>1, <1>3, OutBelow
    <3>3. out' = Append(out, r)
      BY <2>3
    <3> HIDE DEF r
    <3>4. /\ out' \in Seq(Answers) /\ \A i, j \in DOMAIN out' : i < j => out'[i].line < out'[j].line
          /\ OutLines' = OutLines \cup {Now}
      BY <3>1, <3>2, <3>3, AnswerMore DEF OutInv
    <3>5. CASE kind = "one"
      BY <1>1, <2>3, <3>4, <3>5 DEF OutInv
    <3>6. CASE kind # "one"
      <4>1. Now = read + 1 /\ IsAnswered(read + 1)
        BY <2>1, <3>6, NowIsIn
      <4>2. OutLines = Answerable(read)
        BY <1>1, <3>6 DEF OutInv
      <4>3. Answerable(read + 1) = Answerable(read) \cup {read + 1}
        BY <1>3, <3>6, <4>1, AnswerableIs
      <4>4. Answerable(read)' = Answerable(read + 1)
        BY <1>1, <1>2, <2>3 DEF Answerable
      <4> QED
        BY <1>1, <1>4, <2>3, <3>4, <3>6, <4>1, <4>2, <4>3, <4>4 DEF OutInv
    <3> QED
      BY <3>5, <3>6
  <2> QED
    BY <2>1, <2>2, <2>3
<1>13. CASE Dropped
  <2>1. out' = out /\ read' = read /\ status' = status
    BY <1>13 DEF Dropped, reading
  <2> QED
    BY <1>1, <1>4, <2>1, OutSame
<1> QED
  BY <1>5, <1>6, <1>7, <1>8, <1>9, <1>10, <1>11, <1>12, <1>13 DEF ClientNext

\* Nothing is done, answered or handled.
LEMMA DoneSame ==
  ASSUME DoneInv, at # "over", done' = done, out' = out, kind' = kind, lines' = lines,
         Len(lines) \in Nat,
         at' # "over" => Now' = Now,
         at' \in {"connect", "read", "line", "call"} => at \in {"connect", "read", "line", "call"},
         at' # "answered",
         at' = "print" => answer' # "done",
         kind = "one" => status' # "done"
  PROVE  DoneInv'
<1>1. at' # "over" => \A i \in 1 .. Len(lines) : i > Now' => done'[i] = 0
  BY DEF DoneInv
<1>2. at' \in {"connect", "read", "line", "call"} =>
        \A i \in 1 .. Len(lines) : i = Now' => done'[i] = 0
  BY DEF DoneInv
<1> QED
  BY <1>1, <1>2 DEF DoneInv

\* The next line is come to.
LEMMA DoneNext ==
  ASSUME DoneInv, at # "over", done' = done, kind' = kind, lines' = lines, Len(lines) \in Nat,
         kind # "one", Now \in Nat, Now' = Now + 1,
         at' = "read",
         \A i \in DOMAIN out' : out'[i].done => done[out'[i].line] = 1
  PROVE  DoneInv'
<1>1. \A i \in 1 .. Len(lines) : i > Now' \/ i = Now' => i > Now
  OBVIOUS
<1>2. \A i \in 1 .. Len(lines) : i > Now' \/ i = Now' => done'[i] = 0
  BY <1>1 DEF DoneInv
<1> QED
  BY <1>2 DEF DoneInv

LEMMA NowIsNat ==
  ASSUME Kinds, ReadingInv
  PROVE  Now \in Nat /\ Len(lines) \in Nat
BY ReadIsNat, LinesAre DEF Now, Kinds

LEMMA DoneStep ==
  ASSUME Kinds, ReadingInv, OutInv, DoneInv, ClientNext
  PROVE  DoneInv'
<1>1. kind' = kind /\ lines' = lines /\ at # "over" /\ kind \in {"one", "session", "mcp"}
  BY KindsStep DEF Kinds
<1>2. Now \in Nat /\ Len(lines) \in Nat
  BY NowIsNat
<1>3. read' = read => Now' = Now
  BY <1>1 DEF Now
<1>4. kind # "one" /\ read' = read + 1 => Now' = Now + 1
  BY <1>1, ReadIsNat DEF Now
<1>5. status # "done"
  BY <1>1 DEF Kinds
<1>6. CASE Piece
  <2>1. /\ at = "read" /\ at' \in {"read", "line"} /\ read' = read /\ done' = done /\ out' = out
        /\ status' = status
    BY <1>6 DEF Piece
  <2> QED
    BY <1>1, <1>2, <1>3, <1>5, <2>1, DoneSame
<1>7. CASE EndOfInput
  <2>1. /\ at = "read" /\ at' \in {"over", "line"} /\ read' = read /\ done' = done /\ out' = out
        /\ kind # "one"
    BY <1>7 DEF EndOfInput, Exit
  <2> QED
    BY <1>1, <1>2, <1>3, <1>5, <2>1, DoneSame
<1>8. CASE Handle
  <2>1. /\ at = "line" /\ done' = done /\ out' = out /\ status' = status
        /\ \/ at' = "read" /\ read' = read + 1
           \/ at' = "print" /\ answer' = "here" /\ read' = read
           \/ at' = "call" /\ read' = read
    BY <1>8 DEF Handle
  <2>2. kind # "one"
    BY <2>1 DEF Kinds
  <2>3. CASE at' = "read" /\ read' = read + 1
    <3>1. \A i \in DOMAIN out' : out'[i].done => done[out'[i].line] = 1
      BY <2>1 DEF DoneInv
    <3> QED
      BY <1>1, <1>2, <1>4, <2>1, <2>2, <2>3, <3>1, DoneNext
  <2>4. CASE read' = read /\ (at' = "call" \/ (at' = "print" /\ answer' = "here"))
    BY <1>1, <1>2, <1>3, <1>5, <2>1, <2>4, DoneSame
  <2> QED
    BY <2>1, <2>3, <2>4
<1>9. CASE CallConnects
  <2>1. /\ at \in {"connect", "call"} /\ done' = done /\ out' = out /\ read' = read
        /\ status' # "done"
        /\ \/ at' \in {"call", "read", "over"}
           \/ at' = "print" /\ answer' = "failed"
    BY <1>5, <1>9 DEF CallConnects, Exit
  <2> QED
    BY <1>1, <1>2, <1>3, <2>1, DoneSame
<1>10. CASE Call
  <2>1. at = "call" /\ at' = "answered" /\ out' = out /\ read' = read /\ sought' = sought /\ status' = status
    BY <1>10 DEF Call, reading
  <2>2. Now' = Now /\ Now \in 1 .. Len(lines) /\ done[Now] = 0
    <3>1. Now \in 1 .. Len(lines)
      BY <2>1, NowIsIn
    <3> QED
      BY <1>3, <2>1, <3>1 DEF DoneInv
  <2>3. CASE /\ sought # "scope" /\ done' = [done EXCEPT ![Now] = @ + 1]
             /\ answer' \in {"done", "closed"}
    <3>1. /\ done' \in [1 .. Len(lines) -> Nat] /\ done'[Now] = 1
          /\ \A i \in 1 .. Len(lines) : i # Now => done'[i] = done[i]
      BY <2>2, <2>3 DEF DoneInv
    <3>2. \A i \in DOMAIN out : out[i].done => done'[out[i].line] = 1
      <4> SUFFICES ASSUME NEW i \in DOMAIN out, out[i].done PROVE done'[out[i].line] = 1
        OBVIOUS
      <4>1. done[out[i].line] = 1 /\ out[i].line # Now
        BY <2>2 DEF DoneInv
      <4>2. done' = [done EXCEPT ![Now] = done[Now] + 1]
        BY <2>3
      <4>3. out[i].line < Now /\ out[i] \in Answers
        BY <1>1, OutBelow, ReadIsNat DEF OutInv
      <4>4. out[i].line \in Nat
        BY <4>3 DEF Answers
      <4>5. CASE out[i].line \in 1 .. Len(lines)
        BY <3>1, <4>1, <4>5
      <4>6. CASE out[i].line \notin 1 .. Len(lines)
        <5>1. out[i].line \in OutLines
          BY DEF OutLines
        <5>2. OutLines = Answerable(IF kind = "one" THEN 0 ELSE read)
          BY <1>1 DEF OutInv
        <5>3. out[i].line >= 1
          <6>1. \E k : OutLines = Answerable(k)
            BY <5>2
          <6> QED
            BY <5>1, <6>1 DEF Answerable
        <5> QED
          BY <1>2, <2>2, <4>3, <4>4, <4>6, <5>3
      <4> QED
        BY <4>5, <4>6
    <3>3. ASSUME NEW i \in 1 .. Len(lines)
          PROVE  done'[i] <= 1
      <4>1. CASE i = Now
        BY <3>1, <4>1
      <4>2. CASE i # Now
        <5>1. done'[i] = done[i] /\ done[i] <= 1
          BY <3>1, <4>2 DEF DoneInv
        <5> QED
          BY <5>1
      <4> QED
        BY <4>1, <4>2
    <3>4. ASSUME NEW i \in 1 .. Len(lines), i > Now
          PROVE  done'[i] = 0
      <4>1. i # Now
        BY <1>2, <3>4
      <4>2. \A j \in 1 .. Len(lines) : j > Now => done[j] = 0
        BY <1>1 DEF DoneInv
      <4>3. done[i] = 0
        BY <3>4, <4>2
      <4> QED
        BY <3>1, <4>1, <4>3
    <3> QED
      BY ZenonT(30), <1>1, <1>5, <2>1, <2>2, <2>3, <3>1, <3>2, <3>3, <3>4 DEF DoneInv
  <2>4. CASE done' = done /\ (answer' = "done" => sought = "scope")
    <3>1. \A i \in DOMAIN out' : out'[i].done => done'[out'[i].line] = 1
      BY <2>1, <2>4 DEF DoneInv
    <3> QED
      BY <1>1, <1>5, <2>1, <2>2, <2>4, <3>1 DEF DoneInv
  <2>5. \/ /\ sought # "scope" /\ done' = [done EXCEPT ![Now] = @ + 1]
           /\ answer' \in {"done", "closed"}
        \/ done' = done /\ (answer' = "done" => sought = "scope")
    BY <1>10 DEF Call
  <2> QED
    BY <2>3, <2>4, <2>5
<1>11. CASE CallAnswered
  <2>1. /\ at = "answered" /\ read' = read /\ done' = done /\ out' = out /\ answer' = answer
        /\ status' = status /\ kind = "mcp"
    BY <1>11 DEF CallAnswered, reading
  <2>2. CASE sought = "line" /\ answer = "not granted"
    <3>1. at' = "call"
      BY <1>11, <2>2 DEF CallAnswered
    <3>2. done[Now] = 0
      BY <2>1, <2>2 DEF DoneInv
    <3> QED
      BY <1>1, <1>3, <1>5, <2>1, <3>1, <3>2 DEF DoneInv
  <2>3. CASE sought = "scope" /\ answer = "done"
    <3>1. at' = "call"
      BY <1>11, <2>3 DEF CallAnswered
    <3>2. done[Now] = 0
      BY <2>1, <2>3 DEF DoneInv
    <3> QED
      BY <1>1, <1>3, <1>5, <2>1, <3>1, <3>2 DEF DoneInv
  <2>4. CASE ~(sought = "line" /\ answer = "not granted") /\ ~(sought = "scope" /\ answer = "done")
    <3>1. at' = "print"
      BY <1>11, <2>4 DEF CallAnswered
    <3>2. answer = "done" => done[Now] = 1
      BY <2>1, <2>4 DEF DoneInv
    <3> QED
      BY <1>1, <1>3, <1>5, <2>1, <3>1, <3>2 DEF DoneInv
  <2> QED
    BY <2>2, <2>3, <2>4
<1>12. CASE ControlAnswered
  <2>1. /\ at = "answered" /\ kind # "mcp" /\ read' = read /\ done' = done /\ answer' = answer
        /\ \/ /\ out' = Append(out, [line |-> Now, done |-> FALSE])
              /\ at' = "over" /\ status' = "unreachable"
           \/ out' = out /\ status' = status /\ at' = "print"
    BY <1>12 DEF ControlAnswered, Exit, reading
  <2>2. CASE out' = out /\ status' = status /\ at' = "print"
    <3>1. sought # "scope"
      BY <2>1 DEF Kinds
    <3>2. answer = "done" => done[Now] = 1
      BY <2>1, <3>1 DEF DoneInv
    <3> QED
      BY <1>1, <1>3, <1>5, <2>1, <2>2, <3>2 DEF DoneInv
  <2>3. CASE /\ out' = Append(out, [line |-> Now, done |-> FALSE])
             /\ at' = "over" /\ status' = "unreachable"
    <3> DEFINE r == [line |-> Now, done |-> FALSE]
    <3>1. r \in Answers /\ r.line = Now /\ ~r.done
      BY <1>2 DEF Answers
    <3>2. \A i \in DOMAIN out : out[i].line < Now
      BY <1>1, ReadIsNat, OutBelow
    <3>3. out' = Append(out, r)
      BY <2>3
    <3> HIDE DEF r
    <3>4. \A i \in DOMAIN out' : (i \in DOMAIN out /\ out'[i] = out[i]) \/ out'[i] = r
      BY <3>1, <3>2, <3>3, AnswerMore DEF OutInv
    <3>5. \A i \in DOMAIN out' : out'[i].done => done'[out'[i].line] = 1
      BY <2>1, <3>1, <3>4 DEF DoneInv
    <3> QED
      BY <1>1, <2>1, <2>3, <3>5 DEF DoneInv
  <2> QED
    BY <2>1, <2>2, <2>3
<1>13. CASE PrintLine
  <2>1. /\ at = "print" /\ done' = done
        /\ \/ /\ out' = Append(out, [line |-> Now, done |-> answer = "done"]) /\ read' = read + 1
              /\ kind # "one" => at' = "read" /\ status' = status
              /\ kind = "one" => at' = "over" /\ (status' = "done" => answer = "done")
           \/ out' = out /\ at' = "over" /\ (kind = "one" /\ status' = "done" => answer = "done")
    BY <1>13 DEF PrintLine, Exit
  <2>2. answer = "done" => done[Now] = 1
    BY <2>1 DEF DoneInv
  <2>3. kind = "one" => Now = 1
    BY DEF Now
  <2>4. CASE out' = out /\ at' = "over" /\ (kind = "one" /\ status' = "done" => answer = "done")
    <3>1. \A i \in DOMAIN out' : out'[i].done => done'[out'[i].line] = 1
      BY <2>1, <2>4 DEF DoneInv
    <3>2. kind = "one" /\ status' = "done" => done'[1] = 1
      BY <2>1, <2>2, <2>3, <2>4
    <3> QED
      BY <1>1, <2>1, <2>4, <3>1, <3>2 DEF DoneInv
  <2>5. CASE /\ out' = Append(out, [line |-> Now, done |-> answer = "done"]) /\ read' = read + 1
             /\ kind # "one" => at' = "read" /\ status' = status
             /\ kind = "one" => at' = "over" /\ (status' = "done" => answer = "done")
    <3> DEFINE r == [line |-> Now, done |-> answer = "done"]
    <3>1. r \in Answers /\ r.line = Now /\ (r.done => answer = "done")
      <4>1. (answer = "done") \in BOOLEAN
        OBVIOUS
      <4> QED
        BY <1>2, <4>1 DEF Answers
    <3>2. \A i \in DOMAIN out : out[i].line < Now
      BY <1>1, ReadIsNat, OutBelow
    <3>3. out' = Append(out, r)
      BY <2>5
    <3> HIDE DEF r
    <3>4. \A i \in DOMAIN out' : (i \in DOMAIN out /\ out'[i] = out[i]) \/ out'[i] = r
      BY <3>1, <3>2, <3>3, AnswerMore DEF OutInv
    <3>5. \A i \in DOMAIN out' : out'[i].done => done'[out'[i].line] = 1
      BY <2>1, <2>2, <3>1, <3>4 DEF DoneInv
    <3>6. CASE kind = "one"
      BY <1>1, <2>1, <2>2, <2>3, <2>5, <3>5, <3>6 DEF DoneInv
    <3>7. CASE kind # "one"
      <4>1. \A i \in DOMAIN out' : out'[i].done => done[out'[i].line] = 1
        BY <2>1, <3>5
      <4>2. at' = "read" /\ read' = read + 1
        BY <2>5, <3>7
      <4> QED
        BY <1>1, <1>2, <1>4, <2>1, <3>7, <4>1, <4>2, DoneNext
    <3> QED
      BY <3>6, <3>7
  <2> QED
    BY <2>1, <2>4, <2>5
<1>14. CASE Dropped
  <2>1. /\ at \in {"read", "line"} /\ at' = at /\ read' = read /\ done' = done /\ out' = out
        /\ status' = status
    BY <1>14 DEF Dropped, reading
  <2> QED
    BY <1>1, <1>2, <1>3, <1>5, <2>1, DoneSame
<1> QED
  BY <1>6, <1>7, <1>8, <1>9, <1>10, <1>11, <1>12, <1>13, <1>14 DEF ClientNext

LEMMA ClientStarts ==
  ASSUME ClientInit
  PROVE  ClientInv
<1>1. /\ kind \in {"one", "session", "mcp"} /\ line = <<>> /\ tooLong = FALSE /\ read = 0
      /\ at = IF kind = "mcp" THEN "read" ELSE "connect"
      /\ sought = "nothing" /\ status = "running" /\ out = <<>>
      /\ done = [i \in DOMAIN lines |-> 0]
  BY DEF ClientInit
<1>2. LinesOK /\ (kind = "one" => Len(lines) = 1)
  <2>1. CASE kind = "one"
    <3>1. lines \in [1 .. 1 -> {l \in Lines : l.is \in {"call", "eval"}}]
      BY <2>1 DEF ClientInit
    <3>2. lines \in [1 .. 1 -> Lines]
      BY <3>1
    <3> QED
      BY <3>2 DEF LinesOK
  <2>2. CASE kind # "one"
    <3>1. lines \in UNION {[1 .. n -> Lines] : n \in 0 .. Sent}
      BY <2>2 DEF ClientInit
    <3>2. PICK n \in 0 .. Sent : lines \in [1 .. n -> Lines]
      BY <3>1
    <3> QED
      BY <2>2, <3>2 DEF LinesOK
  <2> QED
    BY <2>1, <2>2
<1>3. Kinds
  BY <1>1, <1>2 DEF Kinds
<1>4. /\ Len(lines) \in Nat /\ DOMAIN lines = 1 .. Len(lines)
      /\ \A i \in 1 .. Len(lines) : lines[i].length \in Nat
  BY <1>2, LinesAre
<1>5. PICK start : Layout(start, input)
  <2>1. PICK ends \in BOOLEAN :
          input = FlattenSeq([i \in DOMAIN lines |->
                    Units(i) \o IF i < Len(lines) \/ ends THEN <<Newline>> ELSE <<>>])
    BY DEF ClientInit
  <2> QED
    BY <1>2, <2>1, InitialLayout
<1>6. Reading(start, input)
  <2>1. /\ input \in Seq(Nat \cup {Newline}) /\ start[1] = 1
        /\ Len(lines) = 0 => input = <<>>
    BY <1>5 DEF Layout
  <2>2. Len(input) \in Nat
    BY <2>1
  <2>3. Suffix(input)
    BY <2>1, <2>2 DEF Suffix
  <2>4. Place(input) = 1
    BY <2>2 DEF Place
  <2>5. 0 < Len(lines) =>
          LET got == Place(input) - start[read + 1] IN
          /\ got \in 0 .. lines[read + 1].length
          /\ line = [m \in 1 .. got |-> read + 1] /\ got <= MaxRequest
    <3>1. read + 1 = 1 /\ 1 - 1 = 0 /\ [m \in 1 .. 0 |-> 1] = <<>>
      BY <1>1
    <3>2. 0 < Len(lines) => 0 \in 0 .. lines[1].length /\ 0 <= MaxRequest
      BY <1>4, LinesAssumption
    <3> QED
      BY <1>1, <2>1, <2>4, <3>1, <3>2
  <2>6. Partial(start, input)
    BY <1>1, <1>4, <2>1, <2>5 DEF Partial
  <2> QED
    BY <1>1, <1>4, <1>5, <2>3, <2>6 DEF Reading
<1>7. OutInv
  <2>1. out \in Seq(Answers) /\ DOMAIN out = {}
    BY <1>1
  <2>2. OutLines = {} /\ Answerable(0) = {}
    BY <2>1, AnswerableIs DEF OutLines
  <2> QED
    BY <1>1, <2>1, <2>2 DEF OutInv
<1>8. DoneInv
  <2>1. DOMAIN out = {}
    BY <1>1
  <2>2. done \in [1 .. Len(lines) -> Nat] /\ \A i \in 1 .. Len(lines) : done[i] = 0
    BY <1>1, <1>4
  <2> QED
    BY <1>1, <2>1, <2>2 DEF DoneInv
<1> QED
  BY <1>3, <1>6, <1>7, <1>8 DEF ClientInv, ReadingInv

\* What main of syndeo-agent keeps, from the first byte of its input to its end: the lines that
\* were read are the lines that were written, whatever the pieces that reads return; those and
\* no others were answered, in their order; and what a tool did is what its answer says it did.
THEOREM ClientIsSound == ClientSpec => []ClientInv
<1>1. ClientInv /\ [ClientNext]_clientVars => ClientInv'
  <2>1. CASE ClientInv /\ ClientNext
    BY <2>1, KindsStep, ReadingStep, OutStep, DoneStep DEF ClientInv
  <2>2. ASSUME ClientInv, UNCHANGED clientVars
        PROVE  ClientInv'
    <3>1. /\ kind' = kind /\ lines' = lines /\ input' = input /\ line' = line /\ tooLong' = tooLong
          /\ read' = read /\ at' = at /\ sought' = sought /\ answer' = answer /\ done' = done
          /\ out' = out /\ status' = status
      BY <2>2 DEF clientVars
    <3>2. Kinds'
      BY <2>2, <3>1 DEF ClientInv, Kinds, LinesOK
    <3>3. ReadingInv'
      <4>1. \A start, text : Reading(start, text) => Reading(start, text)'
        BY <3>1, Remains
      <4> QED
        BY <2>2, <3>1, <4>1 DEF ClientInv, ReadingInv
    <3>4. Now' = Now /\ OutLines' = OutLines
      BY <3>1 DEF Now, OutLines
    <3>5. \A k : Answerable(k)' = Answerable(k)
      BY <3>1, AnswerableStays DEF Answerable
    <3>6. Answerable(IF kind = "one" THEN 0 ELSE read)' = Answerable(IF kind = "one" THEN 0 ELSE read)
      BY <3>1, AnswerableStays DEF Answerable
    <3>7. Answerable(Len(lines))' = Answerable(Len(lines))
      BY <3>1, AnswerableStays DEF Answerable
    <3>8. OutInv'
      BY <2>2, <3>1, <3>4, <3>6, <3>7 DEF ClientInv, OutInv
    <3>9. DoneInv'
      BY <2>2, <3>1, <3>4 DEF ClientInv, DoneInv
    <3> QED
      BY <3>2, <3>3, <3>8, <3>9 DEF ClientInv
  <2> QED
    BY <2>1, <2>2
<1> QED
  BY <1>1, ClientStarts, PTL DEF ClientSpec

\* Every line with something in it is answered once, in the order of the lines and under its own
\* number, one that is too long or is not a request among them; and at the end of the input none
\* is left, the one without a newline included.
THEOREM LinesAreAnswered == ClientSpec => []AnsweredInOrder
<1>1. ClientInv => AnsweredInOrder
  <2> SUFFICES ASSUME ClientInv PROVE AnsweredInOrder
    OBVIOUS
  <2>1. OutInv /\ OutLines = {out[i].line : i \in DOMAIN out}
    BY DEF ClientInv, OutLines
  <2>2. at = "line" => WholeLine
    <3>1. at = "line" => kind # "one"
      BY DEF ClientInv, Kinds
    <3> QED
      BY <3>1 DEF ClientInv, ReadingInv, Reading
  <2> QED
    BY <2>1, <2>2 DEF OutInv, AnsweredInOrder, WholeLine
<1> QED
  BY <1>1, ClientIsSound, PTL

\* The application carries no line out twice, and whatever is said to be done was: App::call lets
\* a closed connection go without asking again, and asks again for a script only where the first
\* time it was told that the person had not allowed it.
THEOREM NothingIsDoneTwice == ClientSpec => []DoneOnce
<1>1. ClientInv => DoneOnce
  BY DEF ClientInv, DoneInv, DoneOnce
<1> QED
  BY <1>1, ClientIsSound, PTL

(***************************************************************************)
(* Ranges: what is held of an entry is of one representation, each byte in *)
(* its place, so that a range is answered exactly and what is held is      *)
(* served.  First, what FoldLeft does of a sequence: its definition is a   *)
(* recursion over sets of indices, from the greatest down.                 *)
(***************************************************************************)

\* What holds of 0, and of each number up to n if it holds of the one before, holds up to n.
LEMMA UpTo ==
  ASSUME NEW n \in Nat, NEW P, 0 \in P, \A k \in 1 .. n : k - 1 \in P => k \in P
  PROVE  \A k \in 0 .. n : k \in P
<1> DEFINE Q == {k \in Nat : k <= n => k \in P}
<1>1. 0 \in Q
  OBVIOUS
<1>2. ASSUME NEW k \in Nat, k \in Q
      PROVE  k + 1 \in Q
  <2> SUFFICES ASSUME k + 1 <= n PROVE k + 1 \in P
    OBVIOUS
  <2>1. k + 1 \in 1 .. n /\ (k + 1) - 1 = k /\ k \in P
    BY <1>2
  <2> QED BY <2>1
<1>3. Nat \subseteq Q
  <2> HIDE DEF Q
  <2> QED BY <1>1, <1>2, Reaches
<1> QED BY <1>3

\* The largest of some numbers, which FoldLeft takes off a set of indices.
Greatest(d) == CHOOSE x \in d : \A y \in d : x >= y

\* A bound that is reached.
LEMMA GreatestIs ==
  ASSUME NEW m \in Nat, NEW d \in SUBSET (1 .. m), m \in d
  PROVE  Greatest(d) = m
<1>1. \A y \in d : y \in Nat /\ m >= y
  OBVIOUS
<1>2. \A x \in d : (\A y \in d : x >= y) => x = m
  BY <1>1
<1> QED BY <1>1, <1>2 DEF Greatest

\* A recursion from the greatest number of a set down, whose steps stay in V, is a function.
Tables(n, V) == [(1 .. n) \X V -> V]
Follows(g, n, V, base, T) ==
  /\ g \in [SUBSET (1 .. n) -> V]
  /\ \A d \in SUBSET (1 .. n) :
       g[d] = IF d = {} THEN base ELSE T[<<Greatest(d), g[d \ {Greatest(d)}]>>]
LEMMA Folded ==
  ASSUME NEW n \in Nat, NEW V, NEW base \in V, NEW T \in Tables(n, V)
  PROVE  \E g : Follows(g, n, V, base, T)
<1> USE DEF Tables, Follows
<1> DEFINE step(g, d) == IF d = {} THEN base ELSE T[<<Greatest(d), g[d \ {Greatest(d)}]>>]
           Upto(k) == \E g \in [SUBSET (1 .. k) -> V] : \A d \in SUBSET (1 .. k) : g[d] = step(g, d)
           P == {k \in Nat : k <= n => Upto(k)}
<1>1. 0 \in P
  <2> DEFINE g == [d \in SUBSET (1 .. 0) |-> base]
  <2>1. \A d \in SUBSET (1 .. 0) : d = {}
    OBVIOUS
  <2>2. g \in [SUBSET (1 .. 0) -> V]
    OBVIOUS
  <2>3. \A d \in SUBSET (1 .. 0) : g[d] = step(g, d)
    BY <2>1
  <2> HIDE DEF g, step
  <2> QED BY <2>2, <2>3
<1>2. ASSUME NEW k \in Nat, k \in P
      PROVE  k + 1 \in P
  <2> SUFFICES ASSUME k + 1 <= n PROVE Upto(k + 1)
    <3> HIDE DEF Upto
    <3> QED OBVIOUS
  <2>1. PICK g \in [SUBSET (1 .. k) -> V] : \A d \in SUBSET (1 .. k) : g[d] = step(g, d)
    <3>1. Upto(k)
      <4> HIDE DEF Upto
      <4> QED BY <1>2
    <3> HIDE DEF step
    <3> QED BY <3>1
  <2>2. k + 1 \in 1 .. n
    OBVIOUS
  <2> DEFINE h == [d \in SUBSET (1 .. (k + 1)) |->
                     IF k + 1 \in d THEN T[<<k + 1, g[d \ {k + 1}]>>] ELSE g[d]]
  <2>3. h \in [SUBSET (1 .. (k + 1)) -> V]
    <3>1. ASSUME NEW d \in SUBSET (1 .. (k + 1))
          PROVE  (IF k + 1 \in d THEN T[<<k + 1, g[d \ {k + 1}]>>] ELSE g[d]) \in V
      <4>1. d \ {k + 1} \in SUBSET (1 .. k)
        OBVIOUS
      <4>2. g[d \ {k + 1}] \in V
        BY <4>1
      <4>3. T[<<k + 1, g[d \ {k + 1}]>>] \in V
        BY <2>2, <4>2
      <4>4. CASE k + 1 \notin d
        <5>1. d \in SUBSET (1 .. k)
          BY <4>4
        <5> QED BY <4>4, <5>1
      <4> QED BY <4>3, <4>4
    <3> QED BY <3>1
  <2>4. ASSUME NEW d \in SUBSET (1 .. (k + 1))
        PROVE  h[d] = step(h, d)
    <3>1. CASE k + 1 \in d
      <4>1. Greatest(d) = k + 1
        BY <3>1, GreatestIs
      <4>2. d \ {k + 1} \in SUBSET (1 .. k) /\ k + 1 \notin d \ {k + 1}
        OBVIOUS
      <4>3. d \ {k + 1} \in SUBSET (1 .. (k + 1))
        OBVIOUS
      <4>4. h[d \ {k + 1}] = g[d \ {k + 1}]
        BY <4>2, <4>3
      <4>5. h[d] = T[<<k + 1, g[d \ {k + 1}]>>]
        BY <3>1
      <4>6. step(h, d) = T[<<k + 1, h[d \ {k + 1}]>>]
        <5> HIDE DEF h
        <5> QED BY <3>1, <4>1
      <4> HIDE DEF h, step
      <4> QED BY <4>4, <4>5, <4>6
    <3>2. CASE k + 1 \notin d
      <4>1. d \in SUBSET (1 .. k) /\ d \ {Greatest(d)} \in SUBSET (1 .. (k + 1))
            /\ k + 1 \notin d \ {Greatest(d)}
        <5>1. \A y \in d : y \in 1 .. k
          BY <3>2
        <5>2. d \ {Greatest(d)} \subseteq d /\ 1 .. k \subseteq 1 .. (k + 1)
          OBVIOUS
        <5> QED BY <3>2, <5>1, <5>2
      <4>2. h[d] = g[d] /\ h[d \ {Greatest(d)}] = g[d \ {Greatest(d)}]
        BY <3>2, <4>1
      <4>3. g[d] = step(g, d)
        <5> HIDE DEF step
        <5> QED BY <2>1, <4>1
      <4>4. step(g, d) = step(h, d)
        <5> HIDE DEF h
        <5> QED BY <4>2
      <4> HIDE DEF h, step
      <4> QED BY <4>2, <4>3, <4>4
    <3> QED BY <3>1, <3>2
  <2> HIDE DEF h, step
  <2> QED BY <2>3, <2>4
<1>3. Nat \subseteq P
  <2> HIDE DEF P
  <2> QED BY <1>1, <1>2, Reaches
<1>4. Upto(n)
  <2> HIDE DEF Upto
  <2> QED BY <1>3
<1> QED BY <1>4

\* The first k of a set of numbers, taken off its greatest.
LEMMA Peeled ==
  ASSUME NEW n \in Nat, NEW k \in 1 .. n
  PROVE  /\ 1 .. k \in SUBSET (1 .. n) /\ 1 .. (k - 1) \in SUBSET (1 .. n) /\ 1 .. k # {}
         /\ Greatest(1 .. k) = k /\ (1 .. k) \ {k} = 1 .. (k - 1)
<1>1. k \in Nat /\ k - 1 \in Nat /\ k \in 1 .. k /\ k <= n
  OBVIOUS
<1>2. Greatest(1 .. k) = k
  BY <1>1, GreatestIs
<1>3. \A y \in 1 .. k : y \in 1 .. n
  BY <1>1
<1>4. \A y \in 1 .. (k - 1) : y \in 1 .. n
  BY <1>1
<1>5. (1 .. k) \ {k} = 1 .. (k - 1)
  BY <1>1
<1> QED BY <1>1, <1>2, <1>3, <1>4, <1>5

\* There is one, if there is any.
LEMMA GreatestIn ==
  ASSUME NEW n \in Nat, NEW d \in SUBSET (1 .. n), d # {}
  PROVE  Greatest(d) \in d /\ \A y \in d : Greatest(d) >= y
<1> DEFINE R == {n - y : y \in d}
<1>1. \A y \in d : y \in Nat /\ y <= n /\ n - y \in Nat
  OBVIOUS
<1>2. PICK m \in R : \A k \in R : m <= k
  <2>1. R \subseteq Nat /\ R # {}
    BY <1>1
  <2> HIDE DEF R
  <2> QED BY <2>1, LeastOf
<1>3. PICK x \in d : m = n - x
  OBVIOUS
<1>4. ASSUME NEW y \in d PROVE x >= y
  <2>1. n - x <= n - y
    BY <1>2, <1>3
  <2> QED BY <1>1, <2>1
<1> QED BY <1>4 DEF Greatest

(***************************************************************************)
(* Representations, spans and segments, and one step of each loop.         *)
(***************************************************************************)

\* The numbers of a set that has all below each of its own are the first of all.
LEMMA FirstOnes ==
  ASSUME NEW n \in Nat, NEW B \in SUBSET (1 .. n), \A i \in B : \A j \in 1 .. i : j \in B
  PROVE  Cardinality(B) \in 0 .. n /\ B = 1 .. Cardinality(B)
<1>1. CASE B = {}
  <2>1. Cardinality(B) = 0 /\ 1 .. 0 = {}
    BY <1>1, FS_EmptySet
  <2> QED BY <1>1, <2>1
<1>2. CASE B # {}
  <2>1. Greatest(B) \in B /\ \A y \in B : Greatest(B) >= y
    BY <1>2, GreatestIn
  <2>3. PICK m \in 1 .. n : m \in B /\ \A y \in B : y <= m
    BY <2>1
  <2>4. B = 1 .. m
    <3>1. \A y \in B : y \in 1 .. m
      BY <2>3
    <3> QED BY <2>3, <3>1
  <2>5. Cardinality(B) = m
    BY <2>3, <2>4, FS_Interval
  <2> QED BY <2>4, <2>5
<1> QED BY <1>1, <1>2

\* An element put after those of a set that begins a sequence, and before the others.
LEMMA Inserted ==
  ASSUME NEW X, NEW s \in Seq(X), NEW x \in X, NEW B \in SUBSET (1 .. Len(s)),
         \A i \in B : \A j \in 1 .. i : j \in B
  PROVE  LET t == InsertAt(s, Cardinality(B) + 1, x)
             c == Cardinality(B) + 1
         IN /\ t \in Seq(X) /\ Len(t) = Len(s) + 1 /\ c \in 1 .. Len(t) /\ t[c] = x
            /\ \A i \in 1 .. Len(t) : i < c => i \in 1 .. Len(s) /\ i \in B /\ t[i] = s[i]
            /\ \A i \in 1 .. Len(t) : i > c => i - 1 \in 1 .. Len(s) /\ i - 1 \notin B
                                               /\ t[i] = s[i - 1]
<1> DEFINE m == Cardinality(B)
           a == SubSeq(s, 1, m)
           b == SubSeq(s, m + 1, Len(s))
           t == InsertAt(s, m + 1, x)
<1>1. Len(s) \in Nat /\ m \in 0 .. Len(s) /\ B = 1 .. m /\ \A i \in 1 .. Len(s) : s[i] \in X
  BY FirstOnes
<1>2. a \in Seq(X) /\ Len(a) = m /\ \A i \in 1 .. m : a[i] = s[i]
  <2>1. \A i \in 1 .. m : s[i] \in X
    BY <1>1
  <2>2. /\ a \in Seq(X) /\ Len(a) = (IF 1 <= m THEN m - 1 + 1 ELSE 0)
        /\ \A i \in 1 .. m - 1 + 1 : a[i] = s[1 + i - 1]
    <3> HIDE DEF m
    <3> QED BY <1>1, <2>1, SubSeqProperties
  <2> HIDE DEF a, m
  <2> QED BY <1>1, <2>2
<1>3. b \in Seq(X) /\ Len(b) = Len(s) - m /\ \A i \in 1 .. Len(s) - m : b[i] = s[m + i]
  <2>1. \A i \in (m + 1) .. Len(s) : s[i] \in X
    BY <1>1
  <2>2. /\ b \in Seq(X) /\ Len(b) = (IF m + 1 <= Len(s) THEN Len(s) - (m + 1) + 1 ELSE 0)
        /\ \A i \in 1 .. Len(s) - (m + 1) + 1 : b[i] = s[m + 1 + i - 1]
    <3> HIDE DEF m
    <3> QED BY <1>1, <2>1, SubSeqProperties
  <2> HIDE DEF b, m
  <2>3. m \in Nat /\ Len(s) \in Nat /\ m <= Len(s)
    BY <1>1
  <2>4. Len(b) = Len(s) - m /\ Len(s) - (m + 1) + 1 = Len(s) - m
    BY <2>2, <2>3
  <2>5. ASSUME NEW i \in 1 .. Len(s) - m
        PROVE  b[i] = s[m + i]
    <3>1. m + 1 + i - 1 = m + i
      BY <2>3
    <3>2. b[i] = s[m + 1 + i - 1]
      BY <2>2, <2>4
    <3> QED BY <3>1, <3>2
  <2> QED BY <2>2, <2>4, <2>5
<1>4. t = (a \o <<x>>) \o b
  <2>1. (m + 1) - 1 = m
    BY <1>1
  <2> QED BY <2>1 DEF InsertAt
<1>5. /\ a \o <<x>> \in Seq(X) /\ Len(a \o <<x>>) = m + 1 /\ (a \o <<x>>)[m + 1] = x
      /\ \A i \in 1 .. m : (a \o <<x>>)[i] = s[i]
  <2>1. <<x>> \in Seq(X) /\ Len(<<x>>) = 1 /\ <<x>>[1] = x
    OBVIOUS
  <2>2. /\ a \o <<x>> \in Seq(X) /\ Len(a \o <<x>>) = m + 1
        /\ \A i \in 1 .. m + 1 : (a \o <<x>>)[i] = IF i <= m THEN a[i] ELSE <<x>>[i - m]
    <3> HIDE DEF a, m
    <3> QED BY <1>2, <2>1, ConcatProperties
  <2> HIDE DEF a, m
  <2> QED BY <1>1, <1>2, <2>1, <2>2
<1> DEFINE ax == a \o <<x>>
<1>6. /\ t \in Seq(X) /\ Len(t) = m + 1 + (Len(s) - m)
      /\ \A i \in 1 .. m + 1 + (Len(s) - m) :
           t[i] = IF i <= m + 1 THEN ax[i] ELSE b[i - (m + 1)]
  <2>1. ax \in Seq(X) /\ b \in Seq(X) /\ t = ax \o b /\ Len(ax) = m + 1 /\ Len(b) = Len(s) - m
    <3> HIDE DEF a, b, m, t
    <3> QED BY <1>3, <1>4, <1>5
  <2> HIDE DEF a, b, m, t, ax
  <2>2. /\ t \in Seq(X) /\ Len(t) = Len(ax) + Len(b)
        /\ \A i \in 1 .. Len(ax) + Len(b) : t[i] = IF i <= Len(ax) THEN ax[i] ELSE b[i - Len(ax)]
    BY <2>1, ConcatProperties
  <2> QED BY <2>1, <2>2
<1>7. Len(t) = Len(s) + 1 /\ m + 1 \in 1 .. Len(t) /\ t[m + 1] = x
  <2> HIDE DEF a, b, m, t
  <2> QED BY <1>1, <1>5, <1>6
<1>8. ASSUME NEW i \in 1 .. Len(t), i < m + 1
      PROVE  i \in 1 .. Len(s) /\ i \in B /\ t[i] = s[i]
  <2>1. i \in 1 .. m /\ i <= m + 1 /\ i \in 1 .. m + 1 + (Len(s) - m) /\ i \in 1 .. Len(s)
    <3> HIDE DEF m, t
    <3> QED BY <1>1, <1>7, <1>8
  <2> HIDE DEF a, b, m, t
  <2> QED BY <1>1, <1>5, <1>6, <2>1
<1>9. ASSUME NEW i \in 1 .. Len(t), i > m + 1
      PROVE  i - 1 \in 1 .. Len(s) /\ i - 1 \notin B /\ t[i] = s[i - 1]
  <2>1. /\ i - 1 \in 1 .. Len(s) /\ i - 1 \notin 1 .. m /\ i \in 1 .. m + 1 + (Len(s) - m)
        /\ ~ (i <= m + 1) /\ i - (m + 1) \in 1 .. Len(s) - m /\ m + (i - (m + 1)) = i - 1
    <3> DEFINE n == Len(s)
    <3>1. n \in Nat /\ m \in 0 .. n /\ i \in 1 .. n + 1 /\ i > m + 1
      BY <1>1, <1>7, <1>9
    <3> HIDE DEF m, t, n
    <3>2. /\ i - 1 \in 1 .. n /\ i - 1 \notin 1 .. m /\ i \in 1 .. m + 1 + (n - m)
          /\ ~ (i <= m + 1) /\ i - (m + 1) \in 1 .. n - m /\ m + (i - (m + 1)) = i - 1
      BY <3>1
    <3> QED BY <3>2 DEF n
  <2>2. t[i] = b[i - (m + 1)]
    <3> HIDE DEF a, b, m, t
    <3> QED BY <1>6, <2>1
  <2>3. b[i - (m + 1)] = s[m + (i - (m + 1))]
    <3> HIDE DEF a, b, m, t
    <3> QED BY <1>3, <2>1
  <2> HIDE DEF a, b, m, t
  <2> QED BY <1>1, <2>1, <2>2, <2>3
<1> HIDE DEF m, t
<1> QED BY <1>6, <1>7, <1>8, <1>9 DEF m, t

\* Spans, and the segments of a representation: not empty, inside it, with its bytes.
Span == Nat \X Nat
Bytes(r) == {r} \X Nat
Exact(r) ==
  {s \in [start : Nat, end : Nat, bytes : Seq(Bytes(r))] :
     s.start < s.end /\ s.end <= Length[r] /\ s.bytes = SubSeq(Whole(r), s.start + 1, s.end)}

\* The ends of spans.
LEMMA SpansAre ==
  ASSUME NEW s \in Seq(Span)
  PROVE  /\ Len(s) \in Nat /\ DOMAIN s = 1 .. Len(s)
         /\ \A i \in 1 .. Len(s) : s[i] \in Span /\ s[i][1] \in Nat /\ s[i][2] \in Nat
BY DEF Span

\* A representation is its bytes, of which there are some, and fewer than Word.
LEMMA WholeIs ==
  ASSUME NEW r \in Reps
  PROVE  /\ Whole(r) \in Seq(Bytes(r)) /\ Len(Whole(r)) = Length[r]
         /\ Length[r] \in Nat /\ Length[r] >= 1 /\ Length[r] < Word
         /\ Word \in Nat
<1>1. Word \in Nat /\ Length[r] \in 1 .. (Word - 1)
  BY RepsAssumption
<1>2. Length[r] \in Nat
  BY <1>1
<1>3. \A i \in 1 .. Length[r] : <<r, i - 1>> \in Bytes(r)
  BY <1>2 DEF Bytes
<1>4. Whole(r) \in [1 .. Length[r] -> Bytes(r)]
  BY <1>3 DEF Whole
<1> QED BY <1>1, <1>2, <1>4

\* A part of a sequence.
LEMMA CutIs ==
  ASSUME NEW X, NEW s \in Seq(X), NEW a \in Nat, NEW b \in Nat, a <= b, b <= Len(s)
  PROVE  /\ SubSeq(s, a + 1, b) \in Seq(X) /\ Len(SubSeq(s, a + 1, b)) = b - a
         /\ \A i \in 1 .. (b - a) : SubSeq(s, a + 1, b)[i] = s[a + i]
<1> DEFINE c == a + 1
<1>1. c \in Int /\ b \in Int /\ \A i \in c .. b : s[i] \in X
  OBVIOUS
<1> HIDE DEF c
<1>2. /\ SubSeq(s, c, b) \in Seq(X)
      /\ Len(SubSeq(s, c, b)) = (IF c <= b THEN b - c + 1 ELSE 0)
      /\ \A i \in 1 .. b - c + 1 : SubSeq(s, c, b)[i] = s[c + i - 1]
  BY <1>1, SubSeqProperties
<1> QED BY <1>2 DEF c

\* A part of a representation.
LEMMA PartIs ==
  ASSUME NEW r \in Reps, NEW a \in Nat, NEW b \in Nat, a <= b, b <= Length[r]
  PROVE  /\ SubSeq(Whole(r), a + 1, b) \in Seq(Bytes(r)) /\ Len(SubSeq(Whole(r), a + 1, b)) = b - a
         /\ \A i \in 1 .. (b - a) : SubSeq(Whole(r), a + 1, b)[i] = Whole(r)[a + i]
<1>1. Whole(r) \in Seq(Bytes(r)) /\ Len(Whole(r)) = Length[r]
  BY WholeIs
<1> QED BY <1>1, CutIs

\* Of a part of a representation, a part.
LEMMA PartOfPart ==
  ASSUME NEW r \in Reps, NEW a \in Nat, NEW b \in Nat, NEW c \in Nat, NEW d \in Nat,
         a <= c, c < d, d <= b, b <= Length[r]
  PROVE  SubSeq(SubSeq(Whole(r), a + 1, b), c - a + 1, d - a) = SubSeq(Whole(r), c + 1, d)
<1>1. Whole(r) \in Seq(Bytes(r)) /\ Len(Whole(r)) = Length[r] /\ Length[r] \in Nat
  BY WholeIs
<1>2. /\ a + 1 \in 1 .. Len(Whole(r)) /\ b \in 1 .. Len(Whole(r))
      /\ c - a + 1 \in 1 .. b - (a + 1) + 1 /\ d - a \in 1 .. b - (a + 1) + 1
      /\ a + 1 + (c - a + 1) - 1 = c + 1 /\ a + 1 + (d - a) - 1 = d
  BY <1>1
<1> QED BY <1>1, <1>2, SubSeqOfSubSeq

\* Two parts that meet are one.
LEMMA PartThenPart ==
  ASSUME NEW r \in Reps, NEW a \in Nat, NEW b \in Nat, NEW c \in Nat,
         a <= b, b <= c, c <= Length[r]
  PROVE  SubSeq(Whole(r), a + 1, b) \o SubSeq(Whole(r), b + 1, c) = SubSeq(Whole(r), a + 1, c)
<1>1. Whole(r) \in Seq(Bytes(r)) /\ Len(Whole(r)) = Length[r] /\ Length[r] \in Nat
  BY WholeIs
<1>2. /\ a + 1 \in 1 .. Len(Whole(r)) + 1 /\ b \in (a + 1) - 1 .. Len(Whole(r))
      /\ c \in b .. Len(Whole(r))
  BY <1>1
<1> QED BY <1>1, <1>2, ConcatAdjacentSubSeq

\* The lesser and the greater of two.
LEMMA LeastMost ==
  ASSUME NEW a \in Nat, NEW b \in Nat
  PROVE  /\ Least(a, b) \in Nat /\ Least(a, b) <= a /\ Least(a, b) <= b /\ Least(a, b) \in {a, b}
         /\ Most(a, b) \in Nat /\ Most(a, b) >= a /\ Most(a, b) >= b /\ Most(a, b) \in {a, b}
BY DEF Least, Most

\* A span merged into some runs grows the last or follows it.
LEMMA MergeIs ==
  ASSUME NEW runs \in Seq(Span), NEW s \in Span
  PROVE  LET n == Len(runs) IN
         /\ Merge(runs, s) \in Seq(Span)
         /\ n = 0 \/ s[1] > runs[n][2] =>
              /\ Len(Merge(runs, s)) = n + 1 /\ Merge(runs, s)[n + 1] = s
              /\ \A i \in 1 .. n : Merge(runs, s)[i] = runs[i]
         /\ n # 0 /\ s[1] <= runs[n][2] =>
              /\ Len(Merge(runs, s)) = n
              /\ Merge(runs, s)[n] = <<runs[n][1], Most(runs[n][2], s[2])>>
              /\ \A i \in 1 .. (n - 1) : Merge(runs, s)[i] = runs[i]
<1> DEFINE n == Len(runs)
<1>1. n \in Nat /\ (runs = <<>> <=> n = 0) /\ s[1] \in Nat /\ s[2] \in Nat
  BY DEF Span
<1>2. CASE n = 0 \/ s[1] > runs[n][2]
  <2>1. n # 0 => runs[n][2] \in Nat
    BY <1>1 DEF Span
  <2>2. Merge(runs, s) = Append(runs, s)
    BY <1>1, <1>2, <2>1 DEF Merge
  <2>3. /\ Append(runs, s) \in Seq(Span) /\ Len(Append(runs, s)) = n + 1
        /\ Append(runs, s)[n + 1] = s
        /\ \A i \in 1 .. n : Append(runs, s)[i] = runs[i]
    BY AppendProperties
  <2> QED BY <1>1, <1>2, <2>1, <2>2, <2>3
<1>3. CASE n # 0 /\ ~ (s[1] > runs[n][2])
  <2>1. n \in 1 .. n /\ runs[n] \in Span
    BY <1>1, <1>3
  <2>2. runs[n][1] \in Nat /\ runs[n][2] \in Nat /\ runs[n] = <<runs[n][1], runs[n][2]>>
    BY <2>1 DEF Span
  <2>3. s[1] <= runs[n][2] /\ Most(runs[n][2], s[2]) \in Nat
    <3>1. s[1] <= runs[n][2]
      BY <1>1, <1>3, <2>2
    <3>2. Most(runs[n][2], s[2]) \in Nat
      BY <1>1, <2>2 DEF Most
    <3> QED BY <3>1, <3>2
  <2> DEFINE new == <<runs[n][1], Most(runs[n][2], s[2])>>
  <2>4. new \in Span
    BY <2>2, <2>3 DEF Span
  <2>5. [runs[n] EXCEPT ![2] = Most(runs[n][2], s[2])] = new
    BY <2>2
  <2>6. Merge(runs, s) = [runs EXCEPT ![n] = [runs[n] EXCEPT ![2] = Most(runs[n][2], s[2])]]
    BY <1>1, <1>3, <2>3 DEF Merge
  <2>7. Merge(runs, s) = [runs EXCEPT ![n] = new]
    BY <2>5, <2>6
  <2> HIDE DEF new
  <2>8. Merge(runs, s) \in Seq(Span) /\ Len(Merge(runs, s)) = n /\ Merge(runs, s)[n] = new
        /\ \A i \in 1 .. (n - 1) : Merge(runs, s)[i] = runs[i]
    BY <1>1, <2>1, <2>4, <2>7, ExceptSeq
  <2> QED BY <1>1, <1>3, <2>2, <2>3, <2>8 DEF new
<1>4. n # 0 => runs[n][2] \in Nat
  BY <1>1 DEF Span
<1> QED BY <1>1, <1>2, <1>3, <1>4

\* Something put into a sequence.
LEMMA InsertedIn ==
  ASSUME NEW X, NEW s \in Seq(X), NEW x \in X, NEW m \in Nat, m <= Len(s)
  PROVE  InsertAt(s, m + 1, x) \in Seq(X)
<1>1. Len(s) \in Nat /\ m \in 0 .. Len(s) /\ \A i \in 1 .. Len(s) : s[i] \in X
  OBVIOUS
<1>2. SubSeq(s, 1, m) \in Seq(X)
  <2>1. \A i \in 1 .. m : s[i] \in X
    BY <1>1
  <2> QED BY <2>1, SubSeqProperties
<1>3. SubSeq(s, m + 1, Len(s)) \in Seq(X)
  <2>1. \A i \in (m + 1) .. Len(s) : s[i] \in X
    BY <1>1
  <2> QED BY <1>1, <2>1, SubSeqProperties
<1>4. InsertAt(s, m + 1, x) = SubSeq(s, 1, m) \o <<x>> \o SubSeq(s, m + 1, Len(s))
  <2>1. (m + 1) - 1 = m
    OBVIOUS
  <2> QED BY <2>1 DEF InsertAt
<1>5. <<x>> \in Seq(X)
  OBVIOUS
<1>6. SubSeq(s, 1, m) \o <<x>> \in Seq(X)
  BY <1>2, <1>5, ConcatProperties
<1>7. (SubSeq(s, 1, m) \o <<x>>) \o SubSeq(s, m + 1, Len(s)) \in Seq(X)
  BY <1>3, <1>6, ConcatProperties
<1> QED BY <1>4, <1>7

\* A set of indices has no more than there are.
LEMMA CountBelow ==
  ASSUME NEW n \in Nat, NEW B \in SUBSET (1 .. n)
  PROVE  Cardinality(B) \in Nat /\ Cardinality(B) <= n
<1>1. IsFiniteSet(1 .. n) /\ Cardinality(1 .. n) = n
  BY FS_Interval
<1>2. IsFiniteSet(B) /\ Cardinality(B) <= n
  BY <1>1, FS_Subset
<1> QED BY <1>2, FS_CardinalityType

\* What has been walked, and what has been read.
Walked == [out : Seq(Span), cursor : Nat]
ReadSoFar(r) == [cursor : Nat, bytes : Seq(Bytes(r))]
NoneWalked(from) == [out |-> <<>>, cursor |-> from]
NoneRead(from) == [cursor |-> from, bytes |-> <<>>]

\* What a Range field has.
Parts == [kind : {"range", "garbled", "empty"}, start : Nat \cup {Unsaid}, end : Nat \cup {Unsaid}]

\* One run of missing: it is passed over, or what is before it is missing.
LEMMA LeaveIs ==
  ASSUME NEW w \in Walked, NEW s \in Span, NEW to \in Nat
  PROVE  /\ Leave(w, s, to) \in Walked
         /\ s[2] <= w.cursor \/ s[1] >= to \/ w.cursor >= to => Leave(w, s, to) = w
         /\ ~ (s[2] <= w.cursor \/ s[1] >= to \/ w.cursor >= to) =>
              /\ Leave(w, s, to).cursor = s[2] /\ s[1] < to /\ w.cursor < to /\ w.cursor < s[2]
              /\ IF s[1] > w.cursor
                 THEN Leave(w, s, to).out = Append(w.out, <<w.cursor, s[1]>>)
                 ELSE Leave(w, s, to).out = w.out
<1>1. s[1] \in Nat /\ s[2] \in Nat /\ w.out \in Seq(Span) /\ w.cursor \in Nat
  BY DEF Span, Walked
<1>2. CASE s[2] <= w.cursor \/ s[1] >= to \/ w.cursor >= to
  BY <1>2 DEF Leave
<1>3. CASE ~ (s[2] <= w.cursor \/ s[1] >= to \/ w.cursor >= to)
  <2>1. s[1] < to /\ w.cursor < to /\ w.cursor < s[2]
    BY <1>1, <1>3
  <2>2. Least(s[1], to) = s[1] /\ Most(w.cursor, s[2]) = s[2]
    BY <1>1, <2>1 DEF Least, Most
  <2>3. <<w.cursor, s[1]>> \in Span
    BY <1>1 DEF Span
  <2>4. Append(w.out, <<w.cursor, s[1]>>) \in Seq(Span)
    BY <1>1, <2>3, AppendProperties
  <2> DEFINE grown == IF s[1] > w.cursor THEN Append(w.out, <<w.cursor, s[1]>>) ELSE w.out
  <2>5. Leave(w, s, to) = [out |-> grown, cursor |-> s[2]]
    BY <1>3, <2>2 DEF Leave
  <2>6. grown \in Seq(Span)
    BY <1>1, <2>4
  <2> HIDE DEF grown
  <2>7. Leave(w, s, to) \in Walked /\ Leave(w, s, to).cursor = s[2]
        /\ Leave(w, s, to).out = grown
    BY <1>1, <2>5, <2>6 DEF Walked
  <2> QED BY <1>3, <2>1, <2>7 DEF grown
<1> QED BY <1>2, <1>3

\* A part, as reading adds it.
Part(r, a, b) == SubSeq(Whole(r), a + 1, b)

\* One segment of read_span that has the byte to be read next.
LEMMA ReadOnGoes ==
  ASSUME NEW r \in Reps, NEW v \in ReadSoFar(r), NEW s \in Exact(r), NEW to \in Nat,
         v.cursor < s.end, s.start <= v.cursor, v.cursor < to
  PROVE  LET c == Least(to, s.end) IN
         /\ ReadOn(v, s, to) = [cursor |-> c, bytes |-> v.bytes \o Part(r, v.cursor, c)]
         /\ ReadOn(v, s, to) \in ReadSoFar(r)
         /\ c \in Nat /\ v.cursor < c /\ c <= s.end /\ c <= to
<1>1. /\ s.start \in Nat /\ s.end \in Nat /\ v.cursor \in Nat /\ v.bytes \in Seq(Bytes(r))
      /\ s.end <= Length[r] /\ s.bytes = SubSeq(Whole(r), s.start + 1, s.end) /\ s.start < s.end
  BY DEF Exact, ReadSoFar
<1> DEFINE c == Least(to, s.end)
           more == SubSeq(s.bytes, v.cursor - s.start + 1, c - s.start)
<1>2. s.start <= v.cursor /\ v.cursor < c /\ c <= s.end /\ c \in Nat /\ c <= to
  BY <1>1 DEF Least
<1>3. ReadOn(v, s, to) = [cursor |-> c, bytes |-> v.bytes \o more]
  <2>1. ~ (s.end <= v.cursor \/ s.start > v.cursor \/ v.cursor >= to)
    BY <1>1
  <2> QED BY <2>1 DEF ReadOn
<1> HIDE DEF c
<1>4. more = SubSeq(Whole(r), v.cursor + 1, c)
  <2> DEFINE a == s.start
             b == s.end
             d == v.cursor
  <2>1. a \in Nat /\ b \in Nat /\ d \in Nat /\ c \in Nat /\ a <= d /\ d < c /\ c <= b
        /\ b <= Length[r]
    BY <1>1, <1>2
  <2>2. more = SubSeq(SubSeq(Whole(r), a + 1, b), d - a + 1, c - a)
    BY <1>1
  <2> HIDE DEF a, b, d, more
  <2>3. SubSeq(SubSeq(Whole(r), a + 1, b), d - a + 1, c - a) = SubSeq(Whole(r), d + 1, c)
    BY <2>1, PartOfPart
  <2> QED BY <2>2, <2>3 DEF d
<1>5. SubSeq(Whole(r), v.cursor + 1, c) \in Seq(Bytes(r))
  <2>1. v.cursor <= c /\ c <= Length[r]
    <3> Length[r] \in Nat
      BY WholeIs
    <3> QED BY <1>1, <1>2
  <2> QED BY <1>1, <1>2, <2>1, PartIs
<1> HIDE DEF more
<1>6. v.bytes \o more \in Seq(Bytes(r))
  BY <1>1, <1>4, <1>5, ConcatProperties
<1>7. ReadOn(v, s, to) \in ReadSoFar(r)
  BY <1>2, <1>3, <1>6 DEF ReadSoFar
<1> QED BY <1>2, <1>3, <1>4, <1>7 DEF c, Part

\* Any segment of read_span.
LEMMA ReadOnIs ==
  ASSUME NEW r \in Reps, NEW v \in ReadSoFar(r), NEW s \in Exact(r), NEW to \in Nat
  PROVE  ReadOn(v, s, to) \in ReadSoFar(r)
<1>1. s.start \in Nat /\ s.end \in Nat /\ v.cursor \in Nat
  BY DEF Exact, ReadSoFar
<1>2. CASE s.end <= v.cursor \/ s.start > v.cursor \/ v.cursor >= to
  BY <1>2 DEF ReadOn
<1>3. CASE ~ (s.end <= v.cursor \/ s.start > v.cursor \/ v.cursor >= to)
  <2>1. v.cursor < s.end /\ s.start <= v.cursor /\ v.cursor < to
    BY <1>1, <1>3
  <2> QED BY <2>1, ReadOnGoes
<1> QED BY <1>2, <1>3

(***************************************************************************)
(* The loops, step by step: the values h[0], h[1], ... that each has in turn. *)
(***************************************************************************)

\* What sorting spans does.
LEMMA SortsSpans ==
  ASSUME NEW s \in Seq(Span)
  PROVE  \E h : /\ h[0] = <<>> /\ h[Len(s)] = SortedSpans(s)
                /\ \A k \in 1 .. Len(s) : h[k - 1] \in Seq(Span) /\ h[k] = PlaceSpan(h[k - 1], s[k])
                /\ \A k \in 0 .. Len(s) : h[k] \in Seq(Span)
<1> DEFINE n == Len(s)
           V == Seq(Span)
           none == <<>>
           op(v, x) == PlaceSpan(v, x)
           T == [a \in (1 .. n) \X V |-> op(a[2], s[a[1]])]
           step(g, d) == IF d = {} THEN none ELSE op(g[d \ {Greatest(d)}], s[Greatest(d)])
           G == CHOOSE g : g = [d \in SUBSET (1 .. n) |-> step(g, d)]
<1>1. n \in Nat /\ DOMAIN s = 1 .. n /\ \A i \in 1 .. n : s[i] \in Span
  OBVIOUS
<1>2. \A v \in V, x \in Span : op(v, x) \in V
  <2> SUFFICES ASSUME NEW v \in V, NEW x \in Span PROVE op(v, x) \in V
    OBVIOUS
  <2> DEFINE B == {i \in DOMAIN v : Before(v[i], x)}
  <2>1. Len(v) \in Nat /\ DOMAIN v = 1 .. Len(v) /\ B \in SUBSET (1 .. Len(v))
    OBVIOUS
  <2>2. Cardinality(B) \in Nat /\ Cardinality(B) <= Len(v)
    BY <2>1, CountBelow
  <2>3. op(v, x) = InsertAt(v, Cardinality(B) + 1, x)
    BY DEF PlaceSpan
  <2> HIDE DEF B, op
  <2> QED BY <2>1, <2>2, <2>3, InsertedIn
<1>3. T \in Tables(n, V)
  <2>1. \A v \in V, i \in 1 .. n : op(v, s[i]) \in V
    <3> HIDE DEF op, V, n
    <3> QED BY <1>1, <1>2
  <2> HIDE DEF op, V, n
  <2> QED BY <2>1 DEF Tables
<1>4. none \in V
  OBVIOUS
<1>5. PICK g : Follows(g, n, V, none, T)
  <2> HIDE DEF T, V, n, none
  <2> QED BY <1>1, <1>3, <1>4, Folded
<1>6. \A d \in SUBSET (1 .. n) : g[d] = step(g, d)
  <2> SUFFICES ASSUME NEW d \in SUBSET (1 .. n), d # {}
               PROVE  T[<<Greatest(d), g[d \ {Greatest(d)}]>>]
                        = op(g[d \ {Greatest(d)}], s[Greatest(d)])
    <3> HIDE DEF T, V, n, op, none
    <3> QED BY <1>5 DEF Follows
  <2>1. Greatest(d) \in 1 .. n
    <3> HIDE DEF n
    <3> QED BY <1>1, GreatestIn
  <2>2. d \ {Greatest(d)} \in SUBSET (1 .. n)
    OBVIOUS
  <2>3. g[d \ {Greatest(d)}] \in V
    <3> HIDE DEF T, V, n, none
    <3> QED BY <1>5, <2>2 DEF Follows
  <2> HIDE DEF V, n, op
  <2> QED BY <2>1, <2>3
<1>7. g = [d \in SUBSET (1 .. n) |-> step(g, d)]
  <2>1. g = [d \in SUBSET (1 .. n) |-> g[d]]
    <3> HIDE DEF T, V, n, none
    <3> QED BY <1>5 DEF Follows
  <2> HIDE DEF step, n, V
  <2> QED BY <1>6, <2>1
<1>8. G = [d \in SUBSET (1 .. n) |-> step(G, d)]
  <2> HIDE DEF step, n
  <2> QED BY <1>7
<1>9. SortedSpans(s) = G[1 .. n]
  BY <1>1 DEF SortedSpans, FoldLeft, MapThenFoldSet, Max, Greatest
<1> DEFINE h == [k \in 0 .. n |-> G[1 .. k]]
<1>10. h[0] = none /\ h[n] = SortedSpans(s)
  <2>1. {} \in SUBSET (1 .. n) /\ step(G, {}) = none /\ 1 .. 0 = {} /\ 0 \in 0 .. n /\ n \in 0 .. n
    BY <1>1
  <2> HIDE DEF step, n, V, G, none
  <2> QED BY <1>8, <1>9, <2>1
<1>11. \A k \in 1 .. n : h[k] = op(h[k - 1], s[k])
  <2> SUFFICES ASSUME NEW k \in 1 .. n PROVE h[k] = op(h[k - 1], s[k])
    OBVIOUS
  <2>1. G[1 .. k] = step(G, 1 .. k)
    <3> HIDE DEF step, n, V, G
    <3> QED BY <1>1, <1>8, Peeled
  <2>2. step(G, 1 .. k) = op(G[1 .. (k - 1)], s[k])
    <3> HIDE DEF op, n, V, G
    <3> QED BY <1>1, Peeled
  <2>3. k \in 0 .. n /\ k - 1 \in 0 .. n
    BY <1>1
  <2> HIDE DEF op, step, n, V, G
  <2> QED BY <2>1, <2>2, <2>3
<1>12. \A k \in 0 .. n : k \in {j \in 0 .. n : h[j] \in V}
  <2>1. 0 \in {j \in 0 .. n : h[j] \in V}
    <3>1. 0 \in 0 .. n
      BY <1>1
    <3> HIDE DEF V, G, h, none, n
    <3> QED BY <1>4, <1>10, <3>1
  <2>2. ASSUME NEW k \in 1 .. n, k - 1 \in {j \in 0 .. n : h[j] \in V}
        PROVE  k \in {j \in 0 .. n : h[j] \in V}
    <3>1. k \in 0 .. n /\ s[k] \in Span
      BY <1>1
    <3>2. h[k] \in V
      <4> HIDE DEF op, V, n, h
      <4> QED BY <1>2, <1>11, <2>2, <3>1
    <3> HIDE DEF V, n, h
    <3> QED BY <3>1, <3>2
  <2> HIDE DEF V, n, h, G
  <2> QED BY <1>1, <2>1, <2>2, UpTo
<1>13. \A k \in 1 .. n : k - 1 \in 0 .. n
  BY <1>1
<1> HIDE DEF op, h, V, none
<1>14. \A k \in 1 .. n : h[k - 1] \in V
  BY <1>12, <1>13
<1>15. \A k \in 0 .. n : h[k] \in V
  BY <1>12
<1> QED BY <1>10, <1>11, <1>14, <1>15 DEF op, V, none

\* What sorting segments does.
LEMMA SortsSegments ==
  ASSUME NEW r \in Reps, NEW s \in Seq(Exact(r))
  PROVE  \E h : /\ h[0] = <<>> /\ h[Len(s)] = SortedSegments(s)
                /\ \A k \in 1 .. Len(s) : /\ h[k - 1] \in Seq(Exact(r))
                                           /\ h[k] = PlaceSegment(h[k - 1], s[k])
                /\ \A k \in 0 .. Len(s) : h[k] \in Seq(Exact(r))
<1> DEFINE n == Len(s)
           V == Seq(Exact(r))
           none == <<>>
           op(v, x) == PlaceSegment(v, x)
           T == [a \in (1 .. n) \X V |-> op(a[2], s[a[1]])]
           step(g, d) == IF d = {} THEN none ELSE op(g[d \ {Greatest(d)}], s[Greatest(d)])
           G == CHOOSE g : g = [d \in SUBSET (1 .. n) |-> step(g, d)]
<1>1. n \in Nat /\ DOMAIN s = 1 .. n /\ \A i \in 1 .. n : s[i] \in Exact(r)
  OBVIOUS
<1>2. \A v \in V, x \in Exact(r) : op(v, x) \in V
  <2> SUFFICES ASSUME NEW v \in V, NEW x \in Exact(r) PROVE op(v, x) \in V
    OBVIOUS
  <2> DEFINE B == {i \in DOMAIN v : v[i].start <= x.start}
  <2>1. Len(v) \in Nat /\ DOMAIN v = 1 .. Len(v) /\ B \in SUBSET (1 .. Len(v))
    OBVIOUS
  <2>2. Cardinality(B) \in Nat /\ Cardinality(B) <= Len(v)
    BY <2>1, CountBelow
  <2>3. op(v, x) = InsertAt(v, Cardinality(B) + 1, x)
    BY DEF PlaceSegment
  <2> HIDE DEF B, op
  <2> QED BY <2>1, <2>2, <2>3, InsertedIn
<1>3. T \in Tables(n, V)
  <2>1. \A v \in V, i \in 1 .. n : op(v, s[i]) \in V
    <3> HIDE DEF op, V, n
    <3> QED BY <1>1, <1>2
  <2> HIDE DEF op, V, n
  <2> QED BY <2>1 DEF Tables
<1>4. none \in V
  OBVIOUS
<1>5. PICK g : Follows(g, n, V, none, T)
  <2> HIDE DEF T, V, n, none
  <2> QED BY <1>1, <1>3, <1>4, Folded
<1>6. \A d \in SUBSET (1 .. n) : g[d] = step(g, d)
  <2> SUFFICES ASSUME NEW d \in SUBSET (1 .. n), d # {}
               PROVE  T[<<Greatest(d), g[d \ {Greatest(d)}]>>]
                        = op(g[d \ {Greatest(d)}], s[Greatest(d)])
    <3> HIDE DEF T, V, n, op, none
    <3> QED BY <1>5 DEF Follows
  <2>1. Greatest(d) \in 1 .. n
    <3> HIDE DEF n
    <3> QED BY <1>1, GreatestIn
  <2>2. d \ {Greatest(d)} \in SUBSET (1 .. n)
    OBVIOUS
  <2>3. g[d \ {Greatest(d)}] \in V
    <3> HIDE DEF T, V, n, none
    <3> QED BY <1>5, <2>2 DEF Follows
  <2> HIDE DEF V, n, op
  <2> QED BY <2>1, <2>3
<1>7. g = [d \in SUBSET (1 .. n) |-> step(g, d)]
  <2>1. g = [d \in SUBSET (1 .. n) |-> g[d]]
    <3> HIDE DEF T, V, n, none
    <3> QED BY <1>5 DEF Follows
  <2> HIDE DEF step, n, V
  <2> QED BY <1>6, <2>1
<1>8. G = [d \in SUBSET (1 .. n) |-> step(G, d)]
  <2> HIDE DEF step, n
  <2> QED BY <1>7
<1>9. SortedSegments(s) = G[1 .. n]
  BY <1>1 DEF SortedSegments, FoldLeft, MapThenFoldSet, Max, Greatest
<1> DEFINE h == [k \in 0 .. n |-> G[1 .. k]]
<1>10. h[0] = none /\ h[n] = SortedSegments(s)
  <2>1. {} \in SUBSET (1 .. n) /\ step(G, {}) = none /\ 1 .. 0 = {} /\ 0 \in 0 .. n /\ n \in 0 .. n
    BY <1>1
  <2> HIDE DEF step, n, V, G, none
  <2> QED BY <1>8, <1>9, <2>1
<1>11. \A k \in 1 .. n : h[k] = op(h[k - 1], s[k])
  <2> SUFFICES ASSUME NEW k \in 1 .. n PROVE h[k] = op(h[k - 1], s[k])
    OBVIOUS
  <2>1. G[1 .. k] = step(G, 1 .. k)
    <3> HIDE DEF step, n, V, G
    <3> QED BY <1>1, <1>8, Peeled
  <2>2. step(G, 1 .. k) = op(G[1 .. (k - 1)], s[k])
    <3> HIDE DEF op, n, V, G
    <3> QED BY <1>1, Peeled
  <2>3. k \in 0 .. n /\ k - 1 \in 0 .. n
    BY <1>1
  <2> HIDE DEF op, step, n, V, G
  <2> QED BY <2>1, <2>2, <2>3
<1>12. \A k \in 0 .. n : k \in {j \in 0 .. n : h[j] \in V}
  <2>1. 0 \in {j \in 0 .. n : h[j] \in V}
    <3>1. 0 \in 0 .. n
      BY <1>1
    <3> HIDE DEF V, G, h, none, n
    <3> QED BY <1>4, <1>10, <3>1
  <2>2. ASSUME NEW k \in 1 .. n, k - 1 \in {j \in 0 .. n : h[j] \in V}
        PROVE  k \in {j \in 0 .. n : h[j] \in V}
    <3>1. k \in 0 .. n /\ s[k] \in Exact(r)
      BY <1>1
    <3>2. h[k] \in V
      <4> HIDE DEF op, V, n, h
      <4> QED BY <1>2, <1>11, <2>2, <3>1
    <3> HIDE DEF V, n, h
    <3> QED BY <3>1, <3>2
  <2> HIDE DEF V, n, h, G
  <2> QED BY <1>1, <2>1, <2>2, UpTo
<1>13. \A k \in 1 .. n : k - 1 \in 0 .. n
  BY <1>1
<1> HIDE DEF op, h, V, none
<1>14. \A k \in 1 .. n : h[k - 1] \in V
  BY <1>12, <1>13
<1>15. \A k \in 0 .. n : h[k] \in V
  BY <1>12
<1> QED BY <1>10, <1>11, <1>14, <1>15 DEF op, V, none

\* What merging does.
LEMMA Merges ==
  ASSUME NEW s \in Seq(Span)
  PROVE  \E h : /\ h[0] = <<>> /\ h[Len(s)] = Merged(s)
                /\ \A k \in 1 .. Len(s) : h[k - 1] \in Seq(Span) /\ h[k] = Merge(h[k - 1], s[k])
                /\ \A k \in 0 .. Len(s) : h[k] \in Seq(Span)
<1> DEFINE n == Len(s)
           V == Seq(Span)
           none == <<>>
           op(v, x) == Merge(v, x)
           T == [a \in (1 .. n) \X V |-> op(a[2], s[a[1]])]
           step(g, d) == IF d = {} THEN none ELSE op(g[d \ {Greatest(d)}], s[Greatest(d)])
           G == CHOOSE g : g = [d \in SUBSET (1 .. n) |-> step(g, d)]
<1>1. n \in Nat /\ DOMAIN s = 1 .. n /\ \A i \in 1 .. n : s[i] \in Span
  OBVIOUS
<1>2. \A v \in V, x \in Span : op(v, x) \in V
  BY MergeIs
<1>3. T \in Tables(n, V)
  <2>1. \A v \in V, i \in 1 .. n : op(v, s[i]) \in V
    <3> HIDE DEF op, V, n
    <3> QED BY <1>1, <1>2
  <2> HIDE DEF op, V, n
  <2> QED BY <2>1 DEF Tables
<1>4. none \in V
  OBVIOUS
<1>5. PICK g : Follows(g, n, V, none, T)
  <2> HIDE DEF T, V, n, none
  <2> QED BY <1>1, <1>3, <1>4, Folded
<1>6. \A d \in SUBSET (1 .. n) : g[d] = step(g, d)
  <2> SUFFICES ASSUME NEW d \in SUBSET (1 .. n), d # {}
               PROVE  T[<<Greatest(d), g[d \ {Greatest(d)}]>>]
                        = op(g[d \ {Greatest(d)}], s[Greatest(d)])
    <3> HIDE DEF T, V, n, op, none
    <3> QED BY <1>5 DEF Follows
  <2>1. Greatest(d) \in 1 .. n
    <3> HIDE DEF n
    <3> QED BY <1>1, GreatestIn
  <2>2. d \ {Greatest(d)} \in SUBSET (1 .. n)
    OBVIOUS
  <2>3. g[d \ {Greatest(d)}] \in V
    <3> HIDE DEF T, V, n, none
    <3> QED BY <1>5, <2>2 DEF Follows
  <2> HIDE DEF V, n, op
  <2> QED BY <2>1, <2>3
<1>7. g = [d \in SUBSET (1 .. n) |-> step(g, d)]
  <2>1. g = [d \in SUBSET (1 .. n) |-> g[d]]
    <3> HIDE DEF T, V, n, none
    <3> QED BY <1>5 DEF Follows
  <2> HIDE DEF step, n, V
  <2> QED BY <1>6, <2>1
<1>8. G = [d \in SUBSET (1 .. n) |-> step(G, d)]
  <2> HIDE DEF step, n
  <2> QED BY <1>7
<1>9. Merged(s) = G[1 .. n]
  BY <1>1 DEF Merged, FoldLeft, MapThenFoldSet, Max, Greatest
<1> DEFINE h == [k \in 0 .. n |-> G[1 .. k]]
<1>10. h[0] = none /\ h[n] = Merged(s)
  <2>1. {} \in SUBSET (1 .. n) /\ step(G, {}) = none /\ 1 .. 0 = {} /\ 0 \in 0 .. n /\ n \in 0 .. n
    BY <1>1
  <2> HIDE DEF step, n, V, G, none
  <2> QED BY <1>8, <1>9, <2>1
<1>11. \A k \in 1 .. n : h[k] = op(h[k - 1], s[k])
  <2> SUFFICES ASSUME NEW k \in 1 .. n PROVE h[k] = op(h[k - 1], s[k])
    OBVIOUS
  <2>1. G[1 .. k] = step(G, 1 .. k)
    <3> HIDE DEF step, n, V, G
    <3> QED BY <1>1, <1>8, Peeled
  <2>2. step(G, 1 .. k) = op(G[1 .. (k - 1)], s[k])
    <3> HIDE DEF op, n, V, G
    <3> QED BY <1>1, Peeled
  <2>3. k \in 0 .. n /\ k - 1 \in 0 .. n
    BY <1>1
  <2> HIDE DEF op, step, n, V, G
  <2> QED BY <2>1, <2>2, <2>3
<1>12. \A k \in 0 .. n : k \in {j \in 0 .. n : h[j] \in V}
  <2>1. 0 \in {j \in 0 .. n : h[j] \in V}
    <3>1. 0 \in 0 .. n
      BY <1>1
    <3> HIDE DEF V, G, h, none, n
    <3> QED BY <1>4, <1>10, <3>1
  <2>2. ASSUME NEW k \in 1 .. n, k - 1 \in {j \in 0 .. n : h[j] \in V}
        PROVE  k \in {j \in 0 .. n : h[j] \in V}
    <3>1. k \in 0 .. n /\ s[k] \in Span
      BY <1>1
    <3>2. h[k] \in V
      <4> HIDE DEF op, V, n, h
      <4> QED BY <1>2, <1>11, <2>2, <3>1
    <3> HIDE DEF V, n, h
    <3> QED BY <3>1, <3>2
  <2> HIDE DEF V, n, h, G
  <2> QED BY <1>1, <2>1, <2>2, UpTo
<1>13. \A k \in 1 .. n : k - 1 \in 0 .. n
  BY <1>1
<1> HIDE DEF op, h, V, none
<1>14. \A k \in 1 .. n : h[k - 1] \in V
  BY <1>12, <1>13
<1>15. \A k \in 0 .. n : h[k] \in V
  BY <1>12
<1> QED BY <1>10, <1>11, <1>14, <1>15 DEF op, V, none

\* What looking for gaps does.
WalksAll(h, s, from, to) ==
  /\ h[0] = NoneWalked(from) /\ h[Len(s)] = Walk(s, from, to)
  /\ \A k \in 1 .. Len(s) : h[k] = Leave(h[k - 1], s[k], to)
  /\ \A k \in 0 .. Len(s) : h[k] \in Walked

LEMMA Leaves ==
  ASSUME NEW from \in Nat, NEW to \in Nat, NEW s \in Seq(Span)
  PROVE  \E h : WalksAll(h, s, from, to)
<1> DEFINE n == Len(s)
           V == Walked
           none == NoneWalked(from)
           op(v, x) == Leave(v, x, to)
           T == [a \in (1 .. n) \X V |-> op(a[2], s[a[1]])]
           step(g, d) == IF d = {} THEN none ELSE op(g[d \ {Greatest(d)}], s[Greatest(d)])
           G == CHOOSE g : g = [d \in SUBSET (1 .. n) |-> step(g, d)]
<1>1. n \in Nat /\ DOMAIN s = 1 .. n /\ \A i \in 1 .. n : s[i] \in Span
  OBVIOUS
<1>2. \A v \in V, x \in Span : op(v, x) \in V
  BY LeaveIs
<1>3. T \in Tables(n, V)
  <2>1. \A v \in V, i \in 1 .. n : op(v, s[i]) \in V
    <3> HIDE DEF op, V, n
    <3> QED BY <1>1, <1>2
  <2> HIDE DEF op, V, n
  <2> QED BY <2>1 DEF Tables
<1>4. none \in V
  BY DEF Walked, NoneWalked
<1>5. PICK g : Follows(g, n, V, none, T)
  <2> HIDE DEF T, V, n, none
  <2> QED BY <1>1, <1>3, <1>4, Folded
<1>6. \A d \in SUBSET (1 .. n) : g[d] = step(g, d)
  <2> SUFFICES ASSUME NEW d \in SUBSET (1 .. n), d # {}
               PROVE  T[<<Greatest(d), g[d \ {Greatest(d)}]>>]
                        = op(g[d \ {Greatest(d)}], s[Greatest(d)])
    <3> HIDE DEF T, V, n, op, none
    <3> QED BY <1>5 DEF Follows
  <2>1. Greatest(d) \in 1 .. n
    <3> HIDE DEF n
    <3> QED BY <1>1, GreatestIn
  <2>2. d \ {Greatest(d)} \in SUBSET (1 .. n)
    OBVIOUS
  <2>3. g[d \ {Greatest(d)}] \in V
    <3> HIDE DEF T, V, n, none
    <3> QED BY <1>5, <2>2 DEF Follows
  <2> HIDE DEF V, n, op
  <2> QED BY <2>1, <2>3
<1>7. g = [d \in SUBSET (1 .. n) |-> step(g, d)]
  <2>1. g = [d \in SUBSET (1 .. n) |-> g[d]]
    <3> HIDE DEF T, V, n, none
    <3> QED BY <1>5 DEF Follows
  <2> HIDE DEF step, n, V
  <2> QED BY <1>6, <2>1
<1>8. G = [d \in SUBSET (1 .. n) |-> step(G, d)]
  <2> HIDE DEF step, n
  <2> QED BY <1>7
<1>9. Walk(s, from, to) = G[1 .. n]
  BY <1>1 DEF Walk, NoneWalked, FoldLeft, MapThenFoldSet, Max, Greatest
<1> DEFINE h == [k \in 0 .. n |-> G[1 .. k]]
<1>10. h[0] = none /\ h[n] = Walk(s, from, to)
  <2>1. {} \in SUBSET (1 .. n) /\ step(G, {}) = none /\ 1 .. 0 = {} /\ 0 \in 0 .. n /\ n \in 0 .. n
    BY <1>1
  <2> HIDE DEF step, n, V, G, none
  <2> QED BY <1>8, <1>9, <2>1
<1>11. \A k \in 1 .. n : h[k] = op(h[k - 1], s[k])
  <2> SUFFICES ASSUME NEW k \in 1 .. n PROVE h[k] = op(h[k - 1], s[k])
    OBVIOUS
  <2>1. G[1 .. k] = step(G, 1 .. k)
    <3> HIDE DEF step, n, V, G
    <3> QED BY <1>1, <1>8, Peeled
  <2>2. step(G, 1 .. k) = op(G[1 .. (k - 1)], s[k])
    <3> HIDE DEF op, n, V, G
    <3> QED BY <1>1, Peeled
  <2>3. k \in 0 .. n /\ k - 1 \in 0 .. n
    BY <1>1
  <2> HIDE DEF op, step, n, V, G
  <2> QED BY <2>1, <2>2, <2>3
<1>12. \A k \in 0 .. n : k \in {j \in 0 .. n : h[j] \in V}
  <2>1. 0 \in {j \in 0 .. n : h[j] \in V}
    <3>1. 0 \in 0 .. n
      BY <1>1
    <3> HIDE DEF V, G, h, none, n
    <3> QED BY <1>4, <1>10, <3>1
  <2>2. ASSUME NEW k \in 1 .. n, k - 1 \in {j \in 0 .. n : h[j] \in V}
        PROVE  k \in {j \in 0 .. n : h[j] \in V}
    <3>1. k \in 0 .. n /\ s[k] \in Span
      BY <1>1
    <3>2. h[k] \in V
      <4> HIDE DEF op, V, n, h
      <4> QED BY <1>2, <1>11, <2>2, <3>1
    <3> HIDE DEF V, n, h
    <3> QED BY <3>1, <3>2
  <2> HIDE DEF V, n, h, G
  <2> QED BY <1>1, <2>1, <2>2, UpTo
<1>13. \A k \in 1 .. n : k - 1 \in 0 .. n
  BY <1>1
<1> HIDE DEF op, h, V, none
<1>14. \A k \in 1 .. n : h[k - 1] \in V
  BY <1>12, <1>13
<1>15. \A k \in 0 .. n : h[k] \in V
  BY <1>12
<1> QED BY <1>10, <1>11, <1>14, <1>15 DEF op, V, none, WalksAll

\* What reading one segment after the other does.
ReadsAll(h, s, r, from, to) ==
  /\ h[0] = NoneRead(from) /\ h[Len(s)] = ReadAll(s, from, to)
  /\ \A k \in 1 .. Len(s) : h[k] = ReadOn(h[k - 1], s[k], to)
  /\ \A k \in 0 .. Len(s) : h[k] \in ReadSoFar(r)

LEMMA ReadsSteps ==
  ASSUME NEW r \in Reps, NEW from \in Nat, NEW to \in Nat, NEW s \in Seq(Exact(r))
  PROVE  \E h : ReadsAll(h, s, r, from, to)
<1> DEFINE n == Len(s)
           V == ReadSoFar(r)
           none == NoneRead(from)
           op(v, x) == ReadOn(v, x, to)
           T == [a \in (1 .. n) \X V |-> op(a[2], s[a[1]])]
           step(g, d) == IF d = {} THEN none ELSE op(g[d \ {Greatest(d)}], s[Greatest(d)])
           G == CHOOSE g : g = [d \in SUBSET (1 .. n) |-> step(g, d)]
<1>1. n \in Nat /\ DOMAIN s = 1 .. n /\ \A i \in 1 .. n : s[i] \in Exact(r)
  OBVIOUS
<1>2. \A v \in V, x \in Exact(r) : op(v, x) \in V
  BY ReadOnIs
<1>3. T \in Tables(n, V)
  <2>1. \A v \in V, i \in 1 .. n : op(v, s[i]) \in V
    <3> HIDE DEF op, V, n
    <3> QED BY <1>1, <1>2
  <2> HIDE DEF op, V, n
  <2> QED BY <2>1 DEF Tables
<1>4. none \in V
  BY DEF ReadSoFar, NoneRead
<1>5. PICK g : Follows(g, n, V, none, T)
  <2> HIDE DEF T, V, n, none
  <2> QED BY <1>1, <1>3, <1>4, Folded
<1>6. \A d \in SUBSET (1 .. n) : g[d] = step(g, d)
  <2> SUFFICES ASSUME NEW d \in SUBSET (1 .. n), d # {}
               PROVE  T[<<Greatest(d), g[d \ {Greatest(d)}]>>]
                        = op(g[d \ {Greatest(d)}], s[Greatest(d)])
    <3> HIDE DEF T, V, n, op, none
    <3> QED BY <1>5 DEF Follows
  <2>1. Greatest(d) \in 1 .. n
    <3> HIDE DEF n
    <3> QED BY <1>1, GreatestIn
  <2>2. d \ {Greatest(d)} \in SUBSET (1 .. n)
    OBVIOUS
  <2>3. g[d \ {Greatest(d)}] \in V
    <3> HIDE DEF T, V, n, none
    <3> QED BY <1>5, <2>2 DEF Follows
  <2> HIDE DEF V, n, op
  <2> QED BY <2>1, <2>3
<1>7. g = [d \in SUBSET (1 .. n) |-> step(g, d)]
  <2>1. g = [d \in SUBSET (1 .. n) |-> g[d]]
    <3> HIDE DEF T, V, n, none
    <3> QED BY <1>5 DEF Follows
  <2> HIDE DEF step, n, V
  <2> QED BY <1>6, <2>1
<1>8. G = [d \in SUBSET (1 .. n) |-> step(G, d)]
  <2> HIDE DEF step, n
  <2> QED BY <1>7
<1>9. ReadAll(s, from, to) = G[1 .. n]
  BY <1>1 DEF ReadAll, NoneRead, FoldLeft, MapThenFoldSet, Max, Greatest
<1> DEFINE h == [k \in 0 .. n |-> G[1 .. k]]
<1>10. h[0] = none /\ h[n] = ReadAll(s, from, to)
  <2>1. {} \in SUBSET (1 .. n) /\ step(G, {}) = none /\ 1 .. 0 = {} /\ 0 \in 0 .. n /\ n \in 0 .. n
    BY <1>1
  <2> HIDE DEF step, n, V, G, none
  <2> QED BY <1>8, <1>9, <2>1
<1>11. \A k \in 1 .. n : h[k] = op(h[k - 1], s[k])
  <2> SUFFICES ASSUME NEW k \in 1 .. n PROVE h[k] = op(h[k - 1], s[k])
    OBVIOUS
  <2>1. G[1 .. k] = step(G, 1 .. k)
    <3> HIDE DEF step, n, V, G
    <3> QED BY <1>1, <1>8, Peeled
  <2>2. step(G, 1 .. k) = op(G[1 .. (k - 1)], s[k])
    <3> HIDE DEF op, n, V, G
    <3> QED BY <1>1, Peeled
  <2>3. k \in 0 .. n /\ k - 1 \in 0 .. n
    BY <1>1
  <2> HIDE DEF op, step, n, V, G
  <2> QED BY <2>1, <2>2, <2>3
<1>12. \A k \in 0 .. n : k \in {j \in 0 .. n : h[j] \in V}
  <2>1. 0 \in {j \in 0 .. n : h[j] \in V}
    <3>1. 0 \in 0 .. n
      BY <1>1
    <3> HIDE DEF V, G, h, none, n
    <3> QED BY <1>4, <1>10, <3>1
  <2>2. ASSUME NEW k \in 1 .. n, k - 1 \in {j \in 0 .. n : h[j] \in V}
        PROVE  k \in {j \in 0 .. n : h[j] \in V}
    <3>1. k \in 0 .. n /\ s[k] \in Exact(r)
      BY <1>1
    <3>2. h[k] \in V
      <4> HIDE DEF op, V, n, h
      <4> QED BY <1>2, <1>11, <2>2, <3>1
    <3> HIDE DEF V, n, h
    <3> QED BY <3>1, <3>2
  <2> HIDE DEF V, n, h, G
  <2> QED BY <1>1, <2>1, <2>2, UpTo
<1>13. \A k \in 1 .. n : k - 1 \in 0 .. n
  BY <1>1
<1> HIDE DEF op, h, V, none
<1>14. \A k \in 1 .. n : h[k - 1] \in V
  BY <1>12, <1>13
<1>15. \A k \in 0 .. n : h[k] \in V
  BY <1>12
<1> QED BY <1>10, <1>11, <1>14, <1>15 DEF op, V, none, ReadsAll

\* What taking a field apart does.
LEMMA Keeps ==
  ASSUME NEW s \in Seq(Parts)
  PROVE  \E h : /\ h[0] = <<>> /\ h[Len(s)] = Said(s)
                /\ \A k \in 1 .. Len(s) : h[k - 1] \in Seq(Parts) /\ h[k] = Keep(h[k - 1], s[k])
                /\ \A k \in 0 .. Len(s) : h[k] \in Seq(Parts)
<1> DEFINE n == Len(s)
           V == Seq(Parts)
           none == <<>>
           op(v, x) == Keep(v, x)
           T == [a \in (1 .. n) \X V |-> op(a[2], s[a[1]])]
           step(g, d) == IF d = {} THEN none ELSE op(g[d \ {Greatest(d)}], s[Greatest(d)])
           G == CHOOSE g : g = [d \in SUBSET (1 .. n) |-> step(g, d)]
<1>1. n \in Nat /\ DOMAIN s = 1 .. n /\ \A i \in 1 .. n : s[i] \in Parts
  OBVIOUS
<1>2. \A v \in V, x \in Parts : op(v, x) \in V
  BY DEF Keep
<1>3. T \in Tables(n, V)
  <2>1. \A v \in V, i \in 1 .. n : op(v, s[i]) \in V
    <3> HIDE DEF op, V, n
    <3> QED BY <1>1, <1>2
  <2> HIDE DEF op, V, n
  <2> QED BY <2>1 DEF Tables
<1>4. none \in V
  OBVIOUS
<1>5. PICK g : Follows(g, n, V, none, T)
  <2> HIDE DEF T, V, n, none
  <2> QED BY <1>1, <1>3, <1>4, Folded
<1>6. \A d \in SUBSET (1 .. n) : g[d] = step(g, d)
  <2> SUFFICES ASSUME NEW d \in SUBSET (1 .. n), d # {}
               PROVE  T[<<Greatest(d), g[d \ {Greatest(d)}]>>]
                        = op(g[d \ {Greatest(d)}], s[Greatest(d)])
    <3> HIDE DEF T, V, n, op, none
    <3> QED BY <1>5 DEF Follows
  <2>1. Greatest(d) \in 1 .. n
    <3> HIDE DEF n
    <3> QED BY <1>1, GreatestIn
  <2>2. d \ {Greatest(d)} \in SUBSET (1 .. n)
    OBVIOUS
  <2>3. g[d \ {Greatest(d)}] \in V
    <3> HIDE DEF T, V, n, none
    <3> QED BY <1>5, <2>2 DEF Follows
  <2> HIDE DEF V, n, op
  <2> QED BY <2>1, <2>3
<1>7. g = [d \in SUBSET (1 .. n) |-> step(g, d)]
  <2>1. g = [d \in SUBSET (1 .. n) |-> g[d]]
    <3> HIDE DEF T, V, n, none
    <3> QED BY <1>5 DEF Follows
  <2> HIDE DEF step, n, V
  <2> QED BY <1>6, <2>1
<1>8. G = [d \in SUBSET (1 .. n) |-> step(G, d)]
  <2> HIDE DEF step, n
  <2> QED BY <1>7
<1>9. Said(s) = G[1 .. n]
  BY <1>1 DEF Said, FoldLeft, MapThenFoldSet, Max, Greatest
<1> DEFINE h == [k \in 0 .. n |-> G[1 .. k]]
<1>10. h[0] = none /\ h[n] = Said(s)
  <2>1. {} \in SUBSET (1 .. n) /\ step(G, {}) = none /\ 1 .. 0 = {} /\ 0 \in 0 .. n /\ n \in 0 .. n
    BY <1>1
  <2> HIDE DEF step, n, V, G, none
  <2> QED BY <1>8, <1>9, <2>1
<1>11. \A k \in 1 .. n : h[k] = op(h[k - 1], s[k])
  <2> SUFFICES ASSUME NEW k \in 1 .. n PROVE h[k] = op(h[k - 1], s[k])
    OBVIOUS
  <2>1. G[1 .. k] = step(G, 1 .. k)
    <3> HIDE DEF step, n, V, G
    <3> QED BY <1>1, <1>8, Peeled
  <2>2. step(G, 1 .. k) = op(G[1 .. (k - 1)], s[k])
    <3> HIDE DEF op, n, V, G
    <3> QED BY <1>1, Peeled
  <2>3. k \in 0 .. n /\ k - 1 \in 0 .. n
    BY <1>1
  <2> HIDE DEF op, step, n, V, G
  <2> QED BY <2>1, <2>2, <2>3
<1>12. \A k \in 0 .. n : k \in {j \in 0 .. n : h[j] \in V}
  <2>1. 0 \in {j \in 0 .. n : h[j] \in V}
    <3>1. 0 \in 0 .. n
      BY <1>1
    <3> HIDE DEF V, G, h, none, n
    <3> QED BY <1>4, <1>10, <3>1
  <2>2. ASSUME NEW k \in 1 .. n, k - 1 \in {j \in 0 .. n : h[j] \in V}
        PROVE  k \in {j \in 0 .. n : h[j] \in V}
    <3>1. k \in 0 .. n /\ s[k] \in Parts
      BY <1>1
    <3>2. h[k] \in V
      <4> HIDE DEF op, V, n, h
      <4> QED BY <1>2, <1>11, <2>2, <3>1
    <3> HIDE DEF V, n, h
    <3> QED BY <3>1, <3>2
  <2> HIDE DEF V, n, h, G
  <2> QED BY <1>1, <2>1, <2>2, UpTo
<1>13. \A k \in 1 .. n : k - 1 \in 0 .. n
  BY <1>1
<1> HIDE DEF op, h, V, none
<1>14. \A k \in 1 .. n : h[k - 1] \in V
  BY <1>12, <1>13
<1>15. \A k \in 0 .. n : h[k] \in V
  BY <1>12
<1> QED BY <1>10, <1>11, <1>14, <1>15 DEF op, V, none

(***************************************************************************)
(* Sorting leaves the same elements in order, and merging the same bytes in *)
(* runs that are apart.                                                    *)
(***************************************************************************)

\* What is in order stays in order when something is put where it belongs.
LEMMA InsertedInOrder ==
  ASSUME NEW X, NEW s \in Seq(X), NEW x \in X, NEW B \in SUBSET (1 .. Len(s)), NEW R,
         \A i \in B : \A j \in 1 .. i : j \in B,
         \A i, j \in 1 .. Len(s) : i < j => <<s[i], s[j]>> \in R,
         \A i \in 1 .. Len(s) : IF i \in B THEN <<s[i], x>> \in R ELSE <<x, s[i]>> \in R
  PROVE  LET t == InsertAt(s, Cardinality(B) + 1, x) IN
         /\ t \in Seq(X)
         /\ \A i, j \in 1 .. Len(t) : i < j => <<t[i], t[j]>> \in R
         /\ \A i \in 1 .. Len(t) : t[i] = x \/ \E j \in 1 .. Len(s) : t[i] = s[j]
         /\ \E i \in 1 .. Len(t) : t[i] = x
         /\ \A j \in 1 .. Len(s) : \E i \in 1 .. Len(t) : t[i] = s[j]
<1> DEFINE c == Cardinality(B) + 1
           t == InsertAt(s, Cardinality(B) + 1, x)
<1>1. /\ t \in Seq(X) /\ Len(t) = Len(s) + 1 /\ c \in 1 .. Len(t) /\ t[c] = x
      /\ \A i \in 1 .. Len(t) : i < c => i \in 1 .. Len(s) /\ i \in B /\ t[i] = s[i]
      /\ \A i \in 1 .. Len(t) : i > c => i - 1 \in 1 .. Len(s) /\ i - 1 \notin B
                                         /\ t[i] = s[i - 1]
      /\ Len(s) \in Nat
  BY Inserted
<1>2. Len(t) \in Nat /\ c \in Nat
  BY <1>1
<1> HIDE DEF c, t
<1>3. ASSUME NEW i \in 1 .. Len(t), NEW j \in 1 .. Len(t), i < j
      PROVE  <<t[i], t[j]>> \in R
  <2>1. CASE j < c
    BY <1>1, <1>2, <1>3, <2>1
  <2>2. CASE j = c
    BY <1>1, <1>2, <1>3, <2>2
  <2>3. CASE j > c /\ i = c
    BY <1>1, <1>2, <1>3, <2>3
  <2>4. CASE j > c /\ i > c
    <3>1. i - 1 < j - 1 /\ i - 1 \in 1 .. Len(s) /\ j - 1 \in 1 .. Len(s)
          /\ t[i] = s[i - 1] /\ t[j] = s[j - 1]
      BY <1>1, <1>2, <1>3, <2>4
    <3> QED BY <3>1
  <2>5. CASE j > c /\ i < c
    <3>1. i < j - 1 /\ i \in 1 .. Len(s) /\ j - 1 \in 1 .. Len(s) /\ t[i] = s[i] /\ t[j] = s[j - 1]
      <4>1. /\ i \in 1 .. Len(s) /\ j - 1 \in 1 .. Len(s) /\ t[i] = s[i] /\ t[j] = s[j - 1]
            /\ i \in B /\ j - 1 \notin B
        BY <1>1, <1>2, <1>3, <2>5
      <4>2. i # j - 1
        BY <4>1
      <4> QED BY <1>3, <4>1, <4>2
    <3> QED BY <3>1
  <2> QED BY <1>2, <1>3, <2>1, <2>2, <2>3, <2>4, <2>5
<1>4. ASSUME NEW i \in 1 .. Len(t)
      PROVE  t[i] = x \/ \E j \in 1 .. Len(s) : t[i] = s[j]
  <2>1. CASE i < c
    BY <1>1, <2>1
  <2>2. CASE i = c
    BY <1>1, <2>2
  <2>3. CASE i > c
    BY <1>1, <2>3
  <2> QED BY <1>2, <2>1, <2>2, <2>3
<1>5. ASSUME NEW j \in 1 .. Len(s)
      PROVE  \E i \in 1 .. Len(t) : t[i] = s[j]
  <2>1. CASE j < c
    <3>1. j \in 1 .. Len(t)
      BY <1>1, <1>2
    <3> QED BY <1>1, <2>1, <3>1
  <2>2. CASE j >= c
    <3>1. j + 1 \in 1 .. Len(t) /\ j + 1 > c /\ (j + 1) - 1 = j
      BY <1>1, <1>2, <2>2
    <3>2. t[j + 1] = s[(j + 1) - 1]
      BY <1>1, <3>1
    <3> QED BY <3>1, <3>2
  <2> QED BY <1>2, <2>1, <2>2
<1>6. \E i \in 1 .. Len(t) : t[i] = x
  BY <1>1
<1>7. t \in Seq(X)
  BY <1>1
<1> QED BY <1>3, <1>4, <1>5, <1>6, <1>7 DEF t

\* Spans in the order of pairs.
Ascends(spans) == \A i, j \in 1 .. Len(spans) : i < j => ~ Before(spans[j], spans[i])

\* A span placed: the order is kept, and the others are.
LEMMA PlaceSpanIs ==
  ASSUME NEW s \in Seq(Span), Ascends(s), NEW x \in Span
  PROVE  LET t == PlaceSpan(s, x) IN
         /\ t \in Seq(Span) /\ Ascends(t)
         /\ \A i \in 1 .. Len(t) : t[i] = x \/ \E j \in 1 .. Len(s) : t[i] = s[j]
         /\ \E i \in 1 .. Len(t) : t[i] = x
         /\ \A j \in 1 .. Len(s) : \E i \in 1 .. Len(t) : t[i] = s[j]
<1> DEFINE B == {i \in DOMAIN s : Before(s[i], x)}
           R == {p \in Span \X Span : ~ Before(p[2], p[1])}
<1>1. DOMAIN s = 1 .. Len(s) /\ Len(s) \in Nat /\ \A i \in 1 .. Len(s) : s[i] \in Span
  OBVIOUS
<1>2. \A a \in Span : a[1] \in Nat /\ a[2] \in Nat
  BY DEF Span
<1>3. \A a, b \in Span : <<a, b>> \in R <=> ~ Before(b, a)
  OBVIOUS
<1>4. B \in SUBSET (1 .. Len(s))
  BY <1>1
<1>5. ASSUME NEW i \in B, NEW j \in 1 .. i
      PROVE  j \in B
  <2>1. i \in 1 .. Len(s) /\ Before(s[i], x) /\ j \in 1 .. Len(s)
    BY <1>1
  <2>2. CASE i = j
    BY <2>1, <2>2
  <2>3. CASE i # j
    <3>1. ~ Before(s[i], s[j])
      BY <2>1, <2>3 DEF Ascends
    <3>2. s[i] \in Span /\ s[j] \in Span
      BY <1>1, <2>1
    <3>3. Before(s[j], x)
      BY <1>2, <2>1, <3>1, <3>2 DEF Before
    <3> QED BY <1>1, <2>1, <3>3
  <2> QED BY <2>2, <2>3
<1>6. \A i, j \in 1 .. Len(s) : i < j => <<s[i], s[j]>> \in R
  <2> HIDE DEF R
  <2> QED BY <1>1, <1>3 DEF Ascends
<1>7. ASSUME NEW i \in 1 .. Len(s)
      PROVE  IF i \in B THEN <<s[i], x>> \in R ELSE <<x, s[i]>> \in R
  <2>1. s[i] \in Span /\ (i \in B <=> Before(s[i], x))
    BY <1>1
  <2>2. Before(s[i], x) => ~ Before(x, s[i])
    BY <1>2, <2>1 DEF Before
  <2> HIDE DEF R, B
  <2> QED BY <1>3, <2>1, <2>2
<1> DEFINE t == InsertAt(s, Cardinality(B) + 1, x)
<1>8. /\ t \in Seq(Span)
      /\ \A i, j \in 1 .. Len(t) : i < j => <<t[i], t[j]>> \in R
      /\ \A i \in 1 .. Len(t) : t[i] = x \/ \E j \in 1 .. Len(s) : t[i] = s[j]
      /\ \E i \in 1 .. Len(t) : t[i] = x
      /\ \A j \in 1 .. Len(s) : \E i \in 1 .. Len(t) : t[i] = s[j]
  <2> HIDE DEF R, B
  <2> QED BY <1>4, <1>5, <1>6, <1>7, InsertedInOrder
<1>9. PlaceSpan(s, x) = t
  BY DEF PlaceSpan
<1>10. Ascends(t)
  <2> HIDE DEF t, B
  <2>1. \A i \in 1 .. Len(t) : t[i] \in Span
    BY <1>8
  <2> QED BY <1>8, <2>1 DEF Ascends
<1> HIDE DEF t, B, R
<1> QED BY <1>8, <1>9, <1>10

\* Segments that follow one another, and any two that have no byte in common.
InOrder(segments) ==
  \A i, j \in 1 .. Len(segments) : i < j => segments[i].end <= segments[j].start

Disjoint(s, t) == s.end <= t.start \/ t.end <= s.start

\* A segment placed, that none of the others has a byte of.
LEMMA PlaceSegmentIs ==
  ASSUME NEW r \in Reps, NEW s \in Seq(Exact(r)), InOrder(s), NEW x \in Exact(r),
         \A i \in 1 .. Len(s) : Disjoint(s[i], x)
  PROVE  LET t == PlaceSegment(s, x) IN
         /\ t \in Seq(Exact(r)) /\ InOrder(t)
         /\ \A i \in 1 .. Len(t) : t[i] = x \/ \E j \in 1 .. Len(s) : t[i] = s[j]
<1> DEFINE E == Exact(r)
           B == {i \in DOMAIN s : s[i].start <= x.start}
           R == {p \in E \X E : p[1].end <= p[2].start}
<1>1. DOMAIN s = 1 .. Len(s) /\ Len(s) \in Nat /\ \A i \in 1 .. Len(s) : s[i] \in E
  OBVIOUS
<1>2. \A a \in E : a.start \in Nat /\ a.end \in Nat /\ a.start < a.end
  BY DEF Exact
<1> HIDE DEF E
<1>3. \A a, b \in E : <<a, b>> \in R <=> a.end <= b.start
  OBVIOUS
<1>4. B \in SUBSET (1 .. Len(s)) /\ x \in E /\ s \in Seq(E)
  BY <1>1 DEF E
<1>5. ASSUME NEW i \in B, NEW j \in 1 .. i
      PROVE  j \in B
  <2>1. i \in 1 .. Len(s) /\ s[i].start <= x.start /\ j \in 1 .. Len(s)
    BY <1>1
  <2>2. CASE i = j
    BY <2>1, <2>2
  <2>3. CASE i # j
    <3>1. s[j].end <= s[i].start
      BY <2>1, <2>3 DEF InOrder
    <3>2. s[i] \in E /\ s[j] \in E
      BY <1>1, <2>1
    <3>3. s[j].start <= x.start
      BY <1>2, <1>4, <2>1, <3>1, <3>2
    <3> QED BY <1>1, <2>1, <3>3
  <2> QED BY <2>2, <2>3
<1>6. \A i, j \in 1 .. Len(s) : i < j => <<s[i], s[j]>> \in R
  <2> HIDE DEF R
  <2> QED BY <1>1, <1>3 DEF InOrder
<1>7. ASSUME NEW i \in 1 .. Len(s)
      PROVE  IF i \in B THEN <<s[i], x>> \in R ELSE <<x, s[i]>> \in R
  <2>1. s[i] \in E /\ (i \in B <=> s[i].start <= x.start) /\ Disjoint(s[i], x)
    BY <1>1
  <2>2. IF s[i].start <= x.start THEN s[i].end <= x.start ELSE x.end <= s[i].start
    BY <1>2, <1>4, <2>1 DEF Disjoint
  <2> HIDE DEF R, B
  <2> QED BY <1>3, <1>4, <2>1, <2>2
<1> DEFINE t == InsertAt(s, Cardinality(B) + 1, x)
<1>8. /\ t \in Seq(E)
      /\ \A i, j \in 1 .. Len(t) : i < j => <<t[i], t[j]>> \in R
      /\ \A i \in 1 .. Len(t) : t[i] = x \/ \E j \in 1 .. Len(s) : t[i] = s[j]
  <2> HIDE DEF R, B
  <2> QED BY <1>4, <1>5, <1>6, <1>7, InsertedInOrder
<1>9. PlaceSegment(s, x) = t
  BY DEF PlaceSegment
<1>10. InOrder(t)
  <2> HIDE DEF t, B
  <2>1. \A i \in 1 .. Len(t) : t[i] \in E
    BY <1>8
  <2> QED BY <1>8, <2>1 DEF InOrder
<1> HIDE DEF t, B, R
<1> QED BY <1>8, <1>9, <1>10 DEF E

\* Sorted spans ascend, and are the same spans.
LEMMA SortedSpansIs ==
  ASSUME NEW s \in Seq(Span)
  PROVE  LET t == SortedSpans(s) IN
         /\ t \in Seq(Span) /\ Ascends(t)
         /\ \A i \in 1 .. Len(t) : \E j \in 1 .. Len(s) : t[i] = s[j]
         /\ \A j \in 1 .. Len(s) : \E i \in 1 .. Len(t) : t[i] = s[j]
<1>1. PICK h : /\ h[0] = <<>> /\ h[Len(s)] = SortedSpans(s)
               /\ \A k \in 1 .. Len(s) : h[k - 1] \in Seq(Span) /\ h[k] = PlaceSpan(h[k - 1], s[k])
               /\ \A k \in 0 .. Len(s) : h[k] \in Seq(Span)
  BY SortsSpans
<1> DEFINE Good(k) ==
             /\ Ascends(h[k])
             /\ \A i \in 1 .. Len(h[k]) : \E j \in 1 .. k : h[k][i] = s[j]
             /\ \A j \in 1 .. k : \E i \in 1 .. Len(h[k]) : h[k][i] = s[j]
           P == {k \in 0 .. Len(s) : Good(k)}
<1>2. Len(s) \in Nat /\ \A k \in 1 .. Len(s) : s[k] \in Span
  OBVIOUS
<1>3. 0 \in P
  <2>1. Len(h[0]) = 0 /\ 0 \in 0 .. Len(s)
    BY <1>1, <1>2
  <2>2. Good(0)
    BY <2>1 DEF Ascends
  <2> HIDE DEF Good
  <2> QED BY <2>1, <2>2
<1>4. ASSUME NEW k \in 1 .. Len(s), k - 1 \in P
      PROVE  k \in P
  <2>1. /\ h[k - 1] \in Seq(Span) /\ h[k] = PlaceSpan(h[k - 1], s[k]) /\ s[k] \in Span
        /\ k \in 0 .. Len(s) /\ k \in 1 .. k /\ \A j \in 1 .. (k - 1) : j \in 1 .. k
        /\ \A j \in 1 .. k : j \in 1 .. (k - 1) \/ j = k
    BY <1>1, <1>2
  <2>2. /\ Ascends(h[k - 1])
        /\ \A i \in 1 .. Len(h[k - 1]) : \E j \in 1 .. (k - 1) : h[k - 1][i] = s[j]
        /\ \A j \in 1 .. (k - 1) : \E i \in 1 .. Len(h[k - 1]) : h[k - 1][i] = s[j]
    BY <1>4
  <2>3. /\ Ascends(h[k])
        /\ \A i \in 1 .. Len(h[k]) : \/ h[k][i] = s[k]
                                     \/ \E j \in 1 .. Len(h[k - 1]) : h[k][i] = h[k - 1][j]
        /\ \E i \in 1 .. Len(h[k]) : h[k][i] = s[k]
        /\ \A j \in 1 .. Len(h[k - 1]) : \E i \in 1 .. Len(h[k]) : h[k][i] = h[k - 1][j]
    <3> DEFINE was == h[k - 1]
               x == s[k]
    <3>1. was \in Seq(Span) /\ Ascends(was) /\ x \in Span /\ h[k] = PlaceSpan(was, x)
      BY <2>1, <2>2
    <3> HIDE DEF was, x
    <3>2. LET t == PlaceSpan(was, x) IN
          /\ t \in Seq(Span) /\ Ascends(t)
          /\ \A i \in 1 .. Len(t) : t[i] = x \/ \E j \in 1 .. Len(was) : t[i] = was[j]
          /\ \E i \in 1 .. Len(t) : t[i] = x
          /\ \A j \in 1 .. Len(was) : \E i \in 1 .. Len(t) : t[i] = was[j]
      BY <3>1, PlaceSpanIs
    <3> QED BY <3>1, <3>2 DEF was, x
  <2>4. ASSUME NEW i \in 1 .. Len(h[k])
        PROVE  \E j \in 1 .. k : h[k][i] = s[j]
    BY <2>1, <2>2, <2>3
  <2>5. ASSUME NEW j \in 1 .. k
        PROVE  \E i \in 1 .. Len(h[k]) : h[k][i] = s[j]
    <3>1. CASE j = k
      BY <2>3, <3>1
    <3>2. CASE j \in 1 .. (k - 1)
      <4>1. PICK l \in 1 .. Len(h[k - 1]) : h[k - 1][l] = s[j]
        BY <2>2, <3>2
      <4>2. PICK i \in 1 .. Len(h[k]) : h[k][i] = h[k - 1][l]
        BY <2>3
      <4> QED BY <4>1, <4>2
    <3> QED BY <2>1, <3>1, <3>2
  <2>6. Good(k)
    BY <2>3, <2>4, <2>5
  <2> HIDE DEF Good
  <2> QED BY <2>1, <2>6
<1>5. Good(Len(s))
  <2>1. \A k \in 0 .. Len(s) : k \in P
    <3> HIDE DEF P
    <3> QED BY <1>2, <1>3, <1>4, UpTo
  <2>2. Len(s) \in 0 .. Len(s)
    BY <1>2
  <2> HIDE DEF Good
  <2> QED BY <2>1, <2>2
<1>6. h[Len(s)] = SortedSpans(s) /\ h[Len(s)] \in Seq(Span)
  BY <1>1, <1>2
<1> QED BY <1>5, <1>6

\* Sorted segments, of which no two have a byte in common, follow one another.
LEMMA SortedSegmentsIs ==
  ASSUME NEW r \in Reps, NEW s \in Seq(Exact(r)),
         \A i, j \in 1 .. Len(s) : i < j => Disjoint(s[i], s[j])
  PROVE  SortedSegments(s) \in Seq(Exact(r)) /\ InOrder(SortedSegments(s))
<1>1. PICK h : /\ h[0] = <<>> /\ h[Len(s)] = SortedSegments(s)
               /\ \A k \in 1 .. Len(s) :
                    h[k - 1] \in Seq(Exact(r)) /\ h[k] = PlaceSegment(h[k - 1], s[k])
               /\ \A k \in 0 .. Len(s) : h[k] \in Seq(Exact(r))
  BY SortsSegments
<1> DEFINE Good(k) ==
             /\ InOrder(h[k])
             /\ \A i \in 1 .. Len(h[k]) : \E j \in 1 .. k : h[k][i] = s[j]
           P == {k \in 0 .. Len(s) : Good(k)}
<1>2. Len(s) \in Nat /\ \A k \in 1 .. Len(s) : s[k] \in Exact(r)
  OBVIOUS
<1>3. 0 \in P
  <2>1. Len(h[0]) = 0 /\ 0 \in 0 .. Len(s)
    BY <1>1, <1>2
  <2>2. Good(0)
    BY <2>1 DEF InOrder
  <2> HIDE DEF Good
  <2> QED BY <2>1, <2>2
<1>4. ASSUME NEW k \in 1 .. Len(s), k - 1 \in P
      PROVE  k \in P
  <2>1. /\ h[k - 1] \in Seq(Exact(r)) /\ h[k] = PlaceSegment(h[k - 1], s[k]) /\ s[k] \in Exact(r)
        /\ k \in 0 .. Len(s) /\ k \in 1 .. k
        /\ \A j \in 1 .. (k - 1) : j \in 1 .. k /\ j \in 1 .. Len(s) /\ j < k
    BY <1>1, <1>2
  <2>2. /\ InOrder(h[k - 1])
        /\ \A i \in 1 .. Len(h[k - 1]) : \E j \in 1 .. (k - 1) : h[k - 1][i] = s[j]
    BY <1>4
  <2>3. \A i \in 1 .. Len(h[k - 1]) : Disjoint(h[k - 1][i], s[k])
    <3> SUFFICES ASSUME NEW i \in 1 .. Len(h[k - 1]) PROVE Disjoint(h[k - 1][i], s[k])
      OBVIOUS
    <3>1. PICK j \in 1 .. (k - 1) : h[k - 1][i] = s[j]
      BY <2>2
    <3>2. Disjoint(s[j], s[k])
      BY <2>1
    <3> QED BY <3>1, <3>2
  <2>4. /\ InOrder(h[k])
        /\ \A i \in 1 .. Len(h[k]) : \/ h[k][i] = s[k]
                                     \/ \E j \in 1 .. Len(h[k - 1]) : h[k][i] = h[k - 1][j]
    <3> DEFINE was == h[k - 1]
               x == s[k]
    <3>1. /\ was \in Seq(Exact(r)) /\ InOrder(was) /\ x \in Exact(r) /\ h[k] = PlaceSegment(was, x)
          /\ \A i \in 1 .. Len(was) : Disjoint(was[i], x)
      BY <2>1, <2>2, <2>3
    <3> HIDE DEF was, x
    <3>2. LET t == PlaceSegment(was, x) IN
          /\ t \in Seq(Exact(r)) /\ InOrder(t)
          /\ \A i \in 1 .. Len(t) : t[i] = x \/ \E j \in 1 .. Len(was) : t[i] = was[j]
      BY <3>1, PlaceSegmentIs
    <3> QED BY <3>1, <3>2 DEF was, x
  <2>5. ASSUME NEW i \in 1 .. Len(h[k])
        PROVE  \E j \in 1 .. k : h[k][i] = s[j]
    BY <2>1, <2>2, <2>4
  <2>6. Good(k)
    BY <2>4, <2>5
  <2> HIDE DEF Good
  <2> QED BY <2>1, <2>6
<1>5. Good(Len(s))
  <2>1. \A k \in 0 .. Len(s) : k \in P
    <3> HIDE DEF P
    <3> QED BY <1>2, <1>3, <1>4, UpTo
  <2>2. Len(s) \in 0 .. Len(s)
    BY <1>2
  <2> HIDE DEF Good
  <2> QED BY <2>1, <2>2
<1>6. h[Len(s)] = SortedSegments(s) /\ h[Len(s)] \in Seq(Exact(r))
  BY <1>1, <1>2
<1> QED BY <1>5, <1>6

\* A byte of one of some spans, and runs that end before the next begins.
In(x, spans) == \E i \in 1 .. Len(spans) : spans[i][1] <= x /\ x < spans[i][2]

Apart(runs) ==
  /\ \A i \in 1 .. Len(runs) : runs[i][1] < runs[i][2]
  /\ \A i, j \in 1 .. Len(runs) : i < j => runs[i][2] < runs[j][1]

\* A span merged into runs that are apart, none of which begins after it.
LEMMA MergeKeeps ==
  ASSUME NEW runs \in Seq(Span), Apart(runs), NEW s \in Span, s[1] < s[2],
         runs # <<>> => runs[Len(runs)][1] <= s[1]
  PROVE  LET t == Merge(runs, s) IN
         /\ t \in Seq(Span) /\ Apart(t) /\ Len(t) >= 1 /\ t[Len(t)][1] <= s[1]
         /\ \A x \in Nat : In(x, t) <=> In(x, runs) \/ (s[1] <= x /\ x < s[2])
<1> DEFINE n == Len(runs)
           t == Merge(runs, s)
<1>1. /\ n \in Nat /\ s[1] \in Nat /\ s[2] \in Nat /\ (runs = <<>> <=> n = 0)
      /\ \A i \in 1 .. n : runs[i][1] \in Nat /\ runs[i][2] \in Nat
  BY DEF Span
<1>2. t \in Seq(Span)
  BY MergeIs
<1>3. CASE n = 0 \/ s[1] > runs[n][2]
  <2>1. Len(t) = n + 1 /\ t[n + 1] = s /\ \A i \in 1 .. n : t[i] = runs[i]
    BY <1>3, MergeIs
  <2> HIDE DEF t
  <2>2. ASSUME NEW i \in 1 .. Len(t), NEW j \in 1 .. Len(t), i < j
        PROVE  t[i][2] < t[j][1]
    <3>1. i \in 1 .. n /\ t[i] = runs[i]
      BY <1>1, <2>1, <2>2
    <3>2. CASE j = n + 1
      <4>1. n # 0 /\ n \in 1 .. n
        BY <1>1, <3>1
      <4>2. runs[i][2] <= runs[n][2]
        <5>1. CASE i = n
          BY <1>1, <4>1, <5>1
        <5>2. CASE i < n
          <6>1. runs[i][2] < runs[n][1] /\ runs[n][1] < runs[n][2]
            BY <3>1, <4>1, <5>2 DEF Apart
          <6> QED BY <1>1, <3>1, <4>1, <6>1
        <5> QED BY <1>1, <3>1, <5>1, <5>2
      <4> QED BY <1>1, <1>3, <2>1, <3>1, <3>2, <4>1, <4>2
    <3>3. CASE j # n + 1
      <4>1. j \in 1 .. n
        BY <1>1, <2>1, <3>3
      <4> QED BY <2>1, <2>2, <3>1, <4>1 DEF Apart
    <3> QED BY <3>2, <3>3
  <2>3. ASSUME NEW i \in 1 .. Len(t)
        PROVE  t[i][1] < t[i][2]
    <3>1. i \in 1 .. n \/ i = n + 1
      BY <1>1, <2>1
    <3> QED BY <2>1, <3>1 DEF Apart
  <2>4. ASSUME NEW x \in Nat
        PROVE  In(x, t) <=> In(x, runs) \/ (s[1] <= x /\ x < s[2])
    <3>1. \A i \in 1 .. Len(t) : i \in 1 .. n \/ i = n + 1
      BY <1>1, <2>1
    <3>2. n + 1 \in 1 .. Len(t) /\ \A i \in 1 .. n : i \in 1 .. Len(t)
      BY <1>1, <2>1
    <3> QED BY <2>1, <3>1, <3>2 DEF In
  <2>5. Len(t) >= 1 /\ t[Len(t)] = s /\ s[1] <= s[1]
    BY <1>1, <2>1
  <2> QED BY <1>2, <2>2, <2>3, <2>4, <2>5 DEF Apart, t
<1>4. CASE n # 0 /\ s[1] <= runs[n][2]
  <2> DEFINE new == <<runs[n][1], Most(runs[n][2], s[2])>>
  <2>1. Len(t) = n /\ t[n] = new /\ \A i \in 1 .. (n - 1) : t[i] = runs[i]
    BY <1>4, MergeIs
  <2>2. n \in 1 .. n /\ runs[n][1] <= s[1] /\ \A i \in 1 .. n : i \in 1 .. (n - 1) \/ i = n
    BY <1>1, <1>4
  <2>3. /\ new[1] = runs[n][1] /\ new[2] \in Nat /\ new[2] >= runs[n][2] /\ new[2] >= s[2]
        /\ new[2] = runs[n][2] \/ new[2] = s[2]
    BY <1>1, <2>2 DEF Most
  <2> HIDE DEF t, new
  <2>4. ASSUME NEW i \in 1 .. Len(t), NEW j \in 1 .. Len(t), i < j
        PROVE  t[i][2] < t[j][1]
    <3>1. i \in 1 .. (n - 1) /\ t[i] = runs[i] /\ i \in 1 .. n /\ j \in 1 .. n
      BY <1>1, <2>1, <2>4
    <3>2. t[j][1] = runs[j][1]
      BY <2>1, <2>2, <2>3, <3>1
    <3> QED BY <2>4, <3>1, <3>2 DEF Apart
  <2>5. ASSUME NEW i \in 1 .. Len(t)
        PROVE  t[i][1] < t[i][2]
    <3>1. CASE i = n
      <4>1. runs[n][1] < runs[n][2]
        BY <2>2 DEF Apart
      <4> QED BY <1>1, <2>1, <2>2, <2>3, <3>1, <4>1
    <3>2. CASE i # n
      BY <2>1, <2>2, <3>2 DEF Apart
    <3> QED BY <3>1, <3>2
  <2>6. ASSUME NEW x \in Nat
        PROVE  In(x, t) <=> In(x, runs) \/ (s[1] <= x /\ x < s[2])
    <3>1. new[1] <= x /\ x < new[2]
            <=> (runs[n][1] <= x /\ x < runs[n][2]) \/ (s[1] <= x /\ x < s[2])
      BY <1>1, <1>4, <2>2, <2>3
    <3>2. \A i \in 1 .. (n - 1) : i \in 1 .. n
      BY <1>1
    <3>3. In(x, t) <=> (new[1] <= x /\ x < new[2])
                         \/ \E i \in 1 .. (n - 1) : runs[i][1] <= x /\ x < runs[i][2]
      BY <2>1, <2>2, <3>2 DEF In
    <3>4. In(x, runs) <=> (runs[n][1] <= x /\ x < runs[n][2])
                            \/ \E i \in 1 .. (n - 1) : runs[i][1] <= x /\ x < runs[i][2]
      BY <2>2, <3>2 DEF In
    <3> QED BY <3>1, <3>3, <3>4
  <2>7. Len(t) >= 1 /\ t[Len(t)][1] <= s[1]
    BY <1>1, <1>4, <2>1, <2>2, <2>3
  <2> QED BY <1>2, <2>4, <2>5, <2>6, <2>7 DEF Apart, t
<1>5. n # 0 => runs[n][2] \in Nat
  BY <1>1
<1> QED BY <1>1, <1>3, <1>4, <1>5

\* Normalizing leaves runs that are apart, of the same bytes.
LEMMA NormalizeIs ==
  ASSUME NEW spans \in Seq(Span), \A i \in 1 .. Len(spans) : spans[i][1] < spans[i][2]
  PROVE  LET runs == Normalize(spans) IN
         runs \in Seq(Span) /\ Apart(runs) /\ \A x \in Nat : In(x, runs) <=> In(x, spans)
<1> DEFINE s == SortedSpans(spans)
<1>1. /\ s \in Seq(Span) /\ Ascends(s)
      /\ \A i \in 1 .. Len(s) : \E j \in 1 .. Len(spans) : s[i] = spans[j]
      /\ \A j \in 1 .. Len(spans) : \E i \in 1 .. Len(s) : s[i] = spans[j]
  BY SortedSpansIs
<1>2. \A x : In(x, s) <=> In(x, spans)
  <2> HIDE DEF s
  <2> QED BY <1>1 DEF In
<1>3. Normalize(spans) = Merged(s)
  BY DEF Normalize
<1> HIDE DEF s
<1>4. Len(s) \in Nat /\ \A k \in 1 .. Len(s) : s[k] \in Span /\ s[k][1] \in Nat /\ s[k][2] \in Nat
                                               /\ s[k][1] < s[k][2]
  <2>1. ASSUME NEW k \in 1 .. Len(s)
        PROVE  s[k] \in Span /\ s[k][1] < s[k][2]
    <3>1. PICK j \in 1 .. Len(spans) : s[k] = spans[j]
      BY <1>1
    <3>2. spans[j] \in Span /\ spans[j][1] < spans[j][2]
      OBVIOUS
    <3> QED BY <3>1, <3>2
  <2>2. \A a \in Span : a[1] \in Nat /\ a[2] \in Nat
    BY DEF Span
  <2>3. Len(s) \in Nat
    BY <1>1
  <2> QED BY <2>1, <2>2, <2>3
<1>5. ASSUME NEW i \in 1 .. Len(s), NEW j \in 1 .. Len(s), i < j
      PROVE  s[i][1] <= s[j][1]
  <2>1. ~ Before(s[j], s[i])
    BY <1>1, <1>5 DEF Ascends
  <2>2. s[i][1] \in Nat /\ s[j][1] \in Nat
    BY <1>4
  <2> QED BY <2>1, <2>2 DEF Before
<1>6. PICK h : /\ h[0] = <<>> /\ h[Len(s)] = Merged(s)
               /\ \A k \in 1 .. Len(s) : h[k - 1] \in Seq(Span) /\ h[k] = Merge(h[k - 1], s[k])
               /\ \A k \in 0 .. Len(s) : h[k] \in Seq(Span)
  BY <1>1, Merges
<1> DEFINE Seen(x, k) == \E i \in 1 .. k : s[i][1] <= x /\ x < s[i][2]
           Good(k) ==
             /\ Apart(h[k])
             /\ h[k] # <<>> => k \in 1 .. Len(s) /\ h[k][Len(h[k])][1] <= s[k][1]
             /\ \A x \in Nat : In(x, h[k]) <=> Seen(x, k)
           P == {k \in 0 .. Len(s) : Good(k)}
<1>7. 0 \in P
  <2>1. Len(h[0]) = 0 /\ 0 \in 0 .. Len(s)
    BY <1>4, <1>6
  <2>2. Apart(h[0])
    BY <2>1 DEF Apart
  <2>3. \A x \in Nat : In(x, h[0]) <=> Seen(x, 0)
    BY <2>1 DEF In
  <2>4. Good(0)
    BY <1>6, <2>2, <2>3
  <2> HIDE DEF Good
  <2> QED BY <2>1, <2>4
<1>8. ASSUME NEW k \in 1 .. Len(s), k - 1 \in P
      PROVE  k \in P
  <2> DEFINE was == h[k - 1]
             x == s[k]
             t == Merge(was, x)
  <2>1. /\ was \in Seq(Span) /\ h[k] = t /\ x \in Span /\ x[1] < x[2]
        /\ k \in 0 .. Len(s)
        /\ Apart(was) /\ \A y \in Nat : In(y, was) <=> Seen(y, k - 1)
    BY <1>4, <1>6, <1>8
  <2>2. was # <<>> => was[Len(was)][1] <= x[1]
    <3> SUFFICES ASSUME was # <<>> PROVE was[Len(was)][1] <= x[1]
      OBVIOUS
    <3>1. k - 1 \in 1 .. Len(s) /\ was[Len(was)][1] <= s[k - 1][1]
      BY <1>8
    <3>2. s[k - 1][1] <= x[1] /\ s[k - 1][1] \in Nat /\ x[1] \in Nat
      <4>1. k - 1 < k
        OBVIOUS
      <4> QED BY <1>4, <1>5, <3>1, <4>1
    <3>3. was[Len(was)][1] \in Nat
      <4>1. Len(was) \in 1 .. Len(was)
        BY <2>1
      <4> QED BY <2>1, <4>1 DEF Span
    <3> HIDE DEF was, x
    <3> QED BY <3>1, <3>2, <3>3
  <2>3. /\ t \in Seq(Span) /\ Apart(t) /\ Len(t) >= 1 /\ t[Len(t)][1] <= x[1]
        /\ \A y \in Nat : In(y, t) <=> In(y, was) \/ (x[1] <= y /\ y < x[2])
    <3> HIDE DEF was, x
    <3> QED BY <2>1, <2>2, MergeKeeps
  <2>4. ASSUME NEW y \in Nat
        PROVE  Seen(y, k) <=> Seen(y, k - 1) \/ (x[1] <= y /\ y < x[2])
    <3>1. k \in 1 .. k /\ (\A i \in 1 .. (k - 1) : i \in 1 .. k)
          /\ \A i \in 1 .. k : i \in 1 .. (k - 1) \/ i = k
      BY <1>4
    <3> QED BY <3>1
  <2>5. Good(k)
    <3> HIDE DEF was, t, Seen
    <3> QED BY <2>1, <2>3, <2>4
  <2> HIDE DEF Good
  <2> QED BY <2>1, <2>5
<1>9. Good(Len(s))
  <2>1. \A k \in 0 .. Len(s) : k \in P
    <3> HIDE DEF P
    <3> QED BY <1>4, <1>7, <1>8, UpTo
  <2>2. Len(s) \in 0 .. Len(s)
    BY <1>4
  <2> HIDE DEF Good
  <2> QED BY <2>1, <2>2
<1>10. \A x \in Nat : In(x, h[Len(s)]) <=> In(x, s)
  BY <1>9 DEF In
<1>11. Len(s) \in 0 .. Len(s)
  BY <1>4
<1> HIDE DEF Good
<1>12. Apart(h[Len(s)])
  BY <1>9 DEF Good
<1> QED BY <1>2, <1>3, <1>6, <1>10, <1>11, <1>12

\* A span is covered if each of its bytes is in a run.
LEMMA CoversIs ==
  ASSUME NEW runs \in Seq(Span), Apart(runs), NEW from \in Nat, NEW to \in Nat
  PROVE  Covers(runs, from, to) <=> \A x \in Nat : from <= x /\ x < to => In(x, runs)
<1>1. /\ Len(runs) \in Nat /\ DOMAIN runs = 1 .. Len(runs)
      /\ \A i \in 1 .. Len(runs) : runs[i][1] \in Nat /\ runs[i][2] \in Nat
  BY DEF Span
<1>2. ASSUME Covers(runs, from, to), NEW x \in Nat, from <= x, x < to
      PROVE  In(x, runs)
  <2>1. PICK i \in 1 .. Len(runs) : runs[i][1] <= from /\ runs[i][2] >= to
    BY <1>1, <1>2 DEF Covers
  <2>2. runs[i][1] <= x /\ x < runs[i][2]
    BY <1>1, <1>2, <2>1
  <2> QED BY <2>2 DEF In
<1>3. ASSUME \A x \in Nat : from <= x /\ x < to => In(x, runs), from < to
      PROVE  Covers(runs, from, to)
  <2>1. PICK i \in 1 .. Len(runs) : runs[i][1] <= from /\ from < runs[i][2]
    BY <1>3 DEF In
  <2>2. ASSUME runs[i][2] < to
        PROVE  FALSE
    <3> DEFINE e == runs[i][2]
    <3>1. e \in Nat /\ from <= e /\ e < to
      BY <1>1, <2>1, <2>2
    <3>2. PICK j \in 1 .. Len(runs) : runs[j][1] <= e /\ e < runs[j][2]
      BY <1>3, <3>1 DEF In
    <3>3. CASE i < j
      <4>1. e < runs[j][1]
        BY <3>3 DEF Apart
      <4> QED BY <1>1, <3>1, <3>2, <4>1
    <3>4. CASE j < i
      <4>1. runs[j][2] < runs[i][1] /\ runs[i][1] < e
        BY <3>4 DEF Apart
      <4> QED BY <1>1, <3>1, <3>2, <4>1
    <3>5. CASE i = j
      BY <1>1, <3>2, <3>5
    <3> QED BY <3>3, <3>4, <3>5
  <2>3. runs[i][2] >= to
    BY <1>1, <2>2
  <2> QED BY <1>1, <2>1, <2>3 DEF Covers
<1>4. ~ (from < to) => Covers(runs, from, to)
  BY DEF Covers
<1> QED BY <1>2, <1>3, <1>4

(***************************************************************************)
(* What is missing, what is read and what is filled in.                    *)
(***************************************************************************)

\* Spans that no run has a byte of, one after the other.
Gaps(gaps, from, to, runs) ==
  /\ \A i \in 1 .. Len(gaps) : from <= gaps[i][1] /\ gaps[i][1] < gaps[i][2] /\ gaps[i][2] <= to
  /\ \A i, j \in 1 .. Len(gaps) : i < j => gaps[i][2] <= gaps[j][1]
  /\ \A i \in 1 .. Len(gaps), j \in 1 .. Len(runs) :
       gaps[i][2] <= runs[j][1] \/ runs[j][2] <= gaps[i][1]

\* A gap after the others.
LEMMA OneMoreGap ==
  ASSUME NEW gaps \in Seq(Span), NEW runs \in Seq(Span), NEW from \in Nat, NEW to \in Nat,
         Gaps(gaps, from, to, runs), NEW a \in Nat, NEW b \in Nat, from <= a, a < b, b <= to,
         \A i \in 1 .. Len(gaps) : gaps[i][2] <= a,
         \A j \in 1 .. Len(runs) : b <= runs[j][1] \/ runs[j][2] <= a
  PROVE  LET t == Append(gaps, <<a, b>>) IN
         t \in Seq(Span) /\ Gaps(t, from, to, runs) /\ \A i \in 1 .. Len(t) : t[i][2] <= b
<1> DEFINE n == Len(gaps)
           g == <<a, b>>
           t == Append(gaps, g)
<1>1. n \in Nat /\ \A i \in 1 .. n : gaps[i][1] \in Nat /\ gaps[i][2] \in Nat
  BY DEF Span
<1>2. g \in Span /\ g[1] = a /\ g[2] = b
  BY DEF Span
<1>3. t \in Seq(Span) /\ Len(t) = n + 1 /\ t[n + 1] = g /\ \A i \in 1 .. n : t[i] = gaps[i]
  <2> HIDE DEF g
  <2> QED BY <1>2, AppendProperties
<1>4. \A i \in 1 .. Len(t) : i \in 1 .. n \/ i = n + 1
  BY <1>1, <1>3
<1> HIDE DEF t, g
<1>5. \A i \in 1 .. Len(t) : from <= t[i][1] /\ t[i][1] < t[i][2] /\ t[i][2] <= to
  BY <1>2, <1>3, <1>4 DEF Gaps
<1>6. ASSUME NEW i \in 1 .. Len(t), NEW j \in 1 .. Len(t), i < j
      PROVE  t[i][2] <= t[j][1]
  <2>1. i \in 1 .. n /\ t[i] = gaps[i]
    BY <1>1, <1>3, <1>6
  <2>2. CASE j = n + 1
    BY <1>2, <1>3, <2>1, <2>2
  <2>3. CASE j \in 1 .. n
    BY <1>3, <1>6, <2>1, <2>3 DEF Gaps
  <2> QED BY <1>4, <2>2, <2>3
<1>7. ASSUME NEW i \in 1 .. Len(t), NEW j \in 1 .. Len(runs)
      PROVE  t[i][2] <= runs[j][1] \/ runs[j][2] <= t[i][1]
  <2>1. CASE i = n + 1
    BY <1>2, <1>3, <2>1
  <2>2. CASE i \in 1 .. n
    BY <1>3, <2>2 DEF Gaps
  <2> QED BY <1>4, <2>1, <2>2
<1>8. ASSUME NEW i \in 1 .. Len(t)
      PROVE  t[i][2] <= b
  <2>1. CASE i = n + 1
    BY <1>2, <1>3, <2>1
  <2>2. CASE i \in 1 .. n
    <3>1. gaps[i][2] <= a
      BY <2>2
    <3> QED BY <1>1, <1>3, <2>2, <3>1
  <2> QED BY <1>4, <2>1, <2>2
<1> QED BY <1>3, <1>5, <1>6, <1>7, <1>8 DEF Gaps, t, g

\* What Missing finds are gaps.
LEMMA MissingIs ==
  ASSUME NEW runs \in Seq(Span), Apart(runs), NEW from \in Nat, NEW to \in Nat
  PROVE  Missing(runs, from, to) \in Seq(Span) /\ Gaps(Missing(runs, from, to), from, to, runs)
<1>1. PICK h : WalksAll(h, runs, from, to)
  BY Leaves
<1>0. /\ h[0] = NoneWalked(from) /\ h[Len(runs)] = Walk(runs, from, to)
      /\ \A k \in 1 .. Len(runs) : h[k] = Leave(h[k - 1], runs[k], to)
      /\ \A k \in 0 .. Len(runs) : h[k] \in Walked
  BY <1>1 DEF WalksAll
<1>2. /\ Len(runs) \in Nat
      /\ \A k \in 1 .. Len(runs) : runs[k] \in Span
      /\ \A k \in 1 .. Len(runs) : runs[k][1] \in Nat /\ runs[k][2] \in Nat
  BY DEF Span
<1>3. \A k \in 1 .. Len(runs) : runs[k][1] < runs[k][2]
  BY DEF Apart
<1>4. ASSUME NEW i \in 1 .. Len(runs), NEW j \in 1 .. Len(runs), i <= j
      PROVE  runs[i][1] <= runs[j][1]
  <2>1. CASE i = j
    BY <1>2, <2>1
  <2>2. CASE i < j
    <3>1. runs[i][2] < runs[j][1] /\ runs[i][1] < runs[i][2]
      BY <2>2 DEF Apart
    <3> QED BY <1>2, <3>1
  <2> QED BY <1>4, <2>1, <2>2
<1> DEFINE Past(cursor, j) == runs[j][2] <= cursor \/ runs[j][1] >= to \/ cursor >= to
           Good(k) ==
             /\ Gaps(h[k].out, from, to, runs) /\ from <= h[k].cursor
             /\ \A i \in 1 .. Len(h[k].out) : h[k].out[i][2] <= h[k].cursor
             /\ \A j \in 1 .. k : Past(h[k].cursor, j)
           P == {k \in 0 .. Len(runs) : Good(k)}
<1>5. 0 \in P
  <2>1. h[0].out = <<>> /\ h[0].cursor = from /\ Len(<<>>) = 0 /\ 0 \in 0 .. Len(runs)
    BY <1>0, <1>2 DEF NoneWalked
  <2>2. Gaps(<<>>, from, to, runs)
    BY DEF Gaps
  <2>3. Good(0)
    BY <2>1, <2>2
  <2> HIDE DEF Good
  <2> QED BY <2>1, <2>3
<1>6. ASSUME NEW k \in 1 .. Len(runs), k - 1 \in P
      PROVE  k \in P
  <2> DEFINE w == h[k - 1]
             s == runs[k]
             v == Leave(w, s, to)
             c == w.cursor
             a == s[1]
             b == s[2]
  <2>1. /\ w \in Walked /\ h[k] = v /\ s \in Span /\ k \in 0 .. Len(runs)
        /\ \A j \in 1 .. k : j = k \/ j \in 1 .. (k - 1)
        /\ \A j \in 1 .. k : j \in 1 .. Len(runs)
    <3>1. k \in 0 .. Len(runs) /\ k - 1 \in 0 .. Len(runs)
          /\ \A j \in 1 .. k : (j = k \/ j \in 1 .. (k - 1)) /\ j \in 1 .. Len(runs)
      BY <1>2
    <3> QED BY <1>0, <1>2, <3>1
  <2>2. /\ Gaps(w.out, from, to, runs) /\ from <= c
        /\ \A i \in 1 .. Len(w.out) : w.out[i][2] <= c
        /\ \A j \in 1 .. (k - 1) : Past(c, j)
    BY <1>6
  <2>3. c \in Nat /\ a \in Nat /\ b \in Nat /\ w.out \in Seq(Span) /\ a < b
        /\ \A i \in 1 .. Len(w.out) : w.out[i][2] \in Nat
    <3>1. w.out \in Seq(Span) /\ c \in Nat
      BY <2>1 DEF Walked
    <3>2. a \in Nat /\ b \in Nat /\ a < b
      BY <1>2, <1>3
    <3> HIDE DEF w, a, b, c
    <3>3. \A i \in 1 .. Len(w.out) : w.out[i][2] \in Nat
      BY <3>1, SpansAre
    <3> QED BY <3>1, <3>2, <3>3
  <2>4. CASE b <= c \/ a >= to \/ c >= to
    <3>1. v = w
      <4> HIDE DEF w, s
      <4> QED BY <2>1, <2>4, LeaveIs
    <3>2. Past(c, k)
      BY <2>4
    <3>3. Good(k)
      <4>1. \A j \in 1 .. k : Past(c, j)
        <5> HIDE DEF Past
        <5> QED BY <2>1, <2>2, <3>2
      <4> HIDE DEF w, v, Past
      <4> QED BY <2>1, <2>2, <3>1, <4>1
    <3> HIDE DEF Good
    <3> QED BY <2>1, <3>3
  <2>5. CASE ~ (b <= c \/ a >= to \/ c >= to)
    <3>1. /\ v.cursor = b /\ a < to /\ c < to /\ c < b
          /\ IF a > c THEN v.out = Append(w.out, <<c, a>>) ELSE v.out = w.out
      <4>1. w \in Walked /\ s \in Span /\ ~ (s[2] <= w.cursor \/ s[1] >= to \/ w.cursor >= to)
        BY <2>1, <2>5
      <4> HIDE DEF w, s
      <4>2. /\ v.cursor = s[2] /\ s[1] < to /\ w.cursor < to /\ w.cursor < s[2]
            /\ IF s[1] > w.cursor THEN v.out = Append(w.out, <<w.cursor, s[1]>>)
               ELSE v.out = w.out
        BY <4>1, LeaveIs
      <4> QED BY <4>2
    <3>2. \A j \in 1 .. k : Past(b, j)
      <4> SUFFICES ASSUME NEW j \in 1 .. k PROVE Past(b, j)
        OBVIOUS
      <4>1. CASE j = k
        BY <2>3, <4>1
      <4>2. CASE j \in 1 .. (k - 1)
        <5>1. Past(c, j)
          BY <2>2, <4>2
        <5>2. runs[j][1] \in Nat /\ runs[j][2] \in Nat
          BY <1>2, <2>1
        <5> HIDE DEF a, b, c, s, v, w
        <5> QED BY <2>3, <3>1, <5>1, <5>2
      <4> QED BY <2>1, <4>1, <4>2
    <3>3. Gaps(v.out, from, to, runs) /\ \A i \in 1 .. Len(v.out) : v.out[i][2] <= b
      <4>1. CASE a > c
        <5>1. ASSUME NEW j \in 1 .. Len(runs)
              PROVE  a <= runs[j][1] \/ runs[j][2] <= c
          <6>1. CASE j < k
            <7>1. j \in 1 .. (k - 1)
              BY <6>1
            <7>2. runs[j][1] < runs[j][2] /\ runs[j][2] < a
              BY <1>3, <6>1 DEF Apart
            <7>3. runs[j][2] <= c \/ runs[j][1] >= to \/ c >= to
              BY <2>2, <7>1
            <7> HIDE DEF a, c, w, s
            <7> QED BY <1>2, <2>3, <3>1, <7>2, <7>3
          <6>2. CASE k <= j
            BY <1>4, <6>2
          <6> QED BY <1>2, <6>1, <6>2
        <5>2. from <= c /\ c < a /\ a <= to /\ v.out = Append(w.out, <<c, a>>)
          <6> HIDE DEF a, c, w, s, v
          <6> QED BY <2>2, <2>3, <3>1, <4>1
        <5> DEFINE o == w.out
        <5>3. o \in Seq(Span) /\ Gaps(o, from, to, runs) /\ \A i \in 1 .. Len(o) : o[i][2] <= c
          BY <2>2, <2>3
        <5>4. /\ Append(o, <<c, a>>) \in Seq(Span)
              /\ Gaps(Append(o, <<c, a>>), from, to, runs)
              /\ \A i \in 1 .. Len(Append(o, <<c, a>>)) : Append(o, <<c, a>>)[i][2] <= a
          <6> HIDE DEF o, a, c, s, w, v
          <6> QED BY <2>3, <5>1, <5>2, <5>3, OneMoreGap
        <5> DEFINE new == Append(o, <<c, a>>)
        <5>5. new \in Seq(Span) /\ Gaps(new, from, to, runs) /\ v.out = new
              /\ \A i \in 1 .. Len(new) : new[i][2] <= a
          BY <5>2, <5>4
        <5> HIDE DEF new, a, b, c, s, w, v
        <5>6. \A i \in 1 .. Len(new) : new[i][2] \in Nat
          BY <5>5, SpansAre
        <5>7. \A i \in 1 .. Len(new) : new[i][2] <= b
          BY <2>3, <5>5, <5>6
        <5> QED BY <5>5, <5>7
      <4>2. CASE ~ (a > c)
        <5>1. v.out = w.out
          BY <3>1, <4>2
        <5> DEFINE o == w.out
        <5>2. /\ v.out = o /\ Gaps(o, from, to, runs) /\ c < b /\ c \in Nat /\ b \in Nat
              /\ \A i \in 1 .. Len(o) : o[i][2] <= c /\ o[i][2] \in Nat
          BY <2>2, <2>3, <3>1, <5>1
        <5> HIDE DEF a, b, c, o, s, v, w
        <5> QED BY <5>2
      <4> QED BY <4>1, <4>2
    <3>4. Good(k)
      <4>1. from <= b
        <5> HIDE DEF a, b, c, s, w, v
        <5> QED BY <2>2, <2>3, <3>1
      <4> HIDE DEF v, Past, b
      <4> QED BY <2>1, <3>1, <3>2, <3>3, <4>1
    <3> HIDE DEF Good
    <3> QED BY <2>1, <3>4
  <2> QED BY <2>4, <2>5
<1>7. Good(Len(runs)) /\ Len(runs) \in 0 .. Len(runs)
  <2>1. \A k \in 0 .. Len(runs) : k \in P
    <3> HIDE DEF P
    <3> QED BY <1>2, <1>5, <1>6, UpTo
  <2>2. Len(runs) \in 0 .. Len(runs)
    BY <1>2
  <2> HIDE DEF Good
  <2> QED BY <2>1, <2>2
<1> DEFINE w == h[Len(runs)]
           c == w.cursor
           o == w.out
<1>8. /\ w = Walk(runs, from, to) /\ c \in Nat /\ o \in Seq(Span) /\ from <= c
      /\ Gaps(o, from, to, runs)
      /\ \A i \in 1 .. Len(o) : o[i][2] <= c
      /\ \A j \in 1 .. Len(runs) : runs[j][2] <= c \/ runs[j][1] >= to \/ c >= to
  <2>1. h[Len(runs)] \in Walked /\ h[Len(runs)] = Walk(runs, from, to)
    BY <1>0, <1>7
  <2> QED BY <1>7, <2>1 DEF Walked
<1>9. Missing(runs, from, to) = IF c < to THEN Append(o, <<c, to>>) ELSE o
  BY <1>8 DEF Missing
<1> HIDE DEF w, c, o
<1>10. CASE c < to
  <2>1. /\ Append(o, <<c, to>>) \in Seq(Span)
        /\ Gaps(Append(o, <<c, to>>), from, to, runs)
    <3>1. \A j \in 1 .. Len(runs) : to <= runs[j][1] \/ runs[j][2] <= c
      BY <1>2, <1>8, <1>10
    <3>2. to <= to
      OBVIOUS
    <3> QED BY <1>8, <1>10, <3>1, <3>2, OneMoreGap
  <2> QED BY <1>9, <1>10, <2>1
<1>11. CASE ~ (c < to)
  BY <1>8, <1>9, <1>11
<1> QED BY <1>10, <1>11

\* A byte of a segment.
Held(x, segments) == \E i \in 1 .. Len(segments) : segments[i].start <= x /\ x < segments[i].end

\* What is read of a part that is held is that part.
LEMMA ReadSpanIs ==
  ASSUME NEW r \in Reps, NEW entry, entry.segments \in Seq(Exact(r)), InOrder(entry.segments),
         NEW from \in Nat, NEW to \in Nat, from <= to, to <= Length[r],
         \A x \in Nat : from <= x /\ x < to => Held(x, entry.segments)
  PROVE  ReadSpan(entry, from, to).bytes = SubSeq(Whole(r), from + 1, to)
<1> DEFINE segs == entry.segments
<1>1. PICK h : ReadsAll(h, segs, r, from, to)
  <2>1. segs \in Seq(Exact(r))
    OBVIOUS
  <2> HIDE DEF segs
  <2> QED BY <2>1, ReadsSteps
<1>0. /\ h[0] = NoneRead(from) /\ h[Len(segs)] = ReadAll(segs, from, to)
      /\ \A k \in 1 .. Len(segs) : h[k] = ReadOn(h[k - 1], segs[k], to)
      /\ \A k \in 0 .. Len(segs) : h[k] \in ReadSoFar(r)
  BY <1>1 DEF ReadsAll
<1>2. ReadSpan(entry, from, to) = h[Len(segs)]
  BY <1>0 DEF ReadSpan
<1>3. /\ Len(segs) \in Nat /\ Length[r] \in Nat
      /\ \A k \in 1 .. Len(segs) : segs[k] \in Exact(r)
      /\ \A i, j \in 1 .. Len(segs) : i < j => segs[i].end <= segs[j].start
      /\ \A x \in Nat : from <= x /\ x < to => Held(x, segs)
  BY WholeIs DEF InOrder
<1> HIDE DEF segs
<1>4. \A k \in 1 .. Len(segs) : /\ segs[k].start \in Nat /\ segs[k].end \in Nat
                                 /\ segs[k].start < segs[k].end
  <2>1. \A s \in Exact(r) : s.start \in Nat /\ s.end \in Nat /\ s.start < s.end
    BY DEF Exact
  <2> QED BY <1>3, <2>1
<1> DEFINE Past(c, j) == c >= to \/ ~ (segs[j].start <= c /\ c < segs[j].end)
           Good(k) ==
             /\ from <= h[k].cursor /\ h[k].cursor <= to
             /\ h[k].bytes = SubSeq(Whole(r), from + 1, h[k].cursor)
             /\ \A j \in 1 .. k : Past(h[k].cursor, j)
           P == {k \in 0 .. Len(segs) : Good(k)}
<1>5. 0 \in P
  <2>1. h[0].bytes = <<>> /\ h[0].cursor = from /\ 0 \in 0 .. Len(segs)
    BY <1>0, <1>3 DEF NoneRead
  <2>2. SubSeq(Whole(r), from + 1, from) = <<>>
    <3>1. from + 1 \in Int /\ from \in Int /\ from < from + 1
      OBVIOUS
    <3> QED BY <3>1, SubSeqEmpty
  <2>3. Good(0)
    BY <2>1, <2>2
  <2> HIDE DEF Good
  <2> QED BY <2>1, <2>3
<1>6. ASSUME NEW k \in 1 .. Len(segs), k - 1 \in P
      PROVE  k \in P
  <2> DEFINE v == h[k - 1]
             s == segs[k]
             u == ReadOn(v, s, to)
             c == v.cursor
             d == u.cursor
             a == s.start
             b == s.end
  <2>1. /\ v \in ReadSoFar(r) /\ h[k] = u /\ s \in Exact(r)
        /\ k \in 0 .. Len(segs)
        /\ \A j \in 1 .. k : j = k \/ j \in 1 .. (k - 1)
        /\ \A j \in 1 .. k : j \in 1 .. Len(segs)
    <3>1. k \in 0 .. Len(segs) /\ k - 1 \in 0 .. Len(segs)
          /\ \A j \in 1 .. k : (j = k \/ j \in 1 .. (k - 1)) /\ j \in 1 .. Len(segs)
      BY <1>3
    <3> QED BY <1>0, <1>3, <3>1
  <2>2. /\ from <= c /\ c <= to /\ v.bytes = SubSeq(Whole(r), from + 1, c)
        /\ \A j \in 1 .. (k - 1) : Past(c, j)
    BY <1>6
  <2>3. c \in Nat /\ a \in Nat /\ b \in Nat /\ a < b
    BY <1>4, <2>1 DEF ReadSoFar
  <2>4. CASE b <= c \/ a > c \/ c >= to
    <3>1. u = v
      <4> HIDE DEF v, s
      <4> QED BY <2>4 DEF ReadOn
    <3>2. Past(c, k)
      BY <2>3, <2>4
    <3>3. \A j \in 1 .. k : Past(c, j)
      <4> HIDE DEF Past
      <4> QED BY <2>1, <2>2, <3>2
    <3>4. Good(k)
      <4> HIDE DEF v, u, Past
      <4> QED BY <2>1, <2>2, <3>1, <3>3
    <3> HIDE DEF Good
    <3> QED BY <2>1, <3>4
  <2>5. CASE ~ (b <= c \/ a > c \/ c >= to)
    <3>1. /\ d = Least(to, b) /\ a <= c /\ c < d /\ d <= b
          /\ u.bytes = v.bytes \o SubSeq(Whole(r), c + 1, d)
      <4>1. c < b /\ a <= c /\ c < to
        <5> HIDE DEF c, a, b
        <5> QED BY <2>3, <2>5
      <4> HIDE DEF v, s
      <4> DEFINE e == Least(to, s.end)
      <4>2. /\ u = [cursor |-> e, bytes |-> v.bytes \o Part(r, v.cursor, e)]
            /\ v.cursor < e /\ e <= s.end
        BY <2>1, <4>1, ReadOnGoes
      <4> HIDE DEF u, e
      <4>3. u.cursor = e /\ u.bytes = v.bytes \o Part(r, v.cursor, e)
        BY <4>2
      <4> QED BY <4>1, <4>2, <4>3 DEF e, Part
    <3>2. d \in Nat /\ d <= to /\ (d = to \/ d = b)
      <4> HIDE DEF v, s, u, b
      <4> QED BY <2>3, <3>1 DEF Least
    <3>3. u.bytes = SubSeq(Whole(r), from + 1, d)
      <4> HIDE DEF c, d
      <4>1. from <= c /\ c <= d /\ d <= Length[r] /\ c \in Nat /\ d \in Nat
        <5>1. from <= c /\ c \in Nat /\ d \in Nat /\ c < d /\ d <= to /\ Length[r] \in Nat
          BY <1>3, <2>2, <2>3, <3>1, <3>2
        <5> QED BY <5>1
      <4>2. SubSeq(Whole(r), from + 1, c) \o SubSeq(Whole(r), c + 1, d)
              = SubSeq(Whole(r), from + 1, d)
        BY <4>1, PartThenPart
      <4> QED BY <2>2, <3>1, <4>2
    <3>4. ASSUME NEW j \in 1 .. k
          PROVE  Past(d, j)
      <4>1. CASE j = k
        <5> HIDE DEF c, d, u, v
        <5> QED BY <2>3, <3>2, <4>1
      <4>2. CASE j \in 1 .. (k - 1)
        <5>1. segs[j].end <= a /\ segs[j].end \in Nat
          BY <1>3, <1>4, <2>1, <4>2
        <5>2. ~ (d < segs[j].end)
          <6> HIDE DEF c, d, u, v, a, b, s
          <6> QED BY <2>3, <3>1, <3>2, <5>1
        <5> HIDE DEF c, d, u, v, a, b, s
        <5> QED BY <5>2
      <4> QED BY <2>1, <4>1, <4>2
    <3>5. from <= d
      <4> HIDE DEF c, d, u, v, a, b, s
      <4> QED BY <2>2, <2>3, <3>1, <3>2
    <3>6. Good(k)
      <4> HIDE DEF v, Past, s
      <4>1. h[k] = u /\ h[k].cursor = d
        BY <2>1
      <4> QED BY <3>2, <3>3, <3>4, <3>5, <4>1
    <3> HIDE DEF Good
    <3> QED BY <2>1, <3>6
  <2> QED BY <2>4, <2>5
<1>7. Good(Len(segs)) /\ Len(segs) \in 0 .. Len(segs)
  <2>1. \A k \in 0 .. Len(segs) : k \in P
    <3> HIDE DEF P
    <3> QED BY <1>3, <1>5, <1>6, UpTo
  <2>2. Len(segs) \in 0 .. Len(segs)
    BY <1>3
  <2> HIDE DEF Good
  <2> QED BY <2>1, <2>2
<1> DEFINE w == h[Len(segs)]
           c == w.cursor
<1>8. c \in Nat /\ from <= c /\ c <= to /\ w.bytes = SubSeq(Whole(r), from + 1, c)
  <2>1. w \in ReadSoFar(r)
    BY <1>0, <1>7
  <2> QED BY <1>7, <2>1 DEF ReadSoFar
<1>9. \A j \in 1 .. Len(segs) : Past(c, j)
  BY <1>7
<1>10. c = to
  <2> SUFFICES ASSUME c < to PROVE FALSE
    <3> HIDE DEF c
    <3> QED BY <1>8
  <2>1. PICK j \in 1 .. Len(segs) : segs[j].start <= c /\ c < segs[j].end
    <3> HIDE DEF c
    <3> QED BY <1>3, <1>8 DEF Held
  <2> HIDE DEF c
  <2> QED BY <1>8, <1>9, <2>1
<1> QED BY <1>2, <1>8, <1>10

\* An entry's coverage has the bytes that its segments have.
LEMMA CoverageIs ==
  ASSUME NEW r \in Reps, NEW entry, entry.segments \in Seq(Exact(r))
  PROVE  /\ Coverage(entry) \in Seq(Span) /\ Apart(Coverage(entry))
         /\ \A x \in Nat : In(x, Coverage(entry)) <=> Held(x, entry.segments)
<1> DEFINE segs == entry.segments
           spans == Spans(entry)
<1>1. \A s \in Exact(r) : s.start \in Nat /\ s.end \in Nat /\ s.start < s.end
  BY DEF Exact
<1>2. /\ Len(segs) \in Nat /\ DOMAIN segs = 1 .. Len(segs)
      /\ \A i \in 1 .. Len(segs) : segs[i].start \in Nat /\ segs[i].end \in Nat
                                   /\ segs[i].start < segs[i].end
  BY <1>1
<1>3. spans = [i \in 1 .. Len(segs) |-> <<segs[i].start, segs[i].end>>]
  BY <1>2 DEF Spans
<1> HIDE DEF segs, spans
<1>4. spans \in [1 .. Len(segs) -> Span]
  BY <1>2, <1>3 DEF Span
<1>5. spans \in Seq(Span) /\ Len(spans) = Len(segs)
  BY <1>2, <1>4
<1>6. \A i \in 1 .. Len(segs) : spans[i][1] = segs[i].start /\ spans[i][2] = segs[i].end
  BY <1>3
<1>7. \A i \in 1 .. Len(spans) : spans[i][1] < spans[i][2]
  BY <1>2, <1>5, <1>6
<1>8. \A x \in Nat : In(x, spans) <=> Held(x, segs)
  BY <1>5, <1>6 DEF In, Held
<1>9. LET runs == Normalize(spans) IN
      runs \in Seq(Span) /\ Apart(runs) /\ \A x \in Nat : In(x, runs) <=> In(x, spans)
  BY <1>5, <1>7, NormalizeIs
<1> QED BY <1>8, <1>9 DEF Coverage, spans, segs

\* Coverage covers a span if a segment has each of its bytes.
LEMMA CoverageCovers ==
  ASSUME NEW r \in Reps, NEW entry, entry.segments \in Seq(Exact(r)),
         NEW from \in Nat, NEW to \in Nat
  PROVE  Covers(Coverage(entry), from, to)
           <=> \A x \in Nat : from <= x /\ x < to => Held(x, entry.segments)
<1> DEFINE runs == Coverage(entry)
<1>1. /\ runs \in Seq(Span) /\ Apart(runs)
      /\ \A x \in Nat : In(x, runs) <=> Held(x, entry.segments)
  BY CoverageIs
<1> HIDE DEF runs
<1>2. Covers(runs, from, to) <=> \A x \in Nat : from <= x /\ x < to => In(x, runs)
  BY <1>1, CoversIs
<1> QED BY <1>1, <1>2 DEF runs

\* A gap has no byte of a segment.
LEMMA GapsAreApart ==
  ASSUME NEW r \in Reps, NEW entry, entry.segments \in Seq(Exact(r)),
         NEW from \in Nat, NEW to \in Nat
  PROVE  LET gaps == Missing(Coverage(entry), from, to) IN
         /\ gaps \in Seq(Span)
         /\ \A i \in 1 .. Len(gaps) :
              from <= gaps[i][1] /\ gaps[i][1] < gaps[i][2] /\ gaps[i][2] <= to
         /\ \A i, j \in 1 .. Len(gaps) : i < j => gaps[i][2] <= gaps[j][1]
         /\ \A i \in 1 .. Len(gaps), j \in 1 .. Len(entry.segments) :
              \/ gaps[i][2] <= entry.segments[j].start
              \/ entry.segments[j].end <= gaps[i][1]
<1> DEFINE runs == Coverage(entry)
           gaps == Missing(runs, from, to)
           segs == entry.segments
<1>1. runs \in Seq(Span) /\ Apart(runs)
  BY CoverageIs
<1>2. gaps \in Seq(Span) /\ Gaps(gaps, from, to, runs)
  <2> HIDE DEF runs
  <2> QED BY <1>1, MissingIs
<1> HIDE DEF gaps
<1>3. ASSUME NEW i \in 1 .. Len(gaps), NEW j \in 1 .. Len(segs)
      PROVE  gaps[i][2] <= segs[j].start \/ segs[j].end <= gaps[i][1]
  <2> DEFINE a == segs[j].start
             b == segs[j].end
  <2>1. a \in Nat /\ b \in Nat /\ a < b
    <3>1. \A s \in Exact(r) : s.start \in Nat /\ s.end \in Nat /\ s.start < s.end
      BY DEF Exact
    <3>2. segs[j] \in Exact(r)
      OBVIOUS
    <3> QED BY <3>1, <3>2
  <2>2. \A x \in Nat : a <= x /\ x < b => Held(x, segs)
    BY DEF Held
  <2>3. Covers(runs, a, b)
    <3> HIDE DEF a, b
    <3> QED BY <2>1, <2>2, CoverageCovers
  <2> HIDE DEF a, b, runs
  <2>4. PICK k \in 1 .. Len(runs) : runs[k][1] <= a /\ runs[k][2] >= b
    BY <1>1, <2>1, <2>3 DEF Covers
  <2>5. gaps[i][2] <= runs[k][1] \/ runs[k][2] <= gaps[i][1]
    BY <1>2 DEF Gaps
  <2>6. /\ runs[k][1] \in Nat /\ runs[k][2] \in Nat
        /\ gaps[i][1] \in Nat /\ gaps[i][2] \in Nat
    BY <1>1, <1>2, SpansAre
  <2> DEFINE c == runs[k][1]
             d == runs[k][2]
             e == gaps[i][1]
             f == gaps[i][2]
  <2>7. f <= a \/ b <= e
    <3>1. /\ a \in Nat /\ b \in Nat /\ c \in Nat /\ d \in Nat /\ e \in Nat /\ f \in Nat
          /\ c <= a /\ d >= b /\ (f <= c \/ d <= e)
      BY <2>1, <2>4, <2>5, <2>6
    <3> HIDE DEF c, d, e, f
    <3> QED BY <3>1
  <2> QED BY <2>7 DEF a, b
<1> HIDE DEF runs
<1>4. /\ \A i \in 1 .. Len(gaps) : from <= gaps[i][1] /\ gaps[i][1] < gaps[i][2] /\ gaps[i][2] <= to
      /\ \A i, j \in 1 .. Len(gaps) : i < j => gaps[i][2] <= gaps[j][1]
  BY <1>2 DEF Gaps
<1> QED BY <1>2, <1>3, <1>4 DEF gaps, runs

\* What is filled in is exact, and in order.
LEMMA FilledIs ==
  ASSUME NEW r \in Reps, NEW entry, entry.segments \in Seq(Exact(r)), InOrder(entry.segments),
         NEW range, NEW sent \in Nat, range.first \in Nat, HalfOpen(range)[2] \in Nat,
         range.first + sent <= Length[r], HalfOpen(range)[2] <= range.first + sent
  PROVE  LET body == SubSeq(Whole(r), range.first + 1, range.first + sent) IN
         Filled(entry, range, body) \in Seq(Exact(r)) /\ InOrder(Filled(entry, range, body))
<1> DEFINE first == range.first
           to == HalfOpen(range)[2]
           body == SubSeq(Whole(r), first + 1, first + sent)
           gaps == Missing(Coverage(entry), first, to)
           slice(g) == [start |-> g[1], end |-> g[2],
                        bytes |-> SubSeq(body, g[1] - first + 1, g[2] - first)]
           new == [i \in DOMAIN gaps |-> slice(gaps[i])]
           segs == entry.segments
           all == segs \o new
<1>1. Filled(entry, range, body) = SortedSegments(all)
  BY DEF Filled
<1>2. first \in Nat /\ to \in Nat /\ first + sent <= Length[r] /\ to <= first + sent
      /\ Length[r] \in Nat /\ segs \in Seq(Exact(r)) /\ InOrder(segs)
  BY WholeIs
<1> HIDE DEF first, to
<1>3. /\ gaps \in Seq(Span)
      /\ \A i \in 1 .. Len(gaps) :
           first <= gaps[i][1] /\ gaps[i][1] < gaps[i][2] /\ gaps[i][2] <= to
      /\ \A i, j \in 1 .. Len(gaps) : i < j => gaps[i][2] <= gaps[j][1]
      /\ \A i \in 1 .. Len(gaps), j \in 1 .. Len(segs) :
           gaps[i][2] <= segs[j].start \/ segs[j].end <= gaps[i][1]
  BY <1>2, GapsAreApart
<1> HIDE DEF gaps, segs
<1>4. /\ Len(gaps) \in Nat /\ DOMAIN gaps = 1 .. Len(gaps) /\ Len(segs) \in Nat
      /\ \A i \in 1 .. Len(gaps) : gaps[i][1] \in Nat /\ gaps[i][2] \in Nat
  BY <1>2, <1>3, SpansAre
<1>5. ASSUME NEW i \in 1 .. Len(gaps)
      PROVE  slice(gaps[i]) \in Exact(r) /\ slice(gaps[i]).start = gaps[i][1]
             /\ slice(gaps[i]).end = gaps[i][2]
  <2> DEFINE a == gaps[i][1]
             b == gaps[i][2]
             e == first + sent
             part == SubSeq(body, a - first + 1, b - first)
  <2>1. a \in Nat /\ b \in Nat /\ first <= a /\ a < b /\ b <= e /\ e <= Length[r] /\ e \in Nat
        /\ b <= Length[r] /\ a <= b
    <3>1. a \in Nat /\ b \in Nat /\ first <= a /\ a < b /\ b <= to
      BY <1>3, <1>4
    <3>2. e \in Nat /\ to <= e /\ e <= Length[r] /\ to \in Nat /\ Length[r] \in Nat
      BY <1>2
    <3> HIDE DEF a, b, e
    <3> QED BY <3>1, <3>2
  <2>2. body = SubSeq(Whole(r), first + 1, e)
    OBVIOUS
  <2> HIDE DEF a, b, e, body
  <2>3. part = SubSeq(Whole(r), a + 1, b)
    <3>1. SubSeq(SubSeq(Whole(r), first + 1, e), a - first + 1, b - first)
            = SubSeq(Whole(r), a + 1, b)
      BY <1>2, <2>1, PartOfPart
    <3> QED BY <2>2, <3>1
  <2>4. SubSeq(Whole(r), a + 1, b) \in Seq(Bytes(r))
    BY <2>1, PartIs
  <2> HIDE DEF part
  <2>5. [start |-> a, end |-> b, bytes |-> part] \in Exact(r)
    BY <2>1, <2>3, <2>4 DEF Exact
  <2>6. slice(gaps[i]) = [start |-> a, end |-> b, bytes |-> part]
    BY DEF a, b, part
  <2> HIDE DEF slice
  <2>7. slice(gaps[i]).start = a /\ slice(gaps[i]).end = b
    BY <2>6
  <2> QED BY <2>5, <2>6, <2>7 DEF a, b
<1> HIDE DEF slice, body
<1>6. new \in [1 .. Len(gaps) -> Exact(r)] /\ \A i \in 1 .. Len(gaps) : new[i] = slice(gaps[i])
  BY <1>4, <1>5
<1>7. new \in Seq(Exact(r)) /\ Len(new) = Len(gaps)
  <2> DEFINE n == Len(gaps)
             X == Exact(r)
  <2>1. n \in Nat /\ new \in [1 .. n -> X]
    BY <1>4, <1>6
  <2> HIDE DEF new, n, X
  <2>2. new \in Seq(X) /\ Len(new) = n
    BY <2>1
  <2> QED BY <2>2 DEF n, X
<1>8. \A i \in 1 .. Len(gaps) : new[i].start = gaps[i][1] /\ new[i].end = gaps[i][2]
  <2> HIDE DEF new
  <2> QED BY <1>5, <1>6
<1> HIDE DEF new
<1>9. /\ all \in Seq(Exact(r)) /\ Len(all) = Len(segs) + Len(gaps)
      /\ \A i \in 1 .. Len(segs) + Len(gaps) :
           all[i] = IF i <= Len(segs) THEN segs[i] ELSE new[i - Len(segs)]
  <2>1. /\ all \in Seq(Exact(r)) /\ Len(all) = Len(segs) + Len(new)
        /\ \A i \in 1 .. Len(segs) + Len(new) :
             all[i] = IF i <= Len(segs) THEN segs[i] ELSE new[i - Len(segs)]
    BY <1>2, <1>7, ConcatProperties
  <2> HIDE DEF all
  <2> QED BY <1>7, <2>1
<1> HIDE DEF all
<1>10. ASSUME NEW i \in 1 .. Len(all), NEW j \in 1 .. Len(all), i < j
       PROVE  Disjoint(all[i], all[j])
  <2>1. CASE j <= Len(segs)
    <3>1. i \in 1 .. Len(segs) /\ j \in 1 .. Len(segs) /\ all[i] = segs[i] /\ all[j] = segs[j]
      BY <1>4, <1>9, <1>10, <2>1
    <3> QED BY <1>2, <1>10, <3>1 DEF InOrder, Disjoint
  <2>2. CASE i <= Len(segs) /\ j > Len(segs)
    <3> DEFINE k == j - Len(segs)
    <3>1. /\ i \in 1 .. Len(segs) /\ k \in 1 .. Len(gaps) /\ ~ (j <= Len(segs))
          /\ i \in 1 .. Len(segs) + Len(gaps) /\ j \in 1 .. Len(segs) + Len(gaps)
      BY <1>4, <1>9, <1>10, <2>2
    <3>2. all[i] = segs[i] /\ all[j] = new[k]
      BY <1>9, <2>2, <3>1
    <3> HIDE DEF k
    <3> QED BY <1>3, <1>8, <3>1, <3>2 DEF Disjoint
  <2>3. CASE i > Len(segs)
    <3> DEFINE k == j - Len(segs)
               l == i - Len(segs)
    <3>1. /\ l \in 1 .. Len(gaps) /\ k \in 1 .. Len(gaps) /\ l < k
          /\ ~ (i <= Len(segs)) /\ ~ (j <= Len(segs))
          /\ i \in 1 .. Len(segs) + Len(gaps) /\ j \in 1 .. Len(segs) + Len(gaps)
      BY <1>4, <1>9, <1>10, <2>3
    <3>2. all[i] = new[l] /\ all[j] = new[k]
      BY <1>9, <3>1
    <3> HIDE DEF k, l
    <3>3. gaps[l][2] <= gaps[k][1]
      BY <1>3, <3>1
    <3> QED BY <1>8, <3>1, <3>2, <3>3 DEF Disjoint
  <2> QED BY <1>4, <2>1, <2>2, <2>3
<1>11. SortedSegments(all) \in Seq(Exact(r)) /\ InOrder(SortedSegments(all))
  BY <1>9, <1>10, SortedSegmentsIs
<1> QED BY <1>1, <1>11 DEF body, first

(***************************************************************************)
(* What every store keeps.                                                 *)
(***************************************************************************)

\* What is held is of one representation, each byte in its place, and whole once nothing is
\* missing.
Of(entry, r) ==
  /\ entry.tag = Tag[r] /\ entry.modified = Modified[r]
  /\ entry.total \in {Unsaid, Length[r]} /\ entry.whole \in BOOLEAN
  /\ entry.segments \in Seq(Exact(r)) /\ InOrder(entry.segments)
  /\ entry.whole =>
       entry.total = Length[r] /\ \A x \in Nat : x < Length[r] => Held(x, entry.segments)
  /\ entry.total # Unsaid /\ (\A x \in Nat : x < Length[r] => Held(x, entry.segments))
       => entry.whole

RangesInv == partial = NoPartial \/ \E r \in Reps : Of(partial, r)

\* All of a representation, in one segment.
LEMMA WholeSegment ==
  ASSUME NEW r \in Reps, NEW bytes, bytes = SubSeq(Whole(r), 0 + 1, Length[r])
  PROVE  LET segs == <<[start |-> 0, end |-> Length[r], bytes |-> bytes]>> IN
         /\ segs \in Seq(Exact(r)) /\ InOrder(segs)
         /\ \A x \in Nat : x < Length[r] => Held(x, segs)
<1> DEFINE s == [start |-> 0, end |-> Length[r], bytes |-> bytes]
           segs == <<s>>
<1>1. Length[r] \in Nat /\ 0 < Length[r] /\ 0 <= Length[r] /\ 0 \in Nat /\ Length[r] <= Length[r]
  BY WholeIs
<1>2. bytes \in Seq(Bytes(r))
  BY <1>1, PartIs
<1>3. s \in Exact(r)
  BY <1>1, <1>2 DEF Exact
<1>4. s.start = 0 /\ s.end = Length[r]
  OBVIOUS
<1> HIDE DEF s
<1>5. segs \in Seq(Exact(r)) /\ Len(segs) = 1 /\ segs[1] = s
  BY <1>3
<1> HIDE DEF segs
<1>6. InOrder(segs)
  BY <1>5 DEF InOrder
<1>7. ASSUME NEW x \in Nat, x < Length[r]
      PROVE  Held(x, segs)
  <2>1. 1 \in 1 .. Len(segs) /\ segs[1].start <= x /\ x < segs[1].end
    BY <1>1, <1>4, <1>5, <1>7
  <2> QED BY <2>1 DEF Held
<1> QED BY <1>5, <1>6, <1>7 DEF segs, s

\* A body stored whole.
LEMMA StoreWholeKeeps ==
  ASSUME StoreWhole
  PROVE  RangesInv'
<1>1. PICK r \in Reps :
        partial' = [tag |-> Tag[r], modified |-> Modified[r], total |-> Length[r], whole |-> TRUE,
                    segments |-> <<[start |-> 0, end |-> Length[r], bytes |-> Whole(r)]>>]
  BY DEF StoreWhole
<1> DEFINE segs == <<[start |-> 0, end |-> Length[r], bytes |-> Whole(r)]>>
<1>2. Whole(r) = SubSeq(Whole(r), 0 + 1, Length[r])
  <2>1. Whole(r) \in Seq(Bytes(r)) /\ Len(Whole(r)) = Length[r] /\ 0 + 1 = 1
    BY WholeIs
  <2> QED BY <2>1, SubSeqFull
<1>3. /\ segs \in Seq(Exact(r)) /\ InOrder(segs)
      /\ \A x \in Nat : x < Length[r] => Held(x, segs)
  BY <1>2, WholeSegment
<1>4. /\ partial'.tag = Tag[r] /\ partial'.modified = Modified[r] /\ partial'.total = Length[r]
      /\ partial'.whole = TRUE /\ partial'.segments = segs
  BY <1>1
<1> HIDE DEF segs
<1>5. Of(partial', r)
  BY <1>3, <1>4 DEF Of
<1> QED BY <1>5 DEF RangesInv

\* What was missing nothing is made whole.
LEMMA CompletedIs ==
  ASSUME NEW r \in Reps, NEW total \in {Unsaid, Length[r]},
         NEW segments \in Seq(Exact(r)), InOrder(segments)
  PROVE  Of(Completed([tag |-> Tag[r], modified |-> Modified[r], total |-> total, whole |-> FALSE,
                       segments |-> segments]), r)
<1> DEFINE entry == [tag |-> Tag[r], modified |-> Modified[r], total |-> total, whole |-> FALSE,
                     segments |-> segments]
           all == \A x \in Nat : x < Length[r] => Held(x, segments)
           bytes == ReadSpan(entry, 0, Length[r]).bytes
           segs == <<[start |-> 0, end |-> Length[r], bytes |-> bytes]>>
           made == [entry EXCEPT !.whole = TRUE, !.segments = segs]
<1>1. /\ Length[r] \in Nat /\ Length[r] # Unsaid /\ 0 \in Nat
      /\ 0 <= Length[r] /\ Length[r] <= Length[r]
  <2>1. Unsaid \notin Nat /\ Length[r] \in Nat
    BY RepsAssumption, WholeIs
  <2> QED BY <2>1
<1>2. /\ entry.tag = Tag[r] /\ entry.modified = Modified[r] /\ entry.whole = FALSE
      /\ entry.total = total /\ entry.segments = segments
  OBVIOUS
<1>3. \A x : LET e == [entry EXCEPT !.whole = TRUE, !.segments = x] IN
            /\ e.tag = Tag[r] /\ e.modified = Modified[r] /\ e.total = total
            /\ e.whole = TRUE /\ e.segments = x
  OBVIOUS
<1> HIDE DEF entry
<1>4. Covers(Coverage(entry), 0, Length[r]) <=> all
  <2>1. Covers(Coverage(entry), 0, Length[r])
          <=> \A x \in Nat : 0 <= x /\ x < Length[r] => Held(x, segments)
    BY <1>1, <1>2, CoverageCovers
  <2> QED BY <2>1
<1> HIDE DEF all
<1>5. CASE total # Unsaid /\ all
  <2>1. total = Length[r] /\ Completed(entry) = made
    <3>1. total = Length[r] /\ entry.total = Length[r]
      BY <1>2, <1>5
    <3> QED BY <1>1, <1>4, <1>5, <3>1 DEF Completed
  <2>2. bytes = SubSeq(Whole(r), 0 + 1, Length[r])
    <3>1. \A x \in Nat : 0 <= x /\ x < Length[r] => Held(x, segments)
      BY <1>5 DEF all
    <3> QED BY <1>1, <1>2, <3>1, ReadSpanIs
  <2> HIDE DEF bytes
  <2>3. /\ segs \in Seq(Exact(r)) /\ InOrder(segs)
        /\ \A x \in Nat : x < Length[r] => Held(x, segs)
    BY <2>2, WholeSegment
  <2> HIDE DEF segs
  <2>4. /\ made.tag = Tag[r] /\ made.modified = Modified[r] /\ made.total = Length[r]
        /\ made.whole = TRUE /\ made.segments = segs
    BY <1>3, <2>1
  <2> HIDE DEF made
  <2>5. Of(made, r)
    BY <2>3, <2>4 DEF Of
  <2> QED BY <2>1, <2>5 DEF entry
<1>6. CASE ~ (total # Unsaid /\ all)
  <2>1. Completed(entry) = entry
    BY <1>1, <1>2, <1>4, <1>6 DEF Completed
  <2>2. Of(entry, r)
    BY <1>2, <1>6 DEF Of, all
  <2> QED BY <2>1, <2>2 DEF entry
<1> QED BY <1>5, <1>6

\* The number after the last there is is 0.
LEMMA Wraps ==
  ASSUME NEW w \in Nat, w > 0, NEW a \in 0 .. w
  PROVE  a % w = IF a < w THEN a ELSE 0
OBVIOUS

\* What is held is of a representation that has a tag or a date, so of no other with the same.
LEMMA SameIsOf ==
  ASSUME NEW entry, NEW r \in Reps, NEW s \in Reps, Of(entry, s), SameRepresentation(entry, r)
  PROVE  s = r
<1>1. entry.tag = Tag[s] /\ entry.modified = Modified[s]
  BY DEF Of
<1>2. CASE {entry.tag, Tag[r]} \cap {"weak", "none"} = {}
  <2>1. Tag[s] = Tag[r] /\ Tag[s] \notin {"weak", "none"}
    BY <1>1, <1>2 DEF SameRepresentation
  <2> QED BY <2>1, RepsAssumption
<1>3. CASE {entry.tag, Tag[r]} \cap {"weak", "none"} # {}
  <2>1. Modified[s] = Modified[r] /\ Modified[s] # Unsaid
    BY <1>1, <1>3 DEF SameRepresentation
  <2> QED BY <2>1, RepsAssumption
<1> QED BY <1>2, <1>3

\* Nothing held is of nothing that arrives.
LEMMA NoneIsSame ==
  ASSUME NEW r \in Reps
  PROVE  ~ SameRepresentation(NoPartial, r)
BY DEF SameRepresentation, NoPartial

\* What a store starts from: what is held of the representation, or nothing.
LEMMA StartsFrom ==
  ASSUME RangesInv, NEW r \in Reps
  PROVE  LET entry == IF SameRepresentation(partial, r) THEN partial ELSE NoPartial IN
         /\ entry.segments \in Seq(Exact(r)) /\ InOrder(entry.segments)
         /\ entry.total \in {Unsaid, Length[r]}
         /\ entry.whole => entry = partial
<1> DEFINE entry == IF SameRepresentation(partial, r) THEN partial ELSE NoPartial
           Good(e) == /\ e.segments \in Seq(Exact(r)) /\ InOrder(e.segments)
                      /\ e.total \in {Unsaid, Length[r]}
                      /\ e.whole => e = partial
<1> SUFFICES Good(entry)
  OBVIOUS
<1>1. CASE SameRepresentation(partial, r)
  <2>1. partial # NoPartial
    BY <1>1, NoneIsSame
  <2>2. PICK s \in Reps : Of(partial, s)
    BY <2>1 DEF RangesInv
  <2>3. s = r
    BY <1>1, <2>2, SameIsOf
  <2>4. entry = partial
    BY <1>1
  <2>5. Good(partial)
    BY <2>2, <2>3 DEF Of
  <2> HIDE DEF entry, Good
  <2> QED BY <2>4, <2>5
<1>2. CASE ~ SameRepresentation(partial, r)
  <2>1. NoPartial.segments = <<>> /\ NoPartial.total = Unsaid /\ NoPartial.whole = FALSE
    BY DEF NoPartial
  <2>2. InOrder(<<>>)
    BY DEF InOrder
  <2>3. Good(NoPartial)
    BY <2>1, <2>2
  <2>4. entry = NoPartial
    BY <1>2
  <2> HIDE DEF entry, Good
  <2> QED BY <2>3, <2>4
<1> QED BY <1>1, <1>2

\* A range that arrived.
LEMMA StorePartialRangeKeeps ==
  ASSUME RangesInv, StorePartialRange
  PROVE  RangesInv'
<1>1. PICK r \in Reps, first \in 0 .. (Word - 1), last \in 0 .. (Word - 1), sent \in 0 .. Word,
           total \in {Unsaid} \cup {Length[s] : s \in Reps} :
        LET range == [first |-> first, last |-> last]
            body == SubSeq(Whole(r), first + 1, first + sent)
            entry == IF SameRepresentation(partial, r) THEN partial ELSE NoPartial
        IN /\ last >= first /\ first + sent <= Length[r]
           /\ total # Unsaid => total = Length[r] /\ last < total
           /\ RangeLen(range) = sent
           /\ partial' = IF entry.whole THEN partial
                         ELSE Completed([tag |-> Tag[r], modified |-> Modified[r],
                                         total |-> IF total = Unsaid THEN entry.total ELSE total,
                                         whole |-> FALSE, segments |-> Filled(entry, range, body)])
  BY DEF StorePartialRange
<1> DEFINE range == [first |-> first, last |-> last]
           body == SubSeq(Whole(r), first + 1, first + sent)
           entry == IF SameRepresentation(partial, r) THEN partial ELSE NoPartial
           known == IF total = Unsaid THEN entry.total ELSE total
           filled == Filled(entry, range, body)
<1>2. /\ entry.segments \in Seq(Exact(r)) /\ InOrder(entry.segments)
      /\ entry.total \in {Unsaid, Length[r]}
      /\ entry.whole => entry = partial
  BY StartsFrom
<1> HIDE DEF entry
<1>3. /\ last >= first /\ first + sent <= Length[r]
      /\ total # Unsaid => total = Length[r] /\ last < total
      /\ RangeLen(range) = sent
      /\ partial' = IF entry.whole THEN partial
                    ELSE Completed([tag |-> Tag[r], modified |-> Modified[r],
                                    total |-> known, whole |-> FALSE, segments |-> filled])
  BY <1>1 DEF entry
<1>4. known \in {Unsaid, Length[r]}
  BY <1>2, <1>3
<1>5. /\ range.first = first /\ range.last = last /\ Word \in Nat /\ Word > 0
      /\ first \in Nat /\ last \in Nat /\ sent \in Nat
      /\ last - first + 1 \in 0 .. Word /\ last + 1 \in 0 .. Word
  <2>1. Word \in Nat /\ Length[r] \in Nat /\ Length[r] >= 1 /\ Length[r] < Word
    BY WholeIs
  <2> QED BY <1>3, <2>1
<1>6. HalfOpen(range)[2] \in Nat /\ HalfOpen(range)[2] <= first + sent
  <2>1. HalfOpen(range)[2] = (last + 1) % Word /\ sent = (last - first + 1) % Word
    BY <1>3, <1>5 DEF HalfOpen, RangeLen
  <2>2. /\ (last + 1) % Word = IF last + 1 < Word THEN last + 1 ELSE 0
        /\ (last - first + 1) % Word = IF last - first + 1 < Word THEN last - first + 1 ELSE 0
    BY <1>5, Wraps
  <2> HIDE DEF range
  <2> QED BY <1>3, <1>5, <2>1, <2>2
<1> HIDE DEF range
<1>7. filled \in Seq(Exact(r)) /\ InOrder(filled)
  BY <1>2, <1>3, <1>5, <1>6, FilledIs
<1> HIDE DEF filled, known
<1>8. CASE entry.whole
  <2>1. partial' = partial
    BY <1>3, <1>8
  <2> QED BY <2>1 DEF RangesInv, Of
<1>9. CASE ~ entry.whole
  <2>1. Of(partial', r)
    BY <1>3, <1>4, <1>7, <1>9, CompletedIs
  <2> QED BY <2>1 DEF RangesInv
<1> QED BY <1>8, <1>9

\* RangesInv is kept by every step: what arrives, in whatever order, is put in its place.
THEOREM RangesAreSound == RangesSpec => []RangesInv
<1>1. RangesInit => RangesInv
  BY DEF RangesInit, RangesInv
<1>2. RangesInv /\ [RangesNext]_partial => RangesInv'
  <2> SUFFICES ASSUME RangesInv, [RangesNext]_partial PROVE RangesInv'
    OBVIOUS
  <2>1. CASE StorePartialRange
    BY <2>1, StorePartialRangeKeeps
  <2>2. CASE StoreWhole
    BY <2>2, StoreWholeKeeps
  <2>3. CASE UNCHANGED partial
    BY <2>3 DEF RangesInv, Of
  <2> QED BY <2>1, <2>2, <2>3 DEF RangesNext
<1> QED BY <1>1, <1>2, PTL DEF RangesSpec

(***************************************************************************)
(* What is answered.                                                       *)
(***************************************************************************)

\* What a field says: parts of it, none malformed; and of a field of one part, that one.
LEMMA ParseRangeIs ==
  ASSUME NEW header \in RangeHeaders, ParseRange(header) # Unsaid
  PROVE  LET said == ParseRange(header) IN
         /\ said \in Seq(Parts) /\ Len(said) \in Nat /\ Len(said) >= 1
         /\ said[1] \in Parts /\ ~ Malformed(said[1])
         /\ Len(header) = 1 => Len(said) = 1 /\ said[1] = header[1]
<1>1. header \in Seq(Parts)
  BY RepsAssumption DEF Parts
<1>2. PICK h : /\ h[0] = <<>> /\ h[Len(header)] = Said(header)
               /\ \A k \in 1 .. Len(header) : h[k] = Keep(h[k - 1], header[k])
               /\ \A k \in 0 .. Len(header) : h[k] \in Seq(Parts)
  BY <1>1, Keeps
<1> DEFINE said == Said(header)
<1>3. /\ ParseRange(header) = said /\ said # <<>>
      /\ \A i \in DOMAIN said : ~ Malformed(said[i])
  BY DEF ParseRange
<1>4. said \in Seq(Parts)
  <2>1. Len(header) \in 0 .. Len(header)
    BY <1>1
  <2> QED BY <1>2, <2>1
<1>5. ASSUME Len(header) = 1
      PROVE  Len(said) = 1 /\ said[1] = header[1]
  <2>1. said = Keep(<<>>, header[1])
    <3>1. 1 \in 1 .. Len(header) /\ 1 - 1 = 0
      BY <1>5
    <3> QED BY <1>2, <1>5, <3>1
  <2>2. said = Append(<<>>, header[1])
    BY <1>3, <2>1 DEF Keep
  <2>3. header[1] \in Parts
    BY <1>1, <1>5
  <2> HIDE DEF said
  <2> QED BY <2>2, <2>3
<1> HIDE DEF said
<1>6. Len(said) \in Nat /\ Len(said) >= 1 /\ 1 \in DOMAIN said /\ said[1] \in Parts
  BY <1>3, <1>4, EmptySeq
<1> QED BY <1>3, <1>4, <1>5, <1>6

\* What a part is resolved to is what it means, and nothing is only what means nothing.
LEMMA ResolveIs ==
  ASSUME NEW part \in Parts, ~ Malformed(part), NEW total \in Nat, total >= 1, total < Word
  PROVE  LET resolved == Resolve(part, total) IN
         /\ resolved = Unsaid => Meant(part, total) = {}
         /\ resolved # Unsaid =>
              /\ resolved.first \in Nat /\ resolved.last \in Nat
              /\ resolved.first <= resolved.last /\ resolved.last < total
              /\ resolved.first .. resolved.last = Meant(part, total)
<1>1. /\ part.start \in Nat \cup {Unsaid} /\ part.end \in Nat \cup {Unsaid} /\ Unsaid \notin Nat
      /\ ~ (part.start = Unsaid /\ part.end \in {Unsaid, 0})
      /\ ~ (part.start # Unsaid /\ part.end # Unsaid /\ part.end < part.start)
  BY RepsAssumption DEF Parts, Malformed
<1> DEFINE Good(resolved) ==
             /\ resolved.first \in Nat /\ resolved.last \in Nat
             /\ resolved.first <= resolved.last /\ resolved.last < total
             /\ resolved.first .. resolved.last = Meant(part, total)
<1>2. CASE part.start = Unsaid
  <2> DEFINE first == total - Least(part.end, total)
             last == total - 1
  <2>1. part.end \in Nat /\ part.end >= 1
    BY <1>1, <1>2
  <2>2. first \in Nat /\ last \in Nat /\ first <= last /\ last < total
        /\ ((first = 0 /\ part.end >= total) \/ first = total - part.end)
    BY <2>1 DEF Least
  <2>3. first .. last = {i \in 0 .. (total - 1) : i + part.end >= total}
    <3> HIDE DEF first
    <3> QED BY <2>1, <2>2
  <2>4. Resolve(part, total) = [first |-> first, last |-> last]
    BY <1>2 DEF Resolve
  <2>5. Meant(part, total) = {i \in 0 .. (total - 1) : i + part.end >= total}
    BY <1>2 DEF Meant
  <2> HIDE DEF first, last
  <2>6. Good([first |-> first, last |-> last])
    BY <2>2, <2>3, <2>5
  <2>7. [first |-> first, last |-> last] # Unsaid
    <3>1. first \in 0 .. Word /\ last \in 0 .. Word
      <4>1. Word \in Nat
        BY RepsAssumption
      <4> QED BY <2>2, <4>1
    <3> QED BY <3>1, RepsAssumption
  <2> HIDE DEF Good
  <2> QED BY <2>4, <2>6, <2>7 DEF Good
<1>3. CASE part.start # Unsaid /\ part.start >= total
  <2>1. Resolve(part, total) = Unsaid
    BY <1>3 DEF Resolve
  <2>2. Meant(part, total) = {}
    BY <1>1, <1>3 DEF Meant
  <2> QED BY <2>1, <2>2
<1>4. CASE part.start # Unsaid /\ ~ (part.start >= total)
  <2> DEFINE first == part.start
             last == IF part.end = Unsaid THEN total - 1 ELSE Least(part.end, total - 1)
  <2>1. first \in Nat /\ last \in Nat /\ first <= last /\ last < total
    BY <1>1, <1>4 DEF Least
  <2>2. \A i \in Nat : i <= last <=> i <= total - 1 /\ (part.end = Unsaid \/ i <= part.end)
    BY <1>1, <1>4 DEF Least
  <2>3. Resolve(part, total) = [first |-> first, last |-> last]
    BY <1>4 DEF Resolve
  <2>4. first .. last = Meant(part, total)
    <3>1. Meant(part, total)
            = {i \in 0 .. (total - 1) : i >= first /\ (part.end = Unsaid \/ i <= part.end)}
      BY <1>4 DEF Meant
    <3> HIDE DEF first, last
    <3> QED BY <2>1, <2>2, <3>1
  <2> HIDE DEF first, last
  <2>5. Good([first |-> first, last |-> last])
    BY <2>1, <2>4
  <2>6. [first |-> first, last |-> last] # Unsaid
    <3>1. first \in 0 .. Word /\ last \in 0 .. Word
      <4>1. Word \in Nat
        BY RepsAssumption
      <4> QED BY <2>1, <4>1
    <3> QED BY <3>1, RepsAssumption
  <2> HIDE DEF Good
  <2> QED BY <2>3, <2>5, <2>6 DEF Good
<1> QED BY <1>2, <1>3, <1>4

\* All of an entry that is whole.
AllOf(entry) == [first |-> 0, last |-> entry.total - 1, status |-> 200]

\* A range of one part that is resolved and covered, or all of what is whole.
LEMMA WantedIs ==
  ASSUME NEW request, Wanted(request) # Unsaid
  PROVE  LET resolved == Resolve(ParseRange(request.range)[1], partial.total)
             named == request.range # Unsaid /\ request.ifRange # Unsaid
         IN /\ named => IfRangeMatches(request.ifRange, partial)
            /\ \/ partial.whole /\ Wanted(request) = AllOf(partial)
               \/ /\ request.range # Unsaid /\ ParseRange(request.range) # Unsaid
                  /\ partial.total # Unsaid /\ resolved # Unsaid
                  /\ Covers(Coverage(partial), HalfOpen(resolved)[1], HalfOpen(resolved)[2])
                  /\ Wanted(request)
                       = [first |-> resolved.first, last |-> resolved.last, status |-> 206]
<1> DEFINE specs == ParseRange(request.range)
           resolved == Resolve(specs[1], partial.total)
           part == [first |-> resolved.first, last |-> resolved.last, status |-> 206]
           whole == IF partial.whole THEN AllOf(partial) ELSE Unsaid
           named == request.range # Unsaid /\ request.ifRange # Unsaid
           covered == Covers(Coverage(partial), HalfOpen(resolved)[1], HalfOpen(resolved)[2])
<1>1. CASE request.range = Unsaid
  <2>1. Wanted(request) = whole
    BY <1>1 DEF Wanted, AllOf
  <2> HIDE DEF part
  <2> QED BY <1>1, <2>1
<1>2. CASE named /\ ~ IfRangeMatches(request.ifRange, partial)
  BY <1>2 DEF Wanted
<1>3. CASE request.range # Unsaid /\ ~ (named /\ ~ IfRangeMatches(request.ifRange, partial))
  <2>1. Wanted(request) =
          IF specs = Unsaid THEN whole
          ELSE IF Len(specs) > 1 \/ partial.total = Unsaid THEN Unsaid
          ELSE IF resolved = Unsaid THEN whole
          ELSE IF covered THEN part ELSE Unsaid
    BY <1>3 DEF Wanted, AllOf
  <2> HIDE DEF specs, resolved, part, covered
  <2>2. named => IfRangeMatches(request.ifRange, partial)
    BY <1>3
  <2>3. \/ partial.whole /\ Wanted(request) = AllOf(partial)
        \/ /\ request.range # Unsaid /\ specs # Unsaid
           /\ partial.total # Unsaid /\ resolved # Unsaid
           /\ covered /\ Wanted(request) = part
    BY <1>3, <2>1
  <2> QED BY <2>2, <2>3 DEF specs, resolved, part, covered
<1> QED BY <1>1, <1>2, <1>3

\* What is resolved does not pass the last number there is.
LEMMA HalfOpenIs ==
  ASSUME NEW span, span.first \in Nat, span.last \in Nat, Word \in Nat, span.last + 1 < Word
  PROVE  HalfOpen(span)[1] = span.first /\ HalfOpen(span)[2] = span.last + 1
<1>1. HalfOpen(span)[1] = span.first /\ HalfOpen(span)[2] = (span.last + 1) % Word
  BY DEF HalfOpen
<1> DEFINE a == span.last + 1
<1>2. Word > 0 /\ a \in 0 .. Word /\ a < Word
  OBVIOUS
<1> HIDE DEF a
<1>3. a % Word = a
  BY <1>2, Wraps
<1> QED BY <1>1, <1>3 DEF a

\* What a request wants is held, and is what it means.
LEMMA WantedIsMeant ==
  ASSUME NEW r \in Reps, Of(partial, r), NEW request \in RangeRequests, Wanted(request) # Unsaid
  PROVE  LET wanted == Wanted(request) IN
         /\ partial.total = Length[r]
         /\ wanted.first \in Nat /\ wanted.last \in Nat
         /\ wanted.first <= wanted.last /\ wanted.last < Length[r]
         /\ \A x \in Nat : wanted.first <= x /\ x < wanted.last + 1 => Held(x, partial.segments)
         /\ wanted.status = 200 => wanted.first = 0 /\ wanted.last = Length[r] - 1
         /\ wanted.status = 206 =>
              /\ wanted.first .. wanted.last = Meant(ParseRange(request.range)[1], Length[r])
              /\ request.ifRange # Unsaid => IfRangeMatches(request.ifRange, partial)
<1> DEFINE resolved == Resolve(ParseRange(request.range)[1], partial.total)
           named == request.range # Unsaid /\ request.ifRange # Unsaid
           wanted == Wanted(request)
<1>1. /\ named => IfRangeMatches(request.ifRange, partial)
      /\ \/ partial.whole /\ wanted = AllOf(partial)
         \/ /\ request.range # Unsaid /\ ParseRange(request.range) # Unsaid
            /\ partial.total # Unsaid /\ resolved # Unsaid
            /\ Covers(Coverage(partial), HalfOpen(resolved)[1], HalfOpen(resolved)[2])
            /\ wanted = [first |-> resolved.first, last |-> resolved.last, status |-> 206]
  BY WantedIs
<1>2. /\ partial.total \in {Unsaid, Length[r]} /\ partial.segments \in Seq(Exact(r))
      /\ partial.whole =>
           partial.total = Length[r] /\ \A x \in Nat : x < Length[r] => Held(x, partial.segments)
  BY DEF Of
<1>3. Length[r] \in Nat /\ Length[r] >= 1 /\ Length[r] < Word /\ Word \in Nat
  BY WholeIs
<1>4. request.range \in {Unsaid} \cup RangeHeaders
  BY DEF RangeRequests
<1> HIDE DEF wanted
<1>5. CASE partial.whole /\ wanted = AllOf(partial)
  <2>1. wanted.first = 0 /\ wanted.last = Length[r] - 1 /\ wanted.status = 200
    BY <1>2, <1>5 DEF AllOf
  <2> QED BY <1>2, <1>3, <1>5, <2>1 DEF wanted
<1>6. CASE /\ request.range # Unsaid /\ ParseRange(request.range) # Unsaid
           /\ partial.total # Unsaid /\ resolved # Unsaid
           /\ Covers(Coverage(partial), HalfOpen(resolved)[1], HalfOpen(resolved)[2])
           /\ wanted = [first |-> resolved.first, last |-> resolved.last, status |-> 206]
  <2> DEFINE part == ParseRange(request.range)[1]
  <2>1. partial.total = Length[r]
    BY <1>2, <1>6
  <2>2. part \in Parts /\ ~ Malformed(part)
    <3>1. request.range \in RangeHeaders
      BY <1>4, <1>6
    <3> QED BY <1>6, <3>1, ParseRangeIs
  <2>3. resolved = Resolve(part, Length[r])
    BY <2>1
  <2> HIDE DEF part, resolved
  <2>4. /\ resolved.first \in Nat /\ resolved.last \in Nat
        /\ resolved.first <= resolved.last /\ resolved.last < Length[r]
        /\ resolved.first .. resolved.last = Meant(part, Length[r])
    BY <1>3, <1>6, <2>2, <2>3, ResolveIs
  <2>5. HalfOpen(resolved)[1] = resolved.first /\ HalfOpen(resolved)[2] = resolved.last + 1
    BY <1>3, <2>4, HalfOpenIs
  <2>6. \A x \in Nat : resolved.first <= x /\ x < resolved.last + 1 => Held(x, partial.segments)
    BY <1>2, <1>6, <2>4, <2>5, CoverageCovers
  <2>7. wanted.first = resolved.first /\ wanted.last = resolved.last /\ wanted.status = 206
    BY <1>6
  <2>8. request.ifRange # Unsaid => IfRangeMatches(request.ifRange, partial)
    BY <1>1, <1>6
  <2> QED BY <2>1, <2>4, <2>6, <2>7, <2>8 DEF part, wanted
<1> QED BY <1>1, <1>5, <1>6

\* An answer of one representation, exactly what was asked.
AnswersExactly(a, request, r) ==
  /\ Tag[r] = a.tag /\ Length[r] = a.total
  /\ a.bytes = SubSeq(Whole(r), a.wanted.first + 1, a.wanted.last + 1)
  /\ a.wanted.status = 200 => a.bytes = Whole(r)
  /\ a.wanted.status = 206 =>
       /\ a.wanted.first .. a.wanted.last = Meant(ParseRange(request.range)[1], Length[r])
       /\ request.ifRange # Unsaid =>
            request.ifRange.is = IF request.ifRange.kind = "date" THEN Modified[r] ELSE Tag[r]

\* What is answered is of the representation held.
LEMMA AnswerIs ==
  ASSUME NEW r \in Reps, Of(partial, r), NEW request \in RangeRequests, Wanted(request) # Unsaid
  PROVE  AnswersExactly(Materialize(request), request, r)
<1> DEFINE a == Materialize(request)
           w == Wanted(request)
           bytes == ReadSpan(partial, w.first, w.last + 1).bytes
<1>1. /\ a.wanted = w /\ a.tag = partial.tag /\ a.total = partial.total
      /\ a.bytes = IF w = Unsaid THEN <<>> ELSE bytes
  BY DEF Materialize
<1>2. /\ partial.total = Length[r]
      /\ w.first \in Nat /\ w.last \in Nat /\ w.first <= w.last /\ w.last < Length[r]
      /\ \A x \in Nat : w.first <= x /\ x < w.last + 1 => Held(x, partial.segments)
      /\ w.status = 200 => w.first = 0 /\ w.last = Length[r] - 1
      /\ w.status = 206 =>
           /\ w.first .. w.last = Meant(ParseRange(request.range)[1], Length[r])
           /\ request.ifRange # Unsaid => IfRangeMatches(request.ifRange, partial)
  BY WantedIsMeant
<1> HIDE DEF a
<1>3. /\ partial.tag = Tag[r] /\ partial.modified = Modified[r]
      /\ partial.segments \in Seq(Exact(r)) /\ InOrder(partial.segments)
  BY DEF Of
<1>4. /\ Length[r] \in Nat /\ Whole(r) \in Seq(Bytes(r)) /\ Len(Whole(r)) = Length[r]
  BY WholeIs
<1> HIDE DEF w
<1>5. bytes = SubSeq(Whole(r), w.first + 1, w.last + 1)
  <2> DEFINE from == w.first
             to == w.last + 1
  <2>1. /\ from \in Nat /\ to \in Nat /\ from <= to /\ to <= Length[r]
        /\ \A x \in Nat : from <= x /\ x < to => Held(x, partial.segments)
    BY <1>2, <1>4
  <2> HIDE DEF from, to
  <2>2. ReadSpan(partial, from, to).bytes = SubSeq(Whole(r), from + 1, to)
    BY <1>3, <2>1, ReadSpanIs
  <2> QED BY <2>2 DEF from, to
<1> HIDE DEF bytes
<1>6. a.bytes = SubSeq(Whole(r), w.first + 1, w.last + 1)
  BY <1>1, <1>5 DEF w
<1>7. ASSUME w.status = 200
      PROVE  a.bytes = Whole(r)
  <2>1. w.first + 1 = 1 /\ w.last + 1 = Len(Whole(r))
    BY <1>2, <1>4, <1>7
  <2>2. SubSeq(Whole(r), 1, Len(Whole(r))) = Whole(r)
    BY <1>4, SubSeqFull
  <2> QED BY <1>6, <2>1, <2>2
<1>8. ASSUME w.status = 206, request.ifRange # Unsaid
      PROVE  request.ifRange.is = IF request.ifRange.kind = "date" THEN Modified[r] ELSE Tag[r]
  BY <1>2, <1>3, <1>8 DEF IfRangeMatches
<1> QED BY <1>1, <1>2, <1>3, <1>6, <1>7, <1>8 DEF AnswersExactly, a

\* A range is answered exactly, whatever arrived before: materialize, after store_partial and
\* store in any order.
THEOREM RangesAreExact == RangesSpec => []RangeIsExact
<1>1. RangesInv => RangeIsExact
  <2> SUFFICES ASSUME RangesInv, partial # NoPartial, NEW request \in RangeRequests,
                      Materialize(request).wanted # Unsaid
               PROVE  \E r \in Reps : AnswersExactly(Materialize(request), request, r)
    BY DEF RangeIsExact, AnswersExactly
  <2>1. PICK r \in Reps : Of(partial, r)
    BY DEF RangesInv
  <2>2. Wanted(request) # Unsaid
    BY DEF Materialize
  <2> QED BY <2>1, <2>2, AnswerIs
<1> QED BY <1>1, RangesAreSound, PTL

\* The answer that a covered range has.
LEMMA CoveredIsWanted ==
  ASSUME NEW request, request.range # Unsaid, request.ifRange = Unsaid,
         ParseRange(request.range) # Unsaid, Len(ParseRange(request.range)) = 1,
         partial.total # Unsaid,
         Resolve(ParseRange(request.range)[1], partial.total) # Unsaid,
         LET resolved == Resolve(ParseRange(request.range)[1], partial.total) IN
         Covers(Coverage(partial), HalfOpen(resolved)[1], HalfOpen(resolved)[2])
  PROVE  LET resolved == Resolve(ParseRange(request.range)[1], partial.total) IN
         Wanted(request) = [first |-> resolved.first, last |-> resolved.last, status |-> 206]
<1> DEFINE specs == ParseRange(request.range)
           span == Resolve(specs[1], partial.total)
           part == [first |-> span.first, last |-> span.last, status |-> 206]
           whole == IF partial.whole THEN AllOf(partial) ELSE Unsaid
           covered == Covers(Coverage(partial), HalfOpen(span)[1], HalfOpen(span)[2])
<1>1. Wanted(request) =
        IF specs = Unsaid THEN whole
        ELSE IF Len(specs) > 1 \/ partial.total = Unsaid THEN Unsaid
        ELSE IF span = Unsaid THEN whole
        ELSE IF covered THEN part ELSE Unsaid
  BY DEF Wanted, AllOf
<1>2. specs # Unsaid /\ ~ (Len(specs) > 1) /\ partial.total # Unsaid /\ span # Unsaid /\ covered
  OBVIOUS
<1> HIDE DEF specs, span, covered, part, whole
<1>3. Wanted(request) = part
  BY <1>1, <1>2
<1> QED BY <1>3 DEF part, span, specs

\* What is held is served: wanted_bytes answers a range whose every byte has arrived, and
\* store_partial notices that nothing is missing.
THEOREM HeldRangesAreServed == RangesSpec => []HeldIsServed
<1> DEFINE held == UNION {partial.segments[i].start .. (partial.segments[i].end - 1) :
                            i \in DOMAIN partial.segments}
<1>1. ASSUME NEW r \in Reps, Of(partial, r)
      PROVE  \A x \in Nat : x \in held <=> Held(x, partial.segments)
  <2> DEFINE segs == partial.segments
  <2>1. segs \in Seq(Exact(r)) /\ \A s \in Exact(r) : s.start \in Nat /\ s.end \in Nat
    BY <1>1 DEF Of, Exact
  <2>2. /\ DOMAIN segs = 1 .. Len(segs)
        /\ \A i \in 1 .. Len(segs) : segs[i].start \in Nat /\ segs[i].end \in Nat
    BY <2>1
  <2> HIDE DEF segs
  <2>3. \A x \in Nat : Held(x, segs)
                         <=> x \in UNION {segs[i].start .. (segs[i].end - 1) : i \in DOMAIN segs}
    BY <2>2 DEF Held
  <2> QED BY <2>3 DEF segs
<1> HIDE DEF held
<1>2. ASSUME NEW r \in Reps, Of(partial, r), partial.total # Unsaid,
             0 .. (partial.total - 1) \subseteq held
      PROVE  partial.whole
  <2>1. partial.total = Length[r] /\ Length[r] \in Nat
    BY <1>2, WholeIs DEF Of
  <2>2. \A x \in Nat : x < Length[r] => Held(x, partial.segments)
    BY <1>1, <1>2, <2>1
  <2> QED BY <1>2, <2>2 DEF Of
<1>3. ASSUME NEW r \in Reps, Of(partial, r), partial.total # Unsaid,
             NEW header \in RangeHeaders, Len(header) = 1, ParseRange(header) # Unsaid,
             Meant(header[1], partial.total) # {},
             Meant(header[1], partial.total) \subseteq held
      PROVE  Wanted([range |-> header, ifRange |-> Unsaid]) # Unsaid
  <2> DEFINE part == header[1]
             resolved == Resolve(part, Length[r])
  <2>1. /\ partial.total = Length[r] /\ Length[r] \in Nat /\ Length[r] >= 1 /\ Length[r] < Word
        /\ Word \in Nat /\ partial.segments \in Seq(Exact(r))
    BY <1>3, WholeIs DEF Of
  <2>2. /\ part \in Parts /\ ~ Malformed(part)
        /\ Len(ParseRange(header)) = 1 /\ ParseRange(header)[1] = part
    BY <1>3, ParseRangeIs
  <2> HIDE DEF part
  <2>3. /\ resolved # Unsaid
        /\ resolved.first \in Nat /\ resolved.last \in Nat
        /\ resolved.first <= resolved.last /\ resolved.last < Length[r]
        /\ resolved.first .. resolved.last = Meant(part, Length[r])
    <3>1. Meant(part, Length[r]) # {}
      BY <1>3, <2>1 DEF part
    <3> QED BY <2>1, <2>2, <3>1, ResolveIs
  <2> HIDE DEF resolved
  <2>4. HalfOpen(resolved)[1] = resolved.first /\ HalfOpen(resolved)[2] = resolved.last + 1
    BY <2>1, <2>3, HalfOpenIs
  <2>5. ASSUME NEW x \in Nat, resolved.first <= x, x < resolved.last + 1
        PROVE  Held(x, partial.segments)
    <3>1. x \in resolved.first .. resolved.last
      BY <2>3, <2>5
    <3>2. x \in held
      BY <1>3, <2>1, <2>3, <3>1 DEF part
    <3> QED BY <1>1, <1>3, <3>2
  <2>6. Covers(Coverage(partial), HalfOpen(resolved)[1], HalfOpen(resolved)[2])
    <3>1. resolved.last + 1 \in Nat
      BY <2>3
    <3>2. Covers(Coverage(partial), resolved.first, resolved.last + 1)
      BY <2>1, <2>3, <2>5, <3>1, CoverageCovers
    <3> QED BY <2>4, <3>2
  <2> DEFINE presented == [first |-> resolved.first, last |-> resolved.last, status |-> 206]
  <2>7. Wanted([range |-> header, ifRange |-> Unsaid]) = presented
    <3> DEFINE request == [range |-> header, ifRange |-> Unsaid]
    <3>1. request.range = header /\ request.ifRange = Unsaid /\ header # Unsaid
      BY RepsAssumption
    <3> HIDE DEF request
    <3>2. resolved = Resolve(ParseRange(request.range)[1], partial.total)
      BY <2>1, <2>2, <3>1 DEF resolved
    <3>3. Wanted(request) = presented
      BY <1>3, <2>2, <2>3, <2>6, <3>1, <3>2, CoveredIsWanted
    <3> QED BY <3>3 DEF request
  <2>8. presented # Unsaid
    <3>1. resolved.first \in 0 .. Word /\ resolved.last \in 0 .. Word
      BY <2>1, <2>3
    <3> QED BY <3>1, RepsAssumption
  <2> HIDE DEF presented
  <2> QED BY <2>7, <2>8
<1>4. RangesInv => HeldIsServed
  <2> SUFFICES ASSUME RangesInv, partial.total # Unsaid
               PROVE  /\ 0 .. (partial.total - 1) \subseteq held => partial.whole
                      /\ \A header \in RangeHeaders :
                           /\ Len(header) = 1 /\ ParseRange(header) # Unsaid
                           /\ Meant(header[1], partial.total) # {}
                           /\ Meant(header[1], partial.total) \subseteq held
                           => Wanted([range |-> header, ifRange |-> Unsaid]) # Unsaid
    BY DEF HeldIsServed, held
  <2>1. PICK r \in Reps : Of(partial, r)
    BY DEF RangesInv, NoPartial
  <2> QED BY <1>2, <1>3, <2>1
<1> QED BY <1>4, RangesAreSound, PTL

(***************************************************************************)
(* The budget of a page.  The lookahead and the tokenizer are the same     *)
(* machine, from the same state and place; so the lookahead, which goes    *)
(* first, knows every attribute that the tokenizer will compare.           *)
(***************************************************************************)

\* The states, those that are inside a tag's attributes, and what a scan may leave.
TagStates ==
  {"Data", "Plaintext", "TagOpen", "EndTagOpen", "TagName", "BeforeAttributeName",
   "AttributeName", "AfterAttributeName", "BeforeAttributeValue", "DoubleQuoted", "SingleQuoted",
   "Unquoted", "AfterAttributeValueQuoted", "SelfClosingStartTag"}
CommentStates ==
  {"CommentStart", "CommentStartDash", "Comment", "CommentLessThanSign",
   "CommentLessThanSignBang", "CommentLessThanSignBangDash", "CommentLessThanSignBangDashDash",
   "CommentEndDash", "CommentEnd", "CommentEndBang", "BogusComment", "Doctype", "CdataSection",
   "CdataSectionBracket", "CdataSectionEnd"}
ScriptStates ==
  {"RawEndTagOpen", "ScriptDataEscapeStart", "ScriptDataEscapeStartDash",
   "ScriptDataEscapedDash", "ScriptDataEscapedDashDash"}
RawStates ==
  {"Raw", "RawLessThanSign", "RawEndTagName", "ScriptDataDoubleEscapeStart",
   "ScriptDataDoubleEscapeEnd", "MarkupDeclarationOpen"}
States ==
  {"Data", "Plaintext", "TagOpen", "EndTagOpen", "TagName", "BeforeAttributeName",
   "AttributeName", "AfterAttributeName", "BeforeAttributeValue", "DoubleQuoted", "SingleQuoted",
   "Unquoted", "AfterAttributeValueQuoted", "SelfClosingStartTag",
   "CommentStart", "CommentStartDash", "Comment", "CommentLessThanSign",
   "CommentLessThanSignBang", "CommentLessThanSignBangDash", "CommentLessThanSignBangDashDash",
   "CommentEndDash", "CommentEnd", "CommentEndBang", "BogusComment", "Doctype", "CdataSection",
   "CdataSectionBracket", "CdataSectionEnd",
   "RawEndTagOpen", "ScriptDataEscapeStart", "ScriptDataEscapeStartDash",
   "ScriptDataEscapedDash", "ScriptDataEscapedDashDash",
   "Raw", "RawLessThanSign", "RawEndTagName", "ScriptDataDoubleEscapeStart",
   "ScriptDataDoubleEscapeEnd", "MarkupDeclarationOpen"}

Inside ==
  {"BeforeAttributeName", "AttributeName", "AfterAttributeName", "BeforeAttributeValue",
   "DoubleQuoted", "SingleQuoted", "Unquoted", "AfterAttributeValueQuoted",
   "SelfClosingStartTag"}

\* Where a state may lead to, by a character of some class, or by any other.
Way(s, k, t) ==
  /\ t \in States \cup {"Emit"}
  /\ s \in Inside => t \in Inside \cup {"Emit"}
  /\ s \notin Inside /\ t \in Inside \cup {"Emit"} =>
       /\ s \in {"TagName", "RawEndTagName"}
       /\ t \in {"BeforeAttributeName", "SelfClosingStartTag", "Emit"}
  /\ ReadingATag(t) /\ ~ReadingATag(s) => t \in {"TagOpen", "RawLessThanSign"} /\ k = "<"
  /\ t \in {"TagOpen", "RawLessThanSign"} => s \notin Inside

\* A state that reads a character again leads to no attribute by it, and to no end of a tag; the
\* dashes that open a comment are two.
Moving(s, move, f) ==
  /\ \A way \in move.on : Way(s, way[1], way[2]) /\ (way[2] = "CommentStart" => f = "-")
  /\ Way(s, "other", move.other)
  /\ move.other \notin {"Emit", "TagOpen", "RawLessThanSign", "CommentStart"}
  /\ move.again \in BOOLEAN /\ (move.again => move.other # "AttributeName")

\* Where the states of a tag lead.
LEMMA TagMovesAre ==
  /\ DOMAIN TagMoves = TagStates
  /\ \A s \in TagStates : \A f : Moving(s, TagMoves[s], f)
<1>1. DOMAIN TagMoves = TagStates
  BY DEF TagMoves, TagStates
<1>2. \A f : Moving("Data", TagMoves["Data"], f)
  <2>1. TagMoves["Data"] = To({<<"<", "TagOpen">>}, "Data", FALSE)
    BY DEF TagMoves
  <2> QED
    BY <2>1
    DEF To, Moving, Way, States, Inside, ReadingATag
<1>3. \A f : Moving("Plaintext", TagMoves["Plaintext"], f)
  <2>1. TagMoves["Plaintext"] = To({}, "Plaintext", FALSE)
    BY DEF TagMoves
  <2> QED
    BY <2>1
    DEF To, Moving, Way, States, Inside, ReadingATag
<1>4. \A f : Moving("TagOpen", TagMoves["TagOpen"], f)
  <2>1. TagMoves["TagOpen"] =
          To({<<"!", "MarkupDeclarationOpen">>, <<"/", "EndTagOpen">>, <<"?", "BogusComment">>,
              <<"a", "TagName">>}, "Data", TRUE)
    BY DEF TagMoves
  <2> QED
    BY <2>1
    DEF To, Moving, Way, States, Inside, ReadingATag
<1>5. \A f : Moving("EndTagOpen", TagMoves["EndTagOpen"], f)
  <2>1. TagMoves["EndTagOpen"] = To({<<">", "Data">>, <<"a", "TagName">>}, "BogusComment", TRUE)
    BY DEF TagMoves
  <2> QED
    BY <2>1
    DEF To, Moving, Way, States, Inside, ReadingATag
<1>6. \A f : Moving("TagName", TagMoves["TagName"], f)
  <2>1. TagMoves["TagName"] =
          To({<<"W", "BeforeAttributeName">>, <<"/", "SelfClosingStartTag">>, <<">", "Emit">>},
              "TagName", FALSE)
    BY DEF TagMoves
  <2> QED
    BY <2>1
    DEF To, Moving, Way, States, Inside, ReadingATag
<1>7. \A f : Moving("BeforeAttributeName", TagMoves["BeforeAttributeName"], f)
  <2>1. TagMoves["BeforeAttributeName"] =
          To({<<"W", "BeforeAttributeName">>, <<"/", "SelfClosingStartTag">>, <<">", "Emit">>},
              "AttributeName", FALSE)
    BY DEF TagMoves
  <2> QED
    BY <2>1
    DEF To, Moving, Way, States, Inside, ReadingATag
<1>8. \A f : Moving("AttributeName", TagMoves["AttributeName"], f)
  <2>1. TagMoves["AttributeName"] =
          To({<<"W", "AfterAttributeName">>, <<"/", "SelfClosingStartTag">>,
              <<"=", "BeforeAttributeValue">>, <<">", "Emit">>}, "AttributeName", FALSE)
    BY DEF TagMoves
  <2> QED
    BY <2>1
    DEF To, Moving, Way, States, Inside, ReadingATag
<1>9. \A f : Moving("AfterAttributeName", TagMoves["AfterAttributeName"], f)
  <2>1. TagMoves["AfterAttributeName"] =
          To({<<"W", "AfterAttributeName">>, <<"/", "SelfClosingStartTag">>,
              <<"=", "BeforeAttributeValue">>, <<">", "Emit">>}, "AttributeName", FALSE)
    BY DEF TagMoves
  <2> QED
    BY <2>1
    DEF To, Moving, Way, States, Inside, ReadingATag
<1>10. \A f : Moving("BeforeAttributeValue", TagMoves["BeforeAttributeValue"], f)
  <2>1. TagMoves["BeforeAttributeValue"] =
          To({<<"W", "BeforeAttributeValue">>, <<"Q", "DoubleQuoted">>, <<"'", "SingleQuoted">>,
              <<">", "Emit">>}, "Unquoted", TRUE)
    BY DEF TagMoves
  <2> QED
    BY <2>1
    DEF To, Moving, Way, States, Inside, ReadingATag
<1>11. \A f : Moving("DoubleQuoted", TagMoves["DoubleQuoted"], f)
  <2>1. TagMoves["DoubleQuoted"] =
          To({<<"Q", "AfterAttributeValueQuoted">>}, "DoubleQuoted", FALSE)
    BY DEF TagMoves
  <2> QED
    BY <2>1
    DEF To, Moving, Way, States, Inside, ReadingATag
<1>12. \A f : Moving("SingleQuoted", TagMoves["SingleQuoted"], f)
  <2>1. TagMoves["SingleQuoted"] =
          To({<<"'", "AfterAttributeValueQuoted">>}, "SingleQuoted", FALSE)
    BY DEF TagMoves
  <2> QED
    BY <2>1
    DEF To, Moving, Way, States, Inside, ReadingATag
<1>13. \A f : Moving("Unquoted", TagMoves["Unquoted"], f)
  <2>1. TagMoves["Unquoted"] =
          To({<<"W", "BeforeAttributeName">>, <<">", "Emit">>}, "Unquoted", FALSE)
    BY DEF TagMoves
  <2> QED
    BY <2>1
    DEF To, Moving, Way, States, Inside, ReadingATag
<1>14. \A f : Moving("AfterAttributeValueQuoted", TagMoves["AfterAttributeValueQuoted"], f)
  <2>1. TagMoves["AfterAttributeValueQuoted"] =
          To({<<"W", "BeforeAttributeName">>, <<"/", "SelfClosingStartTag">>, <<">", "Emit">>},
              "BeforeAttributeName", TRUE)
    BY DEF TagMoves
  <2> QED
    BY <2>1
    DEF To, Moving, Way, States, Inside, ReadingATag
<1>15. \A f : Moving("SelfClosingStartTag", TagMoves["SelfClosingStartTag"], f)
  <2>1. TagMoves["SelfClosingStartTag"] = To({<<">", "Emit">>}, "BeforeAttributeName", TRUE)
    BY DEF TagMoves
  <2> QED
    BY <2>1
    DEF To, Moving, Way, States, Inside, ReadingATag
<1> QED BY <1>1, <1>2, <1>3, <1>4, <1>5, <1>6, <1>7, <1>8, <1>9, <1>10, <1>11,
           <1>12, <1>13, <1>14, <1>15
       DEF TagStates

\* Where the states of a comment lead: never to the inside of a tag.
LEMMA CommentMovesAre ==
  /\ DOMAIN CommentMoves = CommentStates
  /\ \A s \in CommentStates : \A f : Moving(s, CommentMoves[s], f)
<1>1. DOMAIN CommentMoves = CommentStates
  BY DEF CommentMoves, CommentStates
<1>2. \A f : Moving("CommentStart", CommentMoves["CommentStart"], f)
  <2>1. CommentMoves["CommentStart"] =
          To({<<"-", "CommentStartDash">>, <<">", "Data">>}, "Comment", FALSE)
    BY DEF CommentMoves
  <2> QED
    BY <2>1
    DEF To, Moving, Way, States, Inside, ReadingATag
<1>3. \A f : Moving("CommentStartDash", CommentMoves["CommentStartDash"], f)
  <2>1. CommentMoves["CommentStartDash"] =
          To({<<"-", "CommentEnd">>, <<">", "Data">>}, "Comment", FALSE)
    BY DEF CommentMoves
  <2> QED
    BY <2>1
    DEF To, Moving, Way, States, Inside, ReadingATag
<1>4. \A f : Moving("Comment", CommentMoves["Comment"], f)
  <2>1. CommentMoves["Comment"] =
          To({<<"<", "CommentLessThanSign">>, <<"-", "CommentEndDash">>}, "Comment", FALSE)
    BY DEF CommentMoves
  <2> QED
    BY <2>1
    DEF To, Moving, Way, States, Inside, ReadingATag
<1>5. \A f : Moving("CommentLessThanSign", CommentMoves["CommentLessThanSign"], f)
  <2>1. CommentMoves["CommentLessThanSign"] =
          To({<<"!", "CommentLessThanSignBang">>, <<"<", "CommentLessThanSign">>},
              "Comment", TRUE)
    BY DEF CommentMoves
  <2> QED
    BY <2>1
    DEF To, Moving, Way, States, Inside, ReadingATag
<1>6. \A f : Moving("CommentLessThanSignBang", CommentMoves["CommentLessThanSignBang"], f)
  <2>1. CommentMoves["CommentLessThanSignBang"] =
          To({<<"-", "CommentLessThanSignBangDash">>}, "Comment", TRUE)
    BY DEF CommentMoves
  <2> QED
    BY <2>1
    DEF To, Moving, Way, States, Inside, ReadingATag
<1>7. \A f : Moving("CommentLessThanSignBangDash", CommentMoves["CommentLessThanSignBangDash"], f)
  <2>1. CommentMoves["CommentLessThanSignBangDash"] =
          To({<<"-", "CommentLessThanSignBangDashDash">>}, "CommentEndDash", TRUE)
    BY DEF CommentMoves
  <2> QED
    BY <2>1
    DEF To, Moving, Way, States, Inside, ReadingATag
<1>8. \A f : Moving("CommentLessThanSignBangDashDash",
                   CommentMoves["CommentLessThanSignBangDashDash"], f)
  <2>1. CommentMoves["CommentLessThanSignBangDashDash"] = To({}, "CommentEnd", TRUE)
    BY DEF CommentMoves
  <2> QED
    BY <2>1
    DEF To, Moving, Way, States, Inside, ReadingATag
<1>9. \A f : Moving("CommentEndDash", CommentMoves["CommentEndDash"], f)
  <2>1. CommentMoves["CommentEndDash"] = To({<<"-", "CommentEnd">>}, "Comment", FALSE)
    BY DEF CommentMoves
  <2> QED
    BY <2>1
    DEF To, Moving, Way, States, Inside, ReadingATag
<1>10. \A f : Moving("CommentEnd", CommentMoves["CommentEnd"], f)
  <2>1. CommentMoves["CommentEnd"] =
          To({<<">", "Data">>, <<"!", "CommentEndBang">>, <<"-", "CommentEnd">>}, "Comment", TRUE)
    BY DEF CommentMoves
  <2> QED
    BY <2>1
    DEF To, Moving, Way, States, Inside, ReadingATag
<1>11. \A f : Moving("CommentEndBang", CommentMoves["CommentEndBang"], f)
  <2>1. CommentMoves["CommentEndBang"] =
          To({<<"-", "CommentEndDash">>, <<">", "Data">>}, "Comment", FALSE)
    BY DEF CommentMoves
  <2> QED
    BY <2>1
    DEF To, Moving, Way, States, Inside, ReadingATag
<1>12. \A f : Moving("BogusComment", CommentMoves["BogusComment"], f)
  <2>1. CommentMoves["BogusComment"] = To({<<">", "Data">>}, "BogusComment", FALSE)
    BY DEF CommentMoves
  <2> QED
    BY <2>1
    DEF To, Moving, Way, States, Inside, ReadingATag
<1>13. \A f : Moving("Doctype", CommentMoves["Doctype"], f)
  <2>1. CommentMoves["Doctype"] = To({<<">", "Data">>}, "Doctype", FALSE)
    BY DEF CommentMoves
  <2> QED
    BY <2>1
    DEF To, Moving, Way, States, Inside, ReadingATag
<1>14. \A f : Moving("CdataSection", CommentMoves["CdataSection"], f)
  <2>1. CommentMoves["CdataSection"] = To({<<"]", "CdataSectionBracket">>}, "CdataSection", FALSE)
    BY DEF CommentMoves
  <2> QED
    BY <2>1
    DEF To, Moving, Way, States, Inside, ReadingATag
<1>15. \A f : Moving("CdataSectionBracket", CommentMoves["CdataSectionBracket"], f)
  <2>1. CommentMoves["CdataSectionBracket"] =
          To({<<"]", "CdataSectionEnd">>}, "CdataSection", TRUE)
    BY DEF CommentMoves
  <2> QED
    BY <2>1
    DEF To, Moving, Way, States, Inside, ReadingATag
<1>16. \A f : Moving("CdataSectionEnd", CommentMoves["CdataSectionEnd"], f)
  <2>1. CommentMoves["CdataSectionEnd"] =
          To({<<"]", "CdataSectionEnd">>, <<">", "Data">>}, "CdataSection", TRUE)
    BY DEF CommentMoves
  <2> QED
    BY <2>1
    DEF To, Moving, Way, States, Inside, ReadingATag
<1> QED BY <1>1, <1>2, <1>3, <1>4, <1>5, <1>6, <1>7, <1>8, <1>9, <1>10, <1>11,
           <1>12, <1>13, <1>14, <1>15, <1>16
       DEF CommentStates

\* Where the states of raw text that look at one character lead.
LEMMA ScriptMovesAre ==
  /\ DOMAIN ScriptMoves = ScriptStates
  /\ \A s \in ScriptStates : \A f : Moving(s, ScriptMoves[s], f)
<1>1. DOMAIN ScriptMoves = ScriptStates
  BY DEF ScriptMoves, ScriptStates
<1>2. \A f : Moving("RawEndTagOpen", ScriptMoves["RawEndTagOpen"], f)
  <2>1. ScriptMoves["RawEndTagOpen"] = To({<<"a", "RawEndTagName">>}, "Raw", TRUE)
    BY DEF ScriptMoves
  <2> QED
    BY <2>1
    DEF To, Moving, Way, States, Inside, ReadingATag
<1>3. \A f : Moving("ScriptDataEscapeStart", ScriptMoves["ScriptDataEscapeStart"], f)
  <2>1. ScriptMoves["ScriptDataEscapeStart"] =
          To({<<"-", "ScriptDataEscapeStartDash">>}, "Raw", TRUE)
    BY DEF ScriptMoves
  <2> QED
    BY <2>1
    DEF To, Moving, Way, States, Inside, ReadingATag
<1>4. \A f : Moving("ScriptDataEscapeStartDash", ScriptMoves["ScriptDataEscapeStartDash"], f)
  <2>1. ScriptMoves["ScriptDataEscapeStartDash"] =
          To({<<"-", "ScriptDataEscapedDashDash">>}, "Raw", TRUE)
    BY DEF ScriptMoves
  <2> QED
    BY <2>1
    DEF To, Moving, Way, States, Inside, ReadingATag
<1>5. \A f : Moving("ScriptDataEscapedDash", ScriptMoves["ScriptDataEscapedDash"], f)
  <2>1. ScriptMoves["ScriptDataEscapedDash"] =
          To({<<"-", "ScriptDataEscapedDashDash">>, <<"<", "RawLessThanSign">>}, "Raw", FALSE)
    BY DEF ScriptMoves
  <2> QED
    BY <2>1
    DEF To, Moving, Way, States, Inside, ReadingATag
<1>6. \A f : Moving("ScriptDataEscapedDashDash", ScriptMoves["ScriptDataEscapedDashDash"], f)
  <2>1. ScriptMoves["ScriptDataEscapedDashDash"] =
          To({<<"-", "ScriptDataEscapedDashDash">>, <<"<", "RawLessThanSign">>}, "Raw", FALSE)
    BY DEF ScriptMoves
  <2> QED
    BY <2>1
    DEF To, Moving, Way, States, Inside, ReadingATag
<1> QED BY <1>1, <1>2, <1>3, <1>4, <1>5, <1>6
       DEF ScriptStates

\* Where the states that look at more than one character lead.
LEMMA RawMovesAre ==
  ASSUME NEW la, la.state \in RawStates, NEW f
  PROVE  Moving(la.state, RawMove(la, f), f)
<1> DEFINE move == RawMove(la, f)
<1> SUFFICES Moving(la.state, move, f)
  OBVIOUS
<1>1. CASE la.state = "Raw"
  <2> DEFINE W == {<<"<", "RawLessThanSign">>, <<"-", "ScriptDataEscapedDash">>}
  <2>1. move.on \subseteq W /\ move.other = "Raw" /\ move.again = FALSE
    BY <1>1 DEF RawMove, To
  <2>2. \A way \in W : Way(la.state, way[1], way[2])
    BY <1>1 DEF Way, States, Inside, ReadingATag
  <2>3. \A way \in W : way[2] # "CommentStart"
    BY <1>1
  <2>4. Way(la.state, "other", move.other)
    BY <1>1, <2>1 DEF Way, States, Inside, ReadingATag
  <2> HIDE DEF move, W
  <2> QED BY <2>1, <2>2, <2>3, <2>4 DEF Moving
<1>2. CASE la.state = "RawLessThanSign"
  <2> DEFINE W == {<<"/", "ScriptDataDoubleEscapeEnd">>, <<"/", "RawEndTagOpen">>,
                   <<"a", "ScriptDataDoubleEscapeStart">>, <<"!", "ScriptDataEscapeStart">>}
  <2>1. move.on \subseteq W /\ move.other = "Raw" /\ move.again = TRUE
    BY <1>2 DEF RawMove, To
  <2>2. \A way \in W : Way(la.state, way[1], way[2])
    BY <1>2 DEF Way, States, Inside, ReadingATag
  <2>3. \A way \in W : way[2] # "CommentStart"
    BY <1>2
  <2>4. Way(la.state, "other", move.other)
    BY <1>2, <2>1 DEF Way, States, Inside, ReadingATag
  <2> HIDE DEF move, W
  <2> QED BY <2>1, <2>2, <2>3, <2>4 DEF Moving
<1>3. CASE la.state = "RawEndTagName"
  <2> DEFINE W == {<<"W", "BeforeAttributeName">>, <<"/", "SelfClosingStartTag">>,
                   <<">", "Emit">>, <<"a", "RawEndTagName">>}
  <2>1. move.on \subseteq W /\ move.other = "Raw" /\ move.again = TRUE
    BY <1>3 DEF RawMove, To
  <2>2. \A way \in W : Way(la.state, way[1], way[2])
    BY <1>3 DEF Way, States, Inside, ReadingATag
  <2>3. \A way \in W : way[2] # "CommentStart"
    BY <1>3
  <2>4. Way(la.state, "other", move.other)
    BY <1>3, <2>1 DEF Way, States, Inside, ReadingATag
  <2> HIDE DEF move, W
  <2> QED BY <2>1, <2>2, <2>3, <2>4 DEF Moving
<1>4. CASE la.state \in {"ScriptDataDoubleEscapeStart", "ScriptDataDoubleEscapeEnd"}
  <2> DEFINE W == {<<"W", "Raw">>, <<"/", "Raw">>, <<">", "Raw">>, <<"a", la.state>>}
  <2>1. move.on \subseteq W /\ move.other = "Raw" /\ move.again = TRUE
    BY <1>4 DEF RawMove, To
  <2>2. \A way \in W : Way(la.state, way[1], way[2])
    BY <1>4 DEF Way, States, Inside, ReadingATag
  <2>3. \A way \in W : way[2] # "CommentStart"
    BY <1>4
  <2>4. Way(la.state, "other", move.other)
    BY <1>4, <2>1 DEF Way, States, Inside, ReadingATag
  <2> HIDE DEF move, W
  <2> QED BY <2>1, <2>2, <2>3, <2>4 DEF Moving
<1>5. CASE la.state = "MarkupDeclarationOpen"
  <2> DEFINE W == {<<"-", "CommentStart">>, <<"D", "Doctype">>, <<"C", "CdataSection">>}
  <2>1. move.on \subseteq W /\ move.other = "BogusComment" /\ move.again = TRUE
    BY <1>5 DEF RawMove, To
  <2>2. \A way \in W : Way(la.state, way[1], way[2])
    BY <1>5 DEF Way, States, Inside, ReadingATag
  <2>3. \A way \in move.on : way[2] = "CommentStart" => f = "-"
    BY <1>5 DEF RawMove, To
  <2>4. Way(la.state, "other", move.other)
    BY <1>5, <2>1 DEF Way, States, Inside, ReadingATag
  <2> HIDE DEF move, W
  <2> QED BY <2>1, <2>2, <2>3, <2>4 DEF Moving
<1> QED BY <1>1, <1>2, <1>3, <1>4, <1>5 DEF RawStates

\* Every state moves so.
LEMMA MoveIs ==
  ASSUME NEW la, la.state \in States, NEW f
  PROVE  Moving(la.state, Move(la, f), f)
<1>1. /\ DOMAIN TagMoves = TagStates /\ DOMAIN CommentMoves = CommentStates
      /\ DOMAIN ScriptMoves = ScriptStates
      /\ \A s \in TagStates : \A e : Moving(s, TagMoves[s], e)
      /\ \A s \in CommentStates : \A e : Moving(s, CommentMoves[s], e)
      /\ \A s \in ScriptStates : \A e : Moving(s, ScriptMoves[s], e)
  BY TagMovesAre, CommentMovesAre, ScriptMovesAre
<1>2. la.state \in TagStates \cup CommentStates \cup ScriptStates \cup RawStates
  BY DEF States, TagStates, CommentStates, ScriptStates, RawStates
<1>3. /\ TagStates \cap CommentStates = {} /\ TagStates \cap ScriptStates = {}
      /\ CommentStates \cap ScriptStates = {}
      /\ RawStates \cap (TagStates \cup CommentStates \cup ScriptStates) = {}
  BY DEF TagStates, CommentStates, ScriptStates, RawStates
<1>4. CASE la.state \in TagStates
  <2>1. Move(la, f) = TagMoves[la.state]
    BY <1>1, <1>3, <1>4 DEF Move
  <2> QED BY <1>1, <1>4, <2>1
<1>5. CASE la.state \in CommentStates
  <2>1. Move(la, f) = CommentMoves[la.state]
    BY <1>1, <1>3, <1>5 DEF Move
  <2> QED BY <1>1, <1>5, <2>1
<1>6. CASE la.state \in ScriptStates
  <2>1. Move(la, f) = ScriptMoves[la.state]
    BY <1>1, <1>3, <1>6 DEF Move
  <2> QED BY <1>1, <1>6, <2>1
<1>7. CASE la.state \in RawStates
  <2>1. Move(la, f) = RawMove(la, f)
    BY <1>1, <1>3, <1>7 DEF Move
  <2> QED BY <1>7, <2>1, RawMovesAre
<1> QED BY <1>2, <1>4, <1>5, <1>6, <1>7

\* What is read: a character, or the end.
Characters == STRING \cup {"end"}

\* Readers, and what holds of one that has read from one place up to another: it has attributes
\* only inside a tag, no more than it read characters, and knows where that tag began.
Reader ==
  [state : States \cup {"Emit"}, raw : {"rcdata", "script", "escaped", "double"}, start : Nat,
   isEnd : BOOLEAN, attributes : Nat, name : Seq(Characters), last : Seq(Characters),
   temp : Seq(Characters), foreign : BOOLEAN]

InATag(la) == la.state \in Inside \cup {"Emit"}

Sound(la, from, i) ==
  /\ la \in Reader
  /\ IF InATag(la) THEN la.attributes < i ELSE la.attributes = 0
  /\ IF ReadingATag(la.state) THEN from <= la.start /\ la.start < i ELSE la.start = Nowhere

\* What is inside a tag's attributes stays in that tag.
Later(la, then) ==
  InATag(la) =>
    InATag(then) /\ then.start = la.start /\ la.attributes <= then.attributes

\* A character that leads somewhere.
LEMMA LedToReader ==
  ASSUME NEW la \in Reader, NEW i \in Nat, NEW c \in Characters, NEW t \in States \cup {"Emit"}
  PROVE  LET to == LedTo(la, c, i, t) IN
         /\ to \in Reader /\ to.state = t
         /\ to.start = (IF c = "<" /\ t \in {"TagOpen", "RawLessThanSign"} THEN i
                        ELSE IF ReadingATag(t) THEN la.start ELSE Nowhere)
         /\ to.attributes = (IF t \in {"TagName", "RawEndTagName"} /\ la.state # t THEN 0
                             ELSE IF t = "AttributeName" /\ la.state # t THEN la.attributes + 1
                             ELSE la.attributes)
<1> DEFINE sc == Scribbled(la, c, t)
           to == LedTo(la, c, i, t)
<1>1. la \in Reader
  OBVIOUS
<1>2. /\ sc \in Reader /\ sc.start = la.start
      /\ sc.attributes = (IF t \in {"TagName", "RawEndTagName"} /\ la.state # t THEN 0
                          ELSE IF t = "AttributeName" /\ la.state # t THEN la.attributes + 1
                          ELSE la.attributes)
  <2>0. /\ la.attributes \in Nat /\ <<c>> \in Seq(Characters) /\ <<>> \in Seq(Characters)
        /\ Append(la.name, c) \in Seq(Characters) /\ Append(la.temp, c) \in Seq(Characters)
    BY DEF Reader
  <2>1. CASE t \in {"TagName", "RawEndTagName"} /\ la.state # t
    <3> DEFINE e == la.state # "TagOpen"
    <3>1. sc = [la EXCEPT !.name = <<c>>, !.isEnd = e, !.attributes = 0] /\ e \in BOOLEAN
      <4>1. e \in BOOLEAN
        OBVIOUS
      <4>2. sc = [la EXCEPT !.name = <<c>>, !.isEnd = la.state # "TagOpen", !.attributes = 0]
        BY <2>1 DEF Scribbled
      <4> QED BY <4>1, <4>2
    <3> HIDE DEF e
    <3> HIDE DEF sc
    <3> QED BY <2>0, <2>1, <3>1 DEF Reader
  <2>2. CASE t \in {"TagName", "RawEndTagName"} /\ la.state = t
    <3>1. sc = [la EXCEPT !.name = Append(@, c)]
      BY <2>2 DEF Scribbled
    <3> HIDE DEF sc
    <3> QED BY <2>0, <2>2, <3>1 DEF Reader
  <2>3. CASE t = "AttributeName" /\ la.state # t
    <3>1. sc = [la EXCEPT !.attributes = @ + 1]
      <4>1. t = "AttributeName" /\ la.state # "AttributeName"
        BY <2>3
      <4> HIDE DEF to
      <4> QED BY ONLY <4>1 DEF Scribbled, sc
    <3> HIDE DEF sc
    <3>2. la.attributes + 1 \in Nat
      BY <2>0
    <3>3. sc \in Reader /\ sc.start = la.start /\ sc.attributes = la.attributes + 1
      BY ONLY <1>1, <3>1, <3>2 DEF Reader
    <3> QED BY <2>3, <3>3
  <2>4. CASE t \in {"ScriptDataDoubleEscapeStart", "ScriptDataDoubleEscapeEnd"}
    <3>1. sc \in {[la EXCEPT !.temp = <<>>], [la EXCEPT !.temp = <<c>>],
                   [la EXCEPT !.temp = Append(@, c)]}
      BY <2>4 DEF Scribbled
    <3> HIDE DEF sc
    <3> QED BY <2>0, <2>4, <3>1 DEF Reader
  <2>5. CASE /\ t \notin {"TagName", "RawEndTagName", "ScriptDataDoubleEscapeStart",
                         "ScriptDataDoubleEscapeEnd"}
             /\ ~(t = "AttributeName" /\ la.state # t)
    <3>1. sc = la
      BY <2>5 DEF Scribbled
    <3> QED BY <2>5, <3>1
  <2> QED BY <2>1, <2>2, <2>3, <2>4, <2>5
<1>3. RawAfter(la, c, t) \in {"rcdata", "script", "escaped", "double"}
  BY DEF RawAfter, Reader
<1> DEFINE begun == IF c = "<" /\ t \in {"TagOpen", "RawLessThanSign"} THEN i
                    ELSE IF ReadingATag(t) THEN sc.start ELSE Nowhere
<1>4. to = [sc EXCEPT !.state = t, !.raw = RawAfter(la, c, t), !.start = begun]
  BY DEF LedTo
<1>5. begun \in Nat
  BY <1>2 DEF Reader, Nowhere
<1> HIDE DEF sc, begun
<1>6. /\ to \in Reader /\ to.state = t /\ to.start = begun /\ to.attributes = sc.attributes
  <2> HIDE DEF to
  <2> QED BY <1>2, <1>3, <1>4, <1>5 DEF Reader
<1> HIDE DEF to
<1> QED BY <1>2, <1>6 DEF to, begun

\* What a character that leads somewhere leaves is sound, and no fewer attributes.
LEMMA LedToIs ==
  ASSUME NEW from \in Nat, NEW i \in Nat, NEW la, Sound(la, from, i), la.state # "Emit",
         NEW c \in Characters, NEW k, NEW t, Way(la.state, k, t), from <= i, k = "<" => c = "<"
  PROVE  LET to == LedTo(la, c, i, t) IN
         /\ to.state = t /\ Later(la, to) /\ Sound(to, from, i + 1)
         /\ t \notin {"AttributeName", "TagOpen", "RawLessThanSign"} => Sound(to, from, i)
<1> DEFINE to == LedTo(la, c, i, t)
           begun == IF c = "<" /\ t \in {"TagOpen", "RawLessThanSign"} THEN i
                    ELSE IF ReadingATag(t) THEN la.start ELSE Nowhere
           count == IF t \in {"TagName", "RawEndTagName"} /\ la.state # t THEN 0
                    ELSE IF t = "AttributeName" /\ la.state # t THEN la.attributes + 1
                    ELSE la.attributes
<1>1. la \in Reader /\ la.state \in States /\ t \in States \cup {"Emit"}
  BY DEF Sound, Way, Reader
<1>6. /\ to \in Reader /\ to.state = t /\ to.start = begun /\ to.attributes = count
  BY <1>1, LedToReader
<1>5. begun \in Nat
  BY <1>1 DEF Reader, Nowhere
<1> HIDE DEF to, begun
<1>7. Later(la, to)
  <2> SUFFICES ASSUME la.state \in Inside
               PROVE  InATag(to) /\ to.start = la.start /\ la.attributes <= to.attributes
    BY DEF Later, InATag
  <2>1. t \in Inside \cup {"Emit"}
    BY DEF Way
  <2>2. t \notin {"TagName", "RawEndTagName", "TagOpen", "RawLessThanSign"} /\ ReadingATag(t)
    BY <2>1 DEF Inside, ReadingATag
  <2>3. la.attributes \in Nat
    BY <1>1 DEF Reader
  <2> QED BY <1>6, <2>1, <2>2, <2>3 DEF InATag, begun
<1>8. IF InATag(to) THEN to.attributes < i + 1 ELSE to.attributes = 0
  <2>1. la.attributes \in Nat
    BY <1>1 DEF Reader
  <2>2. CASE la.state \in Inside
    <3>1. la.attributes < i /\ t \in Inside \cup {"Emit"}
      BY <2>2 DEF Sound, InATag, Way
    <3> QED BY <1>6, <2>1, <3>1 DEF InATag
  <2>3. CASE la.state \notin Inside
    <3>1. la.attributes = 0 /\ t # "AttributeName"
      BY <1>1, <2>3 DEF Sound, InATag, Way, Inside
    <3> QED BY <1>6, <2>1, <3>1
  <2> QED BY <2>2, <2>3
<1>9. IF ReadingATag(t) THEN from <= begun /\ begun < i + 1 ELSE begun = Nowhere
  <2>1. t \in {"TagOpen", "RawLessThanSign"} => ReadingATag(t)
    BY DEF ReadingATag
  <2>2. CASE ReadingATag(la.state)
    <3>1. from <= la.start /\ la.start < i /\ la.start \in Nat
      BY <1>1, <2>2 DEF Sound, Reader
    <3> QED BY <2>1, <3>1 DEF begun
  <2>3. CASE ~ReadingATag(la.state)
    <3>1. ReadingATag(t) => t \in {"TagOpen", "RawLessThanSign"} /\ c = "<"
      BY <2>3 DEF Way
    <3> QED BY <2>1, <3>1 DEF begun
  <2> QED BY <2>2, <2>3
<1>10. ASSUME t \notin {"AttributeName", "TagOpen", "RawLessThanSign"}
       PROVE  Sound(to, from, i)
  <2>1. la.attributes \in Nat /\ la.start \in Nat
    BY <1>1 DEF Reader
  <2>2. IF ReadingATag(t) THEN from <= begun /\ begun < i ELSE begun = Nowhere
    <3>1. ReadingATag(t) => ReadingATag(la.state)
      BY <1>10 DEF Way
    <3> QED BY <1>10, <3>1 DEF begun, Sound
  <2>3. IF InATag(to) THEN to.attributes < i ELSE to.attributes = 0
    <3>1. CASE la.state \in Inside
      <4>1. la.attributes < i /\ t \in Inside \cup {"Emit"}
        BY <3>1 DEF Sound, InATag, Way
      <4> QED BY <1>6, <1>10, <2>1, <4>1 DEF InATag
    <3>2. CASE la.state \notin Inside
      <4>1. la.attributes = 0
        BY <1>1, <3>2 DEF Sound, InATag
      <4>2. InATag(to) => ReadingATag(t)
        BY <1>6 DEF InATag, ReadingATag, Inside
      <4>3. InATag(to) => 0 < i
        <5>1. InATag(to) => begun \in Nat /\ begun < i
          BY <1>5, <2>2, <4>2
        <5> QED BY <5>1
      <4> QED BY <1>6, <1>10, <4>1, <4>3
    <3> QED BY <3>1, <3>2
  <2> QED BY <1>6, <2>2, <2>3 DEF Sound
<1> QED BY <1>6, <1>7, <1>8, <1>9, <1>10 DEF Sound, to

\* A reader that was sound is sound a character later.
LEMMA SoundOn ==
  ASSUME NEW from \in Nat, NEW i \in Nat, NEW j \in Nat, i <= j, NEW la, Sound(la, from, i)
  PROVE  Sound(la, from, j)
BY DEF Sound, Reader

\* What is later than what is later is later.
LEMMA LaterOn ==
  ASSUME NEW la \in Reader, NEW b \in Reader, NEW c \in Reader, Later(la, b), Later(b, c)
  PROVE  Later(la, c)
<1>1. la.attributes \in Nat /\ b.attributes \in Nat /\ c.attributes \in Nat
  BY DEF Reader
<1> QED BY <1>1 DEF Later

\* A character on its way through the states: what it leaves is sound a character later, and
\* what will read it again is where the character was not yet read.
Opens(la, f) == la.state = "CommentStart" => f = "-"

Through(la, r, from, i) ==
  /\ r.again \in BOOLEAN /\ Later(la, r.la) /\ Sound(r.la, from, i + 1)
  /\ r.again => Sound(r.la, from, i) /\ r.la.state # "Emit"

\* A state that reads a character, or leaves it to the next, keeps the reader sound.
LEMMA ReadOnceIs ==
  ASSUME NEW from \in Nat, NEW i \in Nat, from <= i, NEW la \in Reader,
         NEW c \in Characters, NEW f, NEW r, Through(la, r, from, i)
  PROVE  Through(la, ReadOnce(r, c, i, f), from, i)
<1>1. CASE r.again = FALSE
  BY <1>1 DEF ReadOnce
<1>2. CASE r.again = TRUE
  <2> DEFINE move == Move(r.la, f)
             t == Leads(move, c)
             again == move.again /\ \A way \in move.on : way[1] # Class(c)
             n == [la |-> LedTo(r.la, c, i, t), again |-> again]
  <2>1. Sound(r.la, from, i) /\ r.la.state # "Emit" /\ r.la \in Reader /\ r.la.state \in States
    BY <1>2 DEF Through, Sound, Reader
  <2>2. Moving(r.la.state, move, f)
    BY <2>1, MoveIs
  <2>3. ReadOnce(r, c, i, f) = n
    BY <1>2 DEF ReadOnce
  <2> HIDE DEF move
  <2>4. again \in BOOLEAN
    OBVIOUS
  <2>5. CASE \E way \in move.on : way[1] = Class(c)
    <3> DEFINE way == CHOOSE way \in move.on : way[1] = Class(c)
    <3>1. way \in move.on /\ way[1] = Class(c) /\ t = way[2]
      BY <2>5 DEF Leads
    <3>2. Way(r.la.state, Class(c), t)
      <4> HIDE DEF way, t
      <4> QED BY <2>2, <3>1 DEF Moving
    <3>3. Class(c) = "<" => c = "<"
      BY DEF Class
    <3>4. ~again
      BY <2>5
    <3> HIDE DEF again, t, way
    <3>5. Later(r.la, LedTo(r.la, c, i, t)) /\ Sound(LedTo(r.la, c, i, t), from, i + 1)
      BY <2>1, <3>2, <3>3, LedToIs
    <3>6. n.again = again /\ n.la = LedTo(r.la, c, i, t)
      OBVIOUS
    <3> HIDE DEF n
    <3>7. r.la \in Reader /\ n.la \in Reader /\ Later(la, r.la)
      BY <3>5, <3>6 DEF Through, Sound
    <3> QED BY <2>3, <2>4, <3>4, <3>5, <3>6, <3>7, LaterOn DEF Through
  <2>6. CASE ~\E way \in move.on : way[1] = Class(c)
    <3>1. t = move.other
      BY <2>6 DEF Leads
    <3>2. Way(r.la.state, "other", t) /\ t \notin {"Emit", "TagOpen", "RawLessThanSign"}
          /\ (move.again => t # "AttributeName")
      BY <2>2, <3>1 DEF Moving
    <3>3. again => t # "AttributeName"
      BY <3>2
    <3> HIDE DEF again, t
    <3>4. "other" = "<" => c = "<"
      OBVIOUS
    <3>5. /\ Later(r.la, LedTo(r.la, c, i, t)) /\ Sound(LedTo(r.la, c, i, t), from, i + 1)
          /\ LedTo(r.la, c, i, t).state = t
          /\ again => Sound(LedTo(r.la, c, i, t), from, i)
      <4>1. Way(r.la.state, "other", t)
        BY <3>2
      <4>2. LET to == LedTo(r.la, c, i, t) IN
              /\ to.state = t /\ Later(r.la, to) /\ Sound(to, from, i + 1)
              /\ t \notin {"AttributeName", "TagOpen", "RawLessThanSign"} => Sound(to, from, i)
        BY <2>1, <3>4, <4>1, LedToIs
      <4> QED BY <3>2, <3>3, <4>2
    <3>6. n.again = again /\ n.la = LedTo(r.la, c, i, t)
      OBVIOUS
    <3> HIDE DEF n
    <3>7. r.la \in Reader /\ n.la \in Reader /\ Later(la, r.la)
      BY <3>5, <3>6 DEF Through, Sound
    <3>8. Later(la, n.la)
      BY <3>5, <3>6, <3>7, LaterOn
    <3>9. n.again => Sound(n.la, from, i) /\ n.la.state # "Emit"
      BY <3>2, <3>5, <3>6
    <3> QED BY <2>3, <2>4, <3>5, <3>6, <3>8, <3>9 DEF Through
  <2> QED BY <2>5, <2>6
<1> QED BY <1>1, <1>2 DEF Through

\* A character read.
LEMMA ReadsIs ==
  ASSUME NEW from \in Nat, NEW i \in Nat, from <= i, NEW la, Sound(la, from, i),
         la.state # "Emit", NEW c \in Characters, NEW f
  PROVE  /\ Later(la, Reads(la, c, i, f)) /\ Sound(Reads(la, c, i, f), from, i + 1)
<1> DEFINE Once(r) == ReadOnce(r, c, i, f)
           r0 == [la |-> la, again |-> TRUE]
<1>1. la \in Reader
  BY DEF Sound
<1>2. Through(la, r0, from, i)
  <2>0. Sound(la, from, i + 1)
    BY SoundOn
  <2>1. Later(la, la)
    <3>1. la.attributes \in Nat
      BY <1>1 DEF Reader
    <3> QED BY <3>1 DEF Later
  <2> QED BY <2>0, <2>1 DEF Through
<1>3. Reads(la, c, i, f) = Once(Once(Once(r0))).la
  BY DEF Reads
<1> HIDE DEF r0
<1>4. \A r : Through(la, r, from, i) => Through(la, Once(r), from, i)
  BY <1>1, ReadOnceIs
<1> HIDE DEF Once
<1>5. Through(la, Once(Once(Once(r0))), from, i)
  BY <1>2, <1>4
<1> QED BY <1>3, <1>5 DEF Through

\* Whatever a reader was, it reads, and takes the dashes that open a comment together.
Typed(r, f) ==
  /\ r.again \in BOOLEAN /\ r.la \in Reader
  /\ r.again => r.la.state # "Emit"
  /\ ~r.again => Opens(r.la, f)

\* What a state may leave a character to, and that a comment opens on two dashes.
LEMMA ReadOnceReads ==
  ASSUME NEW i \in Nat, NEW c \in Characters, NEW f, NEW r, Typed(r, f)
  PROVE  /\ Typed(ReadOnce(r, c, i, f), f)
         /\ Opens(ReadOnce(r, c, i, f).la, f)
<1>1. CASE r.again = FALSE
  BY <1>1 DEF ReadOnce, Typed
<1>2. CASE r.again = TRUE
  <2> DEFINE move == Move(r.la, f)
             t == Leads(move, c)
             again == move.again /\ \A way \in move.on : way[1] # Class(c)
             to == LedTo(r.la, c, i, t)
             n == [la |-> to, again |-> again]
  <2>1. r.la \in Reader /\ r.la.state \in States
    BY <1>2 DEF Typed, Reader
  <2>2. Moving(r.la.state, move, f)
    BY <2>1, MoveIs
  <2>3. ReadOnce(r, c, i, f) = n
    BY <1>2 DEF ReadOnce
  <2> HIDE DEF move
  <2>4. /\ t \in States \cup {"Emit"} /\ (t = "CommentStart" => f = "-")
        /\ again => t # "Emit"
    <3>1. CASE \E way \in move.on : way[1] = Class(c)
      <4> DEFINE way == CHOOSE way \in move.on : way[1] = Class(c)
      <4>1. way \in move.on /\ t = way[2]
        BY <3>1 DEF Leads
      <4>2. ~again
        BY <3>1
      <4> HIDE DEF way, t, again
      <4> QED BY <2>2, <4>1, <4>2 DEF Moving, Way
    <3>2. CASE ~\E way \in move.on : way[1] = Class(c)
      <4>1. t = move.other
        BY <3>2 DEF Leads
      <4> HIDE DEF t, again
      <4> QED BY <2>2, <4>1 DEF Moving, Way
    <3> QED BY <3>1, <3>2
  <2>5. again \in BOOLEAN
    BY <2>2 DEF Moving
  <2> HIDE DEF t, again
  <2>6. to \in Reader /\ to.state = t
    <3>1. r.la \in Reader /\ t \in States \cup {"Emit"}
      BY <2>1, <2>4
    <3>2. LET s == LedTo(r.la, c, i, t) IN s \in Reader /\ s.state = t
      <4> HIDE DEF n, to
      <4> QED BY <3>1, LedToReader
    <3> QED BY <3>2
  <2> HIDE DEF to
  <2> QED BY <1>2, <2>3, <2>4, <2>5, <2>6 DEF Typed, Opens
<1> QED BY <1>1, <1>2 DEF Typed

\* A character is read whatever state it is met in.
LEMMA ReadsReads ==
  ASSUME NEW i \in Nat, NEW la \in Reader, la.state # "Emit", NEW c \in Characters, NEW f
  PROVE  Reads(la, c, i, f) \in Reader /\ Opens(Reads(la, c, i, f), f)
<1> DEFINE Once(r) == ReadOnce(r, c, i, f)
           r0 == [la |-> la, again |-> TRUE]
<1>1. Reads(la, c, i, f) = Once(Once(Once(r0))).la
  BY DEF Reads
<1>2. Typed(r0, f) /\ r0.again
  BY DEF Typed
<1> HIDE DEF r0
<1>3. \A r : Typed(r, f) => Typed(Once(r), f) /\ Opens(Once(r).la, f)
  BY ReadOnceReads
<1> HIDE DEF Once
<1>4. Typed(Once(Once(Once(r0))), f) /\ Typed(Once(Once(r0)), f)
  BY <1>2, <1>3
<1>5. Opens(Once(Once(Once(r0))).la, f)
  BY <1>3, <1>4
<1> QED BY <1>1, <1>4, <1>5 DEF Typed

\* What a scan is at, at each place.
Scanner ==
  {v \in [scan : {"on", "limit", "tag"}, la : Reader, at : Nat] :
     v.scan = "on" => v.la.state # "Emit"}

\* Every place has a character, past the end too.
LEMMA CharIs ==
  ASSUME html \in Seq(STRING), NEW i \in Nat
  PROVE  CharAt(html, i) \in Characters /\ (CharAt(html, i) = "-" => i < Len(html))
<1>1. CASE i < Len(html)
  <2>1. i + 1 \in 1 .. Len(html)
    BY <1>1
  <2>2. html[i + 1] \in Characters
    BY <2>1 DEF Characters
  <2>3. CharAt(html, i) = html[i + 1]
    BY <1>1 DEF CharAt
  <2> QED BY <1>1, <2>2, <2>3
<1>2. CASE ~(i < Len(html))
  <2>1. CharAt(html, i) = "end"
    BY <1>2 DEF CharAt
  <2>2. "end" \in Characters
    BY DEF Characters
  <2>3. "end" # "-"
    OBVIOUS
  <2> QED BY <2>1, <2>2, <2>3
<1> QED BY <1>1, <1>2

\* A step of the scan, by what the scan is and where it is.
LEMMA ScanOnIs ==
  ASSUME html \in Seq(STRING), NEW v \in Scanner, NEW i \in Nat, NEW limit \in Nat
  PROVE  /\ ScanOn(v, i, limit) \in Scanner
         /\ v.scan # "on" \/ i < v.at => ScanOn(v, i, limit) = v
         /\ v.scan = "on" /\ ~(i < v.at) /\ i >= limit =>
              ScanOn(v, i, limit) = [v EXCEPT !.scan = "limit"]
         /\ v.scan = "on" /\ ~(i < v.at) /\ ~(i >= limit) =>
              LET s == ScanOn(v, i, limit)
                  la == Reads(v.la, CharAt(html, i), i, CharAt(html, i + 1)) IN
              /\ s.la = la
              /\ s.scan = (IF la.state = "Emit" THEN "tag" ELSE "on")
              /\ s.at = i + (IF la.state = "CommentStart" THEN 2 ELSE 1)
              /\ la.state = "CommentStart" => i + 1 < Len(html)
<1> DEFINE s == ScanOn(v, i, limit)
           la == Reads(v.la, CharAt(html, i), i, CharAt(html, i + 1))
<1>0. /\ v.la \in Reader /\ v.at \in Nat /\ v.scan \in {"on", "limit", "tag"}
      /\ v.scan = "on" => v.la.state # "Emit"
      /\ v \in [scan : {"on", "limit", "tag"}, la : Reader, at : Nat]
  BY DEF Scanner
<1>1. CASE v.scan # "on" \/ i < v.at
  BY <1>1 DEF ScanOn
<1>2. CASE v.scan = "on" /\ ~(i < v.at) /\ i >= limit
  <2>1. s = [v EXCEPT !.scan = "limit"]
    BY <1>2 DEF ScanOn
  <2> HIDE DEF s
  <2> QED BY <1>0, <1>2, <2>1 DEF Scanner, s
<1>3. CASE v.scan = "on" /\ ~(i < v.at) /\ ~(i >= limit)
  <2>1. s = [scan |-> IF la.state = "Emit" THEN "tag" ELSE "on", la |-> la,
             at |-> i + (IF la.state = "CommentStart" THEN 2 ELSE 1)]
    BY <1>3 DEF ScanOn
  <2>2. la \in Reader /\ (la.state = "CommentStart" => i + 1 < Len(html))
    <3>1. CharAt(html, i) \in Characters /\ (CharAt(html, i + 1) = "-" => i + 1 < Len(html))
      BY CharIs
    <3>2. la \in Reader /\ Opens(la, CharAt(html, i + 1))
      BY <1>0, <1>3, <3>1, ReadsReads
    <3> QED BY <3>1, <3>2 DEF Opens
  <2> HIDE DEF s, la
  <2>3. s \in Scanner
    BY <2>1, <2>2 DEF Scanner
  <2> QED BY <1>3, <2>1, <2>2, <2>3 DEF s, la
<1> QED BY <1>1, <1>2, <1>3

\* What a scan that stopped does: nothing.
LEMMA ScanStops ==
  ASSUME html \in Seq(STRING), NEW v \in Scanner, NEW i \in Nat, NEW limit \in Nat, v.scan = "on",
         ~(i < v.at), i >= limit, NEW s, s = ScanOn(v, i, limit)
  PROVE  s.scan = "limit" /\ s.la = v.la /\ s.at = v.at
<1>1. s = [v EXCEPT !.scan = "limit"]
  BY ScanOnIs
<1> QED BY <1>1 DEF Scanner

\* What a scan does at a dash it took already: nothing.
LEMMA ScanStays ==
  ASSUME html \in Seq(STRING), NEW v \in Scanner, NEW i \in Nat, NEW limit \in Nat,
         v.scan # "on" \/ i < v.at
  PROVE  ScanOn(v, i, limit) = v
BY ScanOnIs

\* What a scan does where it reads.
LEMMA ScanReads ==
  ASSUME html \in Seq(STRING), NEW v \in Scanner, NEW i \in Nat, NEW limit \in Nat, v.scan = "on",
         ~(i < v.at), ~(i >= limit), NEW s, s = ScanOn(v, i, limit),
         NEW la, la = Reads(v.la, CharAt(html, i), i, CharAt(html, i + 1))
  PROVE  /\ s.la = la /\ s.scan = (IF la.state = "Emit" THEN "tag" ELSE "on")
         /\ s.at = i + (IF la.state = "CommentStart" THEN 2 ELSE 1)
         /\ la.state = "CommentStart" => i + 1 < Len(html)
BY ScanOnIs

\* A scan, with what it was at each place.
Scanned(h, la, from, limit) ==
  /\ h[0] = [scan |-> "on", la |-> la, at |-> from]
  /\ \A k \in 1 .. (Len(html) - from) :
       h[k - 1] \in Scanner /\ h[k] = ScanOn(h[k - 1], from + k - 1, limit)

\* A scan has a state at each place, the last of which is where it ended.
LEMMA ScansIs ==
  ASSUME html \in Seq(STRING), NEW la \in Reader, la.state # "Emit", NEW from \in Nat,
         from <= Len(html), NEW limit \in Nat
  PROVE  \E h : Scanned(h, la, from, limit) /\ h[Len(html) - from] = ScanFrom(la, from, limit)
<1> DEFINE n == Len(html) - from
           s == [i \in 1 .. n |-> i]
           V == Scanner
           none == [scan |-> "on", la |-> la, at |-> from]
           op(v, x) == ScanOn(v, from + x - 1, limit)
           T == [a \in (1 .. n) \X V |-> op(a[2], s[a[1]])]
           step(g, d) == IF d = {} THEN none ELSE op(g[d \ {Greatest(d)}], s[Greatest(d)])
           G == CHOOSE g : g = [d \in SUBSET (1 .. n) |-> step(g, d)]
<1>1. n \in Nat /\ DOMAIN s = 1 .. n /\ \A i \in 1 .. n : s[i] \in 1 .. n
  OBVIOUS
<1>2. \A v \in V, x \in 1 .. n : op(v, x) \in V
  <2> SUFFICES ASSUME NEW v \in V, NEW x \in 1 .. n PROVE op(v, x) \in V
    OBVIOUS
  <2>1. from + x - 1 \in Nat
    OBVIOUS
  <2> QED BY <2>1, ScanOnIs
<1>3. T \in Tables(n, V)
  <2>1. \A v \in V, i \in 1 .. n : op(v, s[i]) \in V
    <3> HIDE DEF op, V, n
    <3> QED BY <1>1, <1>2
  <2> HIDE DEF op, V, n
  <2> QED BY <2>1 DEF Tables
<1>4. none \in V
  BY DEF Scanner
<1>5. PICK g : Follows(g, n, V, none, T)
  <2> HIDE DEF T, V, n, none
  <2> QED BY <1>1, <1>3, <1>4, Folded
<1>6. \A d \in SUBSET (1 .. n) : g[d] = step(g, d)
  <2> SUFFICES ASSUME NEW d \in SUBSET (1 .. n), d # {}
               PROVE  T[<<Greatest(d), g[d \ {Greatest(d)}]>>]
                        = op(g[d \ {Greatest(d)}], s[Greatest(d)])
    <3> HIDE DEF T, V, n, op, none
    <3> QED BY <1>5 DEF Follows
  <2>1. Greatest(d) \in 1 .. n
    <3> HIDE DEF n
    <3> QED BY <1>1, GreatestIn
  <2>2. d \ {Greatest(d)} \in SUBSET (1 .. n)
    OBVIOUS
  <2>3. g[d \ {Greatest(d)}] \in V
    <3> HIDE DEF T, V, n, none
    <3> QED BY <1>5, <2>2 DEF Follows
  <2> HIDE DEF V, n, op
  <2> QED BY <2>1, <2>3
<1>7. g = [d \in SUBSET (1 .. n) |-> step(g, d)]
  <2>1. g = [d \in SUBSET (1 .. n) |-> g[d]]
    <3> HIDE DEF T, V, n, none
    <3> QED BY <1>5 DEF Follows
  <2> HIDE DEF step, n, V
  <2> QED BY <1>6, <2>1
<1>8. G = [d \in SUBSET (1 .. n) |-> step(G, d)]
  <2> HIDE DEF step, n
  <2> QED BY <1>7
<1>9. ScanFrom(la, from, limit) = G[1 .. n]
  BY <1>1 DEF ScanFrom, FoldLeft, MapThenFoldSet, Max, Greatest
<1> DEFINE h == [k \in 0 .. n |-> G[1 .. k]]
<1>10. h[0] = none /\ h[n] = ScanFrom(la, from, limit)
  <2>1. {} \in SUBSET (1 .. n) /\ step(G, {}) = none /\ 1 .. 0 = {} /\ 0 \in 0 .. n /\ n \in 0 .. n
    BY <1>1
  <2> HIDE DEF step, n, V, G, none
  <2> QED BY <1>8, <1>9, <2>1
<1>11. \A k \in 1 .. n : h[k] = op(h[k - 1], s[k])
  <2> SUFFICES ASSUME NEW k \in 1 .. n PROVE h[k] = op(h[k - 1], s[k])
    OBVIOUS
  <2>1. G[1 .. k] = step(G, 1 .. k)
    <3> HIDE DEF step, n, V, G
    <3> QED BY <1>1, <1>8, Peeled
  <2>2. step(G, 1 .. k) = op(G[1 .. (k - 1)], s[k])
    <3> HIDE DEF op, n, V, G
    <3> QED BY <1>1, Peeled
  <2>3. k \in 0 .. n /\ k - 1 \in 0 .. n
    BY <1>1
  <2> HIDE DEF op, step, n, V, G
  <2> QED BY <2>1, <2>2, <2>3
<1>12. \A k \in 0 .. n : k \in {j \in 0 .. n : h[j] \in V}
  <2>1. 0 \in {j \in 0 .. n : h[j] \in V}
    <3>1. 0 \in 0 .. n
      BY <1>1
    <3> HIDE DEF V, G, h, none, n
    <3> QED BY <1>4, <1>10, <3>1
  <2>2. ASSUME NEW k \in 1 .. n, k - 1 \in {j \in 0 .. n : h[j] \in V}
        PROVE  k \in {j \in 0 .. n : h[j] \in V}
    <3>1. k \in 0 .. n /\ s[k] \in 1 .. n
      BY <1>1
    <3>2. h[k] \in V
      <4> HIDE DEF op, V, n, h
      <4> QED BY <1>2, <1>11, <2>2, <3>1
    <3> HIDE DEF V, n, h
    <3> QED BY <3>1, <3>2
  <2> HIDE DEF V, n, h, G
  <2> QED BY <1>1, <2>1, <2>2, UpTo
<1>13. \A k \in 1 .. n : k - 1 \in 0 .. n
  BY <1>1
<1> HIDE DEF op, h, V, none
<1>14. \A k \in 1 .. n : h[k - 1] \in V
  BY <1>12, <1>13
<1>15. \A k \in 0 .. n : h[k] \in V
  BY <1>12
<1> QED BY <1>10, <1>11, <1>14, <1>15 DEF op, V, none, Scanned

\* What holds of a scan, begun at one place, at another; and of it there and later.
Scanning(v, from, i, limit) ==
  /\ v \in Scanner /\ Sound(v.la, from, v.at)
  /\ v.scan = "on" =>
       v.at = i \/ (v.at = i + 1 /\ v.la.state = "CommentStart" /\ i < Len(html))
  /\ v.scan = "limit" => v.at < i
  /\ v.scan = "tag" => v.at <= i
  /\ v.scan = "tag" <=> v.la.state = "Emit"
  /\ from <= v.at /\ v.at <= Len(html) /\ v.at <= limit + 1

Since(v, w) ==
  /\ v.scan # "on" => w = v
  /\ Later(v.la, w.la)
  /\ v.scan = "on" => v.at <= w.at /\ (w.scan = "tag" => v.at < w.at)

\* Nothing comes between a scan and itself.
LEMMA SinceItself ==
  ASSUME NEW v \in Scanner
  PROVE  Since(v, v)
<1>1. v.at \in Nat /\ v.la.attributes \in Nat
  BY DEF Scanner, Reader
<1> QED BY <1>1 DEF Since, Later

\* One step of a scan, from one place to the next.
LEMMA ScansOn ==
  ASSUME html \in Seq(STRING), NEW from \in Nat, NEW limit \in Nat, from <= limit,
         NEW i \in Nat, from <= i, i < Len(html), NEW w, Scanning(w, from, i, limit)
  PROVE  /\ Scanning(ScanOn(w, i, limit), from, i + 1, limit)
         /\ \A v \in Scanner : Since(v, w) => Since(v, ScanOn(w, i, limit))
<1> DEFINE s == ScanOn(w, i, limit)
           c == CharAt(html, i)
           f == CharAt(html, i + 1)
           la == Reads(w.la, c, i, f)
<1>1. /\ w \in Scanner /\ s \in Scanner /\ w.la \in Reader /\ s.la \in Reader
      /\ w.at \in Nat /\ s.at \in Nat /\ Len(html) \in Nat
      /\ w.scan \in {"on", "limit", "tag"}
  <2>1. w \in Scanner
    BY DEF Scanning
  <2>2. s \in Scanner
    BY <2>1, ScanOnIs
  <2> HIDE DEF s
  <2> QED BY <2>1, <2>2 DEF Scanner
<1>2. CASE w.scan # "on" \/ i < w.at
  <2>1. s = w
    BY <1>1, <1>2, ScanOnIs
  <2> HIDE DEF s
  <2>2. Scanning(s, from, i + 1, limit)
    BY <1>1, <1>2, <2>1 DEF Scanning
  <2> QED BY <2>1, <2>2 DEF s
<1>3. CASE w.scan = "on" /\ ~(i < w.at) /\ i >= limit
  <2>1. s = [w EXCEPT !.scan = "limit"]
    BY <1>1, <1>3, ScanOnIs
  <2>2. s.scan = "limit" /\ s.la = w.la /\ s.at = w.at /\ w.at = i
    BY <1>1, <1>3, <2>1 DEF Scanner, Scanning
  <2> HIDE DEF s
  <2>3. w.la.state # "Emit"
    BY <1>1, <1>3 DEF Scanner
  <2>4. Scanning(s, from, i + 1, limit)
    BY <1>1, <1>3, <2>2, <2>3 DEF Scanning
  <2>5. \A v \in Scanner : Since(v, w) => Since(v, s)
    BY <1>3, <2>2 DEF Since
  <2> QED BY <2>4, <2>5 DEF s
<1>4. CASE w.scan = "on" /\ ~(i < w.at) /\ ~(i >= limit)
  <2>1. /\ s.la = la /\ s.scan = (IF la.state = "Emit" THEN "tag" ELSE "on")
        /\ s.at = i + (IF la.state = "CommentStart" THEN 2 ELSE 1)
        /\ la.state = "CommentStart" => i + 1 < Len(html)
    <3>1. w \in Scanner
      BY <1>1
    <3> QED BY ONLY html \in Seq(STRING), <3>1, i \in Nat, limit \in Nat, <1>4, ScanOnIs
            DEF s, la, c, f
  <2>2. w.at = i /\ w.la.state # "Emit" /\ c \in Characters
    BY <1>1, <1>4, CharIs DEF Scanner, Scanning
  <2> HIDE DEF la, c, f, s
  <2>4. Later(w.la, la) /\ Sound(la, from, s.at)
    <3>1. Sound(w.la, from, i)
      BY <2>2 DEF Scanning
    <3>2. Later(w.la, la) /\ Sound(la, from, i + 1)
      BY <2>2, <3>1, ReadsIs DEF la
    <3>3. Sound(la, from, s.at)
      BY <1>1, <2>1, <3>2, SoundOn
    <3> QED BY <3>2, <3>3
  <2>5. Scanning(s, from, i + 1, limit)
    BY <1>1, <1>4, <2>1, <2>2, <2>4 DEF Scanning
  <2>6. ASSUME NEW v \in Scanner, Since(v, w)
        PROVE  Since(v, s)
    <3>1. v.la \in Reader /\ v.at \in Nat
      BY DEF Scanner
    <3>2. v.scan = "on" /\ Later(v.la, w.la) /\ v.at <= i
      BY <1>4, <2>2, <2>6 DEF Since
    <3>3. Later(v.la, s.la)
      BY <1>1, <2>1, <2>4, <3>1, <3>2, LaterOn
    <3>4. v.at < s.at
      BY <1>1, <2>1, <3>1, <3>2
    <3> QED BY <1>1, <3>1, <3>2, <3>3, <3>4 DEF Since
  <2> QED BY <2>5, <2>6 DEF s
<1> QED BY <1>1, <1>2, <1>3, <1>4

\* What holds of a scan at each place, and between any two places.
LEMMA ScanningIs ==
  ASSUME html \in Seq(STRING), NEW from \in Nat, from <= Len(html), NEW limit \in Nat,
         from <= limit, NEW la \in Reader, la.state # "Emit", Sound(la, from, from),
         NEW h, Scanned(h, la, from, limit)
  PROVE  /\ \A k \in 0 .. (Len(html) - from) : Scanning(h[k], from, from + k, limit)
         /\ \A j, k \in 0 .. (Len(html) - from) : j <= k => Since(h[j], h[k])
<1> DEFINE n == Len(html) - from
<1>1. n \in Nat
  OBVIOUS
<1>2. \A k \in 0 .. n : k \in {j \in 0 .. n : Scanning(h[j], from, from + j, limit)}
  <2> DEFINE P == {j \in 0 .. n : Scanning(h[j], from, from + j, limit)}
  <2>1. 0 \in P
    <3> DEFINE v == [scan |-> "on", la |-> la, at |-> from]
    <3>1. v \in Scanner /\ v.scan = "on" /\ v.la = la /\ v.at = from
      BY DEF Scanner
    <3>2. h[0] = v
      BY DEF Scanned
    <3> HIDE DEF v
    <3>3. Scanning(h[0], from, from + 0, limit)
      BY <3>1, <3>2 DEF Scanning
    <3> QED BY <1>1, <3>3
  <2>2. ASSUME NEW k \in 1 .. n, k - 1 \in P
        PROVE  k \in P
    <3>1. Scanning(h[k - 1], from, from + k - 1, limit) /\ k - 1 \in Nat
      BY <2>2
    <3>2. h[k] = ScanOn(h[k - 1], from + k - 1, limit)
      BY DEF Scanned
    <3>3. from + k - 1 \in Nat /\ from <= from + k - 1 /\ from + k - 1 < Len(html)
          /\ (from + k - 1) + 1 = from + k
      BY <1>1
    <3>4. Scanning(h[k], from, from + k, limit)
      BY <3>1, <3>2, <3>3, ScansOn
    <3> QED BY <3>4
  <2> HIDE DEF P, n
  <2>3. \A k \in 0 .. n : k \in P
    BY <1>1, <2>1, <2>2, UpTo
  <2> QED BY <2>3 DEF P
<1>3. ASSUME NEW j \in 0 .. n
      PROVE  \A k \in 0 .. n : j <= k => Since(h[j], h[k])
  <2> DEFINE P == {k \in 0 .. n : j <= k => Since(h[j], h[k])}
  <2>0. Scanning(h[j], from, from + j, limit) /\ h[j] \in Scanner
    BY <1>2 DEF Scanning
  <2>1. Since(h[j], h[j])
    BY <2>0, SinceItself
  <2>2. 0 \in P
    <3>1. j <= 0 => j = 0
      BY <1>1
    <3> QED BY <1>1, <2>1, <3>1
  <2>3. ASSUME NEW k \in 1 .. n, k - 1 \in P
        PROVE  k \in P
    <3>1. CASE j = k
      BY <2>1, <3>1
    <3>2. CASE ~(j <= k)
      BY <3>2
    <3>3. CASE j <= k - 1
      <4>1. Since(h[j], h[k - 1])
        BY <2>3, <3>3
      <4>2. h[k] = ScanOn(h[k - 1], from + k - 1, limit)
        BY DEF Scanned
      <4>3. from + k - 1 \in Nat /\ from <= from + k - 1 /\ from + k - 1 < Len(html)
        BY <1>1
      <4>4. Scanning(h[k - 1], from, from + k - 1, limit)
        <5>1. k - 1 \in 0 .. n /\ from + (k - 1) = from + k - 1
          BY <1>1
        <5> HIDE DEF n
        <5>2. Scanning(h[k - 1], from, from + (k - 1), limit)
          BY <1>2, <5>1
        <5> QED BY <5>1, <5>2
      <4>5. Since(h[j], h[k])
        BY <2>0, <4>1, <4>2, <4>3, <4>4, ScansOn
      <4> QED BY <4>5
    <3>4. j <= k - 1 \/ j = k \/ ~(j <= k)
      BY <1>1
    <3> QED BY <3>1, <3>2, <3>3, <3>4
  <2> HIDE DEF P, n
  <2>4. \A k \in 0 .. n : k \in P
    BY <1>1, <2>2, <2>3, UpTo
  <2> QED BY <2>4 DEF P
<1> HIDE DEF n
<1> QED BY <1>2, <1>3 DEF n

\* The tokenizer, the gate and the meter; and between characters.
Gates ==
  [reader : Reader, charged : Nat, refused : BOOLEAN, held : Nat, given : BOOLEAN,
   follow : BOOLEAN, text : BOOLEAN, skip : BOOLEAN, allowed : Nat, unpaid : BOOLEAN,
   dropped : Nat]
Parsers == {p \in Gates : p.reader.state # "Emit"}

\* What no token changes, and what one does: it is dropped only where the budget is spent, and
\* takes the work past the budget by no more than its own.
Onward(p, q, i, more) ==
  /\ q.allowed = p.allowed
  /\ q.dropped = p.dropped \/ (Spent(q) /\ q.dropped = i)
  /\ Spent(p) => Spent(q)
  /\ q.charged <= p.charged \/ q.charged <= budget + more

\* The meter is charged what the budget has, or refuses from then on.
LEMMA AffordIs ==
  ASSUME budget \in Nat, NEW p \in Gates, NEW units \in Nat
  PROVE  LET q == Afford(p, units) IN
         /\ q \in Gates
         /\ q \in {[p EXCEPT !.refused = TRUE], [p EXCEPT !.charged = @ + units]}
         /\ ~q.refused => ~p.refused /\ q.charged = p.charged + units /\ q.charged <= budget
         /\ Spent(p) => q = [p EXCEPT !.refused = TRUE]
         /\ q.charged <= p.charged \/ q.charged <= budget
         /\ Spent(p) => Spent(q)
<1> DEFINE q == Afford(p, units)
<1>0. /\ p.charged \in Nat /\ p.refused \in BOOLEAN /\ p.charged + units \in Nat
      /\ p.charged <= p.charged + units
  BY DEF Gates
<1>1. CASE p.refused \/ p.charged + units > budget
  <2>1. q = [p EXCEPT !.refused = TRUE]
    BY <1>1 DEF Afford
  <2>2. q \in Gates /\ q.refused = TRUE /\ q.charged = p.charged
    BY <1>0, <2>1 DEF Gates
  <2> HIDE DEF q
  <2> QED BY <1>0, <2>1, <2>2 DEF q, Spent
<1>2. CASE ~(p.refused \/ p.charged + units > budget)
  <2>1. q = [p EXCEPT !.charged = @ + units]
    BY <1>2 DEF Afford, Charge
  <2>2. q \in Gates /\ q.refused = p.refused /\ q.charged = p.charged + units
    BY <1>0, <2>1 DEF Gates
  <2>3. ~Spent(p)
    BY <1>0, <1>2 DEF Spent
  <2> HIDE DEF q
  <2> QED BY <1>0, <1>2, <2>1, <2>2, <2>3 DEF q
<1> QED BY <1>1, <1>2

\* A token goes to the tree builder only where the budget allows it.
LEMMA ProcessIs ==
  ASSUME budget \in Nat, NEW p \in Gates, NEW i \in Nat, NEW attributes \in Nat,
         NEW walk \in Nat
  PROVE  LET q == Process(p, i, attributes, walk) IN
         /\ q \in Gates /\ Onward(p, q, i, 1 + attributes + walk)
         /\ q.reader = p.reader /\ q.skip = p.skip /\ q.unpaid = p.unpaid /\ q.held = p.held
         /\ ~q.given => Spent(q)
<1> DEFINE units == 1 + p.held + attributes
           paid == Afford(p, units)
           q == Process(p, i, attributes, walk)
<1>0. /\ units \in Nat /\ p.charged \in Nat /\ p.refused \in BOOLEAN /\ p.dropped \in Nat
  BY DEF Gates
<1>1. /\ paid \in Gates
      /\ paid \in {[p EXCEPT !.refused = TRUE], [p EXCEPT !.charged = @ + units]}
      /\ ~paid.refused => ~p.refused /\ paid.charged = p.charged + units /\ paid.charged <= budget
      /\ Spent(p) => paid = [p EXCEPT !.refused = TRUE]
      /\ paid.charged <= p.charged \/ paid.charged <= budget
  <2> HIDE DEF units
  <2> QED BY <1>0, AffordIs
<1>2. /\ paid.charged \in Nat /\ paid.refused \in BOOLEAN
      /\ paid.reader = p.reader /\ paid.skip = p.skip /\ paid.unpaid = p.unpaid
      /\ paid.held = p.held /\ paid.allowed = p.allowed /\ paid.dropped = p.dropped
  <2> HIDE DEF paid, units
  <2> QED BY <1>1 DEF Gates
<1>3. CASE Spent(p) \/ paid.refused
  <2> DEFINE r == IF Spent(p) THEN p.refused ELSE TRUE
             d == IF paid.dropped < i THEN paid.dropped ELSE i
  <2>1. q = [paid EXCEPT !.refused = r, !.dropped = d, !.given = FALSE]
    BY <1>3 DEF Process
  <2>2. r \in BOOLEAN /\ d \in Nat /\ d \in {p.dropped, i}
    BY <1>0, <1>2
  <2> HIDE DEF q, paid, units
  <2>3. /\ q \in Gates /\ q.refused = r /\ q.charged = paid.charged /\ q.given = FALSE
        /\ q.reader = p.reader /\ q.skip = p.skip /\ q.unpaid = p.unpaid
        /\ q.held = p.held /\ q.allowed = p.allowed /\ q.dropped = d
    <3> HIDE DEF r, d
    <3> QED BY <1>1, <1>2, <2>1, <2>2 DEF Gates
  <2>4. Spent(q)
    <3>1. CASE Spent(p)
      <4>1. paid.charged = p.charged
        BY <1>0, <1>1, <3>1 DEF Gates
      <4> QED BY <2>3, <3>1, <4>1 DEF Spent
    <3>2. CASE ~Spent(p)
      BY <2>3, <3>2 DEF Spent
    <3> QED BY <3>1, <3>2
  <2>5. q.charged <= p.charged \/ q.charged <= budget + (1 + attributes + walk)
    BY <1>0, <1>1, <1>2, <2>3
  <2> HIDE DEF d, r
  <2> QED BY <2>2, <2>3, <2>4, <2>5 DEF Onward, q
<1>4. CASE ~(Spent(p) \/ paid.refused)
  <2>1. q = [Charge(paid, 1 + attributes + walk) EXCEPT !.given = TRUE]
    BY <1>4 DEF Process
  <2>2. q = [paid EXCEPT !.charged = paid.charged + (1 + attributes + walk), !.given = TRUE]
    <3> HIDE DEF paid, q
    <3> QED BY <1>1, <2>1 DEF Charge, Gates
  <2> HIDE DEF q, paid, units
  <2>3. /\ q \in Gates /\ q.charged = paid.charged + (1 + attributes + walk)
        /\ q.given = TRUE
        /\ q.reader = p.reader /\ q.skip = p.skip /\ q.unpaid = p.unpaid
        /\ q.held = p.held /\ q.allowed = p.allowed /\ q.dropped = p.dropped
    <3>1. paid.charged + (1 + attributes + walk) \in Nat
      BY <1>2
    <3> QED BY <1>1, <1>2, <2>2, <3>1 DEF Gates
  <2>4. q.charged <= budget + (1 + attributes + walk)
    BY <1>1, <1>2, <1>4, <2>3
  <2> QED BY <1>4, <2>3, <2>4 DEF Onward, q
<1> QED BY <1>3, <1>4

\* After a tag, the tokenizer is what the tag leaves it, but for what the tree builder says.
Ended(reader, la) ==
  /\ reader.state \in {"Data", "Raw", "Plaintext"}
  /\ reader.raw \in {"rcdata", "script", "escaped", "double"} /\ reader.foreign \in BOOLEAN
  /\ reader = [Emitted(la) EXCEPT !.foreign = reader.foreign, !.state = reader.state,
                                  !.raw = reader.raw]

\* What an emitted tag leaves has no attributes and began nowhere.
LEMMA EmittedIs ==
  ASSUME NEW la \in Reader
  PROVE  /\ Emitted(la) \in Reader /\ Emitted(la).state = "Data"
         /\ Emitted(la).attributes = 0 /\ Emitted(la).start = Nowhere
         /\ Ended(Emitted(la), la)
<1> DEFINE last == IF la.isEnd THEN la.last ELSE la.name
           e == Emitted(la)
<1>1. e = [la EXCEPT !.state = "Data", !.start = Nowhere, !.attributes = 0, !.last = last]
  BY DEF Emitted
<1>2. last \in Seq(Characters) /\ Nowhere \in Nat /\ "Data" \in States
  BY DEF Reader, Nowhere, States
<1> HIDE DEF last, e
<1>3. /\ e \in Reader /\ e.state = "Data" /\ e.attributes = 0 /\ e.start = Nowhere
      /\ e.raw \in {"rcdata", "script", "escaped", "double"} /\ e.foreign \in BOOLEAN
  BY <1>1, <1>2 DEF Reader
<1>4. e = [e EXCEPT !.foreign = e.foreign, !.state = e.state, !.raw = e.raw]
  BY <1>3 DEF Reader
<1> QED BY <1>3, <1>4 DEF Ended, e

\* So does what the tree builder makes of it.
LEMMA EndedIs ==
  ASSUME NEW la \in Reader, NEW r, Ended(r, la)
  PROVE  r \in Reader /\ r.state # "Emit" /\ r.attributes = 0 /\ r.start = Nowhere
<1>1. Emitted(la) \in Reader /\ Emitted(la).attributes = 0 /\ Emitted(la).start = Nowhere
  BY EmittedIs
<1>2. {"Data", "Raw", "Plaintext"} \subseteq States
  BY DEF States
<1> DEFINE f == r.foreign
           s == r.state
           w == r.raw
           e == Emitted(la)
<1>3. /\ f \in BOOLEAN /\ s \in States /\ s # "Emit"
      /\ w \in {"rcdata", "script", "escaped", "double"}
      /\ r = [e EXCEPT !.foreign = f, !.state = s, !.raw = w]
  BY <1>2 DEF Ended
<1> HIDE DEF f, s, w, e
<1> QED BY <1>1, <1>3 DEF Reader, e

\* The tree builder changes only where the tokenizer is and what is open.
LEMMA BuiltIs ==
  ASSUME NEW p \in Gates
  PROVE  /\ Built(p) \in Parsers /\ Ended(Built(p).reader, p.reader)
         /\ LET q == Built(p) IN
            /\ q.charged = p.charged /\ q.refused = p.refused /\ q.given = p.given
            /\ q.text = p.text /\ q.skip = p.skip /\ q.allowed = p.allowed
            /\ q.unpaid = p.unpaid /\ q.dropped = p.dropped
<1> DEFINE la == p.reader
           name == Head(la.name)
           e == Emitted(la)
           f == IF name = "t" THEN ~la.isEnd ELSE e.foreign
           w == IF name = "s" THEN "script" ELSE e.raw
           s == CASE name = "s" /\ ~la.isEnd -> "Raw"
                  [] name = "p" /\ ~la.isEnd -> "Plaintext"
                  [] OTHER -> "Data"
           r == [e EXCEPT !.foreign = f, !.raw = w, !.state = s]
           held == IF la.isEnd THEN (IF p.held = 0 THEN 0 ELSE p.held - 1) ELSE p.held + 1
           q == Built(p)
<1>1. la \in Reader /\ e \in Reader /\ la.isEnd \in BOOLEAN
  <2>1. la \in Reader
    BY DEF Gates
  <2> HIDE DEF la
  <2> QED BY <2>1, EmittedIs DEF Reader
<1>2. q = [p EXCEPT !.held = held, !.reader = r, !.follow = TRUE]
  BY DEF Built
<1>3. held \in Nat
  BY <1>1 DEF Gates
<1> HIDE DEF held
<1>4. f \in BOOLEAN /\ w \in {"rcdata", "script", "escaped", "double"}
  BY <1>1 DEF Reader
<1>5. s \in {"Data", "Raw", "Plaintext"}
  OBVIOUS
<1>6. {"Data", "Raw", "Plaintext"} \subseteq States
  BY DEF States
<1> HIDE DEF f, w, s, e, q
<1>7. r \in Reader /\ r.state = s /\ r.raw = w /\ r.foreign = f
  BY <1>1, <1>4, <1>5, <1>6 DEF Reader
<1>8. r = [e EXCEPT !.foreign = r.foreign, !.state = r.state, !.raw = r.raw]
  BY <1>1, <1>7 DEF Reader
<1>9. Ended(r, la)
  BY <1>4, <1>5, <1>7, <1>8 DEF Ended, e
<1> HIDE DEF r, la
<1>10. q \in Parsers /\ q.reader = r
  BY <1>2, <1>3, <1>5, <1>7 DEF Gates, Parsers
<1>11. /\ q.charged = p.charged /\ q.refused = p.refused /\ q.given = p.given /\ q.text = p.text
       /\ q.skip = p.skip /\ q.allowed = p.allowed /\ q.unpaid = p.unpaid /\ q.dropped = p.dropped
  BY <1>2 DEF Gates
<1> QED BY <1>9, <1>10, <1>11 DEF q, la

\* Whether a run of text has begun is nothing to the meter.
LEMMA TextIs ==
  ASSUME NEW p, NEW i, NEW more, NEW r \in Gates, NEW q, q.charged = r.charged,
         q.refused = r.refused, q.allowed = r.allowed, q.dropped = r.dropped,
         Onward(p, r, i, more)
  PROVE  Onward(p, q, i, more)
BY DEF Onward, Spent

\* A character that the tokenizer takes.
LEMMA TookIs ==
  ASSUME budget \in Nat, NEW p \in Parsers, NEW seen \in Reader, NEW i \in Nat, NEW walk \in Nat
  PROVE  LET q == Took(p, seen, i, walk) IN
         /\ q \in Parsers /\ Onward(p, q, i, 1 + seen.attributes + walk)
         /\ q.unpaid <=> (p.unpaid \/ seen.attributes > p.allowed)
         /\ q.skip <=> (seen.state = "CommentStart")
         /\ seen.state # "Emit" => q.reader = seen
         /\ seen.state = "Emit" => Ended(q.reader, seen)
<1> DEFINE skip == seen.state = "CommentStart"
           unpaid == p.unpaid \/ seen.attributes > p.allowed
           m == [p EXCEPT !.reader = seen, !.skip = skip, !.unpaid = unpaid]
           was == p.reader.state
           text == was = seen.state /\ was \in {"Data", "Raw", "Plaintext"}
           q == Took(p, seen, i, walk)
<1>0. skip \in BOOLEAN /\ unpaid \in BOOLEAN /\ text \in BOOLEAN /\ seen.attributes \in Nat
  BY DEF Gates, Parsers, Reader
<1> HIDE DEF skip, unpaid, text
<1>1. /\ m \in Gates
      /\ m.reader = seen /\ m.skip = skip /\ m.unpaid = unpaid /\ m.charged = p.charged
      /\ m.refused = p.refused /\ m.allowed = p.allowed /\ m.dropped = p.dropped
      /\ m.held = p.held
  BY <1>0 DEF Gates, Parsers
<1> HIDE DEF m
<1>2. ASSUME NEW n \in Nat
      PROVE  LET r == Process(m, i, n, walk) IN
             /\ r \in Gates /\ Onward(p, r, i, 1 + n + walk)
             /\ r.reader = seen /\ r.skip = skip /\ r.unpaid = unpaid
             /\ ~r.given => Spent(r)
  <2> DEFINE r == Process(m, i, n, walk)
  <2>0. m \in Gates
    BY <1>1
  <2>1. /\ r \in Gates /\ Onward(m, r, i, 1 + n + walk)
        /\ r.reader = m.reader /\ r.skip = m.skip /\ r.unpaid = m.unpaid
        /\ ~r.given => Spent(r)
    BY <1>2, <2>0, ProcessIs
  <2> HIDE DEF r
  <2>2. Onward(p, r, i, 1 + n + walk)
    BY <1>1, <2>1 DEF Onward, Spent
  <2> QED BY <1>1, <2>1, <2>2 DEF r
<1>4. CASE seen.state = "Emit"
  <2> DEFINE paid == Process(m, i, seen.attributes, walk)
             r == IF paid.given THEN Built(paid) ELSE [paid EXCEPT !.reader = Emitted(seen)]
  <2>1. q = [r EXCEPT !.text = FALSE]
    BY <1>4 DEF Took, m, skip, unpaid
  <2>2. /\ paid \in Gates /\ Onward(p, paid, i, 1 + seen.attributes + walk)
        /\ paid.reader = seen /\ paid.skip = skip /\ paid.unpaid = unpaid
    BY <1>0, <1>2
  <2> HIDE DEF paid
  <2>3. /\ r \in Parsers /\ Ended(r.reader, seen) /\ r.charged = paid.charged
        /\ r.refused = paid.refused /\ r.skip = paid.skip /\ r.allowed = paid.allowed
        /\ r.unpaid = paid.unpaid /\ r.dropped = paid.dropped
    <3>1. CASE paid.given
      BY <2>2, <3>1, BuiltIs
    <3>2. CASE ~paid.given
      <4>1. r = [paid EXCEPT !.reader = Emitted(seen)]
        BY <3>2
      <4>2. Emitted(seen) \in Reader /\ Emitted(seen).state # "Emit" /\ Ended(Emitted(seen), seen)
        BY EmittedIs
      <4> HIDE DEF r
      <4> QED BY <2>2, <4>1, <4>2 DEF Gates, Parsers
    <3> QED BY <3>1, <3>2
  <2> HIDE DEF r, q
  <2>4. r \in Gates /\ r.reader.state # "Emit"
    BY <2>3 DEF Parsers
  <2>5. Onward(p, r, i, 1 + seen.attributes + walk)
    BY <2>2, <2>3 DEF Onward, Spent
  <2>6. /\ q \in Gates /\ Onward(p, q, i, 1 + seen.attributes + walk) /\ q.unpaid = unpaid
        /\ q.skip = skip /\ q.reader = r.reader
    <3>1. 1 + seen.attributes + walk \in Nat
      BY <1>0
    <3>2. /\ q \in Gates /\ q.unpaid = r.unpaid /\ q.skip = r.skip /\ q.reader = r.reader
          /\ q.charged = r.charged /\ q.refused = r.refused /\ q.allowed = r.allowed
          /\ q.dropped = r.dropped
      BY <2>1, <2>4 DEF Gates
    <3>3. Onward(p, q, i, 1 + seen.attributes + walk)
      BY <2>4, <2>5, <3>2, TextIs
    <3> QED BY <2>2, <2>3, <3>2, <3>3
  <2> QED BY <1>4, <2>3, <2>4, <2>6 DEF Parsers, q, skip, unpaid
<1>5. CASE seen.state # "Emit"
  <2>1. /\ q \in Gates /\ Onward(p, q, i, 1 + seen.attributes + walk) /\ q.unpaid = unpaid
        /\ q.skip = skip /\ q.reader = seen
    <3>0. 1 + 0 + walk \in Nat /\ 1 + seen.attributes + walk \in Nat /\ 0 \in Nat
      BY <1>0
    <3> DEFINE r == Process(m, i, 0, walk)
    <3>1. /\ r \in Gates /\ Onward(p, r, i, 1 + 0 + walk)
          /\ r.reader = seen /\ r.skip = skip /\ r.unpaid = unpaid
      BY <1>2, <3>0
    <3> HIDE DEF r
    <3>2. CASE text /\ ~p.text
      <4>1. q = [r EXCEPT !.text = TRUE]
        BY <1>5, <3>2 DEF Took, m, skip, unpaid, text, r
      <4> HIDE DEF q
      <4>2. /\ q \in Gates /\ q.unpaid = r.unpaid /\ q.skip = r.skip /\ q.reader = r.reader
            /\ q.charged = r.charged /\ q.refused = r.refused /\ q.allowed = r.allowed
            /\ q.dropped = r.dropped
        BY <3>1, <4>1 DEF Gates
      <4>3. Onward(p, q, i, 1 + 0 + walk)
        BY <3>1, <4>2, TextIs
      <4> QED BY <1>0, <3>1, <4>2, <4>3 DEF Onward, Gates
    <3>3. CASE ~(text /\ ~p.text) /\ was \in DOMAIN CommentMoves /\ seen.state = "Data"
      <4>1. q = [r EXCEPT !.text = FALSE]
        BY <1>5, <3>3 DEF Took, m, skip, unpaid, text, r
      <4> HIDE DEF q
      <4>2. /\ q \in Gates /\ q.unpaid = r.unpaid /\ q.skip = r.skip /\ q.reader = r.reader
            /\ q.charged = r.charged /\ q.refused = r.refused /\ q.allowed = r.allowed
            /\ q.dropped = r.dropped
        BY <3>1, <4>1 DEF Gates
      <4>3. Onward(p, q, i, 1 + 0 + walk)
        BY <3>1, <4>2, TextIs
      <4> QED BY <1>0, <3>1, <4>2, <4>3 DEF Onward, Gates
    <3>4. CASE ~(text /\ ~p.text) /\ ~(was \in DOMAIN CommentMoves /\ seen.state = "Data")
      <4>1. q = [m EXCEPT !.text = text]
        BY <1>5, <3>4 DEF Took, m, skip, unpaid, text
      <4> HIDE DEF q
      <4>2. Onward(p, m, i, 1 + seen.attributes + walk)
        BY <1>1 DEF Onward, Spent, Parsers, Gates
      <4>3. /\ q \in Gates /\ q.unpaid = m.unpaid /\ q.skip = m.skip /\ q.reader = m.reader
            /\ q.charged = m.charged /\ q.refused = m.refused /\ q.allowed = m.allowed
            /\ q.dropped = m.dropped
        BY <1>0, <1>1, <4>1 DEF Gates
      <4>4. Onward(p, q, i, 1 + seen.attributes + walk)
        BY <1>1, <4>2, <4>3, TextIs
      <4> QED BY <1>1, <4>3, <4>4
    <3> QED BY <3>2, <3>3, <3>4
  <2> HIDE DEF q
  <2> QED BY <1>5, <2>1 DEF Parsers, q, skip, unpaid
<1> QED BY <1>4, <1>5

\* A character of what was given.
LEMMA TokenizedIs ==
  ASSUME html \in Seq(STRING), budget \in Nat, NEW p \in Parsers, NEW i \in Nat,
         NEW walk \in Nat
  PROVE  /\ Tokenized(p, i, walk) \in Parsers
         /\ p.skip => Tokenized(p, i, walk) = [p EXCEPT !.skip = FALSE]
         /\ ~p.skip =>
              LET q == Tokenized(p, i, walk)
                  seen == Reads(p.reader, CharAt(html, i), i, CharAt(html, i + 1)) IN
              /\ seen \in Reader
              /\ Onward(p, q, i, 1 + seen.attributes + walk)
              /\ q.unpaid <=> (p.unpaid \/ seen.attributes > p.allowed)
              /\ q.skip <=> (seen.state = "CommentStart")
              /\ seen.state # "Emit" => q.reader = seen
              /\ seen.state = "Emit" => Ended(q.reader, seen)
<1>1. CASE p.skip
  <2>1. Tokenized(p, i, walk) = [p EXCEPT !.skip = FALSE]
    BY <1>1 DEF Tokenized
  <2>2. [p EXCEPT !.skip = FALSE] \in Parsers
    BY DEF Gates, Parsers
  <2> QED BY <1>1, <2>1, <2>2
<1>2. CASE ~p.skip
  <2> DEFINE seen == Reads(p.reader, CharAt(html, i), i, CharAt(html, i + 1))
  <2>1. CharAt(html, i) \in Characters
    BY CharIs
  <2>2. p.reader \in Reader /\ p.reader.state # "Emit"
    BY DEF Gates, Parsers
  <2>3. seen \in Reader
    BY <2>1, <2>2, ReadsReads
  <2>4. Tokenized(p, i, walk) = Took(p, seen, i, walk)
    BY <1>2 DEF Tokenized
  <2> HIDE DEF seen
  <2>5. LET q == Took(p, seen, i, walk) IN
         /\ q \in Parsers /\ Onward(p, q, i, 1 + seen.attributes + walk)
         /\ q.unpaid <=> (p.unpaid \/ seen.attributes > p.allowed)
         /\ q.skip <=> (seen.state = "CommentStart")
         /\ seen.state # "Emit" => q.reader = seen
         /\ seen.state = "Emit" => Ended(q.reader, seen)
    BY <2>3, TookIs
  <2> QED BY <1>2, <2>3, <2>4, <2>5 DEF seen
<1> QED BY <1>1, <1>2

\* The second dash of a comment was taken with the first.
LEMMA TokenizedSkips ==
  ASSUME html \in Seq(STRING), budget \in Nat, NEW p \in Parsers, NEW i \in Nat,
         NEW walk \in Nat, p.skip, NEW q, q = Tokenized(p, i, walk)
  PROVE  /\ q \in Parsers /\ ~q.skip /\ q.reader = p.reader /\ q.charged = p.charged
         /\ q.unpaid = p.unpaid /\ q.allowed = p.allowed /\ q.dropped = p.dropped
         /\ q.refused = p.refused
<1>1. q = [p EXCEPT !.skip = FALSE]
  BY TokenizedIs
<1> QED BY <1>1 DEF Parsers, Gates

Seen(la, i) == Reads(la, CharAt(html, i), i, CharAt(html, i + 1))

TakenOn(p, q, seen, i, walk) ==
  /\ q \in Parsers /\ seen \in Reader
  /\ Onward(p, q, i, 1 + seen.attributes + walk)
  /\ q.unpaid <=> (p.unpaid \/ seen.attributes > p.allowed)
  /\ q.skip <=> (seen.state = "CommentStart")
  /\ seen.state # "Emit" => q.reader = seen
  /\ seen.state = "Emit" => Ended(q.reader, seen)

\* Any other character is taken as the lookahead took it.
LEMMA TokenizedTakes ==
  ASSUME html \in Seq(STRING), budget \in Nat, NEW p \in Parsers, NEW i \in Nat,
         NEW walk \in Nat, ~p.skip, NEW la, la = p.reader
  PROVE  TakenOn(p, Tokenized(p, i, walk), Seen(la, i), i, walk)
BY TokenizedIs DEF TakenOn, Seen

\* What was given, with what the tokenizer was at each place.
Gave(h, p, from, upto, walk) ==
  LET n == IF upto > from THEN upto - from ELSE 0 IN
  /\ h[0] = [p EXCEPT !.text = FALSE]
  /\ h[n] = Feed(p, from, upto, walk)
  /\ \A k \in 1 .. n : h[k - 1] \in Parsers /\ h[k] = Tokenized(h[k - 1], from + k - 1, walk)
  /\ \A k \in 0 .. n : h[k] \in Parsers

\* A feed has a state at each place, the last of which is what it leaves.
LEMMA FeedsIs ==
  ASSUME html \in Seq(STRING), budget \in Nat, NEW p \in Parsers, NEW from \in Nat,
         NEW upto \in Nat, NEW walk \in Nat
  PROVE  \E h : Gave(h, p, from, upto, walk)
<1> DEFINE n == IF upto > from THEN upto - from ELSE 0
           s == [i \in 1 .. n |-> i]
           V == Parsers
           none == [p EXCEPT !.text = FALSE]
           op(q, x) == Tokenized(q, from + x - 1, walk)
           T == [a \in (1 .. n) \X V |-> op(a[2], s[a[1]])]
           step(g, d) == IF d = {} THEN none ELSE op(g[d \ {Greatest(d)}], s[Greatest(d)])
           G == CHOOSE g : g = [d \in SUBSET (1 .. n) |-> step(g, d)]
<1>1. n \in Nat /\ DOMAIN s = 1 .. n /\ \A i \in 1 .. n : s[i] \in 1 .. n
  OBVIOUS
<1>2. \A v \in V, x \in 1 .. n : op(v, x) \in V
  <2> SUFFICES ASSUME NEW v \in V, NEW x \in 1 .. n PROVE op(v, x) \in V
    OBVIOUS
  <2>1. from + x - 1 \in Nat
    OBVIOUS
  <2> QED BY <2>1, TokenizedIs
<1>3. T \in Tables(n, V)
  <2>1. \A v \in V, i \in 1 .. n : op(v, s[i]) \in V
    <3> HIDE DEF op, V, n
    <3> QED BY <1>1, <1>2
  <2> HIDE DEF op, V, n
  <2> QED BY <2>1 DEF Tables
<1>4. none \in V
  BY DEF Gates, Parsers
<1>5. PICK g : Follows(g, n, V, none, T)
  <2> HIDE DEF T, V, n, none
  <2> QED BY <1>1, <1>3, <1>4, Folded
<1>6. \A d \in SUBSET (1 .. n) : g[d] = step(g, d)
  <2> SUFFICES ASSUME NEW d \in SUBSET (1 .. n), d # {}
               PROVE  T[<<Greatest(d), g[d \ {Greatest(d)}]>>]
                        = op(g[d \ {Greatest(d)}], s[Greatest(d)])
    <3> HIDE DEF T, V, n, op, none
    <3> QED BY <1>5 DEF Follows
  <2>1. Greatest(d) \in 1 .. n
    <3> HIDE DEF n
    <3> QED BY <1>1, GreatestIn
  <2>2. d \ {Greatest(d)} \in SUBSET (1 .. n)
    OBVIOUS
  <2>3. g[d \ {Greatest(d)}] \in V
    <3> HIDE DEF T, V, n, none
    <3> QED BY <1>5, <2>2 DEF Follows
  <2> HIDE DEF V, n, op
  <2> QED BY <2>1, <2>3
<1>7. g = [d \in SUBSET (1 .. n) |-> step(g, d)]
  <2>1. g = [d \in SUBSET (1 .. n) |-> g[d]]
    <3> HIDE DEF T, V, n, none
    <3> QED BY <1>5 DEF Follows
  <2> HIDE DEF step, n, V
  <2> QED BY <1>6, <2>1
<1>8. G = [d \in SUBSET (1 .. n) |-> step(G, d)]
  <2> HIDE DEF step, n
  <2> QED BY <1>7
<1>9. Feed(p, from, upto, walk) = G[1 .. n]
  BY <1>1 DEF Feed, FoldLeft, MapThenFoldSet, Max, Greatest
<1> DEFINE h == [k \in 0 .. n |-> G[1 .. k]]
<1>10. h[0] = none /\ h[n] = Feed(p, from, upto, walk)
  <2>1. {} \in SUBSET (1 .. n) /\ step(G, {}) = none /\ 1 .. 0 = {} /\ 0 \in 0 .. n /\ n \in 0 .. n
    BY <1>1
  <2> HIDE DEF step, n, V, G, none
  <2> QED BY <1>8, <1>9, <2>1
<1>11. \A k \in 1 .. n : h[k] = op(h[k - 1], s[k])
  <2> SUFFICES ASSUME NEW k \in 1 .. n PROVE h[k] = op(h[k - 1], s[k])
    OBVIOUS
  <2>1. G[1 .. k] = step(G, 1 .. k)
    <3> HIDE DEF step, n, V, G
    <3> QED BY <1>1, <1>8, Peeled
  <2>2. step(G, 1 .. k) = op(G[1 .. (k - 1)], s[k])
    <3> HIDE DEF op, n, V, G
    <3> QED BY <1>1, Peeled
  <2>3. k \in 0 .. n /\ k - 1 \in 0 .. n
    BY <1>1
  <2> HIDE DEF op, step, n, V, G
  <2> QED BY <2>1, <2>2, <2>3
<1>12. \A k \in 0 .. n : k \in {j \in 0 .. n : h[j] \in V}
  <2>1. 0 \in {j \in 0 .. n : h[j] \in V}
    <3>1. 0 \in 0 .. n
      BY <1>1
    <3> HIDE DEF V, G, h, none, n
    <3> QED BY <1>4, <1>10, <3>1
  <2>2. ASSUME NEW k \in 1 .. n, k - 1 \in {j \in 0 .. n : h[j] \in V}
        PROVE  k \in {j \in 0 .. n : h[j] \in V}
    <3>1. k \in 0 .. n /\ s[k] \in 1 .. n
      BY <1>1
    <3>2. h[k] \in V
      <4> HIDE DEF op, V, n, h
      <4> QED BY <1>2, <1>11, <2>2, <3>1
    <3> HIDE DEF V, n, h
    <3> QED BY <3>1, <3>2
  <2> HIDE DEF V, n, h, G
  <2> QED BY <1>1, <2>1, <2>2, UpTo
<1>13. \A k \in 1 .. n : k - 1 \in 0 .. n
  BY <1>1
<1> HIDE DEF op, h, V, none
<1>14. \A k \in 1 .. n : h[k - 1] \in V
  BY <1>12, <1>13
<1>15. \A k \in 0 .. n : h[k] \in V
  BY <1>12
<1> QED BY <1>10, <1>11, <1>14, <1>15 DEF op, V, none, Gave

\* The tokenizer is where the lookahead was at a place, and takes the character there with it.
Locked(q, v, i) ==
  IF v.scan = "tag" THEN ~q.skip /\ Ended(q.reader, v.la)
  ELSE v.scan = "on" /\ q.reader = v.la /\ (q.skip <=> (v.at = i + 1))

Keeping(q, r, w, i, walk) ==
  /\ r \in Parsers /\ Locked(r, w, i + 1)
  /\ ~r.unpaid /\ r.allowed = q.allowed
  /\ r.charged <= budget + Len(html) + walk
  /\ r.dropped = q.dropped \/ (Spent(r) /\ r.dropped = i)
  /\ Spent(q) => Spent(r)

\* The tokenizer and the lookahead stay together over a character.
LEMMA LockHolds ==
  ASSUME html \in Seq(STRING), budget \in Nat, NEW from \in Nat, NEW limit \in Nat,
         from <= limit, NEW i \in Nat, from <= i, i < Len(html), NEW v,
         Scanning(v, from, i, limit), v.scan = "on", NEW w, w = ScanOn(v, i, limit),
         w.scan # "limit", NEW q \in Parsers, Locked(q, v, i), NEW walk \in Nat,
         ~q.unpaid, w.la.attributes <= q.allowed,
         q.charged <= budget + Len(html) + walk, NEW r, r = Tokenized(q, i, walk)
  PROVE  Keeping(q, r, w, i, walk)
<1>1. /\ v \in Scanner /\ v.at \in Nat /\ (v.at = i \/ v.at = i + 1) /\ Len(html) \in Nat
      /\ q.charged \in Nat /\ q.reader = v.la /\ (q.skip <=> (v.at = i + 1)) /\ q.skip \in BOOLEAN
      /\ q.allowed \in Nat
  BY DEF Scanning, Scanner, Locked, Parsers, Gates
<1>2. CASE v.at = i + 1
  <2>1. w = v
    <3>1. i < v.at
      BY <1>2
    <3> QED BY <1>1, <3>1, ScanStays
  <2>2. /\ r \in Parsers /\ ~r.skip /\ r.reader = q.reader /\ r.charged = q.charged
        /\ r.unpaid = q.unpaid /\ r.allowed = q.allowed /\ r.dropped = q.dropped
        /\ r.refused = q.refused
    <3>1. q.skip
      BY <1>1, <1>2
    <3> QED BY <3>1, TokenizedSkips
  <2>3. v.scan # "tag" /\ (i + 1) + 1 # i + 1
    OBVIOUS
  <2>4. Locked(r, w, i + 1)
    BY <1>1, <1>2, <2>1, <2>2, <2>3 DEF Locked
  <2> QED BY <2>2, <2>4 DEF Spent, Keeping
<1>3. CASE v.at = i
  <2> DEFINE seen == Reads(v.la, CharAt(html, i), i, CharAt(html, i + 1))
  <2>1. ~(i < v.at) /\ ~q.skip
    <3>1. ~(i < v.at) /\ v.at # i + 1
      BY <1>3
    <3> QED BY <1>1, <3>1
  <2>2. ~(i >= limit)
    BY <1>1, <2>1, ScanStops
  <2>3. /\ w.la = seen /\ w.scan = (IF seen.state = "Emit" THEN "tag" ELSE "on")
        /\ w.at = i + (IF seen.state = "CommentStart" THEN 2 ELSE 1)
    BY <1>1, <2>1, <2>2, ScanReads
  <2> DEFINE la == v.la
  <2>4. la = q.reader /\ seen = Seen(la, i)
    BY <1>1 DEF Seen
  <2> HIDE DEF la, seen
  <2>5. /\ r \in Parsers /\ seen \in Reader /\ Onward(q, r, i, 1 + seen.attributes + walk)
        /\ r.unpaid <=> (q.unpaid \/ seen.attributes > q.allowed)
        /\ r.skip <=> (seen.state = "CommentStart")
        /\ seen.state # "Emit" => r.reader = seen
        /\ seen.state = "Emit" => Ended(r.reader, seen)
    <3>1. TakenOn(q, Tokenized(q, i, walk), Seen(la, i), i, walk)
      BY <2>1, <2>4, TokenizedTakes
    <3>2. TakenOn(q, r, seen, i, walk)
      BY <2>4, <3>1
    <3> QED BY <3>2 DEF TakenOn
  <2>6. Scanning(w, from, i + 1, limit)
    BY ScansOn
  <2>7. seen.attributes \in Nat /\ seen.attributes + 1 <= Len(html)
    <3>1. Sound(seen, from, w.at) /\ w.at <= Len(html) /\ w.at \in Nat
      BY <2>3, <2>6 DEF Scanning, Scanner
    <3>2. seen.attributes \in Nat
      BY <2>5 DEF Reader
    <3>3. seen.attributes < w.at \/ seen.attributes = 0
      BY <3>1 DEF Sound
    <3> QED BY <1>1, <3>1, <3>2, <3>3
  <2>8. ~r.unpaid
    <3>1. ~(seen.attributes > q.allowed)
      BY <1>1, <2>3, <2>7
    <3> QED BY <2>5, <3>1
  <2>9. Locked(r, w, i + 1)
    <3>1. CASE seen.state = "Emit"
      BY <2>3, <2>5, <3>1 DEF Locked
    <3>2. CASE seen.state # "Emit"
      <4>1. r.skip <=> (w.at = (i + 1) + 1)
        BY <2>3, <2>5
      <4>2. w.scan = "on" /\ r.reader = w.la
        BY <2>3, <2>5, <3>2
      <4> QED BY <4>1, <4>2 DEF Locked
    <3> QED BY <3>1, <3>2
  <2>10. r.charged <= budget + Len(html) + walk
    <3>1. r.charged <= q.charged \/ r.charged <= budget + (1 + seen.attributes + walk)
      BY <2>5 DEF Onward
    <3>2. r.charged \in Nat
      BY <2>5 DEF Parsers, Gates
    <3> QED BY <1>1, <2>7, <3>1, <3>2
  <2> QED BY <2>5, <2>8, <2>9, <2>10 DEF Onward, Keeping
<1> QED BY <1>1, <1>2, <1>3

\* What was scanned up to where a scan stopped.
LEMMA OnBefore ==
  ASSUME html \in Seq(STRING), NEW from \in Nat, from <= Len(html), NEW limit \in Nat,
         NEW h, NEW k \in 0 .. (Len(html) - from), NEW n, n = Len(html) - from,
         Scanning(h[k], from, from + k, limit), Since(h[k], h[n])
  PROVE  /\ from + k < h[n].at => h[k].scan = "on"
         /\ from + k <= h[n].at => h[k].scan # "limit"
<1>1. h[k].at \in Nat /\ h[k].scan \in {"on", "limit", "tag"}
  BY DEF Scanning, Scanner
<1>2. h[k].scan # "on" => h[n].at = h[k].at
  BY DEF Since
<1>3. /\ h[k].scan = "limit" => h[k].at < from + k
      /\ h[k].scan = "tag" => h[k].at <= from + k
  BY DEF Scanning
<1> QED BY <1>1, <1>2, <1>3

\* What was given, from one place up to another.
Fed(q, p, v, i, low, walk) ==
  /\ q \in Parsers /\ Locked(q, v, i) /\ ~q.unpaid /\ q.allowed = p.allowed
  /\ q.charged <= budget + Len(html) + walk
  /\ q.dropped = p.dropped \/ (Spent(q) /\ low <= q.dropped)
  /\ Spent(p) => Spent(q)

\* The tokenizer and the lookahead stay together over a feed, and what it costs.
LEMMA FeedIs ==
  ASSUME html \in Seq(STRING), budget \in Nat, NEW from \in Nat, from <= Len(html),
         NEW limit \in Nat, from <= limit, NEW la \in Reader, la.state # "Emit",
         Sound(la, from, from), NEW h, Scanned(h, la, from, limit),
         NEW p \in Parsers, NEW a \in Nat, NEW b \in Nat, NEW walk \in Nat,
         from <= a, a <= b, b <= h[Len(html) - from].at, Locked(p, h[a - from], a),
         ~p.unpaid, p.charged <= budget + Len(html) + walk,
         \A i \in (a + 1) .. b : h[i - from].la.attributes <= p.allowed
  PROVE  Fed(Feed(p, a, b, walk), p, h[b - from], b, a, walk)
<1> DEFINE N == Len(html) - from
           m == IF b > a THEN b - a ELSE 0
           V(k) == h[(a - from) + k]
           stop == h[N].at
<1>1. /\ \A k \in 0 .. N : Scanning(h[k], from, from + k, limit)
      /\ \A j, k \in 0 .. N : j <= k => Since(h[j], h[k])
  BY ScanningIs
<1>2. N \in Nat /\ N \in 0 .. N /\ m \in Nat /\ m = b - a
  OBVIOUS
<1>3. /\ stop \in Nat /\ b <= stop /\ b <= Len(html) /\ Len(html) \in Nat
      /\ \A j \in 0 .. N : Scanning(h[j], from, from + j, limit) /\ Since(h[j], h[N])
  <2>1. \A j \in 0 .. N : j <= N
    BY <1>2
  <2>2. \A j \in 0 .. N : Scanning(h[j], from, from + j, limit) /\ Since(h[j], h[N])
    <3> HIDE DEF N
    <3> QED BY <1>1, <1>2, <2>1
  <2>3. stop <= Len(html) /\ stop \in Nat
    <3>1. Scanning(h[N], from, from + N, limit)
      BY <1>2, <2>2
    <3> HIDE DEF N
    <3> QED BY <3>1 DEF Scanning, Scanner
  <2>4. b <= stop
    OBVIOUS
  <2> HIDE DEF stop
  <2> QED BY <2>2, <2>3, <2>4
<1>4. PICK g : /\ g[0] = [p EXCEPT !.text = FALSE]
               /\ g[m] = Feed(p, a, b, walk)
               /\ \A k \in 1 .. m :
                    g[k - 1] \in Parsers /\ g[k] = Tokenized(g[k - 1], a + k - 1, walk)
               /\ \A k \in 0 .. m : g[k] \in Parsers
  <2>1. PICK g : Gave(g, p, a, b, walk)
    BY FeedsIs
  <2> QED BY <2>1 DEF Gave
<1> HIDE DEF stop
<1> DEFINE P == {k \in 0 .. m : Fed(g[k], p, V(k), a + k, a, walk)}
<1>5. 0 \in P
  <2> DEFINE q == [p EXCEPT !.text = FALSE]
  <2>1. /\ q \in Parsers /\ q.reader = p.reader /\ q.skip = p.skip /\ q.unpaid = p.unpaid
        /\ q.allowed = p.allowed /\ q.charged = p.charged /\ q.dropped = p.dropped
        /\ q.refused = p.refused
    BY DEF Parsers, Gates
  <2> HIDE DEF q
  <2>2. Locked(q, h[a - from], a)
    BY <2>1 DEF Locked
  <2>3. Fed(q, p, h[a - from], a, a, walk)
    BY <2>1, <2>2 DEF Fed, Spent
  <2>4. V(0) = h[a - from] /\ a + 0 = a /\ g[0] = q /\ 0 \in 0 .. m
    BY <1>2, <1>4 DEF q
  <2> HIDE DEF V
  <2> QED BY <2>3, <2>4
<1>6. ASSUME NEW k \in 1 .. m, k - 1 \in P
      PROVE  k \in P
  <2> DEFINE i == a + k - 1
             x == i - from
             v == h[x]
             q == g[k - 1]
             w == h[x + 1]
             r == g[k]
  <2>0. k \in Nat /\ 1 <= k /\ k <= b - a /\ k \in 0 .. m /\ k - 1 \in 0 .. m
    BY <1>2
  <2>1. i \in Nat /\ from <= i /\ a <= i /\ i < b /\ i < Len(html) /\ i + 1 <= b /\ x \in Nat
    BY <1>3, <2>0
  <2>2. /\ x \in 0 .. N /\ x + 1 \in 0 .. N /\ x + 1 \in 1 .. N
        /\ from + x = i /\ from + (x + 1) = i + 1 /\ (x + 1) - 1 = x
        /\ from + (x + 1) - 1 = i
    BY <1>3, <2>1
  <2>3. /\ (a - from) + (k - 1) = x /\ (a - from) + k = x + 1 /\ a + (k - 1) = i
        /\ a + k = i + 1 /\ i + 1 \in (a + 1) .. b /\ (i + 1) - from = x + 1
    <3>1. (a - from) + (k - 1) = x /\ (a - from) + k = x + 1 /\ a + (k - 1) = i /\ a + k = i + 1
      BY <2>0
    <3>2. i + 1 \in (a + 1) .. b
      BY <2>1
    <3>3. (i + 1) - from = x + 1
      BY <2>1
    <3> QED BY <3>1, <3>2, <3>3
  <2>4. Fed(q, p, v, i, a, walk)
    <3>1. Fed(g[k - 1], p, h[(a - from) + (k - 1)], a + (k - 1), a, walk)
      BY <1>6
    <3> HIDE DEF x, i
    <3> QED BY <2>3, <3>1
  <2>5. r = Tokenized(q, i, walk) /\ q \in Parsers
    BY <1>4
  <2>6. w = ScanOn(v, i, limit)
    <3> HIDE DEF x, i
    <3>1. h[x + 1] = ScanOn(h[(x + 1) - 1], from + (x + 1) - 1, limit)
      BY <2>2 DEF Scanned
    <3> QED BY <2>2, <3>1
  <2>7. w.la.attributes <= p.allowed
    <3>1. h[(i + 1) - from].la.attributes <= p.allowed
      BY <2>3
    <3> HIDE DEF x, i
    <3> QED BY <2>3, <3>1
  <2> HIDE DEF x, i
  <2>8. Scanning(v, from, i, limit) /\ v.scan = "on" /\ w.scan # "limit"
    <3> HIDE DEF N
    <3>1. Scanning(h[x], from, from + x, limit) /\ Since(h[x], h[N])
      BY <1>3, <2>2
    <3>2. Scanning(h[x + 1], from, from + (x + 1), limit) /\ Since(h[x + 1], h[N])
      BY <1>3, <2>2
    <3>3. from + x < h[N].at /\ from + (x + 1) <= h[N].at
      BY <1>3, <2>1, <2>2 DEF stop
    <3>4. v.scan = "on"
      BY <2>2, <3>1, <3>3, OnBefore DEF N
    <3>5. w.scan # "limit"
      BY <2>2, <3>2, <3>3, OnBefore DEF N
    <3> QED BY <2>2, <3>1, <3>4, <3>5
  <2> HIDE DEF v, q, w, r
  <2>9. /\ Locked(q, v, i) /\ ~q.unpaid /\ q.allowed = p.allowed
        /\ q.charged <= budget + Len(html) + walk
        /\ q.dropped = p.dropped \/ (Spent(q) /\ a <= q.dropped)
        /\ Spent(p) => Spent(q)
    BY <2>4 DEF Fed
  <2>10. /\ r \in Parsers /\ Locked(r, w, i + 1)
         /\ ~r.unpaid /\ r.allowed = q.allowed
         /\ r.charged <= budget + Len(html) + walk
         /\ r.dropped = q.dropped \/ (Spent(r) /\ r.dropped = i)
         /\ Spent(q) => Spent(r)
    <3>1. w.la.attributes <= q.allowed
      BY <2>7, <2>9
    <3>2. Keeping(q, r, w, i, walk)
      BY <2>1, <2>5, <2>6, <2>8, <2>9, <3>1, LockHolds
    <3> QED BY <3>2 DEF Keeping
  <2>11. Fed(r, p, w, i + 1, a, walk)
    BY <2>1, <2>9, <2>10 DEF Fed
  <2>12. V(k) = w /\ a + k = i + 1
    BY <2>3 DEF w
  <2> HIDE DEF V, m
  <2> QED BY <2>0, <2>11, <2>12 DEF r
<1>7. \A k \in 0 .. m : k \in P
  <2> HIDE DEF P, m
  <2> QED BY <1>2, <1>5, <1>6, UpTo
<1>8. m \in P /\ (a - from) + m = b - from /\ a + m = b
  <2>1. m \in 0 .. m /\ (a - from) + m = b - from /\ a + m = b
    BY <1>2
  <2> HIDE DEF m, P
  <2> QED BY <1>7, <2>1
<1>9. Fed(g[m], p, h[(a - from) + m], a + m, a, walk)
  BY <1>8
<1> HIDE DEF m
<1> QED BY <1>4, <1>8, <1>9

\* Where a scan stopped: at the end of a tag, at the limit, or at the end of the page; what is
\* before the tag has no attributes, and nothing on the way more than there are at last.
Found(scan, st, la, from, limit) ==
  /\ scan.scan \in {"tag", "limit", "end"} /\ scan.la \in Reader
  /\ scan.at \in Nat /\ scan.at <= Len(html) /\ scan.at <= limit + 1
  /\ scan.scan = "end" => scan.at = Len(html)
  /\ st \in Nat /\ from <= st /\ st <= scan.at
  /\ \E h : /\ Scanned(h, la, from, limit)
            /\ h[Len(html) - from].at = scan.at
            /\ scan.scan = "tag" =>
                 /\ h[scan.at - from].scan = "tag" /\ h[scan.at - from].la = scan.la
            /\ \A j \in from .. st : h[j - from].la.attributes = 0
            /\ \A j \in from .. scan.at :
                 h[j - from].la.attributes <= scan.la.attributes

\* That is where next_tag stops.
LEMMA NextTagIs ==
  ASSUME html \in Seq(STRING), Len(html) < Nowhere, NEW la \in Reader, la.state # "Emit",
         NEW from \in Nat, from <= Len(html), Sound(la, from, from), NEW limit \in Nat,
         from <= limit, NEW scan, scan = NextTag(la, from, limit), NEW st, st = Start(scan)
  PROVE  Found(scan, st, la, from, limit)
<1> DEFINE N == Len(html) - from
           s == ScanFrom(la, from, limit)
<1>1. N \in Nat /\ N \in 0 .. N /\ from + N = Len(html) /\ Len(html) \in Nat
  OBVIOUS
<1>2. PICK h : Scanned(h, la, from, limit) /\ h[N] = s
  BY ScansIs
<1>3. \A k \in 0 .. N : Scanning(h[k], from, from + k, limit) /\ Since(h[k], h[N])
  <2>1. /\ \A k \in 0 .. N : Scanning(h[k], from, from + k, limit)
        /\ \A j, k \in 0 .. N : j <= k => Since(h[j], h[k])
    BY <1>2, ScanningIs
  <2>2. \A k \in 0 .. N : k <= N
    BY <1>1
  <2> HIDE DEF N
  <2> QED BY <1>1, <2>1, <2>2
<1>4. scan = IF s.scan = "on" THEN [s EXCEPT !.scan = "end"] ELSE s
  BY DEF NextTag
<1> HIDE DEF s
<1>5. /\ Scanning(s, from, Len(html), limit) /\ s \in Scanner /\ s.la \in Reader /\ s.at \in Nat
      /\ s.scan \in {"on", "limit", "tag"} /\ Sound(s.la, from, s.at)
      /\ s.scan = "on" => s.at = Len(html)
      /\ s.at <= Len(html) /\ s.at <= limit + 1 /\ from <= s.at
  <2>1. Scanning(s, from, Len(html), limit)
    <3> HIDE DEF N
    <3> QED BY <1>1, <1>2, <1>3
  <2> QED BY <1>1, <2>1 DEF Scanning, Scanner
<1>6. /\ scan.la = s.la /\ scan.at = s.at
      /\ scan.scan = (IF s.scan = "on" THEN "end" ELSE s.scan)
  BY <1>4, <1>5 DEF Scanner
<1>7. ReadingATag(s.la.state) => s.la.start # Nowhere /\ from <= s.la.start /\ s.la.start < s.at
  <2>1. s.la.start \in Nat /\ Nowhere \in Nat
    BY <1>5 DEF Reader, Nowhere
  <2> QED BY <1>1, <1>5, <2>1 DEF Sound
<1>8. ~ReadingATag(s.la.state) => s.la.start = Nowhere
  BY <1>5 DEF Sound
<1>9. /\ st \in Nat /\ from <= st /\ st <= s.at
      /\ ReadingATag(s.la.state) => st = s.la.start
  <2>1. s.la.start \in Nat
    BY <1>5 DEF Reader
  <2>2. s.scan = "tag" => ReadingATag(s.la.state)
    BY <1>5 DEF Scanning, ReadingATag
  <2>3. CASE ReadingATag(s.la.state)
    <3>1. st = s.la.start
      BY <1>6, <1>7, <2>3 DEF Start, StopAt
    <3> QED BY <1>5, <1>7, <2>1, <2>3, <3>1
  <2>4. CASE ~ReadingATag(s.la.state)
    <3>1. CASE s.scan = "limit"
      <4>0. scan.scan = "limit" /\ scan.la.start = Nowhere
        BY <1>6, <1>8, <2>4, <3>1
      <4>1. Start(scan) = StopAt(scan)
        BY ONLY <4>0 DEF Start
      <4>2. StopAt(scan) = scan.at
        BY ONLY <4>0 DEF StopAt
      <4>3. st = s.at
        BY <1>6, <4>1, <4>2
      <4> QED BY <1>5, <2>4, <4>3
    <3>2. CASE s.scan = "on"
      <4>1. st = Len(html)
        BY <1>6, <1>8, <2>4, <3>2 DEF Start
      <4> QED BY <1>1, <1>5, <2>4, <3>2, <4>1
    <3> QED BY <1>5, <2>2, <2>4, <3>1, <3>2
  <2> QED BY <2>3, <2>4
<1>10. ASSUME NEW j \in from .. scan.at
       PROVE  /\ j - from \in 0 .. N /\ j \in Nat
              /\ h[j - from].la.attributes \in Nat /\ h[j - from].at \in Nat
              /\ Sound(h[j - from].la, from, h[j - from].at)
              /\ Scanning(h[j - from], from, j, limit) /\ Since(h[j - from], s)
              /\ h[j - from].la \in Reader
  <2>1. j - from \in 0 .. N /\ from + (j - from) = j /\ j \in Nat
    BY <1>1, <1>5, <1>6
  <2> HIDE DEF N
  <2>2. Scanning(h[j - from], from, from + (j - from), limit) /\ Since(h[j - from], h[N])
    BY <1>3, <2>1
  <2>3. Scanning(h[j - from], from, j, limit) /\ Since(h[j - from], s)
    BY <1>2, <2>1, <2>2
  <2> QED BY <2>1, <2>3 DEF Scanning, Scanner, Reader
<1>11. \A j \in from .. scan.at : h[j - from].la.attributes <= scan.la.attributes
  <2> SUFFICES ASSUME NEW j \in from .. scan.at
               PROVE  h[j - from].la.attributes <= s.la.attributes
    BY <1>6
  <2> DEFINE v == h[j - from]
  <2>1. /\ v.la.attributes \in Nat /\ Sound(v.la, from, v.at) /\ Since(v, s)
    BY <1>10
  <2>2. s.la.attributes \in Nat
    BY <1>5 DEF Reader
  <2> HIDE DEF v
  <2>3. CASE InATag(v.la)
    <3>1. Later(v.la, s.la)
      BY <2>1 DEF Since
    <3>2. v.la.attributes <= s.la.attributes
      BY ONLY <2>3, <3>1 DEF Later
    <3> QED BY <3>2 DEF v
  <2>4. CASE ~InATag(v.la)
    <3>1. v.la.attributes = 0
      BY <2>1, <2>4 DEF Sound
    <3>2. v.la.attributes <= s.la.attributes
      BY ONLY <2>2, <3>1
    <3> QED BY <3>2 DEF v
  <2> QED BY <2>3, <2>4
<1>12. \A j \in from .. st : h[j - from].la.attributes = 0
  <2> SUFFICES ASSUME NEW j \in from .. st
               PROVE  h[j - from].la.attributes = 0
    OBVIOUS
  <2> DEFINE v == h[j - from]
  <2>0. j \in from .. scan.at /\ j \in Nat /\ j <= st
    BY <1>5, <1>6, <1>9
  <2>1. /\ v.la.attributes \in Nat /\ Sound(v.la, from, v.at) /\ Since(v, s)
        /\ Scanning(v, from, j, limit) /\ v.at \in Nat /\ v.la \in Reader
    BY <1>10, <2>0
  <2> HIDE DEF v
  <2>2. ASSUME InATag(v.la) PROVE FALSE
    <3>1. ReadingATag(v.la.state) /\ v.la.state # "CommentStart"
      BY <2>2 DEF InATag, Inside, ReadingATag
    <3>2. v.la.start < v.at /\ v.la.start \in Nat
      BY <2>1, <3>1 DEF Sound, Reader
    <3>3. v.at <= j
      <4>1. v.scan \in {"on", "limit", "tag"}
        BY <2>1 DEF Scanning, Scanner
      <4> QED BY <2>0, <2>1, <3>1, <4>1 DEF Scanning
    <3>4. InATag(s.la) /\ s.la.start = v.la.start
      BY <2>1, <2>2 DEF Since, Later
    <3>5. ReadingATag(s.la.state)
      BY <3>4 DEF InATag, Inside, ReadingATag
    <3>6. st = v.la.start
      BY <1>9, <3>4, <3>5
    <3> QED BY <2>0, <2>1, <3>2, <3>3, <3>6
  <2>3. v.la.attributes = 0
    BY <2>1, <2>2 DEF Sound
  <2> QED BY <2>3 DEF v
<1>13. ASSUME scan.scan = "tag"
       PROVE  h[scan.at - from].scan = "tag" /\ h[scan.at - from].la = scan.la
  <2> DEFINE v == h[scan.at - from]
  <2>1. scan.at \in from .. scan.at
    BY <1>5, <1>6
  <2>2. Scanning(v, from, scan.at, limit) /\ Since(v, s) /\ v.at \in Nat
    BY <1>10, <2>1
  <2> HIDE DEF v
  <2>3. s.scan = "tag"
    BY <1>6, <1>13
  <2>4. v.scan # "on"
    <3>1. v.scan = "on" => v.at < s.at /\ v.at >= s.at
      BY <1>5, <1>6, <2>2, <2>3 DEF Since, Scanning
    <3> QED BY <1>5, <2>2, <3>1
  <2>5. s = v
    BY <2>2, <2>4 DEF Since
  <2> QED BY <1>6, <2>3, <2>5 DEF v
<1>14. h[N].at = scan.at
  <2> HIDE DEF N
  <2> QED BY <1>2, <1>6
<1>15. scan.scan = "end" => scan.at = Len(html)
  BY <1>5, <1>6
<1> QED BY <1>2, <1>5, <1>6, <1>9, <1>11, <1>12, <1>13, <1>14, <1>15 DEF Found

\* Between two turns: nothing is dropped, and the tokenizer is where the lookahead is, between
\* two tokens.
Between ==
  /\ ahead.at = given /\ parsed = given
  /\ ~Spent(parser) /\ parser.dropped = Nowhere /\ ~parser.skip
  /\ [ahead.la EXCEPT !.foreign = parser.reader.foreign] = parser.reader
  /\ parser.reader.start = Nowhere /\ parser.reader.attributes = 0
  /\ parser.reader.state \in {"Data", "Raw", "Plaintext"}

\* After the last: what was cut, and what it cost.
CutWhere ==
  /\ cut # Nowhere => cut <= given /\ cut <= parser.dropped
  /\ cut = Nowhere => given = Len(html) /\ Len(html) <= parser.dropped

Cost(p, more) == \E walk \in Walks : p.charged <= budget + Len(html) + walk + more

\* What the page budget rests on: the lookahead finds each tag before the tokenizer is given
\* it, from the place and the state that the tokenizer is in.
BudgetInv ==
  /\ html \in Seq(STRING) /\ Len(html) < Nowhere /\ budget \in Nat
  /\ parser \in Parsers /\ ~parser.unpaid
  /\ parsed \in Nat /\ given \in Nat /\ parsed <= given /\ given <= Len(html)
  /\ phase \in {"loop", "end", "done"}
  /\ phase = "loop" => Between
  /\ phase # "loop" => CutWhere
  /\ phase = "end" => Cost(parser, 0)
  /\ phase = "done" => Cost(parser, 2 + parser.held)

\* It holds of every page and budget that parse begins with.
LEMMA BudgetBegins ==
  ASSUME BudgetAssumption, BudgetInit
  PROVE  BudgetInv
<1>1. html \in Seq(STRING) /\ Len(html) < Nowhere /\ budget \in Nat
  BY DEF BudgetInit, BudgetAssumption
<1>2. Nowhere \in Nat /\ <<>> \in Seq(Characters) /\ "Data" \in States
  BY DEF Nowhere, States
<1>3. NewReader \in Reader
  BY <1>2 DEF NewReader, Reader
<1>4. /\ NewReader.state = "Data" /\ NewReader.attributes = 0 /\ NewReader.start = Nowhere
      /\ [NewReader EXCEPT !.foreign = NewReader.foreign] = NewReader
  BY DEF NewReader
<1> DEFINE p == [reader |-> NewReader, charged |-> 0, refused |-> FALSE, held |-> 0,
                 given |-> FALSE, follow |-> FALSE, text |-> FALSE, skip |-> FALSE,
                 allowed |-> 0, unpaid |-> FALSE, dropped |-> Nowhere]
<1>5. /\ p \in Gates /\ p.reader = NewReader /\ p.charged = 0 /\ ~p.refused /\ ~p.skip
      /\ ~p.unpaid /\ p.dropped = Nowhere
  BY <1>2, <1>3 DEF Gates
<1>6. /\ parser = p /\ ahead.la = NewReader /\ ahead.at = 0 /\ parsed = 0 /\ given = 0
      /\ phase = "loop"
  BY DEF BudgetInit
<1> HIDE DEF p
<1>7. parser \in Parsers
  BY <1>4, <1>5, <1>6 DEF Parsers
<1>8. ~Spent(parser)
  BY <1>1, <1>5, <1>6 DEF Spent
<1>9. Between
  BY <1>4, <1>5, <1>6, <1>8 DEF Between
<1>10. 0 <= Len(html)
  BY <1>1
<1> QED BY <1>1, <1>5, <1>6, <1>7, <1>9, <1>10 DEF BudgetInv

\* Tokens held back to the end, whichever are still given: refused only there.
LEMMA FlushedIs ==
  ASSUME budget \in Nat, NEW p \in Gates, NEW i \in Nat, NEW walk \in Nat
  PROVE  LET q == Flushed(p, i, walk) IN
         /\ q \in Gates /\ q.reader = p.reader /\ q.held = p.held
         /\ q.unpaid = p.unpaid
         /\ q.dropped = p.dropped \/ q.dropped = i
         /\ q.charged <= p.charged \/ q.charged <= budget + (1 + walk)
<1> DEFINE As(q) ==
             /\ q \in Gates /\ q.reader = p.reader /\ q.held = p.held
             /\ q.unpaid = p.unpaid
             /\ q.dropped = p.dropped \/ q.dropped = i
             /\ q.charged <= p.charged \/ q.charged <= budget + (1 + walk)
           Told(q, n) == IF Pending(p.reader) < n THEN q ELSE Process(q, i, 0, walk)
<1>1. ASSUME NEW q, As(q), NEW n PROVE As(Told(q, n))
  <2> DEFINE r == Process(q, i, 0, walk)
  <2>1. /\ r \in Gates /\ Onward(q, r, i, 1 + 0 + walk)
        /\ r.reader = q.reader /\ r.unpaid = q.unpaid /\ r.held = q.held
    BY <1>1, ProcessIs
  <2>2. /\ r.charged \in Nat /\ q.charged \in Nat /\ p.charged \in Nat
    BY <1>1, <2>1 DEF Gates
  <2>3. r.charged <= q.charged \/ r.charged <= budget + (1 + 0 + walk)
    BY <2>1 DEF Onward
  <2>4. r.dropped = q.dropped \/ r.dropped = i
    BY <2>1 DEF Onward
  <2> HIDE DEF r
  <2>5. r.charged <= p.charged \/ r.charged <= budget + (1 + walk)
    BY <1>1, <2>2, <2>3
  <2>6. As(r)
    BY <1>1, <2>1, <2>4, <2>5
  <2> HIDE DEF As
  <2> QED BY <1>1, <2>6 DEF r
<1>2. As(p)
  BY DEF Gates
<1> DEFINE a == Told(p, 1)
           b == Told(a, 2)
           c == Told(b, 3)
<1>3. As(a) /\ As(b) /\ As(c)
  <2> HIDE DEF As, Told
  <2> QED BY <1>1, <1>2
<1>4. a.reader = p.reader /\ b.reader = p.reader
  <2> HIDE DEF a, b, c, Told
  <2> QED BY <1>3
<1>5. c = Flushed(p, i, walk)
  BY <1>4 DEF Flushed
<1> HIDE DEF c
<1> QED BY <1>3, <1>5

\* The end of the input: what was held back goes to the gate, and what is open is closed.
LEMMA AtEndKeeps ==
  ASSUME BudgetInv, BudgetAssumption, AtEnd
  PROVE  BudgetInv'
<1>1. /\ parser \in Gates /\ parser.charged \in Nat /\ parser.reader.state # "Emit"
      /\ budget \in Nat /\ given \in Nat /\ Len(html) \in Nat /\ given <= Len(html)
      /\ ~parser.unpaid /\ parser.dropped \in Nat
  BY DEF BudgetInv, Parsers, Gates
<1>2. PICK w \in Walks : parser' = EndGiven(Flushed(parser, given, w))
  BY DEF AtEnd
<1>3. w \in Nat
  BY DEF BudgetAssumption
<1> DEFINE p == Flushed(parser, given, w)
           n == p.charged + (1 + p.held)
           q == [p EXCEPT !.charged = n]
<1>4. /\ p \in Gates /\ p.reader = parser.reader /\ p.held = parser.held
      /\ p.unpaid = parser.unpaid
      /\ p.dropped = parser.dropped \/ p.dropped = given
      /\ p.charged <= parser.charged \/ p.charged <= budget + (1 + w)
  BY <1>1, <1>3, FlushedIs
<1> HIDE DEF p
<1>5. p.charged \in Nat /\ p.held \in Nat /\ p.dropped \in Nat /\ n \in Nat
  BY <1>4 DEF Gates
<1>6. parser' = q
  BY <1>2 DEF EndGiven, Charge, p
<1> HIDE DEF n
<1>7. /\ q \in Gates /\ q.reader = p.reader /\ q.charged = n /\ q.held = p.held
      /\ q.unpaid = p.unpaid /\ q.dropped = p.dropped
  BY <1>4, <1>5 DEF Gates
<1>8. /\ phase = "end" /\ phase' = "done"
      /\ html' = html /\ budget' = budget /\ ahead' = ahead /\ parsed' = parsed
      /\ given' = given /\ cut' = cut
  BY DEF AtEnd
<1> HIDE DEF q
<1>9. q \in Parsers /\ ~q.unpaid
  BY <1>1, <1>4, <1>7 DEF Parsers
<1>10. Cost(parser, 0) /\ CutWhere
  BY <1>8 DEF BudgetInv
<1>11. PICK walk \in Walks : parser.charged <= budget + Len(html) + walk + 0
  BY <1>10 DEF Cost
<1>12. walk \in Nat
  BY DEF BudgetAssumption
<1>13. ASSUME p.charged <= parser.charged PROVE Cost(parser, 2 + parser.held)'
  <2>1. q.charged <= budget + Len(html) + walk + (2 + q.held)
    BY <1>1, <1>5, <1>7, <1>11, <1>12, <1>13 DEF n
  <2> QED BY <1>6, <1>8, <2>1 DEF Cost
<1>14. ASSUME p.charged <= budget + (1 + w) PROVE Cost(parser, 2 + parser.held)'
  <2>1. q.charged <= budget + Len(html) + w + (2 + q.held)
    BY <1>1, <1>3, <1>5, <1>7, <1>14 DEF n
  <2> QED BY <1>6, <1>8, <2>1 DEF Cost
<1>15. Cost(parser, 2 + parser.held)'
  BY <1>4, <1>13, <1>14
<1>16. CutWhere'
  <2>1. cut # Nowhere => cut <= given /\ cut <= q.dropped
    BY <1>4, <1>7, <1>10 DEF CutWhere
  <2>2. cut = Nowhere => given = Len(html) /\ Len(html) <= q.dropped
    BY <1>1, <1>4, <1>7, <1>10 DEF CutWhere
  <2> QED BY <1>6, <1>8, <2>1, <2>2 DEF CutWhere
<1> QED BY <1>6, <1>8, <1>9, <1>15, <1>16 DEF BudgetInv

\* What a feed leaves behind, wherever it was given from.
Left(p, low, walk) ==
  /\ p \in Parsers /\ ~p.unpaid /\ p.charged <= budget + Len(html) + walk
  /\ p.dropped = Nowhere \/ (Spent(p) /\ low <= p.dropped)

\* The meter charged with the lookahead, which never reads past the page.
LEMMA LookedIs ==
  ASSUME BudgetInv, Between, NEW scan, scan.at \in Nat, given <= scan.at, scan.at <= Len(html)
  PROVE  /\ Looked(scan) \in Parsers /\ Looked(scan).charged <= budget + Len(html)
         /\ Looked(scan).reader = parser.reader /\ ~Looked(scan).skip /\ ~Looked(scan).unpaid
         /\ Looked(scan).allowed = 0 /\ Looked(scan).dropped = Nowhere
<1>1. /\ parser \in Gates /\ parser.charged \in Nat /\ parser.reader.state # "Emit"
      /\ ~parser.unpaid /\ ~parser.skip /\ parser.dropped = Nowhere
      /\ ahead.at = given /\ given \in Nat /\ budget \in Nat /\ Len(html) \in Nat
  BY DEF BudgetInv, Between, Parsers, Gates
<1>2. parser.charged <= budget
  BY <1>1 DEF Between, Spent
<1> DEFINE n == parser.charged + (scan.at - ahead.at)
           q == Looked(scan)
<1>3. n \in Nat /\ n <= budget + Len(html)
  BY <1>1, <1>2
<1>4. q = [[parser EXCEPT !.charged = n] EXCEPT !.follow = FALSE, !.allowed = 0]
  BY DEF Looked, Charge
<1> HIDE DEF n, q
<1>5. /\ q \in Gates /\ q.reader = parser.reader /\ q.charged = n /\ (q.skip <=> parser.skip)
      /\ (q.unpaid <=> parser.unpaid) /\ q.allowed = 0 /\ q.dropped = parser.dropped
  BY <1>1, <1>3, <1>4 DEF Gates
<1>6. q \in Parsers
  BY <1>1, <1>5 DEF Parsers
<1> QED BY <1>1, <1>3, <1>5, <1>6 DEF q

\* What the attributes of a tag cost is a number of units.
LEMMA AttributeCostIs ==
  ASSUME NEW n \in Nat
  PROVE  AttributeCost(n) \in Nat
<1> DEFINE m == IF n = 0 THEN 0 ELSE n - 1
<1>1. m \in Nat
  OBVIOUS
<1> HIDE DEF m
<1>2. n * m \in Nat
  BY <1>1
<1> DEFINE k == n * m
<1>3. k \in Nat /\ AttributeCost(n) = k \div 2 + n
  BY <1>2 DEF AttributeCost, m
<1> HIDE DEF k
<1>4. k \div 2 \in Nat
  BY <1>3
<1> QED BY <1>3, <1>4

\* What is read in a turn, whether or not it is kept.
TurnRead(scan, start, before, afforded, tag, walk) ==
  /\ scan.scan \in {"tag", "limit", "end"} /\ scan.la \in Reader
  /\ scan.at \in Nat /\ scan.at <= Len(html)
  /\ scan.scan = "end" => scan.at = Len(html)
  /\ start \in Nat /\ given <= start /\ start <= scan.at
  /\ Left(before, given, walk)
  /\ ~Spent(before) => Left(afforded, given, walk) /\ afforded.dropped = Nowhere
  /\ ~Spent(before) => Left(tag, start, walk)
  /\ scan.scan = "tag" => ~tag.skip /\ Ended(tag.reader, scan.la)

\* Each part of a turn, by the lookahead and the two feeds.
LEMMA TurnReads ==
  ASSUME BudgetInv, Between, NEW walk \in Nat, NEW la, la = parser.reader,
         NEW scan, scan = NextTag(la, given, given + Remaining(parser)),
         NEW start, start = Start(scan),
         NEW before, before = Feed(Looked(scan), given, start, walk),
         NEW afforded, afforded = Afford(before, AttributeCost(scan.la.attributes)),
         NEW tag, tag = Feed([afforded EXCEPT !.allowed = scan.la.attributes],
                             start, scan.at, walk)
  PROVE  TurnRead(scan, start, before, afforded, tag, walk)
<1> DEFINE limit == given + Remaining(parser)
<1>1. /\ html \in Seq(STRING) /\ Len(html) < Nowhere /\ budget \in Nat /\ Len(html) \in Nat
      /\ given \in Nat /\ given <= Len(html)
      /\ parser \in Gates /\ la \in Reader /\ la.state # "Emit"
      /\ la.attributes = 0 /\ la.start = Nowhere /\ la.state \in {"Data", "Raw", "Plaintext"}
      /\ given \in given .. given
  BY DEF BudgetInv, Between, Parsers, Gates
<1>2. Sound(la, given, given)
  BY <1>1 DEF Sound, InATag, Inside, ReadingATag
<1>3. limit \in Nat /\ given <= limit
  <2>1. Remaining(parser) \in Nat
    <3>1. parser.charged \in Nat
      BY <1>1 DEF Gates
    <3> QED BY <1>1, <3>1 DEF Remaining
  <2> QED BY <1>1, <2>1
<1> HIDE DEF limit
<1>4. scan = NextTag(la, given, limit)
  BY DEF limit
<1>F. Found(scan, start, la, given, limit)
  BY ONLY <1>1, <1>2, <1>3, <1>4, start = Start(scan), NextTagIs
<1>5. /\ scan.scan \in {"tag", "limit", "end"} /\ scan.la \in Reader
      /\ scan.at \in Nat /\ scan.at <= Len(html)
      /\ scan.scan = "end" => scan.at = Len(html)
      /\ start \in Nat /\ given <= start /\ start <= scan.at
  BY <1>F DEF Found
<1>6. PICK h :
        /\ Scanned(h, la, given, limit) /\ h[Len(html) - given].at = scan.at
        /\ scan.scan = "tag" =>
             h[scan.at - given].scan = "tag" /\ h[scan.at - given].la = scan.la
        /\ \A j \in given .. start : h[j - given].la.attributes = 0
        /\ \A j \in given .. scan.at : h[j - given].la.attributes <= scan.la.attributes
  BY <1>F DEF Found
<1> DEFINE p == Looked(scan)
<1>7. /\ p \in Parsers /\ p.charged <= budget + Len(html) /\ p.reader = la /\ ~p.skip
      /\ ~p.unpaid /\ p.allowed = 0 /\ p.dropped = Nowhere /\ p.charged \in Nat
  <2>1. given <= scan.at
    BY <1>1, <1>5
  <2>2. /\ p \in Parsers /\ p.charged <= budget + Len(html) /\ p.reader = la /\ ~p.skip
        /\ ~p.unpaid /\ p.allowed = 0 /\ p.dropped = Nowhere
    BY <1>5, <2>1, LookedIs
  <2> HIDE DEF p
  <2> QED BY <2>2 DEF Parsers, Gates
<1>8. before = Feed(p, given, start, walk)
  OBVIOUS
<1> HIDE DEF p
<1>9. Fed(before, p, h[start - given], start, given, walk)
  <2>1. h[given - given] = [scan |-> "on", la |-> la, at |-> given]
    <3>1. given - given = 0
      BY <1>1
    <3> QED BY <1>6, <3>1 DEF Scanned
  <2>2. Locked(p, h[given - given], given)
    <3>1. given # given + 1
      BY <1>1
    <3> QED BY <1>7, <2>1, <3>1 DEF Locked
  <2>3. \A i \in (given + 1) .. start : h[i - given].la.attributes <= p.allowed
    <3>1. (given + 1) .. start \subseteq given .. start
      BY <1>1, <1>5
    <3> QED BY <1>6, <1>7, <3>1
  <2>4. p.charged <= budget + Len(html) + walk
    BY <1>1, <1>7
  <2>5. start <= h[Len(html) - given].at /\ given <= given
    BY <1>1, <1>5, <1>6
  <2>6. /\ html \in Seq(STRING) /\ budget \in Nat /\ given \in Nat /\ given <= Len(html)
        /\ limit \in Nat /\ given <= limit /\ la \in Reader /\ la.state # "Emit"
        /\ Sound(la, given, given) /\ Scanned(h, la, given, limit)
        /\ p \in Parsers /\ start \in Nat /\ walk \in Nat /\ given <= start /\ ~p.unpaid
    BY <1>1, <1>2, <1>3, <1>5, <1>6, <1>7
  <2>7. Fed(Feed(p, given, start, walk), p, h[start - given], start, given, walk)
    BY ONLY <2>2, <2>3, <2>4, <2>5, <2>6, FeedIs
  <2> QED BY <1>8, <2>7
<1>10. Left(before, given, walk)
  BY <1>7, <1>9 DEF Fed, Left
<1>11. before \in Gates /\ before.charged \in Nat /\ before.reader.state # "Emit"
  BY <1>9 DEF Fed, Parsers, Gates
<1>12. scan.la.attributes \in Nat /\ AttributeCost(scan.la.attributes) \in Nat
  <2>1. scan.la.attributes \in Nat
    BY <1>5 DEF Reader
  <2> QED BY <2>1, AttributeCostIs
<1> DEFINE units == AttributeCost(scan.la.attributes)
<1>13. /\ afforded \in Gates
       /\ afforded \in {[before EXCEPT !.refused = TRUE], [before EXCEPT !.charged = @ + units]}
       /\ afforded.charged <= before.charged \/ afforded.charged <= budget
  <2> HIDE DEF units
  <2>1. afforded = Afford(before, units) /\ units \in Nat
    BY <1>12 DEF units
  <2>2. budget \in Nat
    BY <1>1
  <2> QED BY ONLY <1>11, <2>1, <2>2, AffordIs
<1> HIDE DEF units
<1>14. /\ afforded.reader = before.reader /\ (afforded.skip <=> before.skip)
       /\ (afforded.unpaid <=> before.unpaid) /\ afforded.dropped = before.dropped
       /\ afforded.charged \in Nat
  BY <1>11, <1>13 DEF Gates
<1>15. afforded \in Parsers /\ afforded.charged <= budget + Len(html) + walk /\ ~afforded.unpaid
  <2>1. afforded \in Parsers
    BY <1>11, <1>13, <1>14 DEF Parsers
  <2>2. before.charged <= budget + Len(html) + walk /\ ~before.unpaid
    BY <1>10 DEF Left
  <2> QED BY <1>1, <1>11, <1>13, <1>14, <2>1, <2>2
<1>16. ~Spent(before) => Left(afforded, given, walk) /\ afforded.dropped = Nowhere
  BY <1>10, <1>14, <1>15 DEF Left
<1> DEFINE paid == [afforded EXCEPT !.allowed = scan.la.attributes]
<1>17. /\ paid \in Parsers /\ paid.reader = before.reader /\ (paid.skip <=> before.skip)
       /\ ~paid.unpaid /\ paid.dropped = before.dropped /\ paid.charged = afforded.charged
       /\ paid.allowed = scan.la.attributes
  BY <1>12, <1>14, <1>15 DEF Parsers, Gates
<1>18. tag = Feed(paid, start, scan.at, walk)
  OBVIOUS
<1> HIDE DEF paid
<1>19. Fed(tag, paid, h[scan.at - given], scan.at, start, walk)
  <2>1. Locked(before, h[start - given], start)
    BY <1>9 DEF Fed
  <2>2. Locked(paid, h[start - given], start)
    BY <1>17, <2>1 DEF Locked
  <2>3. \A i \in (start + 1) .. scan.at : h[i - given].la.attributes <= paid.allowed
    <3>1. (start + 1) .. scan.at \subseteq given .. scan.at
      BY <1>1, <1>5
    <3> QED BY <1>6, <1>17, <3>1
  <2>4. paid.charged <= budget + Len(html) + walk
    BY <1>15, <1>17
  <2>5. scan.at <= h[Len(html) - given].at
    BY <1>5, <1>6
  <2>6. /\ html \in Seq(STRING) /\ budget \in Nat /\ given \in Nat /\ given <= Len(html)
        /\ limit \in Nat /\ given <= limit /\ la \in Reader /\ la.state # "Emit"
        /\ Sound(la, given, given) /\ Scanned(h, la, given, limit)
        /\ paid \in Parsers /\ start \in Nat /\ scan.at \in Nat /\ walk \in Nat
        /\ given <= start /\ start <= scan.at /\ ~paid.unpaid
    BY <1>1, <1>2, <1>3, <1>5, <1>6, <1>17
  <2>7. Fed(Feed(paid, start, scan.at, walk), paid, h[scan.at - given], scan.at, start, walk)
    BY ONLY <2>2, <2>3, <2>4, <2>5, <2>6, FeedIs
  <2> QED BY <1>18, <2>7
<1>20. ~Spent(before) => Left(tag, start, walk)
  <2>1. ~Spent(before) => paid.dropped = Nowhere
    BY <1>14, <1>16, <1>17
  <2> QED BY <1>19, <2>1 DEF Fed, Left
<1>21. scan.scan = "tag" => ~tag.skip /\ Ended(tag.reader, scan.la)
  <2>1. Locked(tag, h[scan.at - given], scan.at)
    BY <1>19 DEF Fed
  <2> QED BY <1>6, <2>1 DEF Locked
<1> QED BY <1>5, <1>10, <1>16, <1>20, <1>21 DEF TurnRead

\* What a turn does with what it read.
Turned(scan, start, before, afforded, tag) ==
  CASE scan.scan = "limit" ->
         /\ parser' = before /\ given' = start /\ cut' = CutAt(before, start)
         /\ ahead' = [la |-> scan.la, at |-> scan.at]
         /\ phase' = "end" /\ UNCHANGED parsed
    [] scan.scan # "limit" /\ (Spent(before) \/ afforded.refused) ->
         /\ parser' = IF Spent(before) THEN before ELSE afforded
         /\ ahead' = [la |-> scan.la, at |-> scan.at]
         /\ given' = start /\ cut' = CutAt(before, start) /\ phase' = "end"
         /\ parsed' = IF Spent(before) THEN parsed ELSE start
    [] OTHER ->
         /\ parser' = tag /\ given' = scan.at
         /\ cut' = IF Spent(tag) THEN start ELSE Nowhere
         /\ parsed' = IF Spent(tag) THEN start ELSE scan.at
         /\ phase' = IF Spent(tag) \/ scan.scan = "end" THEN "end" ELSE "loop"
         /\ ahead' = [at |-> scan.at,
                      la |-> IF scan.scan = "end" THEN scan.la
                             ELSE [Emitted(scan.la) EXCEPT
                                     !.state = tag.reader.state, !.raw = tag.reader.raw]]

\* A turn of the loop.
LEMMA TurnIs ==
  ASSUME Turn
  PROVE  /\ phase = "loop" /\ html' = html /\ budget' = budget
         /\ \E walk \in Walks : \E scan, start, before, afforded, tag :
              /\ scan = NextTag([ahead.la EXCEPT !.foreign = parser.reader.foreign],
                                ahead.at, ahead.at + Remaining(parser))
              /\ start = Start(scan)
              /\ before = Feed(Looked(scan), given, start, walk)
              /\ afforded = Afford(before, AttributeCost(scan.la.attributes))
              /\ tag = Feed([afforded EXCEPT !.allowed = scan.la.attributes],
                            start, scan.at, walk)
              /\ Turned(scan, start, before, afforded, tag)
<1> DEFINE la == [ahead.la EXCEPT !.foreign = parser.reader.foreign]
           S == {NextTag(la, ahead.at, ahead.at + Remaining(parser))}
           B(scan, start, walk) == {Feed(Looked(scan), given, start, walk)}
           A(scan, before) == {Afford(before, AttributeCost(scan.la.attributes))}
           T(scan, start, afforded, walk) ==
             {Feed([afforded EXCEPT !.allowed = scan.la.attributes], start, scan.at, walk)}
<1>1. /\ phase = "loop" /\ html' = html /\ budget' = budget
      /\ \E walk \in Walks : \E scan \in S : \E start \in {Start(scan)} :
         \E before \in B(scan, start, walk) : \E afforded \in A(scan, before) :
         \E tag \in T(scan, start, afforded, walk) : Turned(scan, start, before, afforded, tag)
  BY Zenon DEF Turn, Turned
<1>2. PICK walk \in Walks : \E scan \in S : \E start \in {Start(scan)} :
         \E before \in B(scan, start, walk) : \E afforded \in A(scan, before) :
         \E tag \in T(scan, start, afforded, walk) : Turned(scan, start, before, afforded, tag)
  BY <1>1
<1>3. PICK scan \in S : \E start \in {Start(scan)} :
         \E before \in B(scan, start, walk) : \E afforded \in A(scan, before) :
         \E tag \in T(scan, start, afforded, walk) : Turned(scan, start, before, afforded, tag)
  BY <1>2
<1>4. PICK start \in {Start(scan)} :
         \E before \in B(scan, start, walk) : \E afforded \in A(scan, before) :
         \E tag \in T(scan, start, afforded, walk) : Turned(scan, start, before, afforded, tag)
  BY <1>3
<1>5. PICK before \in B(scan, start, walk) : \E afforded \in A(scan, before) :
         \E tag \in T(scan, start, afforded, walk) : Turned(scan, start, before, afforded, tag)
  BY <1>4
<1>6. PICK afforded \in A(scan, before) :
         \E tag \in T(scan, start, afforded, walk) : Turned(scan, start, before, afforded, tag)
  BY <1>5
<1>7. PICK tag \in T(scan, start, afforded, walk) : Turned(scan, start, before, afforded, tag)
  BY <1>6
<1> QED BY Zenon, <1>1, <1>3, <1>4, <1>5, <1>6, <1>7

\* The lookahead follows the tokenizer to where the tree builder sent it.
LEMMA FollowsTo ==
  ASSUME NEW la \in Reader, NEW r, Ended(r, la), NEW e,
         e = [Emitted(la) EXCEPT !.state = r.state, !.raw = r.raw]
  PROVE  [e EXCEPT !.foreign = r.foreign] = r
<1> DEFINE m == Emitted(la)
           f == r.foreign
           s == r.state
           w == r.raw
<1>1. m \in Reader
  BY EmittedIs
<1>2. r = [m EXCEPT !.foreign = f, !.state = s, !.raw = w] /\ e = [m EXCEPT !.state = s, !.raw = w]
  BY DEF Ended
<1> HIDE DEF m, f, s, w
<1>3. [e EXCEPT !.foreign = f] = r
  BY <1>1, <1>2 DEF Reader
<1> QED BY <1>3 DEF f

\* A turn that ends the loop.
LEMMA TurnEnds ==
  ASSUME BudgetInv, BudgetAssumption, html' = html, budget' = budget, NEW walk \in Walks,
         Left(parser', given, walk), phase' = "end",
         parsed' \in Nat, given' \in Nat, parsed' <= given', given' <= Len(html), CutWhere'
  PROVE  BudgetInv'
<1>1. /\ html \in Seq(STRING) /\ Len(html) < Nowhere /\ budget \in Nat /\ Len(html) \in Nat
      /\ walk \in Nat
  BY DEF BudgetInv, BudgetAssumption
<1>2. parser' \in Parsers /\ ~parser'.unpaid /\ parser'.charged <= budget + Len(html) + walk
  BY DEF Left
<1>3. parser'.charged \in Nat
  BY <1>2 DEF Parsers, Gates
<1>4. parser'.charged <= budget + Len(html) + walk + 0
  BY <1>1, <1>2, <1>3
<1>5. Cost(parser, 0)'
  BY <1>4 DEF Cost
<1> QED BY <1>1, <1>2, <1>5 DEF BudgetInv

\* However a turn ends, what holds between turns or after the last holds again.
LEMMA TurnKeeps ==
  ASSUME BudgetInv, BudgetAssumption, Turn
  PROVE  BudgetInv'
<1>0. /\ phase = "loop" /\ html' = html /\ budget' = budget /\ Between
      /\ budget \in Nat /\ Len(html) \in Nat /\ Len(html) < Nowhere /\ Nowhere \in Nat
      /\ parsed \in Nat /\ given \in Nat /\ parsed = given
  BY TurnIs DEF BudgetInv, Between, Nowhere
<1> DEFINE la == [ahead.la EXCEPT !.foreign = parser.reader.foreign]
<1>1. PICK walk \in Walks : \E scan, start, before, afforded, tag :
        /\ scan = NextTag(la, ahead.at, ahead.at + Remaining(parser))
        /\ start = Start(scan)
        /\ before = Feed(Looked(scan), given, start, walk)
        /\ afforded = Afford(before, AttributeCost(scan.la.attributes))
        /\ tag = Feed([afforded EXCEPT !.allowed = scan.la.attributes], start, scan.at, walk)
        /\ Turned(scan, start, before, afforded, tag)
  BY TurnIs
<1> HIDE DEF la
<1>2. PICK scan, start, before, afforded, tag :
        /\ scan = NextTag(la, ahead.at, ahead.at + Remaining(parser))
        /\ start = Start(scan)
        /\ before = Feed(Looked(scan), given, start, walk)
        /\ afforded = Afford(before, AttributeCost(scan.la.attributes))
        /\ tag = Feed([afforded EXCEPT !.allowed = scan.la.attributes], start, scan.at, walk)
        /\ Turned(scan, start, before, afforded, tag)
  BY <1>1
<1>3. walk \in Nat
  BY DEF BudgetAssumption
<1>4. TurnRead(scan, start, before, afforded, tag, walk)
  <2>1. la = parser.reader /\ ahead.at = given
    BY <1>0 DEF Between, la
  <2>2. scan = NextTag(la, given, given + Remaining(parser))
    BY <1>2, <2>1
  <2> QED BY <1>0, <1>2, <1>3, <2>1, <2>2, TurnReads
<1>5. /\ scan.scan \in {"tag", "limit", "end"} /\ scan.la \in Reader
      /\ scan.at \in Nat /\ scan.at <= Len(html)
      /\ scan.scan = "end" => scan.at = Len(html)
      /\ start \in Nat /\ given <= start /\ start <= scan.at /\ start <= Len(html)
      /\ parsed <= start /\ start <= start /\ start < Nowhere /\ parsed < Nowhere
      /\ Left(before, given, walk) /\ before.dropped \in Nat
      /\ start # Nowhere /\ parsed # Nowhere
  <2>1. /\ scan.scan \in {"tag", "limit", "end"} /\ scan.la \in Reader
        /\ scan.at \in Nat /\ scan.at <= Len(html)
        /\ scan.scan = "end" => scan.at = Len(html)
        /\ start \in Nat /\ given <= start /\ start <= scan.at /\ Left(before, given, walk)
    BY <1>4 DEF TurnRead
  <2>2. before.dropped \in Nat
    BY <2>1 DEF Left, Parsers, Gates
  <2> QED BY <1>0, <2>1, <2>2
<1>6. CutAt(before, start) \in {parsed, start} /\ CutAt(before, start) <= start
  BY <1>5 DEF CutAt
<1>7. CutAt(before, start) <= before.dropped /\ CutAt(before, start) # Nowhere
  <2>1. CASE Spent(before)
    <3>1. CutAt(before, start) = parsed
      BY <2>1 DEF CutAt
    <3>2. parsed <= before.dropped
      <4>1. before.dropped = Nowhere \/ given <= before.dropped
        BY <1>5 DEF Left
      <4> QED BY <1>0, <1>5, <4>1
    <3> QED BY <1>5, <3>1, <3>2
  <2>2. CASE ~Spent(before)
    <3>1. CutAt(before, start) = start
      BY <2>2 DEF CutAt
    <3>2. before.dropped = Nowhere
      BY <1>5, <2>2 DEF Left
    <3> QED BY <1>0, <1>5, <3>1, <3>2
  <2> QED BY <2>1, <2>2
<1>8. CASE scan.scan = "limit"
  <2>1. /\ parser' = before /\ given' = start /\ cut' = CutAt(before, start)
        /\ phase' = "end" /\ parsed' = parsed
    BY <1>2, <1>8 DEF Turned
  <2>2. CutWhere'
    BY <1>6, <1>7, <2>1 DEF CutWhere
  <2>3. Left(parser', given, walk)
    BY <1>5, <2>1
  <2> QED BY <1>0, <1>5, <2>1, <2>2, <2>3, TurnEnds
<1>9. CASE scan.scan # "limit" /\ (Spent(before) \/ afforded.refused)
  <2>1. /\ parser' = (IF Spent(before) THEN before ELSE afforded)
        /\ given' = start /\ cut' = CutAt(before, start) /\ phase' = "end"
        /\ parsed' = (IF Spent(before) THEN parsed ELSE start)
    BY <1>2, <1>9 DEF Turned
  <2>2. CASE Spent(before)
    <3>1. parser' = before /\ parsed' = parsed
      BY <2>1, <2>2
    <3>2. CutWhere'
      BY <1>6, <1>7, <2>1, <3>1 DEF CutWhere
    <3>3. Left(parser', given, walk)
      BY <1>5, <3>1
    <3> QED BY <1>0, <1>5, <2>1, <3>1, <3>2, <3>3, TurnEnds
  <2>3. CASE ~Spent(before)
    <3>1. parser' = afforded /\ parsed' = start
      BY <2>1, <2>3
    <3>2. Left(afforded, given, walk) /\ afforded.dropped = Nowhere
      BY <1>4, <2>3 DEF TurnRead
    <3>3. CutAt(before, start) = start /\ start <= Nowhere
      BY <1>0, <1>5, <2>3 DEF CutAt
    <3>4. CutWhere'
      BY <1>5, <2>1, <3>1, <3>2, <3>3 DEF CutWhere
    <3>5. Left(parser', given, walk)
      BY <3>1, <3>2
    <3> QED BY <1>0, <1>5, <2>1, <3>1, <3>4, <3>5, TurnEnds
  <2> QED BY <2>2, <2>3
<1>10. CASE scan.scan # "limit" /\ ~Spent(before) /\ ~afforded.refused
  <2>1. /\ parser' = tag /\ given' = scan.at
        /\ cut' = (IF Spent(tag) THEN start ELSE Nowhere)
        /\ parsed' = (IF Spent(tag) THEN start ELSE scan.at)
        /\ phase' = (IF Spent(tag) \/ scan.scan = "end" THEN "end" ELSE "loop")
        /\ ahead' = [at |-> scan.at,
                     la |-> IF scan.scan = "end" THEN scan.la
                            ELSE [Emitted(scan.la) EXCEPT
                                    !.state = tag.reader.state, !.raw = tag.reader.raw]]
    BY <1>2, <1>10 DEF Turned
  <2>2. Left(tag, start, walk) /\ tag.dropped \in Nat
    <3>1. Left(tag, start, walk)
      BY <1>4, <1>10 DEF TurnRead
    <3> QED BY <3>1 DEF Left, Parsers, Gates
  <2>3. Left(tag, given, walk)
    BY <1>0, <1>5, <2>2 DEF Left
  <2>4. CASE Spent(tag)
    <3>1. cut' = start /\ parsed' = start /\ phase' = "end"
      BY <2>1, <2>4
    <3>2. start <= tag.dropped
      <4>1. tag.dropped = Nowhere \/ start <= tag.dropped
        BY <2>2 DEF Left
      <4> QED BY <1>0, <1>5, <4>1
    <3>3. CutWhere'
      BY <1>5, <2>1, <3>1, <3>2 DEF CutWhere
    <3>4. Left(parser', given, walk)
      BY <2>1, <2>3
    <3> QED BY <1>0, <1>5, <2>1, <3>1, <3>3, <3>4, TurnEnds
  <2>5. CASE ~Spent(tag) /\ scan.scan = "end"
    <3>1. cut' = Nowhere /\ parsed' = scan.at /\ phase' = "end" /\ scan.at = Len(html)
      BY <1>5, <2>1, <2>5
    <3>2. tag.dropped = Nowhere
      BY <2>2, <2>5 DEF Left
    <3>3. CutWhere'
      BY <1>0, <2>1, <3>1, <3>2 DEF CutWhere
    <3>4. Left(parser', given, walk) /\ scan.at <= scan.at
      BY <1>5, <2>1, <2>3
    <3> QED BY <1>0, <1>5, <2>1, <3>1, <3>3, <3>4, TurnEnds
  <2>6. CASE ~Spent(tag) /\ scan.scan = "tag"
    <3>1. /\ parsed' = scan.at /\ given' = scan.at /\ phase' = "loop" /\ parser' = tag
          /\ ahead'.at = scan.at
          /\ ahead'.la = [Emitted(scan.la) EXCEPT
                            !.state = tag.reader.state, !.raw = tag.reader.raw]
      BY <2>1, <2>6
    <3>2. ~tag.skip /\ Ended(tag.reader, scan.la)
      BY <1>4, <2>6 DEF TurnRead
    <3>3. [ahead'.la EXCEPT !.foreign = tag.reader.foreign] = tag.reader
      BY <1>5, <3>1, <3>2, FollowsTo
    <3>4. /\ tag.reader.start = Nowhere /\ tag.reader.attributes = 0
          /\ tag.reader.state \in {"Data", "Raw", "Plaintext"}
      <4>1. tag.reader.state \in {"Data", "Raw", "Plaintext"}
        BY <3>2 DEF Ended
      <4> QED BY <1>5, <3>2, <4>1, EndedIs
    <3>5. tag.dropped = Nowhere /\ tag \in Parsers /\ ~tag.unpaid
      BY <2>2, <2>6 DEF Left
    <3>6. ~Spent(parser)'
      BY <1>0, <2>6, <3>1 DEF Spent
    <3>7. Between'
      BY <3>1, <3>2, <3>3, <3>4, <3>5, <3>6 DEF Between
    <3>8. parsed' <= given' /\ given' <= Len(html)
      BY <1>5, <3>1
    <3> QED BY <1>0, <1>5, <3>1, <3>5, <3>7, <3>8 DEF BudgetInv
  <2> QED BY <1>5, <1>10, <2>4, <2>5, <2>6
<1> QED BY <1>8, <1>9, <1>10

\* It holds of every parse.
LEMMA BudgetInvariant ==
  ASSUME BudgetAssumption
  PROVE  BudgetSpec => []BudgetInv
<1>1. BudgetInit => BudgetInv
  BY BudgetBegins
<1>2. BudgetInv /\ [BudgetNext]_pageBudget => BudgetInv'
  <2> SUFFICES ASSUME BudgetInv, [BudgetNext]_pageBudget PROVE BudgetInv'
    OBVIOUS
  <2>1. CASE Turn
    BY <2>1, TurnKeeps
  <2>2. CASE AtEnd
    BY <2>2, AtEndKeeps
  <2>3. CASE UNCHANGED pageBudget
    BY <2>3 DEF pageBudget, BudgetInv, Between, CutWhere, Cost, Spent
  <2> QED BY <2>1, <2>2, <2>3 DEF BudgetNext
<1> QED BY <1>1, <1>2, PTL DEF BudgetSpec

\* Whatever the page and the budget, and whatever the changes of the tree cost, the tokenizer
\* compares no attribute that was not paid for: parse's lookahead found each tag before it was
\* given, with every attribute it has (budget.rs, parse and Lookahead::next_tag).
THEOREM AttributesArePaid == BudgetSpec => []AttributesPaid
<1>1. BudgetInv => AttributesPaid
  BY DEF BudgetInv, AttributesPaid
<1> QED BY <1>1, BudgetInvariant, BudgetAssumption, PTL

\* Of a page that was cut, no token before the cut was refused; of one that was not, nothing but
\* what the tokenizer held back to the very end; and the work goes past the budget by no more
\* than the page's length, the tree work of a single token, and the end (budget.rs, parse,
\* cut_at and Gate::process_token).
THEOREM CutsAreHonest == BudgetSpec => []CutHonest
<1>1. BudgetInv => CutHonest
  <2> SUFFICES ASSUME BudgetInv PROVE CutHonest
    OBVIOUS
  <2>1. /\ budget \in Nat /\ Len(html) \in Nat /\ parser.charged \in Nat /\ parser.held \in Nat
    BY DEF BudgetInv, Parsers, Gates
  <2>2. PICK walk \in Walks : TRUE
    BY BudgetAssumption DEF BudgetAssumption
  <2>3. \A w \in Walks : w \in Nat
    BY BudgetAssumption DEF BudgetAssumption
  <2>4. \E w \in Walks : parser.charged <= budget + 2 + parser.held + Len(html) + w
    <3>1. CASE phase = "loop"
      <4>1. parser.charged <= budget
        BY <2>1, <3>1 DEF BudgetInv, Between, Spent
      <4>2. parser.charged <= budget + 2 + parser.held + Len(html) + walk
        BY <2>1, <2>2, <2>3, <4>1
      <4> QED BY <4>2
    <3>2. CASE phase = "end"
      <4>1. PICK w \in Walks : parser.charged <= budget + Len(html) + w + 0
        BY <3>2 DEF BudgetInv, Cost
      <4>2. parser.charged <= budget + 2 + parser.held + Len(html) + w
        BY <2>1, <2>3, <4>1
      <4> QED BY <4>2
    <3>3. CASE phase = "done"
      <4>1. PICK w \in Walks : parser.charged <= budget + Len(html) + w + (2 + parser.held)
        BY <3>3 DEF BudgetInv, Cost
      <4>2. parser.charged <= budget + 2 + parser.held + Len(html) + w
        BY <2>1, <2>3, <4>1
      <4> QED BY <4>2
    <3> QED BY <3>1, <3>2, <3>3 DEF BudgetInv
  <2>5. phase # "loop" => CutWhere
    BY DEF BudgetInv
  <2> QED BY <2>4, <2>5 DEF CutHonest, CutWhere, BudgetInv
<1> QED BY <1>1, BudgetInvariant, BudgetAssumption, PTL

=============================================================================
