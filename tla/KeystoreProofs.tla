---------------------------- MODULE KeystoreProofs ----------------------------
(***************************************************************************)
(* The keystore and the conversations with it, for any number of homes,    *)
(* terminals, conversations and confirmations, any timeouts and clocks.    *)
(***************************************************************************)
EXTENDS Signing, TLAPS

USE DEF SealOrNone

\* The steps of an enrolment keep the types.
LEMMA EnrolsTyped ==
  ASSUME TypeOK, NEW n \in Enrollers, Enrols(n),
         UNCHANGED <<shell, interactive, holder, at, loc>>
  PROVE  TypeOK'
<1> USE KeystoreAssumption
<1>1. UNCHANGED <<session, clocks, confirmations>>
  BY DEF Enrols, EnrolKept, InitBegin, Passphrase, Initialize, Restore, StoreKey,
         WriteSealed, EnrolEnds
<1>2. /\ sealed' \in [Homes -> SealOrNone]
      /\ wrapping' \in SealOrNone
      /\ enrol' \in [Enrollers -> [at : EnrolSteps, home : Homes, init : BOOLEAN, seal : SealOrNone]]
  <2> USE DEF TypeOK, KeystoreType, Finished, EnrolSteps
  <2>1. CASE InitBegin(n)  BY <2>1 DEF InitBegin
  <2>2. CASE Passphrase(n)  BY <2>2 DEF Passphrase
  <2>3. CASE Initialize(n)
    <3>1. CASE CanInitialize(enrol[n].home)
      <4>1. PICK s \in Seals : enrol' = [enrol EXCEPT ![n] =
                 [at |-> "store", home |-> enrol[n].home, init |-> TRUE, seal |-> s]]
        BY <2>3, <3>1 DEF Initialize
      <4> QED
        BY <2>3, <4>1 DEF Initialize
    <3>2. CASE ~CanInitialize(enrol[n].home)
      <4>1. enrol' = [enrol EXCEPT ![n] = Finished] /\ UNCHANGED <<sealed, wrapping>>
        BY <2>3, <3>2 DEF Initialize
      <4> QED
        BY <4>1
    <3> QED
      BY <3>1, <3>2
  <2>4. CASE Restore(n)  BY <2>4 DEF Restore
  <2>5. CASE StoreKey(n)  BY <2>5 DEF StoreKey
  <2>6. CASE WriteSealed(n)  BY <2>6 DEF WriteSealed
  <2>7. CASE EnrolEnds(n)  BY <2>7 DEF EnrolEnds
  <2> QED
    BY <2>1, <2>2, <2>3, <2>4, <2>5, <2>6, <2>7 DEF Enrols
<1> QED
  BY <1>1, <1>2 DEF TypeOK, KeystoreType, ConfirmationType, session, clocks, confirmations

\* So do the clocks and the timer.
LEMMA AroundTyped ==
  ASSUME TypeOK, Surroundings
  PROVE  TypeOK'
<1> USE KeystoreAssumption
<1>1. CASE \E n \in Enrollers : Enrols(n)
  BY <1>1, EnrolsTyped DEF Surroundings
<1>2. CASE Tick \/ Suspend \/ Screen \/ TimerCheck \/ TimerLock
  <2> USE DEF Surroundings, TypeOK, KeystoreType, ConfirmationType, session, clocks,
              confirmations, vault
  <2>1. CASE Tick  BY <1>2, <2>1 DEF Tick
  <2>2. CASE Suspend  BY <1>2, <2>2 DEF Suspend
  <2>3. CASE Screen  BY <1>2, <2>3 DEF Screen
  <2>4. CASE TimerCheck  BY <1>2, <2>4 DEF TimerCheck
  <2>5. CASE TimerLock  BY <1>2, <2>5 DEF TimerLock
  <2> QED
    BY <1>2, <2>1, <2>2, <2>3, <2>4, <2>5
<1> QED
  BY <1>1, <1>2 DEF Surroundings, Around

\* What a conversation carries, as far as its step needs it.
Carries(step, l) == l.kind = "sign" /\ step \notin {"idle", "consent"} => l.token # None

\* A conversation that goes on to a step, with locals of their type, keeps both.
LEMMA GotoTyped ==
  ASSUME TypeOK, NEW t \in Conversations, NEW step \in Steps, NEW l \in Locals,
         Carries(step, l), Goto(t, step, l)
  PROVE  /\ at' \in [Conversations -> Steps]
         /\ loc' \in [Conversations -> Locals]
         /\ \A u \in Conversations : Carries(at'[u], loc'[u])
BY DEF TypeOK, Goto, Carries

\* The locals of a conversation with some of them changed.
LEMMA LocalsChange ==
  ASSUME NEW l \in Locals
  PROVE  /\ \A r \in {"none", "done", "locked", "error"} : [l EXCEPT !.reply = r] \in Locals
         /\ \A b \in BOOLEAN : [l EXCEPT !.retried = b] \in Locals
         /\ \A q \in SealOrNone : [l EXCEPT !.seal = q] \in Locals
         /\ \A c \in Tokens : [l EXCEPT !.token = c] \in Locals
         /\ \A r \in {"none", "done", "locked", "error"}, b \in BOOLEAN :
              [l EXCEPT !.reply = r, !.late = b] \in Locals
BY DEF Locals

\* Locals about the same request.
Same(m, l) == m.kind = l.kind /\ m.token = l.token

\* What a handler notes down about its progress is no part of the request.
LEMMA SameCargo ==
  ASSUME NEW l \in Locals
  PROVE  /\ \A r \in {"none", "done", "locked", "error"} : Same([l EXCEPT !.reply = r], l)
         /\ Same([l EXCEPT !.retried = TRUE], l)
         /\ \A q \in SealOrNone : Same([l EXCEPT !.seal = q], l)
         /\ \A b \in BOOLEAN : Same([l EXCEPT !.reply = "none", !.late = b], l)
<1>1. ASSUME NEW r \in {"none", "done", "locked", "error"} PROVE Same([l EXCEPT !.reply = r], l)
  BY DEF Locals, Same
<1>2. Same([l EXCEPT !.retried = TRUE], l)
  BY DEF Locals, Same
<1>3. ASSUME NEW q \in SealOrNone PROVE Same([l EXCEPT !.seal = q], l)
  BY DEF Locals, Same
<1>4. ASSUME NEW b \in BOOLEAN PROVE Same([l EXCEPT !.reply = "none", !.late = b], l)
  BY DEF Locals, Same
<1> QED
  BY <1>1, <1>2, <1>3, <1>4

\* The same request carries the same confirmation.
LEMMA SameCarries ==
  ASSUME NEW l, NEW m, Same(m, l), NEW step, \A s : Carries(s, l)
  PROVE  Carries(step, m)
BY DEF Same, Carries

\* The locals a conversation starts with.
LEMMA NewCallTyped ==
  /\ NewCall \in Locals
  /\ \A k \in {"sign", "identity"} :
       [NewCall EXCEPT !.kind = k] \in Locals /\ [NewCall EXCEPT !.kind = k].kind = k
  /\ \A c \in Tokens :
       /\ [NewCall EXCEPT !.kind = "sign", !.token = c] \in Locals
       /\ [NewCall EXCEPT !.kind = "sign", !.token = c].token = c
BY DEF NewCall, Locals

\* Types of everything around the conversations.
LEMMA TypeSplit ==
  ASSUME KeystoreType', shell' \in {"down", "opening", "serving"}, interactive' \in BOOLEAN,
         holder' \in Conversations \cup {None},
         at' \in [Conversations -> Steps], loc' \in [Conversations -> Locals],
         \A u \in Conversations : Carries(at'[u], loc'[u])
  PROVE  TypeOK'
BY DEF TypeOK, Carries

\* A conversation that ends keeps the types.
LEMMA EndsTyped ==
  ASSUME TypeOK, NEW t \in Conversations, NEW done \in BOOLEAN, Ends(t, done), Calm
  PROVE  TypeOK'
<1>1. /\ at' \in [Conversations -> Steps] /\ loc' \in [Conversations -> Locals]
      /\ \A u \in Conversations : Carries(at'[u], loc'[u])
  <2>1. Goto(t, "idle", NewCall) /\ Carries("idle", NewCall) /\ "idle" \in Steps
    BY DEF Ends, Carries, Steps
  <2> QED
    BY <2>1, GotoTyped, NewCallTyped
<1>2. KeystoreType'
  BY DEF Ends, Calm, Gone, TypeOK, KeystoreType, ConfirmationType, session, clocks,
         confirmations, vault
<1>3. shell' \in {"down", "opening", "serving"} /\ interactive' \in BOOLEAN
      /\ holder' \in Conversations \cup {None}
  BY DEF Ends, TypeOK
<1> QED
  BY <1>1, <1>2, <1>3, TypeSplit

\* What is not the conversation's own, where the keystore's state is untouched.
LEMMA QuietTyped ==
  ASSUME TypeOK, Calm, UNCHANGED <<shell, interactive, session, confirmations>>,
         holder' \in Conversations \cup {None},
         at' \in [Conversations -> Steps], loc' \in [Conversations -> Locals],
         \A u \in Conversations : Carries(at'[u], loc'[u])
  PROVE  TypeOK'
<1>1. KeystoreType'
  BY DEF TypeOK, KeystoreType, ConfirmationType, Calm, session, clocks, confirmations, vault
<1>2. shell' \in {"down", "opening", "serving"} /\ interactive' \in BOOLEAN
  BY DEF TypeOK
<1> QED
  BY <1>1, <1>2, TypeSplit

\* The keystore is gone, and the conversations in it have their answer.
LEMMA AnsweredTyped ==
  ASSUME TypeOK, Calm, Gone, UNCHANGED <<interactive, holder>>,
         shell' \in {"down", "opening", "serving"},
         at' = [t \in Conversations |-> IF at[t] \in Handling THEN "answer" ELSE at[t]],
         loc' = [t \in Conversations |->
                   IF at[t] \in Handling THEN [loc[t] EXCEPT !.reply = "error"] ELSE loc[t]]
  PROVE  TypeOK'
<1>1. \A t \in Conversations : [loc[t] EXCEPT !.reply = "error"] \in Locals
  BY LocalsChange DEF TypeOK
<1>2. at' \in [Conversations -> Steps] /\ loc' \in [Conversations -> Locals]
  BY <1>1 DEF TypeOK, Steps
<1>3. ASSUME NEW u \in Conversations PROVE Carries(at'[u], loc'[u])
  <2>1. CASE at[u] \in Handling
    <3>1. loc'[u].kind = loc[u].kind /\ loc'[u].token = loc[u].token /\ at[u] \notin {"idle", "consent"}
      BY <2>1 DEF TypeOK, Locals, Handling
    <3> QED
      BY <3>1 DEF TypeOK, Carries
  <2>2. CASE at[u] \notin Handling
    BY <2>2 DEF TypeOK, Carries
  <2> QED
    BY <2>1, <2>2
<1>4. KeystoreType' /\ interactive' \in BOOLEAN /\ holder' \in Conversations \cup {None}
  BY DEF Calm, Gone, TypeOK, KeystoreType, ConfirmationType, session, clocks, vault
<1> QED
  BY <1>2, <1>3, <1>4, TypeSplit

\* The session opens.
LEMMA OpenTyped ==
  ASSUME TypeOK, NEW t \in Conversations, OpenSession(t)
  PROVE  TypeOK'
<1>1. Goto(t, "status", NewCall) /\ Carries("status", NewCall) /\ "status" \in Steps
  BY DEF OpenSession, Carries, Steps, NewCall
<1>2. KeystoreType'
  BY DEF OpenSession, StartServing, ForgetConfirmations, Touched, Calm, TypeOK, KeystoreType,
         ConfirmationType, clocks, vault
<1>3. /\ shell' \in {"down", "opening", "serving"} /\ interactive' \in BOOLEAN
      /\ holder' \in Conversations \cup {None}
  BY DEF OpenSession, TypeOK
<1> QED
  BY <1>1, <1>2, <1>3, GotoTyped, NewCallTyped, TypeSplit

\* Minting a confirmation keeps the types.
LEMMA IssueTyped ==
  ASSUME TypeOK, NEW c \in Tokens, Issue(c, wall), Calm, UNCHANGED session
  PROVE  KeystoreType'
BY DEF Issue, Calm, TypeOK, KeystoreType, ConfirmationType, session, clocks, vault

\* A request is minted a confirmation, or asks for none, and waits for the lock.
LEMMA RequestsTyped ==
  ASSUME TypeOK, NEW t \in Conversations, Request(t) \/ TypedConsent(t) \/ TakeLock(t)
  PROVE  TypeOK'
<1> USE SigningAssumption
<1>1. CASE Request(t)
  <2>1. PICK k \in {"sign", "identity"} : Goto(t, "consent", [NewCall EXCEPT !.kind = k])
    BY <1>1 DEF Request
  <2>2. Carries("consent", [NewCall EXCEPT !.kind = k]) /\ "consent" \in Steps
    BY DEF Carries, Steps, Asking
  <2>3. holder' \in Conversations \cup {None}
    BY <1>1 DEF Request, ShellKept, TypeOK
  <2> QED
    BY <1>1, <2>1, <2>2, <2>3, GotoTyped, NewCallTyped, QuietTyped DEF Request, ShellKept
<1>2. CASE TypedConsent(t)
  <2>1. PICK c \in Tokens :
          Issue(c, wall) /\ Goto(t, "queue", [NewCall EXCEPT !.kind = "sign", !.token = c])
    BY <1>2 DEF TypedConsent
  <2>2. Carries("queue", [NewCall EXCEPT !.kind = "sign", !.token = c]) /\ "queue" \in Steps
    BY NewCallTyped DEF Carries, Steps
  <2>3. /\ shell' \in {"down", "opening", "serving"} /\ interactive' \in BOOLEAN
        /\ holder' \in Conversations \cup {None}
    BY <1>2 DEF TypedConsent, ShellKept, TypeOK
  <2>4. KeystoreType'
    BY <1>2, <2>1, IssueTyped DEF TypedConsent
  <2> QED
    BY <2>1, <2>2, <2>3, <2>4, GotoTyped, NewCallTyped, TypeSplit
<1>3. CASE TakeLock(t)
  <2>1. Goto(t, "send", loc[t]) /\ Carries("send", loc[t]) /\ "send" \in Steps /\ loc[t] \in Locals
    BY <1>3 DEF TakeLock, Carries, Steps, TypeOK
  <2> QED
    BY <1>3, <2>1, GotoTyped, QuietTyped DEF TakeLock
<1> QED
  BY <1>1, <1>2, <1>3

\* What a person answers.
LEMMA PersonsTyped ==
  ASSUME TypeOK, NEW t \in Conversations, Persons(t)
  PROVE  TypeOK'
<1> USE SigningAssumption
<1> DEFINE l == loc[t]
<1>0. l \in Locals
  BY DEF TypeOK
<1>1. CASE Agree(t) /\ l.kind = "sign"
  <2>1. PICK c \in Tokens : Issue(c, wall) /\ Goto(t, "queue", [l EXCEPT !.token = c])
    BY <1>1 DEF Agree
  <2>2. [l EXCEPT !.token = c].token = c
    BY <1>0 DEF Locals
  <2>3. Carries("queue", [l EXCEPT !.token = c]) /\ "queue" \in Steps
    BY <2>2 DEF Carries, Steps
  <2>4. /\ shell' \in {"down", "opening", "serving"} /\ interactive' \in BOOLEAN
        /\ holder' \in Conversations \cup {None}
    BY <1>1 DEF Agree, ShellKept, TypeOK
  <2>5. KeystoreType'
    BY <1>1, <2>1, IssueTyped DEF Agree
  <2> QED
    BY <1>0, <2>1, <2>3, <2>4, <2>5, GotoTyped, LocalsChange, TypeSplit
<1>2. CASE Agree(t) /\ l.kind # "sign"
  <2>1. Goto(t, "queue", l) /\ Carries("queue", l) /\ "queue" \in Steps
    BY <1>2 DEF Agree, Carries, Steps
  <2> QED
    BY <1>0, <1>2, <2>1, GotoTyped, QuietTyped DEF Agree, ShellKept, TypeOK
<1>3. CASE Decline(t) \/ PassphraseMissing(t)
  BY <1>3, EndsTyped DEF Decline, PassphraseMissing
<1>4. CASE PassphraseGiven(t)
  <2>1. Goto(t, "load", l) /\ Carries("load", l) /\ "load" \in Steps
    BY <1>4 DEF PassphraseGiven, Carries, Steps, Handling, TypeOK
  <2> QED
    BY <1>0, <1>4, <2>1, GotoTyped, QuietTyped DEF PassphraseGiven, ShellKept, TypeOK
<1> QED
  BY <1>1, <1>2, <1>3, <1>4 DEF Persons

\* The shell's own steps.
LEMMA ShellTyped ==
  ASSUME TypeOK, NEW t \in Conversations, Send(t) \/ Answer(t) \/ Status(t) \/ Unsealed(t)
  PROVE  TypeOK'
<1> DEFINE l == loc[t]
<1>0. l \in Locals /\ (at[t] \notin {"idle", "consent"} => \A s : Carries(s, l))
  BY DEF TypeOK, Carries
<1>1. CASE Ends(t, TRUE) \/ Ends(t, FALSE)
  <2>1. Calm
    BY DEF Send, Answer, Status, Unsealed
  <2> QED
    BY <1>1, <2>1, EndsTyped
<1>2. CASE Send(t) /\ up
  <2> DEFINE b == master # None /\ Lapsed
             m == [l EXCEPT !.reply = "none", !.late = b]
  <2>1. m \in Locals /\ Same(m, l)
    BY <1>0, LocalsChange, SameCargo
  <2>2. Goto(t, "expire", m) /\ at[t] = "send" /\ "expire" \in Steps
    BY <1>2 DEF Send, Steps, Handling
  <2>3. Carries("expire", m)
    BY <1>0, <2>1, <2>2, SameCarries
  <2> QED
    BY <1>2, <2>1, <2>2, <2>3, GotoTyped, QuietTyped DEF Send, TypeOK
<1>3. CASE Answer(t) /\ Goto(t, "status", l) /\ UNCHANGED <<shell, interactive, holder, session, confirmations>>
  <2>1. Carries("status", l) /\ "status" \in Steps
    BY <1>0, <1>3 DEF Answer, Steps
  <2> QED
    BY <1>0, <1>3, <2>1, GotoTyped, QuietTyped DEF Answer, TypeOK
<1>4. CASE Status(t) /\ Goto(t, "passphrase", l) /\ UNCHANGED <<shell, interactive, holder, session, confirmations>>
  <2>1. Carries("passphrase", l) /\ "passphrase" \in Steps
    BY <1>0, <1>4 DEF Status, Steps, Asking
  <2> QED
    BY <1>0, <1>4, <2>1, GotoTyped, QuietTyped DEF Status, TypeOK
<1>5. CASE Unsealed(t) /\ Goto(t, "send", [l EXCEPT !.retried = TRUE])
           /\ UNCHANGED <<shell, interactive, holder, session, confirmations>>
  <2> DEFINE m == [l EXCEPT !.retried = TRUE]
  <2>1. m \in Locals /\ Same(m, l)
    BY <1>0, LocalsChange, SameCargo
  <2>2. Goto(t, "send", m) /\ at[t] = "unsealed" /\ "send" \in Steps
    BY <1>5 DEF Unsealed, Steps
  <2>3. Carries("send", m)
    BY <1>0, <2>1, <2>2, SameCarries
  <2> QED
    BY <1>5, <2>1, <2>2, <2>3, GotoTyped, QuietTyped DEF Unsealed, TypeOK
<1>6. Send(t) => up \/ Ends(t, FALSE)
  BY DEF Send
<1>7. Answer(t) => \/ Ends(t, FALSE)
                   \/ Goto(t, "status", l) /\ UNCHANGED <<shell, interactive, holder, session, confirmations>>
  BY DEF Answer
<1>8. Status(t) => \/ Ends(t, FALSE)
                   \/ Goto(t, "passphrase", l) /\ UNCHANGED <<shell, interactive, holder, session, confirmations>>
  BY DEF Status
<1>9. Unsealed(t) => \/ Ends(t, TRUE)
                     \/ Goto(t, "send", [l EXCEPT !.retried = TRUE])
                        /\ UNCHANGED <<shell, interactive, holder, session, confirmations>>
  BY DEF Unsealed
<1> QED
  BY <1>1, <1>2, <1>3, <1>4, <1>5, <1>6, <1>7, <1>8, <1>9

\* A handler of the keystore that answers or goes on.
LEMMA HandlerTyped ==
  ASSUME TypeOK, NEW t \in Conversations, at[t] \in Handling, ShellKept, Calm,
         KeystoreType',
         \/ \E s \in Steps : Goto(t, s, loc[t])
         \/ \E s \in Steps, q \in SealOrNone : Goto(t, s, [loc[t] EXCEPT !.seal = q])
         \/ \E r \in {"none", "done", "locked", "error"} : Replies(t, r)
  PROVE  TypeOK'
<1> DEFINE l == loc[t]
<1>0. l \in Locals /\ (\A s : Carries(s, l))
  BY DEF TypeOK, Carries, Handling
<1>1. \E s \in Steps, m \in Locals : Goto(t, s, m) /\ Same(m, l)
  <2>1. CASE \E s \in Steps : Goto(t, s, l)
    BY <1>0, <2>1 DEF Same
  <2>2. CASE \E s \in Steps, q \in SealOrNone : Goto(t, s, [l EXCEPT !.seal = q])
    BY <1>0, <2>2, LocalsChange, SameCargo
  <2>3. CASE \E r \in {"none", "done", "locked", "error"} : Replies(t, r)
    BY <1>0, <2>3, LocalsChange, SameCargo DEF Replies, Steps
  <2> QED
    BY <2>1, <2>2, <2>3
<1>2. PICK s \in Steps, m \in Locals : Goto(t, s, m) /\ Same(m, l)
  BY <1>1
<1>3. Carries(s, m)
  BY <1>0, <1>2, SameCarries
<1> QED
  BY <1>2, <1>3, GotoTyped, TypeSplit DEF ShellKept, TypeOK

\* Only a request to sign is verified.
VerifySigns == \A t \in Conversations : at[t] = "verify" => loc[t].kind = "sign"

\* The keystore's handlers keep the types.
LEMMA HandlersTyped ==
  ASSUME TypeOK, VerifySigns, NEW t \in Conversations,
         \/ LoadSealed(t) \/ LoadKey(t) \/ OpenMaster(t) \/ TouchUnsealed(t)
         \/ LockIfExpired(t) \/ LockExpired(t) \/ VerifyToken(t) \/ UseMaster(t)
  PROVE  TypeOK'
<1> USE SigningAssumption DEF Steps, Handling
<1>1. CASE LoadSealed(t)
  <2>1. KeystoreType'
    BY <1>1 DEF LoadSealed, Calm, TypeOK, KeystoreType, ConfirmationType, session, clocks,
                confirmations, vault
  <2>2. sealed[Served] \in SealOrNone
    BY KeystoreAssumption DEF TypeOK, KeystoreType
  <2> QED
    BY <1>1, <2>1, <2>2, HandlerTyped DEF LoadSealed
<1>2. CASE LoadKey(t)
  <2>1. KeystoreType'
    BY <1>2 DEF LoadKey, Calm, TypeOK, KeystoreType, ConfirmationType, session, clocks,
                confirmations, vault
  <2> QED
    BY <1>2, <2>1, HandlerTyped DEF LoadKey
<1>3. CASE OpenMaster(t)
  <2>1. loc[t].seal \in SealOrNone
    BY DEF TypeOK, Locals
  <2>2. KeystoreType'
    BY <1>3, <2>1 DEF OpenMaster, Calm, TypeOK, KeystoreType, ConfirmationType, clocks,
                confirmations, vault
  <2> QED
    BY <1>3, <2>2, HandlerTyped DEF OpenMaster
<1>4. CASE TouchUnsealed(t)
  <2>1. KeystoreType'
    BY <1>4 DEF TouchUnsealed, Touched, Calm, TypeOK, KeystoreType, ConfirmationType, clocks,
                confirmations, vault
  <2> QED
    BY <1>4, <2>1, HandlerTyped DEF TouchUnsealed
<1>5. CASE LockIfExpired(t)
  <2>1. KeystoreType'
    BY <1>5 DEF LockIfExpired, Calm, TypeOK, KeystoreType, ConfirmationType, session, clocks,
                confirmations, vault
  <2> QED
    BY <1>5, <2>1, HandlerTyped DEF LockIfExpired, Granted
<1>6. CASE LockExpired(t)
  <2>1. KeystoreType'
    BY <1>6 DEF LockExpired, Calm, TypeOK, KeystoreType, ConfirmationType, clocks,
                confirmations, vault
  <2> QED
    BY <1>6, <2>1, HandlerTyped DEF LockExpired, Granted
<1>7. CASE VerifyToken(t)
  <2>1. loc[t].token \in Tokens
    BY <1>7 DEF VerifyToken, VerifySigns, TypeOK, Locals
  <2>2. consumed' \in SUBSET Tokens /\ accepted' \in SUBSET Tokens /\ issued' = issued
    BY <1>7, <2>1 DEF VerifyToken, Verify, Remembered, TypeOK, KeystoreType, ConfirmationType
  <2>3. KeystoreType'
    BY <1>7, <2>2 DEF VerifyToken, Calm, TypeOK, KeystoreType, ConfirmationType, session, clocks,
                vault
  <2> QED
    BY <1>7, <2>3, HandlerTyped DEF VerifyToken
<1>8. CASE UseMaster(t)
  <2>1. KeystoreType'
    BY <1>8 DEF UseMaster, Touched, Calm, TypeOK, KeystoreType, ConfirmationType, clocks,
                confirmations, vault
  <2> QED
    BY <1>8, <2>1, HandlerTyped DEF UseMaster
<1> QED
  BY <1>1, <1>2, <1>3, <1>4, <1>5, <1>6, <1>7, <1>8

\* Every step keeps the types.
LEMMA TypeStep ==
  ASSUME TypeOK, VerifySigns, [Next]_vars
  PROVE  TypeOK'
<1>1. CASE Surroundings
  BY <1>1, AroundTyped
<1>2. CASE CloseSession \/ KeystoreDies
  <2>1. shell' \in {"down", "opening", "serving"} /\ UNCHANGED <<interactive, holder>>
    BY <1>2 DEF CloseSession, KeystoreDies, ShellKept, TypeOK
  <2> QED
    BY <1>2, <2>1, AnsweredTyped DEF CloseSession, KeystoreDies
<1>3. ASSUME NEW t \in Conversations,
             OpenSession(t) \/ Request(t) \/ TypedConsent(t) \/ TakeLock(t) \/ Persons(t) \/ Runs(t)
      PROVE  TypeOK'
  BY <1>3, OpenTyped, RequestsTyped, PersonsTyped, ShellTyped, HandlersTyped DEF Runs
<1>4. CASE UNCHANGED vars
  BY <1>4 DEF vars, TypeOK, KeystoreType, ConfirmationType, session, clocks, confirmations, vault
<1> QED
  BY <1>1, <1>2, <1>3, <1>4 DEF Next

\* A step that takes a conversation to "verify" comes from a request to sign.
LEMMA VerifyStep ==
  ASSUME TypeOK, VerifySigns, [Next]_vars
  PROVE  VerifySigns'
<1> SUFFICES ASSUME NEW u \in Conversations, at'[u] = "verify" PROVE loc'[u].kind = "sign"
  BY DEF VerifySigns
<1>0. ASSUME NEW t \in Conversations, NEW s, NEW l, Goto(t, s, l), s # "verify" \/ l.kind = "sign"
      PROVE  loc'[u].kind = "sign"
  BY <1>0 DEF Goto, TypeOK, VerifySigns
<1>1. CASE Surroundings \/ UNCHANGED vars
  BY <1>1 DEF Surroundings, vars, VerifySigns
<1>2. CASE CloseSession \/ KeystoreDies
  BY <1>2 DEF CloseSession, KeystoreDies, VerifySigns, Handling
<1>3. ASSUME NEW t \in Conversations,
             OpenSession(t) \/ Request(t) \/ TypedConsent(t) \/ TakeLock(t) \/ Persons(t)
      PROVE  \E s, l : Goto(t, s, l) /\ s # "verify"
  <2>1. CASE OpenSession(t)  BY <2>1 DEF OpenSession
  <2>2. CASE Request(t)  BY <2>2 DEF Request
  <2>3. CASE TypedConsent(t)  BY <2>3 DEF TypedConsent
  <2>4. CASE TakeLock(t)  BY <2>4 DEF TakeLock
  <2>5. CASE Agree(t)
    <3>1. CASE loc[t].kind = "sign"
      <4>1. PICK c \in Tokens : Goto(t, "queue", [loc[t] EXCEPT !.token = c])
        BY <2>5, <3>1 DEF Agree
      <4> QED
        BY <4>1
    <3>2. CASE loc[t].kind # "sign"  BY <2>5, <3>2 DEF Agree
    <3> QED
      BY <3>1, <3>2
  <2>6. CASE Decline(t) \/ PassphraseMissing(t)  BY <2>6 DEF Decline, PassphraseMissing, Ends
  <2>7. CASE PassphraseGiven(t)  BY <2>7 DEF PassphraseGiven
  <2> QED
    BY <1>3, <2>1, <2>2, <2>3, <2>4, <2>5, <2>6, <2>7 DEF Persons
<1>4. ASSUME NEW t \in Conversations, Send(t) \/ Answer(t) \/ Status(t) \/ Unsealed(t)
      PROVE  \E s, l : Goto(t, s, l) /\ s # "verify"
  BY <1>4 DEF Send, Answer, Status, Unsealed, Ends
<1>5. ASSUME NEW t \in Conversations,
             \/ LoadSealed(t) \/ LoadKey(t) \/ OpenMaster(t) \/ TouchUnsealed(t)
             \/ VerifyToken(t) \/ UseMaster(t)
      PROVE  \E s, l : Goto(t, s, l) /\ s # "verify"
  BY <1>5 DEF LoadSealed, LoadKey, OpenMaster, TouchUnsealed, VerifyToken, UseMaster, Replies
<1>6. ASSUME NEW t \in Conversations, LockIfExpired(t) \/ LockExpired(t)
      PROVE  \E s, l : Goto(t, s, l) /\ (s # "verify" \/ l.kind = "sign")
  BY <1>6 DEF LockIfExpired, LockExpired, Granted
<1> QED
  BY <1>0, <1>1, <1>2, <1>3, <1>4, <1>5, <1>6 DEF Next, Runs

\* Every variable keeps its type, a request to sign always carries the
\* confirmation it was minted (service.rs:210-243), and only such a one is verified.
THEOREM TypeCorrect == Spec => [](TypeOK /\ VerifySigns)
<1>1. Init => TypeOK /\ VerifySigns
  <2>1. NewCall \in Locals /\ "idle" \in Steps
    BY NewCallTyped DEF Steps
  <2>2. Init => KeystoreType
    <3> SUFFICES ASSUME Init PROVE KeystoreType
      OBVIOUS
    <3>1. sealed \in [Homes -> SealOrNone] /\ wrapping \in SealOrNone
      BY DEF Init, KeystoreInit
    <3>2. Finished \in [at : EnrolSteps, home : Homes, init : BOOLEAN, seal : SealOrNone]
      BY KeystoreAssumption DEF Finished, EnrolSteps
    <3>3. enrol \in [Enrollers -> [at : EnrolSteps, home : Homes, init : BOOLEAN, seal : SealOrNone]]
      BY <3>2 DEF Init, KeystoreInit
    <3>4. ConfirmationType
      BY DEF Init, KeystoreInit, NoConfirmations, ConfirmationType
    <3> QED
      BY <3>1, <3>3, <3>4 DEF Init, KeystoreInit, KeystoreType
  <2>3. Init => \A t \in Conversations : at[t] = "idle"
    BY DEF Init
  <2> QED
    BY <2>1, <2>2, <2>3 DEF Init, TypeOK, VerifySigns
<1>2. TypeOK /\ VerifySigns /\ [Next]_vars => (TypeOK /\ VerifySigns)'
  BY TypeStep, VerifyStep
<1> QED
  BY <1>1, <1>2, PTL DEF Spec

-----------------------------------------------------------------------------
(* The session and the vault.                                               *)

\* Once the session is over no keystore is left running: every path that takes
\* the shell down stops the keystore with it (signing.rs:158-178).
THEOREM KeystoreStops == Spec => []StoppedWithSession
<1>1. Init => StoppedWithSession
  BY DEF Init, KeystoreInit, StoppedWithSession
<1>2. StoppedWithSession /\ [Next]_vars => StoppedWithSession'
  <2> SUFFICES ASSUME StoppedWithSession, [Next]_vars PROVE StoppedWithSession'
    OBVIOUS
  <2> USE DEF StoppedWithSession
  <2>1. CASE Surroundings
    <3>1. up' = up
      BY <2>1 DEF Surroundings, Around, Tick, Suspend, Screen, TimerCheck, TimerLock, session,
         Enrols, EnrolKept, InitBegin, Passphrase, Initialize, Restore, StoreKey, WriteSealed, EnrolEnds
    <3> QED
      BY <2>1, <3>1 DEF Surroundings
  <2>2. CASE CloseSession \/ KeystoreDies
    BY <2>2 DEF CloseSession, KeystoreDies, Gone
  <2>3. ASSUME NEW t \in Conversations, OpenSession(t) \/ Request(t) \/ TypedConsent(t) \/ TakeLock(t)
        PROVE  StoppedWithSession'
    BY <2>3 DEF OpenSession, Request, TypedConsent, TakeLock, ShellKept, session
  <2>4. ASSUME NEW t \in Conversations, NEW done \in BOOLEAN, Ends(t, done)
        PROVE  StoppedWithSession'
    BY <2>4 DEF Ends, Gone, session
  <2>5. ASSUME NEW t \in Conversations, Persons(t) \/ Runs(t)
        PROVE  UNCHANGED <<shell, up>> \/ Ends(t, TRUE) \/ Ends(t, FALSE)
    <3>1. CASE Persons(t)
      BY <3>1 DEF Persons, Agree, Decline, PassphraseGiven, PassphraseMissing, ShellKept, session
    <3>2. CASE Send(t) \/ Answer(t) \/ Status(t) \/ Unsealed(t)
      BY <3>2 DEF Send, Answer, Status, Unsealed, session
    <3>3. CASE LoadSealed(t) \/ LoadKey(t) \/ OpenMaster(t) \/ TouchUnsealed(t)
      BY <3>3 DEF LoadSealed, LoadKey, OpenMaster, TouchUnsealed, ShellKept, session
    <3>4. CASE LockIfExpired(t) \/ LockExpired(t) \/ VerifyToken(t) \/ UseMaster(t)
      BY <3>4 DEF LockIfExpired, LockExpired, VerifyToken, UseMaster, ShellKept, session
    <3> QED
      BY <2>5, <3>1, <3>2, <3>3, <3>4 DEF Runs
  <2>6. ASSUME NEW t \in Conversations, Persons(t) \/ Runs(t) PROVE StoppedWithSession'
    BY <2>4, <2>5, <2>6
  <2>7. CASE UNCHANGED vars
    BY <2>7 DEF vars, session
  <2> QED
    BY <2>1, <2>2, <2>3, <2>6, <2>7 DEF Next
<1> QED
  BY <1>1, <1>2, PTL DEF Spec

\* An enrolment has made its seal before it stores the key, and has stored a key
\* before it writes the file (keystore.rs:226-229).
KeyFirst ==
  \A n \in Enrollers :
    /\ enrol[n].at \in {"store", "write"} => enrol[n].seal # None
    /\ enrol[n].at = "write" => wrapping # None

\* Only enrolments write the vault, and they keep the order.
LEMMA VaultStep ==
  ASSUME TypeOK, SealedHasKey, KeyFirst, [Next]_vars
  PROVE  SealedHasKey' /\ KeyFirst'
<1> USE KeystoreAssumption DEF TypeOK, KeystoreType, SealedHasKey, KeyFirst
<1>1. CASE UNCHANGED vault
  BY <1>1 DEF vault
<1>2. ASSUME NEW n \in Enrollers, Enrols(n) PROVE SealedHasKey' /\ KeyFirst'
  <2>1. CASE InitBegin(n)  BY <2>1 DEF InitBegin
  <2>2. CASE Passphrase(n)  BY <2>2 DEF Passphrase
  <2>3. CASE Initialize(n)
    <3>1. CASE enrol' = [enrol EXCEPT ![n] = Finished]
      BY <2>3, <3>1 DEF Initialize, Finished
    <3>2. CASE \E s \in Seals : enrol' = [enrol EXCEPT ![n] =
                 [at |-> "store", home |-> enrol[n].home, init |-> TRUE, seal |-> s]]
      <4>1. PICK s \in Seals : enrol' = [enrol EXCEPT ![n] =
                 [at |-> "store", home |-> enrol[n].home, init |-> TRUE, seal |-> s]]
        BY <3>2
      <4> QED
        BY <2>3, <4>1 DEF Initialize
    <3> QED
      BY <2>3, <3>1, <3>2 DEF Initialize
  <2>4. CASE Restore(n)  BY <2>4 DEF Restore
  <2>5. CASE StoreKey(n)  BY <2>5 DEF StoreKey
  <2>6. CASE WriteSealed(n)  BY <2>6 DEF WriteSealed, Finished
  <2>7. CASE EnrolEnds(n)  BY <2>7 DEF EnrolEnds, Finished
  <2> QED
    BY <1>2, <2>1, <2>2, <2>3, <2>4, <2>5, <2>6, <2>7 DEF Enrols
<1>3. CASE Surroundings
  BY <1>1, <1>2, <1>3 DEF Surroundings, Around, Tick, Suspend, Screen, TimerCheck, TimerLock
<1>4. CASE UNCHANGED vars
  BY <1>1, <1>4 DEF vars
<1>5. CASE CloseSession \/ KeystoreDies
  BY <1>1, <1>5 DEF CloseSession, KeystoreDies, Calm
<1>6. ASSUME NEW t \in Conversations,
             OpenSession(t) \/ Request(t) \/ TypedConsent(t) \/ TakeLock(t) \/ Persons(t)
      PROVE  UNCHANGED vault
  BY <1>6 DEF OpenSession, Request, TypedConsent, TakeLock, Persons, Agree, Decline,
     PassphraseGiven, PassphraseMissing, Calm
<1>7. ASSUME NEW t \in Conversations, Runs(t) PROVE UNCHANGED vault
  BY <1>7 DEF Runs, Send, Answer, Status, Unsealed, LoadSealed, LoadKey, OpenMaster, TouchUnsealed,
     LockIfExpired, LockExpired, VerifyToken, UseMaster, Calm
<1> QED
  BY <1>1, <1>3, <1>4, <1>5, <1>6, <1>7 DEF Next

\* Whatever enrolments race, fail or are killed, a sealed seed is never left
\* without any wrapping key (keystore.rs:226-229).
THEOREM KeyIsThere == Spec => []SealedHasKey
<1>1. Init => SealedHasKey /\ KeyFirst
  BY DEF Init, KeystoreInit, SealedHasKey, KeyFirst, Finished
<1>2. TypeOK /\ SealedHasKey /\ KeyFirst /\ [Next]_vars => SealedHasKey' /\ KeyFirst'
  BY VaultStep
<1> QED
  BY <1>1, <1>2, TypeCorrect, PTL DEF Spec

-----------------------------------------------------------------------------
(* One conversation at a time inside keystore_call.                         *)

Inside == {"send", "answer", "status", "passphrase", "unsealed"} \cup Handling

\* The conversation that opens the session has the shell to itself, any other is
\* inside keystore_call only with the shell's lock, and the keystore's handlers
\* run in a keystore that is there.
Alone ==
  \A t \in Conversations : loc[t].kind = "open" /\ at[t] # "idle" =>
    /\ shell = "opening" /\ at[t] \notin {"consent", "queue"}
    /\ \A u \in Conversations : u # t => at[u] = "idle"
HoldsLock ==
  \A t \in Conversations : at[t] \in Inside => loc[t].kind = "open" \/ holder = t
HandledWhileUp == \A t \in Conversations : at[t] \in Handling => up
Order == Alone /\ HoldsLock /\ HandledWhileUp

\* No two conversations are inside keystore_call.
LEMMA Exclusive ==
  ASSUME Order, NEW t \in Conversations, NEW u \in Conversations, at[t] \in Inside, at[u] \in Inside
  PROVE  t = u
BY DEF Order, Alone, HoldsLock, Inside, Handling

\* A conversation that goes on inside keystore_call, about the same request.
Continues(t, s, m) ==
  /\ Goto(t, s, m) /\ m.kind = loc[t].kind /\ m.token = loc[t].token
  /\ at[t] \in Inside /\ s \in Inside /\ (s \in Handling => up)
  /\ UNCHANGED <<shell, interactive, holder, up>> /\ Calm

\* Every handler of the keystore continues, and remembers whether it came late.
LEMMA HandlersContinue ==
  ASSUME TypeOK, Order, NEW t \in Conversations,
         \/ LoadSealed(t) \/ LoadKey(t) \/ OpenMaster(t) \/ TouchUnsealed(t)
         \/ LockIfExpired(t) \/ LockExpired(t) \/ VerifyToken(t) \/ UseMaster(t)
  PROVE  \E s, m : Continues(t, s, m) /\ m.late = loc[t].late
<1> DEFINE l == loc[t]
<1> USE DEF Inside, Handling
<1>0. l \in Locals /\ (at[t] \in Handling => up)
  BY DEF TypeOK, Order, HandledWhileUp
<1>1. ASSUME NEW r PROVE LET m == [l EXCEPT !.reply = r]
                         IN m.kind = l.kind /\ m.token = l.token /\ m.late = l.late
  BY <1>0 DEF Locals
<1>2. ASSUME NEW q PROVE LET m == [l EXCEPT !.seal = q]
                         IN m.kind = l.kind /\ m.token = l.token /\ m.late = l.late
  BY <1>0 DEF Locals
<1>3. ASSUME NEW r, Replies(t, r), at[t] \in Handling, UNCHANGED up, ShellKept, Calm
      PROVE  \E s, m : Continues(t, s, m) /\ m.late = loc[t].late
  <2>1. Continues(t, "answer", [l EXCEPT !.reply = r])
    BY <1>1, <1>3 DEF Replies, Continues, ShellKept
  <2> QED
    BY <1>1, <2>1
<1>4. ASSUME NEW s \in Inside, Goto(t, s, l), at[t] \in Handling, UNCHANGED up, ShellKept, Calm
      PROVE  \E k, m : Continues(t, k, m) /\ m.late = loc[t].late
  <2>1. Continues(t, s, l)
    BY <1>0, <1>4 DEF Continues, ShellKept
  <2> QED
    BY <2>1
<1>5. CASE LoadSealed(t)
  <2>1. CASE sealed[Served] = None
    BY <1>3, <1>5, <2>1 DEF LoadSealed, session
  <2>2. CASE sealed[Served] # None
    <3> DEFINE m == [l EXCEPT !.seal = sealed[Served]]
    <3>1. Continues(t, "key", m)
      BY <1>0, <1>2, <1>5, <2>2 DEF LoadSealed, Continues, ShellKept, session
    <3> QED
      BY <1>2, <3>1
  <2> QED
    BY <2>1, <2>2
<1>6. CASE LoadKey(t)
  BY <1>3, <1>4, <1>6 DEF LoadKey, session
<1>7. CASE OpenMaster(t)
  BY <1>4, <1>7 DEF OpenMaster
<1>8. CASE TouchUnsealed(t)
  BY <1>4, <1>8 DEF TouchUnsealed
<1>9. CASE LockIfExpired(t) \/ LockExpired(t)
  BY <1>4, <1>9 DEF LockIfExpired, LockExpired, Granted, session
<1>10. CASE VerifyToken(t)
  BY <1>3, <1>4, <1>10 DEF VerifyToken, session
<1>11. CASE UseMaster(t)
  BY <1>3, <1>11 DEF UseMaster
<1> QED
  BY <1>5, <1>6, <1>7, <1>8, <1>9, <1>10, <1>11

\* A step of the shell inside keystore_call continues or ends the conversation.
LEMMA ShellContinues ==
  ASSUME TypeOK, Order, NEW t \in Conversations,
         Send(t) \/ Answer(t) \/ Status(t) \/ Unsealed(t) \/ PassphraseGiven(t)
  PROVE  \/ \E done \in BOOLEAN : Ends(t, done) /\ Calm
         \/ /\ \E s, m : Continues(t, s, m) /\ (s # "expire" => m.late = loc[t].late)
            /\ UNCHANGED <<session, confirmations>>
<1> DEFINE l == loc[t]
<1> USE DEF Inside, Handling
<1>0. l \in Locals
  BY DEF TypeOK
<1>1. CASE Send(t) /\ up
  <2> DEFINE m == [l EXCEPT !.reply = "none", !.late = master # None /\ Lapsed]
  <2>1. m.kind = l.kind /\ m.token = l.token
    BY <1>0 DEF Locals
  <2>2. Continues(t, "expire", m)
    BY <1>1, <2>1 DEF Send, Continues, session
  <2> QED
    BY <1>1, <2>2 DEF Send
<1>2. CASE Answer(t)
  <2>1. CASE Goto(t, "status", l) /\ UNCHANGED <<shell, interactive, holder, session, confirmations>>
    <3>1. Continues(t, "status", l)
      BY <1>2, <2>1 DEF Answer, Continues, session
    <3> QED
      BY <2>1, <3>1
  <2> QED
    BY <1>2, <2>1 DEF Answer
<1>3. CASE Status(t)
  <2>1. CASE Goto(t, "passphrase", l) /\ UNCHANGED <<shell, interactive, holder, session, confirmations>>
    <3>1. Continues(t, "passphrase", l)
      BY <1>3, <2>1 DEF Status, Continues, session
    <3> QED
      BY <2>1, <3>1
  <2> QED
    BY <1>3, <2>1 DEF Status
<1>4. CASE Unsealed(t)
  <2> DEFINE m == [l EXCEPT !.retried = TRUE]
  <2>0. m.kind = l.kind /\ m.token = l.token /\ m.late = l.late
    BY <1>0 DEF Locals
  <2>1. CASE Goto(t, "send", m) /\ UNCHANGED <<shell, interactive, holder, session, confirmations>>
    <3>1. Continues(t, "send", m)
      BY <1>4, <2>0, <2>1 DEF Unsealed, Continues, session
    <3> QED
      BY <2>0, <2>1, <3>1
  <2> QED
    BY <1>4, <2>1 DEF Unsealed
<1>5. CASE PassphraseGiven(t)
  <2>1. Continues(t, "load", l)
    BY <1>5 DEF PassphraseGiven, Continues, ShellKept, session
  <2> QED
    BY <1>5, <2>1 DEF PassphraseGiven
<1>6. CASE Send(t) /\ ~up
  BY <1>6 DEF Send
<1> QED
  BY <1>1, <1>2, <1>3, <1>4, <1>5, <1>6

\* Going on inside keystore_call keeps the order.
LEMMA ContinueOrder ==
  ASSUME TypeOK, Order, NEW t \in Conversations, NEW s, NEW m, Continues(t, s, m)
  PROVE  Order'
<1> USE DEF TypeOK, Order, Continues, Goto, Inside, Handling
<1>1. at' = [at EXCEPT ![t] = s] /\ loc' = [loc EXCEPT ![t] = m]
  OBVIOUS
<1>2. Alone'
  BY <1>1 DEF Alone
<1>3. HoldsLock'
  BY <1>1 DEF HoldsLock
<1>4. HandledWhileUp'
  BY <1>1 DEF HandledWhileUp
<1> QED
  BY <1>2, <1>3, <1>4

\* Ending keeps it: the one that fails to open the session was alone.
LEMMA EndsOrder ==
  ASSUME TypeOK, Order, NEW t \in Conversations, NEW done \in BOOLEAN, Ends(t, done),
         at[t] # "idle"
  PROVE  Order'
<1> USE DEF TypeOK, Order, Ends, Goto, Inside, Handling
<1>1. at' = [at EXCEPT ![t] = "idle"] /\ loc' = [loc EXCEPT ![t] = NewCall]
  OBVIOUS
<1>2. Alone'
  BY <1>1 DEF Alone
<1>3. HoldsLock'
  BY <1>1 DEF HoldsLock
<1>4. HandledWhileUp'
  BY <1>1 DEF HandledWhileUp, Alone, session, Gone
<1> QED
  BY <1>2, <1>3, <1>4

\* A request that waits for a person or for the lock is not inside yet.
LEMMA WaitsOrder ==
  ASSUME TypeOK, Order, NEW t \in Conversations, NEW s \in {"consent", "queue"}, NEW m, Goto(t, s, m),
         m.kind # "open", ShellKept, UNCHANGED up, shell = "serving" \/ at[t] # "idle"
  PROVE  Order'
<1> USE DEF TypeOK, Order, Goto, ShellKept, Inside, Handling
<1>1. at' = [at EXCEPT ![t] = s] /\ loc' = [loc EXCEPT ![t] = m]
  OBVIOUS
<1>2. Alone'
  BY <1>1 DEF Alone
<1>3. HoldsLock'
  BY <1>1 DEF HoldsLock
<1>4. HandledWhileUp'
  BY <1>1 DEF HandledWhileUp
<1> QED
  BY <1>2, <1>3, <1>4

\* With the keystore gone nothing is handled.
LEMMA AnsweredOrder ==
  ASSUME TypeOK, Order, Gone, UNCHANGED holder, shell = "serving" \/ shell' = shell,
         at' = [t \in Conversations |-> IF at[t] \in Handling THEN "answer" ELSE at[t]],
         loc' = [t \in Conversations |->
                   IF at[t] \in Handling THEN [loc[t] EXCEPT !.reply = "error"] ELSE loc[t]]
  PROVE  Order'
<1>0. ASSUME NEW t \in Conversations
      PROVE  /\ loc'[t].kind = loc[t].kind
             /\ at'[t] = at[t] \/ (at[t] \in Handling /\ at'[t] = "answer")
             /\ at'[t] \notin Handling
  BY <1>0 DEF TypeOK, Locals, Handling
<1>1. Alone'
  BY <1>0 DEF Order, Alone, Handling
<1>2. HoldsLock'
  BY <1>0 DEF Order, HoldsLock, Handling, Inside
<1>3. HandledWhileUp'
  BY <1>0 DEF HandledWhileUp
<1> QED
  BY <1>1, <1>2, <1>3 DEF Order

\* Every step keeps the order.
LEMMA OrderStep ==
  ASSUME TypeOK, Order, [Next]_vars
  PROVE  Order'
<1>1. CASE Surroundings \/ UNCHANGED vars
  <2>1. UNCHANGED <<up, shell, holder, at, loc>>
    BY <1>1 DEF Surroundings, vars, Around, Tick, Suspend, Screen, TimerCheck, TimerLock, session,
       Enrols, EnrolKept, InitBegin, Passphrase, Initialize, Restore, StoreKey, WriteSealed, EnrolEnds
  <2> QED
    BY <2>1 DEF Order, Alone, HoldsLock, HandledWhileUp
<1>2. CASE CloseSession \/ KeystoreDies
  BY <1>2, AnsweredOrder DEF CloseSession, KeystoreDies, ShellKept
<1>3. ASSUME NEW t \in Conversations, OpenSession(t) PROVE Order'
  <2>1. /\ \A u \in Conversations : at[u] = "idle"
        /\ at' = [at EXCEPT ![t] = "status"] /\ loc' = [loc EXCEPT ![t] = NewCall]
        /\ shell' = "opening" /\ holder' = holder
    BY <1>3 DEF OpenSession, Goto
  <2>2. NewCall.kind = "open"
    BY DEF NewCall
  <2> QED
    BY <2>1, <2>2 DEF TypeOK, Order, Alone, HoldsLock, HandledWhileUp, Inside, Handling
<1>4. ASSUME NEW t \in Conversations, Request(t) \/ TypedConsent(t) PROVE Order'
  <2>1. CASE Request(t)
    <3>1. PICK k \in {"sign", "identity"} : Goto(t, "consent", [NewCall EXCEPT !.kind = k])
      BY <2>1 DEF Request
    <3> QED
      BY <2>1, <3>1, NewCallTyped, WaitsOrder DEF Request, session
  <2>2. CASE TypedConsent(t)
    <3>1. PICK c \in Tokens : Goto(t, "queue", [NewCall EXCEPT !.kind = "sign", !.token = c])
      BY <2>2 DEF TypedConsent
    <3>2. [NewCall EXCEPT !.kind = "sign", !.token = c].kind = "sign"
      BY DEF NewCall
    <3> QED
      BY <2>2, <3>1, <3>2, WaitsOrder DEF TypedConsent, session
  <2> QED
    BY <1>4, <2>1, <2>2
<1>5. ASSUME NEW t \in Conversations, Agree(t) PROVE Order'
  <2>0. loc[t].kind # "open" /\ loc[t] \in Locals
    BY <1>5 DEF Agree, Order, Alone, TypeOK
  <2>1. CASE loc[t].kind = "sign"
    <3>1. PICK c \in Tokens : Goto(t, "queue", [loc[t] EXCEPT !.token = c])
      BY <1>5, <2>1 DEF Agree
    <3>2. [loc[t] EXCEPT !.token = c].kind = "sign"
      BY <2>0, <2>1 DEF Locals
    <3> QED
      BY <1>5, <3>1, <3>2, WaitsOrder DEF Agree, session
  <2>2. CASE loc[t].kind # "sign"
    BY <1>5, <2>0, <2>2, WaitsOrder DEF Agree, session
  <2> QED
    BY <2>1, <2>2
<1>6. ASSUME NEW t \in Conversations, TakeLock(t) PROVE Order'
  <2>1. /\ at[t] = "queue" /\ holder = None /\ holder' = t
        /\ at' = [at EXCEPT ![t] = "send"] /\ loc' = [loc EXCEPT ![t] = loc[t]]
        /\ UNCHANGED <<shell, up>>
    BY <1>6 DEF TakeLock, Goto, session
  <2>2. loc' = loc
    BY <2>1 DEF TypeOK
  <2> QED
    BY <2>1, <2>2, SigningAssumption
       DEF TypeOK, Order, Alone, HoldsLock, HandledWhileUp, Inside, Handling
<1>7. ASSUME NEW t \in Conversations, Decline(t) \/ PassphraseMissing(t) PROVE Order'
  BY <1>7, EndsOrder DEF Decline, PassphraseMissing
<1>8. ASSUME NEW t \in Conversations,
             Send(t) \/ Answer(t) \/ Status(t) \/ Unsealed(t) \/ PassphraseGiven(t)
      PROVE  Order'
  <2>1. at[t] # "idle"
    BY <1>8 DEF Send, Answer, Status, Unsealed, PassphraseGiven
  <2> QED
    BY <1>8, <2>1, ShellContinues, ContinueOrder, EndsOrder
<1>9. ASSUME NEW t \in Conversations,
             \/ LoadSealed(t) \/ LoadKey(t) \/ OpenMaster(t) \/ TouchUnsealed(t)
             \/ LockIfExpired(t) \/ LockExpired(t) \/ VerifyToken(t) \/ UseMaster(t)
      PROVE  Order'
  BY <1>9, HandlersContinue, ContinueOrder
<1> QED
  BY <1>1, <1>2, <1>3, <1>4, <1>5, <1>6, <1>7, <1>8, <1>9 DEF Next, Persons, Runs

\* Keystore_call holds one conversation at a time, as the shell's lock means it to
\* (service.rs:248-249), and nothing is handled in a keystore that is gone.
THEOREM OneAtATime == Spec => []Order
<1>1. Init => Order
  BY DEF Init, Order, Alone, HoldsLock, HandledWhileUp, Inside, Handling
<1>2. TypeOK /\ Order /\ [Next]_vars => Order'
  BY OrderStep
<1> QED
  BY <1>1, <1>2, TypeCorrect, PTL DEF Spec

-----------------------------------------------------------------------------
(* Confirmations.                                                           *)

\* What is carried into the keystore, and what has passed there, was minted.
CarriedMinted ==
  \A t \in Conversations :
    loc[t].kind = "sign" /\ at[t] \notin {"idle", "consent"} => issued[loc[t].token] # Never
AcceptedMinted == \A c \in accepted : issued[c] # Never
Memory == CarriedMinted /\ AcceptedMinted /\ UsedAreRemembered

\* Time passing lets confirmations expire, and never revives one.
LEMMA TimeMemory ==
  ASSUME TypeOK, Memory, UNCHANGED <<confirmations, at, loc, up>>, wall' \in Nat, wall' >= wall
  PROVE  Memory'
<1>1. issued' = issued /\ consumed' = consumed /\ accepted' = accepted
  BY DEF confirmations
<1>2. ASSUME NEW c \in accepted PROVE issued[c] + Ttl \in Int /\ wall \in Int
  BY <1>2, ConfirmationAssumption DEF TypeOK, KeystoreType, ConfirmationType, Never
<1> QED
  BY <1>1, <1>2 DEF Memory, CarriedMinted, AcceptedMinted, UsedAreRemembered, Expires

\* The wall clock is never set back.
LEMMA AroundMemory ==
  ASSUME TypeOK, Memory, Surroundings
  PROVE  Memory'
<1>1. UNCHANGED <<confirmations, at, loc, up>>
  BY DEF Surroundings, Around, Tick, Suspend, Screen, TimerCheck, TimerLock, session,
     Enrols, EnrolKept, InitBegin, Passphrase, Initialize, Restore, StoreKey, WriteSealed, EnrolEnds
<1>2. wall' = wall \/ wall' = wall + 1 \/ wall' = wall + SleepSlack + 1
  BY DEF Surroundings, Around, Tick, Suspend, Screen, TimerCheck, TimerLock, clocks,
     Enrols, EnrolKept, InitBegin, Passphrase, Initialize, Restore, StoreKey, WriteSealed, EnrolEnds
<1>3. wall' \in Nat /\ wall' >= wall
  BY <1>2, KeystoreAssumption DEF TypeOK, KeystoreType
<1> QED
  BY <1>1, <1>3, TimeMemory

\* A conversation that goes on or ends, with the confirmations as they are.
LEMMA SameMemory ==
  ASSUME TypeOK, Memory, NEW t \in Conversations, NEW s, NEW m, Goto(t, s, m),
         UNCHANGED <<confirmations, wall, up>>,
         \/ s \in {"idle", "consent"} \/ m.kind # "sign"
         \/ m.token = loc[t].token /\ m.kind = loc[t].kind /\ at[t] \notin {"idle", "consent"}
  PROVE  Memory'
<1>1. issued' = issued /\ consumed' = consumed /\ accepted' = accepted
  BY DEF confirmations
<1>2. CarriedMinted'
  BY <1>1 DEF TypeOK, Memory, CarriedMinted, Goto
<1> QED
  BY <1>1, <1>2 DEF Memory, AcceptedMinted, UsedAreRemembered, Expires

\* A confirmation is minted and carried.
LEMMA IssueMemory ==
  ASSUME TypeOK, Memory, NEW t \in Conversations, NEW s, NEW m, NEW c \in Tokens, Goto(t, s, m),
         Issue(c, wall), m.token = c, UNCHANGED <<wall, up>>
  PROVE  Memory'
<1>0. /\ issued \in [Tokens -> Nat \cup {Never}] /\ wall \in Nat /\ accepted \in SUBSET Tokens
      /\ wall # Never
  BY DEF TypeOK, KeystoreType, ConfirmationType, Never
<1>1. /\ issued[c] = Never /\ issued' = [issued EXCEPT ![c] = wall]
      /\ consumed' = consumed /\ accepted' = accepted
  BY DEF Issue
<1>2. \A d \in Tokens : issued[d] # Never => issued'[d] = issued[d]
  BY <1>0, <1>1
<1>3. issued'[c] # Never
  BY <1>0, <1>1
<1>4. CarriedMinted'
  <2> SUFFICES ASSUME NEW u \in Conversations, loc'[u].kind = "sign", at'[u] \notin {"idle", "consent"}
               PROVE  issued'[loc'[u].token] # Never
    BY DEF CarriedMinted
  <2>1. CASE u = t
    BY <1>3, <2>1 DEF Goto, TypeOK
  <2>2. CASE u # t
    <3>1. loc'[u] = loc[u] /\ at'[u] = at[u]
      BY <2>2 DEF Goto, TypeOK
    <3>2. loc[u].token \in Tokens
      BY <3>1 DEF TypeOK, Locals
    <3> QED
      BY <1>2, <3>1, <3>2 DEF Memory, CarriedMinted
  <2> QED
    BY <2>1, <2>2
<1>5. AcceptedMinted' /\ UsedAreRemembered'
  BY <1>0, <1>1, <1>2 DEF Memory, AcceptedMinted, UsedAreRemembered, Expires
<1> QED
  BY <1>4, <1>5 DEF Memory

\* Verify forgets only what has expired.
LEMMA VerifyMemory ==
  ASSUME TypeOK, VerifySigns, Memory, NEW t \in Conversations, VerifyToken(t)
  PROVE  Memory'
<1> DEFINE c == loc[t].token
<1>0. c \in Tokens /\ issued[c] # Never
  BY DEF VerifyToken, VerifySigns, TypeOK, Locals, Memory, CarriedMinted
<1>1. Verify(c, wall) /\ UNCHANGED <<issued, wall, up>> /\ at[t] = "verify"
  BY DEF VerifyToken, Verify, Calm, clocks, session
<1>2. PICK s, m : Goto(t, s, m) /\ m.kind = loc[t].kind /\ m.token = loc[t].token
  <2>1. CASE Goto(t, "use", loc[t])
    BY <2>1
  <2>2. CASE Replies(t, "error")
    <3> DEFINE m == [loc[t] EXCEPT !.reply = "error"]
    <3>1. Goto(t, "answer", m) /\ m.kind = loc[t].kind /\ m.token = loc[t].token
      BY <2>2 DEF Replies, TypeOK, Locals
    <3> QED
      BY <3>1
  <2> QED
    BY <2>1, <2>2 DEF VerifyToken
<1>3. CarriedMinted'
  BY <1>1, <1>2 DEF Memory, CarriedMinted, Goto, TypeOK
<1>4. AcceptedMinted'
  BY <1>0, <1>1 DEF Verify, Memory, AcceptedMinted
<1>5. UsedAreRemembered'
  <2> SUFFICES ASSUME up', NEW d \in accepted', Expires(d)' >= wall' PROVE d \in consumed'
    BY DEF UsedAreRemembered
  <2>1. Expires(d) >= wall
    BY <1>1 DEF Expires
  <2>2. CASE d \in accepted
    BY <1>1, <2>1, <2>2 DEF Memory, UsedAreRemembered, Verify, Remembered
  <2>3. CASE d \notin accepted
    BY <1>1, <2>3 DEF Verify, Accepts
  <2> QED
    BY <2>2, <2>3
<1> QED
  BY <1>3, <1>4, <1>5 DEF Memory

\* The keystore's memory goes with it, and none of its confirmations pass the next.
LEMMA EndsMemory ==
  ASSUME TypeOK, Memory, NEW t \in Conversations, NEW done \in BOOLEAN, Ends(t, done), Calm
  PROVE  Memory'
<1>1. CASE UNCHANGED <<session, confirmations>>
  BY <1>1, SameMemory DEF Ends, Calm, clocks, session
<1>2. CASE Gone
  BY <1>2 DEF Ends, Goto, Gone, TypeOK, Memory, CarriedMinted, AcceptedMinted, UsedAreRemembered
<1> QED
  BY <1>1, <1>2 DEF Ends

\* A keystore that dies leaves nothing running to be asked.
LEMMA AnsweredMemory ==
  ASSUME TypeOK, Memory, Gone,
         at' = [t \in Conversations |-> IF at[t] \in Handling THEN "answer" ELSE at[t]],
         loc' = [t \in Conversations |->
                   IF at[t] \in Handling THEN [loc[t] EXCEPT !.reply = "error"] ELSE loc[t]]
  PROVE  Memory'
<1>1. ASSUME NEW t \in Conversations
      PROVE  /\ loc'[t].kind = loc[t].kind /\ loc'[t].token = loc[t].token
             /\ at'[t] \notin {"idle", "consent"} => at[t] \notin {"idle", "consent"}
  BY <1>1 DEF TypeOK, Locals, Handling
<1> QED
  BY <1>1 DEF Gone, Memory, CarriedMinted, AcceptedMinted, UsedAreRemembered

\* Every step keeps the memory.
LEMMA MemoryStep ==
  ASSUME TypeOK, VerifySigns, Order, Memory, [Next]_vars
  PROVE  Memory'
<1>1. CASE Surroundings
  BY <1>1, AroundMemory
<1>2. CASE UNCHANGED vars
  BY <1>2 DEF vars, confirmations, session, clocks, Memory, CarriedMinted, AcceptedMinted,
     UsedAreRemembered, Expires
<1>3. CASE CloseSession \/ KeystoreDies
  BY <1>3, AnsweredMemory DEF CloseSession, KeystoreDies
<1>4. ASSUME NEW t \in Conversations, OpenSession(t) PROVE Memory'
  <2>1. /\ \A u \in Conversations : at[u] = "idle"
        /\ at' = [at EXCEPT ![t] = "status"] /\ loc' = [loc EXCEPT ![t] = NewCall] /\ accepted' = {}
    BY <1>4 DEF OpenSession, Goto, StartServing, ForgetConfirmations
  <2>2. NewCall.kind = "open"
    BY DEF NewCall
  <2> QED
    BY <2>1, <2>2 DEF TypeOK, Memory, CarriedMinted, AcceptedMinted, UsedAreRemembered
<1>5. ASSUME NEW t \in Conversations, Request(t) PROVE Memory'
  <2>1. PICK k \in {"sign", "identity"} : Goto(t, "consent", [NewCall EXCEPT !.kind = k])
    BY <1>5 DEF Request
  <2> QED
    BY <1>5, <2>1, SameMemory DEF Request, Calm, clocks, session
<1>6. ASSUME NEW t \in Conversations, TypedConsent(t) PROVE Memory'
  <2>1. PICK c \in Tokens :
          Issue(c, wall) /\ Goto(t, "queue", [NewCall EXCEPT !.kind = "sign", !.token = c])
    BY <1>6 DEF TypedConsent
  <2> QED
    BY <1>6, <2>1, NewCallTyped, IssueMemory DEF TypedConsent, Calm, clocks, session
<1>7. ASSUME NEW t \in Conversations, Agree(t) PROVE Memory'
  <2>1. CASE loc[t].kind = "sign"
    <3>1. PICK c \in Tokens : Issue(c, wall) /\ Goto(t, "queue", [loc[t] EXCEPT !.token = c])
      BY <1>7, <2>1 DEF Agree
    <3>2. [loc[t] EXCEPT !.token = c].token = c
      BY DEF TypeOK, Locals
    <3> QED
      BY <1>7, <3>1, <3>2, IssueMemory DEF Agree, Calm, clocks, session
  <2>2. CASE loc[t].kind # "sign"
    BY <1>7, <2>2, SameMemory DEF Agree, Calm, clocks, session
  <2> QED
    BY <2>1, <2>2
<1>8. ASSUME NEW t \in Conversations, TakeLock(t) PROVE Memory'
  BY <1>8, SameMemory DEF TakeLock, Calm, clocks, session
<1>9. ASSUME NEW t \in Conversations, Decline(t) \/ PassphraseMissing(t) PROVE Memory'
  BY <1>9, EndsMemory DEF Decline, PassphraseMissing
<1>10. ASSUME NEW t \in Conversations, NEW s, NEW m, Continues(t, s, m), UNCHANGED confirmations
       PROVE  Memory'
  BY <1>10, SameMemory DEF Continues, Inside, Handling, Calm, clocks
<1>11. ASSUME NEW t \in Conversations,
              Send(t) \/ Answer(t) \/ Status(t) \/ Unsealed(t) \/ PassphraseGiven(t)
       PROVE  Memory'
  BY <1>10, <1>11, ShellContinues, EndsMemory
<1>12. ASSUME NEW t \in Conversations,
              \/ LoadSealed(t) \/ LoadKey(t) \/ OpenMaster(t) \/ TouchUnsealed(t)
              \/ LockIfExpired(t) \/ LockExpired(t) \/ UseMaster(t)
       PROVE  Memory'
  <2>1. UNCHANGED confirmations
    BY <1>12 DEF LoadSealed, LoadKey, OpenMaster, TouchUnsealed, LockIfExpired, LockExpired, UseMaster
  <2> QED
    BY <1>10, <1>12, <2>1, HandlersContinue
<1>13. ASSUME NEW t \in Conversations, VerifyToken(t) PROVE Memory'
  BY <1>13, VerifyMemory
<1> QED
  BY <1>1, <1>2, <1>3, <1>4, <1>5, <1>6, <1>7, <1>8, <1>9, <1>11, <1>12, <1>13 DEF Next, Persons, Runs

\* A used confirmation is remembered for as long as it could pass the check again
\* (confirm.rs:183-193), whatever the sizes, lifetimes and clocks.
THEOREM UsedRemembered == Spec => []UsedAreRemembered
<1>1. Init => Memory
  BY DEF Init, KeystoreInit, NoConfirmations, Memory, CarriedMinted, AcceptedMinted, UsedAreRemembered
<1>2. TypeOK /\ VerifySigns /\ Order /\ Memory /\ [Next]_vars => Memory'
  BY MemoryStep
<1>3. Memory => UsedAreRemembered
  BY DEF Memory
<1> QED
  BY <1>1, <1>2, <1>3, TypeCorrect, OneAtATime, PTL DEF Spec

\* A conversation about to be verified or served moves by that step of its own, or
\* because the keystore goes.
LEMMA WhoAnswers ==
  ASSUME TypeOK, Order, Next, NEW t \in Conversations, at[t] \in {"verify", "use"}, at'[t] # at[t]
  PROVE  CloseSession \/ KeystoreDies \/ VerifyToken(t) \/ UseMaster(t)
<1>1. ASSUME NEW u \in Conversations, \E s, m : Goto(u, s, m) PROVE u = t
  BY <1>1 DEF Goto, TypeOK
<1>2. ~Surroundings
  BY DEF Surroundings
<1>3. ASSUME NEW u \in Conversations,
             OpenSession(u) \/ Request(u) \/ TypedConsent(u) \/ TakeLock(u) \/ Agree(u)
             \/ Decline(u) \/ PassphraseMissing(u)
      PROVE  FALSE
  <2>1. at[u] \notin {"verify", "use"}
    BY <1>3 DEF OpenSession, Request, TypedConsent, TakeLock, Agree, Decline, PassphraseMissing
  <2>2. \E s, m : Goto(u, s, m)
    <3>1. CASE Agree(u)
      BY <3>1 DEF Agree, Goto
    <3> QED
      BY <1>3, <3>1 DEF OpenSession, Request, TypedConsent, TakeLock, Decline, PassphraseMissing, Ends
  <2> QED
    BY <1>1, <2>1, <2>2
<1>4. ASSUME NEW u \in Conversations,
             Send(u) \/ Answer(u) \/ Status(u) \/ Unsealed(u) \/ PassphraseGiven(u)
      PROVE  FALSE
  <2>1. at[u] \notin {"verify", "use"}
    BY <1>4 DEF Send, Answer, Status, Unsealed, PassphraseGiven
  <2>2. \E s, m : Goto(u, s, m)
    BY <1>4, ShellContinues DEF Continues, Ends
  <2> QED
    BY <1>1, <2>1, <2>2
<1>5. ASSUME NEW u \in Conversations,
             \/ LoadSealed(u) \/ LoadKey(u) \/ OpenMaster(u) \/ TouchUnsealed(u)
             \/ LockIfExpired(u) \/ LockExpired(u)
      PROVE  FALSE
  <2>1. at[u] \notin {"verify", "use"}
    BY <1>5 DEF LoadSealed, LoadKey, OpenMaster, TouchUnsealed, LockIfExpired, LockExpired
  <2>2. \E s, m : Goto(u, s, m)
    BY <1>5, HandlersContinue DEF Continues
  <2> QED
    BY <1>1, <2>1, <2>2
<1>6. ASSUME NEW u \in Conversations, VerifyToken(u) \/ UseMaster(u) PROVE u = t
  <2>1. \E s, m : Goto(u, s, m)
    BY <1>6, HandlersContinue DEF Continues
  <2> QED
    BY <1>1, <2>1
<1> QED
  BY <1>2, <1>3, <1>4, <1>5, <1>6 DEF Next, Persons, Runs

\* No confirmation is let pass twice, also when the shell sends it again after an
\* unseal (keystore.rs:265-282, service.rs:248-272 of the shell).
THEOREM PassesOnce == Spec => AcceptedOnce
<1>1. TypeOK /\ Order /\ UsedAreRemembered /\ [Next]_vars =>
        [\A t \in Conversations :
           at[t] = "verify" /\ at'[t] = "use" => loc[t].token \notin accepted]_vars
  <2> SUFFICES ASSUME TypeOK, Order, UsedAreRemembered, Next,
                      NEW t \in Conversations, at[t] = "verify", at'[t] = "use"
               PROVE  loc[t].token \notin accepted
    OBVIOUS
  <2>1. VerifyToken(t)
    BY WhoAnswers DEF CloseSession, KeystoreDies, UseMaster, Handling
  <2>2. Accepts(loc[t].token, wall)
    BY <2>1 DEF VerifyToken, Replies, Goto, TypeOK
  <2>3. up
    BY DEF Order, HandledWhileUp, Handling
  <2> QED
    BY <2>2, <2>3 DEF Accepts, Timely, Remembered, UsedAreRemembered
<1> QED
  BY <1>1, TypeCorrect, OneAtATime, UsedRemembered, PTL DEF Spec, AcceptedOnce

-----------------------------------------------------------------------------
(* The end of a session.                                                    *)

\* A request that found the session lapsed finds it lapsed still when it asks,
\* and locked by the time it is verified or served.
LateLocked ==
  \A t \in Conversations : loc[t].late =>
    /\ at[t] = "expire" => master = None \/ Lapsed
    /\ at[t] \in {"verify", "use"} => master = None

\* A step of conversation u leaves the others' sessions as they were, because it
\* touches the seed or the watch only where it is the one inside.
LEMMA LateMoves ==
  ASSUME TypeOK, Order, LateLocked, NEW u \in Conversations, NEW s, NEW m, Goto(u, s, m),
         \/ UNCHANGED <<master, last, mono, wall>>
         \/ master' = None
         \/ at[u] \in Inside,
         m.late => /\ s = "expire" => master' = None \/ Lapsed'
                   /\ s \in {"verify", "use"} => master' = None
  PROVE  LateLocked'
<1> SUFFICES ASSUME NEW t \in Conversations, loc'[t].late
             PROVE  /\ at'[t] = "expire" => master' = None \/ Lapsed'
                    /\ at'[t] \in {"verify", "use"} => master' = None
  BY DEF LateLocked
<1>1. CASE t = u
  BY <1>1 DEF Goto, TypeOK
<1>2. CASE t # u
  <2>1. at'[t] = at[t] /\ loc'[t] = loc[t]
    BY <1>2 DEF Goto, TypeOK
  <2>2. at[t] \in Inside => at[u] \notin Inside
    BY <1>2, Exclusive
  <2>3. at[t] \in {"expire", "verify", "use"} => at[t] \in Inside
    BY DEF Inside, Handling
  <2> QED
    BY <2>1, <2>2, <2>3 DEF LateLocked, Lapsed
<1> QED
  BY <1>1, <1>2

\* Time passing does not bring a lapsed session back.
LEMMA LateAround ==
  ASSUME TypeOK, LateLocked, Surroundings
  PROVE  LateLocked'
<1>1. UNCHANGED <<at, loc, last>> /\ (master' = master \/ master' = None)
  BY DEF Surroundings, Around, Tick, Suspend, Screen, TimerCheck, TimerLock, session,
     Enrols, EnrolKept, InitBegin, Passphrase, Initialize, Restore, StoreKey, WriteSealed, EnrolEnds
<1>2. \/ UNCHANGED <<mono, wall>>
      \/ mono' = mono + 1 /\ wall' = wall + 1
      \/ mono' = mono /\ wall' = wall + SleepSlack + 1
  BY DEF Surroundings, Around, Tick, Suspend, Screen, TimerCheck, TimerLock, clocks,
     Enrols, EnrolKept, InitBegin, Passphrase, Initialize, Restore, StoreKey, WriteSealed, EnrolEnds
<1>3. last.mono \in Nat /\ last.wall \in Nat /\ mono \in Nat /\ wall \in Nat
      /\ SleepSlack \in Nat /\ IdleTimeout \in Nat
  BY KeystoreAssumption DEF TypeOK, KeystoreType
<1>4. Lapsed => Lapsed'
  BY <1>1, <1>2, <1>3 DEF Lapsed
<1> QED
  BY <1>1, <1>4 DEF LateLocked

\* The keystore's own steps on the way to an answer.
LEMMA LateHandled ==
  ASSUME TypeOK, Order, LateLocked, NEW t \in Conversations,
         \/ LoadSealed(t) \/ LoadKey(t) \/ OpenMaster(t) \/ TouchUnsealed(t)
         \/ LockIfExpired(t) \/ LockExpired(t) \/ VerifyToken(t) \/ UseMaster(t)
  PROVE  LateLocked'
<1>0. at[t] \in Inside
  BY HandlersContinue DEF Continues
<1>1. ASSUME NEW r, Replies(t, r) PROVE LateLocked'
  BY <1>0, <1>1, LateMoves DEF Replies
<1>2. ASSUME NEW s, s \notin {"expire", "verify", "use"}, NEW m, Goto(t, s, m) PROVE LateLocked'
  BY <1>0, <1>2, LateMoves
<1>3. CASE LoadSealed(t) \/ LoadKey(t) \/ OpenMaster(t) \/ TouchUnsealed(t) \/ UseMaster(t)
  BY <1>1, <1>2, <1>3 DEF LoadSealed, LoadKey, OpenMaster, TouchUnsealed, UseMaster
<1>4. CASE LockExpired(t)
  BY <1>0, <1>4, LateMoves DEF LockExpired, Granted
<1>5. CASE LockIfExpired(t)
  <2>1. CASE master # None /\ Expired
    BY <1>2, <1>5, <2>1 DEF LockIfExpired
  <2>2. CASE ~(master # None /\ Expired)
    <3>1. loc[t].late => master = None
      BY <1>5, <2>2 DEF LockIfExpired, LateLocked, Expired
    <3> QED
      BY <1>0, <1>5, <2>2, <3>1, LateMoves DEF LockIfExpired, Granted, session
  <2> QED
    BY <2>1, <2>2
<1>6. CASE VerifyToken(t)
  <2>1. CASE Goto(t, "use", loc[t])
    BY <1>0, <1>6, <2>1, LateMoves DEF VerifyToken, LateLocked, session
  <2> QED
    BY <1>1, <1>6, <2>1 DEF VerifyToken
<1> QED
  BY <1>3, <1>4, <1>5, <1>6

\* Every step keeps late requests locked out.
LEMMA LateStep ==
  ASSUME TypeOK, Order, LateLocked, [Next]_vars
  PROVE  LateLocked'
<1>1. CASE Surroundings
  BY <1>1, LateAround
<1>2. CASE UNCHANGED vars
  BY <1>2 DEF vars, session, clocks, LateLocked, Lapsed
<1>3. CASE CloseSession \/ KeystoreDies
  BY <1>3 DEF CloseSession, KeystoreDies, LateLocked, Handling
<1>4. ASSUME NEW t \in Conversations, NEW done \in BOOLEAN, Ends(t, done), Calm PROVE LateLocked'
  BY <1>4, LateMoves DEF Ends, Gone, Calm, session, clocks
<1>5. ASSUME NEW t \in Conversations,
             OpenSession(t) \/ Request(t) \/ TypedConsent(t) \/ TakeLock(t) \/ Agree(t)
      PROVE  LateLocked'
  <2>1. \E s \in {"status", "consent", "queue", "send"} : \E m : Goto(t, s, m)
    <3>1. CASE Agree(t)  BY <3>1 DEF Agree, Goto
    <3> QED
      BY <1>5, <3>1 DEF OpenSession, Request, TypedConsent, TakeLock
  <2>2. \/ UNCHANGED <<master, last, mono, wall>>
        \/ master' = None
    BY <1>5 DEF OpenSession, StartServing, Request, TypedConsent, TakeLock, Agree, Calm, session, clocks
  <2> QED
    BY <2>1, <2>2, LateMoves
<1>6. ASSUME NEW t \in Conversations, Decline(t) \/ PassphraseMissing(t) PROVE LateLocked'
  BY <1>4, <1>6 DEF Decline, PassphraseMissing
<1>7. ASSUME NEW t \in Conversations, Send(t) PROVE LateLocked'
  <2>1. CASE up
    <3> DEFINE m == [loc[t] EXCEPT !.reply = "none", !.late = master # None /\ Lapsed]
    <3>1. m.late = (master # None /\ Lapsed)
      BY DEF TypeOK, Locals
    <3>2. Goto(t, "expire", m) /\ UNCHANGED <<master, last, mono, wall>>
      BY <1>7, <2>1 DEF Send, Calm, session, clocks
    <3>3. Lapsed => Lapsed'
      BY <3>2 DEF Lapsed
    <3> QED
      BY <3>1, <3>2, <3>3, LateMoves
  <2>2. CASE ~up
    BY <1>4, <1>7, <2>2 DEF Send
  <2> QED
    BY <2>1, <2>2
<1>8. ASSUME NEW t \in Conversations, Answer(t) \/ Status(t) \/ Unsealed(t) \/ PassphraseGiven(t)
      PROVE  LateLocked'
  <2>1. \/ \E done \in BOOLEAN : Ends(t, done) /\ Calm
        \/ /\ \E s \in {"status", "passphrase", "send", "load"} : \E m : Goto(t, s, m)
           /\ UNCHANGED <<master, last, mono, wall>>
    BY <1>8 DEF Answer, Status, Unsealed, PassphraseGiven, Calm, session, clocks
  <2> QED
    BY <1>4, <2>1, LateMoves
<1>9. ASSUME NEW t \in Conversations,
             \/ LoadSealed(t) \/ LoadKey(t) \/ OpenMaster(t) \/ TouchUnsealed(t)
             \/ LockIfExpired(t) \/ LockExpired(t) \/ VerifyToken(t) \/ UseMaster(t)
      PROVE  LateLocked'
  BY <1>9, LateHandled
<1> QED
  BY <1>1, <1>2, <1>3, <1>5, <1>6, <1>7, <1>8, <1>9 DEF Next, Persons, Runs

\* A request that arrives after the session ended is not served with the seed it
\* found there (keystore.rs:114-127, 278-282), for any timeouts and clocks.
THEOREM LateIsRefused == Spec => NoneSlipsIn
<1>1. Init => LateLocked
  BY DEF Init, LateLocked, NewCall
<1>2. TypeOK /\ Order /\ LateLocked /\ [Next]_vars => LateLocked'
  BY LateStep
<1>3. TypeOK /\ Order /\ LateLocked /\ [Next]_vars =>
        [\A t \in Conversations :
           loc[t].late /\ at[t] = "use" /\ at'[t] = "answer" => loc'[t].reply # "done"]_vars
  <2> SUFFICES ASSUME TypeOK, Order, LateLocked, Next, NEW t \in Conversations,
                      loc[t].late, at[t] = "use", at'[t] = "answer"
               PROVE  loc'[t].reply # "done"
    OBVIOUS
  <2>1. CASE CloseSession \/ KeystoreDies
    <3>1. loc'[t] = [loc[t] EXCEPT !.reply = "error"]
      BY <2>1 DEF CloseSession, KeystoreDies, Handling
    <3> QED
      BY <3>1 DEF TypeOK, Locals
  <2>2. CASE UseMaster(t)
    <3>1. loc' = [loc EXCEPT ![t] = [loc[t] EXCEPT !.reply = "locked"]]
      BY <2>2 DEF UseMaster, Replies, Goto, LateLocked
    <3> QED
      BY <3>1 DEF TypeOK, Locals
  <2>3. CASE VerifyToken(t)
    BY <2>3 DEF VerifyToken
  <2> QED
    BY <2>1, <2>2, <2>3, WhoAnswers
<1> QED
  BY <1>1, <1>2, <1>3, TypeCorrect, OneAtATime, PTL DEF Spec, NoneSlipsIn
=============================================================================
