------------------------------- MODULE Signing -------------------------------
(***************************************************************************)
(* From a request to a signature: the shell (crates/syndeo-shell,          *)
(* service.rs and signing.rs) asks the person, mints a confirmation, and   *)
(* holds one conversation at a time with the keystore, which is started    *)
(* for the session or the command and stopped with it.                     *)
(*                                                                         *)
(* A conversation is at a step; the steps in Handling run inside the       *)
(* keystore process, where they interleave with its timer, and between     *)
(* any two of them time passes, a terminal enrols, or the process dies.    *)
(***************************************************************************)
EXTENDS Keystore

CONSTANT Conversations   \* the shell's tasks, one per request under way

ASSUME SigningAssumption == None \notin Tokens /\ None \notin Conversations

VARIABLES
  shell,        \* the session: down, opening, or serving
  interactive,  \* whether its prompter has someone to ask
  holder,       \* the conversation that holds the shell's lock
  at,           \* the step each conversation is at
  loc           \* its locals

vars == <<confirmations, vault, session, clocks, shell, interactive, holder, at, loc>>

Handling == {"expire", "lock", "verify", "use", "load", "key", "open", "touch"}
Asking == {"consent", "passphrase"}
Steps == {"idle", "queue", "send", "answer", "status", "unsealed"} \cup Handling \cup Asking

\* What a conversation is for, the confirmation it carries, what the keystore
\* answered, whether it has been through an unseal, what unseal has read, and
\* (history) whether the session had lapsed when the request arrived.
Locals == [kind : {"open", "sign", "identity"}, token : Tokens \cup {None},
           reply : {"none", "done", "locked", "error"}, retried : BOOLEAN,
           seal : SealOrNone, late : BOOLEAN]

NewCall == [kind |-> "open", token |-> None, reply |-> "none", retried |-> FALSE,
           seal |-> None, late |-> FALSE]

TypeOK ==
  /\ KeystoreType
  /\ shell \in {"down", "opening", "serving"}
  /\ interactive \in BOOLEAN
  /\ holder \in Conversations \cup {None}
  /\ at \in [Conversations -> Steps]
  /\ loc \in [Conversations -> Locals]
  /\ \A t \in Conversations :
       loc[t].kind = "sign" /\ at[t] \notin {"idle", "consent"} => loc[t].token # None

Init ==
  /\ KeystoreInit
  /\ shell = "down" /\ interactive = TRUE /\ holder = None
  /\ at = [t \in Conversations |-> "idle"]
  /\ loc = [t \in Conversations |-> NewCall]

Goto(t, step, l) ==
  /\ at' = [at EXCEPT ![t] = step]
  /\ loc' = [loc EXCEPT ![t] = l]

Calm == UNCHANGED <<vault, clocks>>
ShellKept == UNCHANGED <<shell, interactive, holder>>

\* A conversation ends.  One that failed to open the session stops what it
\* started before it returns (SupervisedKeystore::open).
Ends(t, done) ==
  /\ Goto(t, "idle", NewCall)
  /\ holder' = IF holder = t THEN None ELSE holder
  /\ IF loc[t].kind = "open"
     THEN IF done THEN shell' = "serving" /\ UNCHANGED <<session, confirmations>>
                  ELSE shell' = "down" /\ Gone
     ELSE UNCHANGED <<shell, session, confirmations>>
  /\ UNCHANGED interactive

-----------------------------------------------------------------------------
(* The session.                                                             *)

\* A keystore is started for the session, and its unsealing begins.
OpenSession(t) ==
  /\ shell = "down" /\ \A u \in Conversations : at[u] = "idle"
  /\ StartServing
  /\ shell' = "opening" /\ interactive' \in BOOLEAN
  /\ Goto(t, "status", NewCall)
  /\ UNCHANGED holder /\ Calm

\* The window closes or the command is done: the keystore is stopped, whatever
\* conversations are under way.
CloseSession ==
  /\ shell = "serving"
  /\ shell' = "down" /\ Gone
  /\ at' = [t \in Conversations |-> IF at[t] \in Handling THEN "answer" ELSE at[t]]
  /\ loc' = [t \in Conversations |->
               IF at[t] \in Handling THEN [loc[t] EXCEPT !.reply = "error"] ELSE loc[t]]
  /\ UNCHANGED <<interactive, holder>> /\ Calm

\* The keystore process dies under the shell.
KeystoreDies ==
  /\ up /\ Gone
  /\ at' = [t \in Conversations |-> IF at[t] \in Handling THEN "answer" ELSE at[t]]
  /\ loc' = [t \in Conversations |->
               IF at[t] \in Handling THEN [loc[t] EXCEPT !.reply = "error"] ELSE loc[t]]
  /\ ShellKept /\ Calm

-----------------------------------------------------------------------------
(* A request reaches the shell.                                             *)

\* A well-formed request is put before the person; a run with no one to ask
\* declines.  Identities are only ever given out that way.
Request(t) ==
  /\ shell = "serving" /\ at[t] = "idle" /\ interactive
  /\ \E k \in {"sign", "identity"} : Goto(t, "consent", [NewCall EXCEPT !.kind = k])
  /\ ShellKept /\ Calm /\ UNCHANGED <<session, confirmations>>

\* What the person typed on a command line is its own consent.
TypedConsent(t) ==
  /\ shell = "serving" /\ at[t] = "idle"
  /\ \E c \in Tokens :
       /\ Issue(c, wall)
       /\ Goto(t, "queue", [NewCall EXCEPT !.kind = "sign", !.token = c])
  /\ ShellKept /\ Calm /\ UNCHANGED session

\* The person agrees, and a confirmation for exactly this is minted; or not.
Agree(t) ==
  /\ at[t] = "consent"
  /\ IF loc[t].kind = "sign"
     THEN \E c \in Tokens : Issue(c, wall) /\ Goto(t, "queue", [loc[t] EXCEPT !.token = c])
     ELSE Goto(t, "queue", loc[t]) /\ UNCHANGED confirmations
  /\ ShellKept /\ Calm /\ UNCHANGED session

Decline(t) ==
  /\ at[t] = "consent"
  /\ Ends(t, FALSE) /\ Calm

-----------------------------------------------------------------------------
(* keystore_call: one conversation at a time.                               *)

TakeLock(t) ==
  /\ at[t] = "queue" /\ holder = None
  /\ holder' = t /\ Goto(t, "send", loc[t])
  /\ UNCHANGED <<shell, interactive, session, confirmations>> /\ Calm

\* call_once: a connection of its own, if there is a keystore to connect to.
Send(t) ==
  /\ at[t] = "send"
  /\ IF up
     THEN /\ Goto(t, "expire", [loc[t] EXCEPT !.reply = "none", !.late = master # None /\ Lapsed])
          /\ UNCHANGED <<shell, interactive, holder, session, confirmations>>
     ELSE Ends(t, FALSE)
  /\ Calm

\* Mutant: a run with no one to ask prompts all the same.
AnswerUnasked(t) ==
  LET l == loc[t]
  IN /\ at[t] = "answer"
     /\ IF l.kind # "open" /\ l.reply = "locked" /\ ~l.retried
        THEN /\ Goto(t, "status", l)
             /\ UNCHANGED <<shell, interactive, holder, session, confirmations>>
        ELSE Ends(t, FALSE)
     /\ Calm

\* The answer.  A locked keystore is unsealed, once, if there is someone to ask.
Answer(t) ==
  LET l == loc[t]
  IN /\ at[t] = "answer"
     /\ IF l.kind # "open" /\ l.reply = "locked" /\ ~l.retried /\ interactive
        THEN /\ Goto(t, "status", l)
             /\ UNCHANGED <<shell, interactive, holder, session, confirmations>>
        ELSE Ends(t, FALSE)
     /\ Calm

\* unseal_now, and the session's first unseal: the status says what is needed.
Status(t) ==
  /\ at[t] = "status"
  /\ IF up /\ (loc[t].kind = "open" => sealed[Served] # None)
     THEN /\ Goto(t, "passphrase", loc[t])
          /\ UNCHANGED <<shell, interactive, holder, session, confirmations>>
     ELSE Ends(t, FALSE)
  /\ Calm

\* The person types a passphrase, or cannot be asked.
PassphraseGiven(t) ==
  /\ at[t] = "passphrase" /\ up
  /\ Goto(t, "load", loc[t])
  /\ ShellKept /\ Calm /\ UNCHANGED <<session, confirmations>>

PassphraseMissing(t) ==
  /\ at[t] = "passphrase"
  /\ Ends(t, FALSE) /\ Calm

\* Unsealed: the session serves, or the request that found it locked goes again.
Unsealed(t) ==
  /\ at[t] = "unsealed"
  /\ IF loc[t].kind = "open" THEN Ends(t, TRUE)
     ELSE /\ Goto(t, "send", [loc[t] EXCEPT !.retried = TRUE])
          /\ UNCHANGED <<shell, interactive, holder, session, confirmations>>
  /\ Calm

-----------------------------------------------------------------------------
(* Inside the keystore: unseal.                                             *)

Replies(t, r) == Goto(t, "answer", [loc[t] EXCEPT !.reply = r])

LoadSealed(t) ==
  /\ at[t] = "load"
  /\ IF sealed[Served] = None THEN Replies(t, "error")
     ELSE Goto(t, "key", [loc[t] EXCEPT !.seal = sealed[Served]])
  /\ ShellKept /\ Calm /\ UNCHANGED <<session, confirmations>>

\* The file opens with the key it was sealed under, and the right passphrase.
LoadKey(t) ==
  /\ at[t] = "key"
  /\ \/ wrapping = loc[t].seal /\ Goto(t, "open", loc[t])
     \/ Replies(t, "error")
  /\ ShellKept /\ Calm /\ UNCHANGED <<session, confirmations>>

\* The seed is in place before the watch is told.
OpenMaster(t) ==
  /\ at[t] = "open"
  /\ master' = loc[t].seal
  /\ Goto(t, "touch", loc[t])
  /\ ShellKept /\ Calm /\ UNCHANGED <<up, last, timer, confirmations>>

TouchUnsealed(t) ==
  /\ at[t] = "touch"
  /\ Touched
  /\ Goto(t, "unsealed", loc[t])
  /\ ShellKept /\ Calm /\ UNCHANGED <<up, master, timer, confirmations>>

-----------------------------------------------------------------------------
(* Inside the keystore: sign_confirmed and public_identity.                 *)

Granted(t) == IF loc[t].kind = "sign" THEN "verify" ELSE "use"

\* Mutant: only the timer ends sessions.
LeftToTimer(t) ==
  /\ at[t] = "expire"
  /\ Goto(t, Granted(t), loc[t])
  /\ ShellKept /\ Calm /\ UNCHANGED <<session, confirmations>>

\* lock_if_expired, ahead of everything else; its answer is not looked at.
LockIfExpired(t) ==
  /\ at[t] = "expire"
  /\ Goto(t, IF master # None /\ Expired THEN "lock" ELSE Granted(t), loc[t])
  /\ ShellKept /\ Calm /\ UNCHANGED <<session, confirmations>>

LockExpired(t) ==
  /\ at[t] = "lock"
  /\ master' = None
  /\ Goto(t, Granted(t), loc[t])
  /\ ShellKept /\ Calm /\ UNCHANGED <<up, last, timer, confirmations>>

VerifyToken(t) ==
  /\ at[t] = "verify"
  /\ Verify(loc[t].token, wall)
  /\ IF Accepts(loc[t].token, wall) THEN Goto(t, "use", loc[t]) ELSE Replies(t, "error")
  /\ ShellKept /\ Calm /\ UNCHANGED session

\* The seed signs, or derives the identity, and the session is used again.
UseMaster(t) ==
  /\ at[t] = "use"
  /\ IF master = None THEN Replies(t, "locked") /\ UNCHANGED last
                      ELSE Replies(t, "done") /\ Touched
  /\ ShellKept /\ Calm /\ UNCHANGED <<up, master, timer, confirmations>>

-----------------------------------------------------------------------------

Persons(t) == Agree(t) \/ Decline(t) \/ PassphraseGiven(t) \/ PassphraseMissing(t)

Runs(t) ==
  \/ Send(t) \/ Answer(t) \/ Status(t) \/ Unsealed(t)
  \/ LoadSealed(t) \/ LoadKey(t) \/ OpenMaster(t) \/ TouchUnsealed(t)
  \/ LockIfExpired(t) \/ LockExpired(t) \/ VerifyToken(t) \/ UseMaster(t)

Surroundings == Around /\ UNCHANGED <<shell, interactive, holder, at, loc>>

Next ==
  \/ Surroundings \/ CloseSession \/ KeystoreDies
  \/ \E t \in Conversations :
       OpenSession(t) \/ Request(t) \/ TypedConsent(t) \/ TakeLock(t) \/ Persons(t) \/ Runs(t)

Spec == Init /\ [][Next]_vars

\* The keystore and the shell keep running, the timer fires, and the lock, which
\* is handed over in the order it was asked for, comes to everyone who waits.
FairSpec ==
  /\ Spec
  /\ \A t \in Conversations : WF_vars(Runs(t)) /\ SF_vars(TakeLock(t))
  /\ WF_vars(TimerCheck /\ UNCHANGED <<shell, interactive, holder, at, loc>>)
  /\ WF_vars(TimerLock /\ UNCHANGED <<shell, interactive, holder, at, loc>>)

-----------------------------------------------------------------------------
(* Properties.                                                              *)

\* A used confirmation is remembered for as long as it could pass again:
\* "Forgetting anything still valid would let it be used again"
\* (confirm.rs:184-185).
UsedAreRemembered ==
  up => \A c \in accepted : Expires(c) >= wall => c \in consumed

\* No confirmation passes twice: it "must not have been used before"
\* (keystore.rs:268), also where the shell sends it again after an unseal.
AcceptedOnce ==
  [][\A t \in Conversations :
       at[t] = "verify" /\ at'[t] = "use" => loc[t].token \notin accepted]_vars

\* A request that arrives after the session ended "cannot slip in ahead of the
\* timer" (keystore.rs:116-118): it is not served with the seed it found there.
NoneSlipsIn ==
  [][\A t \in Conversations :
       loc[t].late /\ at[t] = "use" /\ at'[t] = "answer" => loc'[t].reply # "done"]_vars

\* A sealed seed is never left without any wrapping key: "Store the wrapping key
\* first: a sealed blob with no wrapping key is unopenable" (keystore.rs:226-227).
SealedHasKey == \A h \in Homes : sealed[h] # None => wrapping # None

\* Setting up one home leaves every seed that opens openable, whatever crashed
\* before: "Enrolling here would replace its key and leave that seed unopenable"
\* (keystore.rs:157-158).
Openable(h) == sealed[h] # None /\ sealed[h] = wrapping
InitSparesSeeds ==
  [][\A n \in Enrollers : enrol[n].init /\ enrol'[n] # enrol[n] =>
       \A h \in Homes : Openable(h) => Openable(h)']_vars

\* Once the session is over no keystore is left running, however it ended
\* (signing.rs:117-121, 158-178).
StoppedWithSession == shell = "down" => ~up

\* A session that has lapsed is forgotten, or somebody uses it, whoever the
\* keystore is waiting for (keystore.rs:114-127, service.rs:26-36).
LapsedIsForgotten == (master # None /\ Lapsed) ~> ~(master # None /\ Lapsed)

\* A conversation waits for nothing but a person, and where there is no one to
\* ask, for nothing at all: "an agent cannot hang waiting on someone who is not
\* there" (service.rs:25-26 of the shell).
WaitsOnlyForPeople ==
  \A t \in Conversations :
    at[t] # "idle" ~> \/ at[t] = "idle"
                      \/ \E u \in Conversations : at[u] \in Asking /\ (interactive \/ loc[u].kind = "open")

=============================================================================
