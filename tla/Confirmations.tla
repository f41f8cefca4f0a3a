---------------------------- MODULE Confirmations ----------------------------
(***************************************************************************)
(* Single-use confirmations (crates/syndeo-ipc/src/confirm.rs): the shell  *)
(* mints one once a person has agreed to a request, and the keystore       *)
(* checks it before it signs.  The keystore remembers a used confirmation  *)
(* until it has expired, within a bounded memory.                          *)
(*                                                                         *)
(* Abstracted: a confirmation is a name; its MAC and the hashes bound into *)
(* it are checked for requests the shell minted itself, where they match.  *)
(***************************************************************************)
EXTENDS Integers, FiniteSets

CONSTANTS
  Tokens,       \* confirmations, one per mint
  Ttl,          \* CONFIRMATION_TTL
  Skew,         \* how far in the future one may have been minted
  Outstanding   \* MAX_OUTSTANDING: how many used ones are remembered

ASSUME ConfirmationAssumption ==
  /\ IsFiniteSet(Tokens)
  /\ Ttl \in Nat /\ Skew \in Nat /\ Outstanding \in Nat

VARIABLES
  issued,     \* when each confirmation was minted, or Never
  consumed,   \* the used confirmations the keystore remembers
  accepted    \* history: those verify has let pass

confirmations == <<issued, consumed, accepted>>

Never == -1

ConfirmationType ==
  /\ issued \in [Tokens -> Nat \cup {Never}]
  /\ consumed \in SUBSET Tokens
  /\ accepted \in SUBSET Tokens

\* A keystore and a shell with a new secret: nothing minted before counts.
NoConfirmations ==
  /\ issued = [c \in Tokens |-> Never]
  /\ consumed = {} /\ accepted = {}

ForgetConfirmations ==
  /\ issued' = [c \in Tokens |-> Never]
  /\ consumed' = {} /\ accepted' = {}

Expires(c) == issued[c] + Ttl

\* The shell mints a confirmation nobody has seen.
Issue(c, now) ==
  /\ issued[c] = Never
  /\ issued' = [issued EXCEPT ![c] = now]
  /\ UNCHANGED <<consumed, accepted>>

Timely(c, now) == now <= Expires(c) /\ issued[c] <= now + Skew

\* Mutant: one that expires in this very second is forgotten.
RememberedLater(now) == {c \in consumed : Expires(c) > now}

\* What the memory keeps: whatever could still pass the check above.
Remembered(now) == {c \in consumed : Expires(c) >= now}

Accepts(c, now) ==
  /\ Timely(c, now)
  /\ c \notin Remembered(now)
  /\ Cardinality(Remembered(now)) < Outstanding

Verify(c, now) ==
  /\ consumed' = IF Timely(c, now)
                 THEN Remembered(now) \cup (IF Accepts(c, now) THEN {c} ELSE {})
                 ELSE consumed
  /\ accepted' = IF Accepts(c, now) THEN accepted \cup {c} ELSE accepted
  /\ UNCHANGED issued
=============================================================================
