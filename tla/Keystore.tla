------------------------------ MODULE Keystore ------------------------------
(***************************************************************************)
(* The keystore (crates/syndeo-keystore): the seed held in memory while a  *)
(* session lasts, the idle watch that ends it, the sealed file of each     *)
(* home, and the wrapping key all homes of a machine user share.           *)
(*                                                                         *)
(* Enrolment runs in processes of its own (`syndeo-keystore init` and      *)
(* `restore`) beside the one that serves.  A seal is a name for a wrapping *)
(* key and the seed sealed under it: a file opens with the key that was    *)
(* made with it and with no other.  Key derivation, passphrases and the    *)
(* posture of files are left out; a wrong passphrase is an error.          *)
(***************************************************************************)
EXTENDS Confirmations

CONSTANTS
  Homes,        \* keystore homes on this machine
  Served,       \* the home the serving keystore was opened on
  Seals,        \* wrapping keys and what they seal
  Enrollers,    \* terminals running init or restore
  IdleTimeout,  \* seconds without an operation before the seed is forgotten
  SleepSlack,   \* how far wall time may run ahead before it is a suspend
  MaxMono,      \* bound on the monotonic clock
  MaxWall,      \* bound on the wall clock
  ScreenTold,   \* whether the platform tells that the screen is locked
  None

ASSUME KeystoreAssumption ==
  /\ Served \in Homes
  /\ None \notin Seals
  /\ IdleTimeout \in Nat /\ SleepSlack \in Nat
  /\ MaxMono \in Nat /\ MaxWall \in Nat
  /\ ScreenTold \in BOOLEAN

VARIABLES
  sealed,     \* the sealed seed of each home
  wrapping,   \* the credential store entry
  enrol,      \* the step each enrolment is at, and its locals
  up,         \* whether the serving process runs
  master,     \* the seed it holds, None while locked
  last,       \* the watch: both clocks at the last operation
  timer,      \* the service's timer: waiting, or about to lock
  mono, wall, \* the two clocks
  screen      \* whether the screen is locked, where the platform tells

vault == <<sealed, wrapping, enrol>>
session == <<up, master, last, timer>>
clocks == <<mono, wall, screen>>

SealOrNone == Seals \cup {None}
EnrolSteps == {"idle", "asking", "recheck", "store", "write"}

KeystoreType ==
  /\ ConfirmationType
  /\ sealed \in [Homes -> SealOrNone]
  /\ wrapping \in SealOrNone
  /\ enrol \in [Enrollers -> [at : EnrolSteps, home : Homes, init : BOOLEAN, seal : SealOrNone]]
  /\ up \in BOOLEAN
  /\ master \in SealOrNone
  /\ last \in [mono : Nat, wall : Nat]
  /\ timer \in {"waiting", "locking"}
  /\ mono \in Nat /\ wall \in Nat /\ screen \in BOOLEAN

Finished == [at |-> "idle", home |-> Served, init |-> TRUE, seal |-> None]

\* The served home has been set up before, or nothing has.
KeystoreInit ==
  /\ NoConfirmations
  /\ \E s \in SealOrNone :
       sealed = [h \in Homes |-> IF h = Served THEN s ELSE None] /\ wrapping = s
  /\ enrol = [n \in Enrollers |-> Finished]
  /\ up = FALSE /\ master = None
  /\ last = [mono |-> 0, wall |-> 0]
  /\ timer = "waiting"
  /\ mono = 0 /\ wall = 0 /\ screen = FALSE

-----------------------------------------------------------------------------
(* The clocks.  A suspended machine keeps wall time and loses monotonic.    *)

Tick ==
  /\ mono < MaxMono /\ wall < MaxWall
  /\ mono' = mono + 1 /\ wall' = wall + 1
  /\ UNCHANGED <<screen, confirmations, vault, session>>

Suspend ==
  /\ wall + SleepSlack < MaxWall
  /\ wall' = wall + SleepSlack + 1
  /\ UNCHANGED <<mono, screen, confirmations, vault, session>>

Screen ==
  /\ ScreenTold /\ screen' = ~screen
  /\ UNCHANGED <<mono, wall, confirmations, vault, session>>

-----------------------------------------------------------------------------
(* The idle watch.                                                          *)

Touched == last' = [mono |-> mono, wall |-> wall]

\* The session has ended by the clocks: a suspend, or idleness.
Lapsed ==
  \/ wall - last.wall > (mono - last.mono) + SleepSlack
  \/ mono - last.mono >= IdleTimeout

Expired == Lapsed \/ screen

\* The timer finds an expired session, and then locks whatever session there is.
TimerCheck ==
  /\ up /\ timer = "waiting" /\ master # None /\ Expired
  /\ timer' = "locking"
  /\ UNCHANGED <<up, master, last, clocks, confirmations, vault>>

\* Mutant: the reason is reported and the seed kept.
TimerReports ==
  /\ timer = "locking"
  /\ timer' = "waiting"
  /\ UNCHANGED <<up, master, last, clocks, confirmations, vault>>

TimerLock ==
  /\ timer = "locking"
  /\ master' = None /\ timer' = "waiting"
  /\ UNCHANGED <<up, last, clocks, confirmations, vault>>

\* The process starts, with a secret of its own; or is gone, with all it held.
StartServing ==
  /\ ~up
  /\ up' = TRUE /\ master' = None /\ timer' = "waiting"
  /\ Touched
  /\ ForgetConfirmations

Gone ==
  /\ up' = FALSE /\ master' = None /\ timer' = "waiting" /\ consumed' = {}
  /\ UNCHANGED <<last, issued, accepted>>

-----------------------------------------------------------------------------
(* Enrolment, one terminal n at a time through seal_mnemonic.               *)

\* check_can_initialize: neither half is there, for certain.
CanInitialize(h) == sealed[h] = None /\ wrapping = None

\* A seal nobody has made before, as far as anything still tells.
Fresh(s) ==
  /\ s # wrapping /\ s # master
  /\ \A h \in Homes : sealed[h] # s
  /\ \A n \in Enrollers : enrol[n].seal # s

EnrolKept == UNCHANGED <<session, clocks, confirmations>>

\* init looks before it asks a person for anything ...
InitBegin(n) ==
  /\ enrol[n].at = "idle"
  /\ \E h \in Homes :
       /\ CanInitialize(h)
       /\ enrol' = [enrol EXCEPT ![n] = [at |-> "asking", home |-> h, init |-> TRUE, seal |-> None]]
  /\ UNCHANGED <<sealed, wrapping>> /\ EnrolKept

Passphrase(n) ==
  /\ enrol[n].at = "asking"
  /\ enrol' = [enrol EXCEPT ![n].at = "recheck"]
  /\ UNCHANGED <<sealed, wrapping>> /\ EnrolKept

\* ... and again before it makes a seed.
Initialize(n) ==
  /\ enrol[n].at = "recheck"
  /\ IF CanInitialize(enrol[n].home)
     THEN \E s \in Seals :
            /\ Fresh(s)
            /\ enrol' = [enrol EXCEPT ![n] =
                 [at |-> "store", home |-> @.home, init |-> TRUE, seal |-> s]]
     ELSE enrol' = [enrol EXCEPT ![n] = Finished]
  /\ UNCHANGED <<sealed, wrapping>> /\ EnrolKept

\* restore replaces whatever is there.
Restore(n) ==
  /\ enrol[n].at = "idle"
  /\ \E h \in Homes, s \in Seals :
       /\ Fresh(s)
       /\ enrol' = [enrol EXCEPT ![n] = [at |-> "store", home |-> h, init |-> FALSE, seal |-> s]]
  /\ UNCHANGED <<sealed, wrapping>> /\ EnrolKept

\* Mutant: the sealed seed is written before the key it needs is stored.
WriteFirst(n) ==
  /\ enrol[n].at = "store"
  /\ sealed' = [sealed EXCEPT ![enrol[n].home] = enrol[n].seal]
  /\ enrol' = [enrol EXCEPT ![n].at = "write"]
  /\ UNCHANGED wrapping /\ EnrolKept

StoreKey(n) ==
  /\ enrol[n].at = "store"
  /\ wrapping' = enrol[n].seal
  /\ enrol' = [enrol EXCEPT ![n].at = "write"]
  /\ UNCHANGED sealed /\ EnrolKept

WriteSealed(n) ==
  /\ enrol[n].at = "write"
  /\ sealed' = [sealed EXCEPT ![enrol[n].home] = enrol[n].seal]
  /\ enrol' = [enrol EXCEPT ![n] = Finished]
  /\ UNCHANGED wrapping /\ EnrolKept

\* The person gives up, a store or a write fails, or the process is killed.
EnrolEnds(n) ==
  /\ enrol[n].at # "idle"
  /\ enrol' = [enrol EXCEPT ![n] = Finished]
  /\ UNCHANGED <<sealed, wrapping>> /\ EnrolKept

Enrols(n) ==
  \/ InitBegin(n) \/ Passphrase(n) \/ Initialize(n) \/ Restore(n)
  \/ StoreKey(n) \/ WriteSealed(n) \/ EnrolEnds(n)

Around == Tick \/ Suspend \/ Screen \/ TimerCheck \/ TimerLock \/ \E n \in Enrollers : Enrols(n)
=============================================================================
