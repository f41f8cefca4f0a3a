-------------------------------- MODULE Owner --------------------------------
(***************************************************************************)
(* The proxy a browser owns: started with a credential, heard from on its  *)
(* stdout, asked to clear its cache down its stdin, and gone when its      *)
(* owner goes.  crates/syndeo-webkit/src/owned_macos.rs with               *)
(* crates/syndeo-ipc/src/quit.rs, and the other end of the pipes,          *)
(* answer_commands and refusals of crates/syndeo-proxy/src.  The pipes     *)
(* and signals are the operating system's: a pipe keeps its order, and is  *)
(* closed when the process that holds its other end is gone.               *)
(***************************************************************************)
EXTENDS Naturals, Sequences, FiniteSets

CONSTANTS
  MaxAsked,       \* bound on the questions asked
  BrowserHosts,          \* hosts whose browser may refuse the proxy's certificate
  RefusedKept,    \* REFUSED_KEPT
  RefusalsSaid    \* CAPACITY of refusals.rs

ASSUME OwnerAssumption ==
  MaxAsked \in Nat /\ RefusedKept \in Nat \ {0} /\ RefusalsSaid \in Nat

VARIABLES
  owner,      \* "starting", "open", "asking", "quitting", "ended", "died"
  child,      \* "starting", "listening", "clearing", "stuck", "exited", "reaped"
  signal,     \* what quit_child has done so far
  stdin,      \* the questions in the pipe, by their number
  stdout,     \* the lines in the other, READY, a refusal or an answer
  answers,    \* the channel from the thread that reads it
  heard,      \* where the thread is: before the announcement, after it, or over
  refused,    \* the refused hosts it has kept
  said,       \* Refusals::said
  asked,      \* how many questions were asked
  outOfStep,  \* Control::out_of_step
  taken       \* history: the answers taken, by question

pipes == <<stdin, stdout, answers, heard>>
hosts == <<refused, said>>
ownerVars == <<owner, child, signal, pipes, hosts, asked, outOfStep, taken>>

Running == {"starting", "listening", "clearing", "stuck"}

Ready == [line |-> "ready", of |-> 0]
Cleared(n) == [line |-> "answer", of |-> n]
Refusal(h) == [line |-> "refused", of |-> h]

OwnerInit ==
  /\ owner = "starting" /\ child = "starting" /\ signal = "none"
  /\ stdin = <<>> /\ stdout = <<>> /\ answers = <<>> /\ heard = "announcement"
  /\ refused = <<>> /\ said = {} /\ asked = 0 /\ outOfStep = FALSE /\ taken = {}

-----------------------------------------------------------------------------
\* The proxy.

\* run --announce: listening, and saying so; or it cannot (another has the cache open, the
\* credential is no credential, no port) and exits.
Announce ==
  /\ child = "starting"
  /\ \/ child' = "listening" /\ stdout' = Append(stdout, Ready)
     \/ child' = "exited" /\ UNCHANGED stdout
  /\ UNCHANGED <<owner, signal, stdin, answers, heard, hosts, asked, outOfStep, taken>>

\* answer_commands: one line at a time.
TakeCommand ==
  /\ child = "listening" /\ stdin # <<>>
  /\ child' = "clearing"
  /\ UNCHANGED <<owner, signal, pipes, hosts, asked, outOfStep, taken>>

\* CLEARED or FAILED, in one write.
AnswerCommand ==
  /\ child = "clearing" /\ child' = "listening"
  /\ stdin' = Tail(stdin) /\ stdout' = Append(stdout, Cleared(Head(stdin)))
  /\ UNCHANGED <<owner, signal, answers, heard, hosts, asked, outOfStep, taken>>

\* Refusals::handshake_failed: each host once, and no more than so many.
HandshakeFailed(h) ==
  /\ child \in {"listening", "clearing"}
  /\ h \notin said /\ Cardinality(said) < RefusalsSaid
  /\ said' = said \cup {h} /\ stdout' = Append(stdout, Refusal(h))
  /\ UNCHANGED <<owner, child, signal, stdin, answers, heard, refused, asked, outOfStep, taken>>

\* Its stdin closed: what the cache holds goes to disk, and it exits.
StdinCloses ==
  /\ child = "listening" /\ stdin = <<>> /\ owner \in {"quitting", "ended", "died"}
  /\ child' = "exited"
  /\ UNCHANGED <<owner, signal, pipes, hosts, asked, outOfStep, taken>>

\* It crashes, or hangs where it is.
Crash ==
  /\ child \in Running /\ child' = "exited"
  /\ UNCHANGED <<owner, signal, pipes, hosts, asked, outOfStep, taken>>

Hang ==
  /\ child \in {"starting", "listening", "clearing"} /\ child' = "stuck"
  /\ UNCHANGED <<owner, signal, pipes, hosts, asked, outOfStep, taken>>

-----------------------------------------------------------------------------
\* The thread that reads its stdout.

\* keep_refused: the oldest goes first.
Kept(h) == Append(IF Len(refused) >= RefusedKept THEN Tail(refused) ELSE refused, h)

\* read_announcement, after the announcement: refusals are kept apart.
ReadLine ==
  /\ heard = "answers" /\ stdout # <<>>
  /\ stdout' = Tail(stdout)
  /\ IF Head(stdout).line = "refused"
     THEN refused' = Kept(Head(stdout).of) /\ UNCHANGED answers
     ELSE answers' = Append(answers, Head(stdout)) /\ UNCHANGED refused
  /\ UNCHANGED <<owner, child, signal, stdin, heard, said, asked, outOfStep, taken>>

ReadEnd ==
  /\ heard = "answers" /\ stdout = <<>> /\ child \in {"exited", "reaped"}
  /\ heard' = "over"
  /\ UNCHANGED <<owner, child, signal, stdin, stdout, answers, hosts, asked, outOfStep, taken>>

-----------------------------------------------------------------------------
\* The owner.

\* start_owned: the announcement, in time, is what makes it the proxy; anything else
\* drops it.
Started ==
  /\ owner = "starting" /\ heard = "announcement" /\ stdout # <<>>
  /\ stdout' = Tail(stdout) /\ heard' = "answers" /\ owner' = "open"
  /\ UNCHANGED <<child, signal, stdin, answers, hosts, asked, outOfStep, taken>>

NotStarted ==
  /\ owner = "starting"
  /\ owner' = "quitting"
  /\ UNCHANGED <<child, signal, pipes, hosts, asked, outOfStep, taken>>

\* Mutant: what came too late is still in the channel when the next question is asked.
AskAnyway ==
  /\ owner = "open" /\ asked < MaxAsked
  /\ answers' = <<>>
  /\ asked' = asked + 1 /\ stdin' = Append(stdin, asked + 1)
  /\ owner' = "asking"
  /\ UNCHANGED <<child, signal, stdout, heard, hosts, outOfStep, taken>>

\* ProxyControl::clear_cache: not once out of step; what was said before is dropped.
AskToClear ==
  /\ owner = "open" /\ asked < MaxAsked /\ ~outOfStep
  /\ answers' = <<>>
  /\ asked' = asked + 1 /\ stdin' = Append(stdin, asked + 1)
  /\ owner' = "asking"
  /\ UNCHANGED <<child, signal, stdout, heard, hosts, outOfStep, taken>>

TakeAnswer ==
  /\ owner = "asking" /\ answers # <<>>
  /\ answers' = Tail(answers) /\ taken' = taken \cup {<<asked, Head(answers)>>}
  /\ owner' = "open"
  /\ UNCHANGED <<child, signal, stdin, stdout, heard, hosts, asked, outOfStep>>

AnswerLate ==
  /\ owner = "asking" /\ answers = <<>> /\ heard # "over"
  /\ outOfStep' = TRUE /\ owner' = "open"
  /\ UNCHANGED <<child, signal, pipes, hosts, asked, taken>>

ProxyStopped ==
  /\ owner = "asking" /\ answers = <<>> /\ heard = "over"
  /\ owner' = "open"
  /\ UNCHANGED <<child, signal, pipes, hosts, asked, outOfStep, taken>>

\* ProxyControl::refused.
TakeRefused ==
  /\ owner = "open" /\ refused # <<>> /\ refused' = <<>>
  /\ UNCHANGED <<owner, child, signal, pipes, said, asked, outOfStep, taken>>

\* OwnedProxy::drop closes the pipe, which waits for a question that is being asked.
QuitOwner ==
  /\ owner = "open" /\ owner' = "quitting"
  /\ UNCHANGED <<child, signal, pipes, hosts, asked, outOfStep, taken>>

\* A force-quit or a crash: nothing of ours runs, and the kernel closes the pipes.
OwnerDies ==
  /\ owner \notin {"ended", "died"} /\ owner' = "died"
  /\ UNCHANGED <<child, signal, pipes, hosts, asked, outOfStep, taken>>

\* Mutant: SIGTERM is the last thing tried.
EscalateNoKill ==
  /\ owner = "quitting" /\ child \in Running
  /\ signal = "none" /\ signal' = "term" /\ child' \in {"exited", child}
  /\ UNCHANGED <<owner, pipes, hosts, asked, outOfStep, taken>>

\* quit_child: it is waited for, sent SIGTERM, waited for again, and killed; and reaped.
Escalate ==
  /\ owner = "quitting" /\ child \in Running
  /\ \/ signal = "none" /\ signal' = "term"
        /\ child' \in {"exited", child}
     \/ signal = "term" /\ signal' = "kill" /\ child' = "exited"
  /\ UNCHANGED <<owner, pipes, hosts, asked, outOfStep, taken>>

Reap ==
  /\ owner = "quitting" /\ child = "exited"
  /\ child' = "reaped" /\ owner' = "ended"
  /\ UNCHANGED <<signal, pipes, hosts, asked, outOfStep, taken>>

ChildNext ==
  \/ Announce \/ TakeCommand \/ AnswerCommand \/ StdinCloses \/ Crash \/ Hang
  \/ \E h \in BrowserHosts : HandshakeFailed(h)

OwnerNext ==
  \/ ChildNext
  \/ ReadLine \/ ReadEnd
  \/ Started \/ NotStarted \/ AskToClear \/ TakeAnswer \/ AnswerLate \/ ProxyStopped
  \/ TakeRefused \/ QuitOwner \/ OwnerDies \/ Escalate \/ Reap

\* The thread that quits is not itself stopped.
OwnerFairness == WF_ownerVars(Escalate) /\ WF_ownerVars(Reap)

OwnerSpec == OwnerInit /\ [][OwnerNext]_ownerVars /\ OwnerFairness

-----------------------------------------------------------------------------
\* An answer that is taken is the answer to the question that waits for it: not one that
\* came too late for the question before, and not a refusal that the proxy said between.
AnswersInStep == \A t \in taken : t[2] = Cleared(t[1])

\* Quitting ends: the proxy is gone and reaped even if it hangs and answers no signal that
\* can be caught, unless its owner dies first.
QuitEnds == (owner = "quitting") ~> (owner \in {"ended", "died"})
=============================================================================
