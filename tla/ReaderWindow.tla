---------------------------- MODULE ReaderWindow ----------------------------
(***************************************************************************)
(* The window of syndeo-ui: the questions that conversations with the      *)
(* shell put to the person through it, and the pages that it asks its      *)
(* worker thread for.  crates/syndeo-ui/src/app.rs, prompt.rs and main.rs. *)
(* What is drawn, and how, is left out, and so is what the two panels say; *)
(* egui, which calls ui for every frame and on_exit once, is external.     *)
(***************************************************************************)
EXTENDS Naturals, SequencesExt

CONSTANTS
  Askers,       \* questions, each asked once
  Starter,      \* the one that the start of the session asks
  AskCapacity,  \* of the channel of questions
  Urls,
  MaxLoads,     \* bound on the pages asked for
  MaxWork,      \* bound on what is in the two channels when a panel adds to it
  Empty,        \* an empty field
  NoUrl         \* no page, no error, no question

ASSUME WindowAssumption ==
  /\ Starter \in Askers /\ NoUrl \notin Urls \cup Askers \cup {Empty}
  /\ AskCapacity \in Nat \ {0} /\ MaxLoads \in Nat /\ MaxWork \in Nat

VARIABLES
  window,    \* "starting", "drawn", "leaving" once on_exit has run, "gone" once App is dropped
  needs,     \* whether the keystore wants a passphrase to start with
  asker,     \* ask_window of each question: "idle", "posting", "waiting", "over"
  asks,      \* the channel of questions
  modal,     \* App::modal
  reply,     \* what is in the channel of each question
  told,      \* what each asker was told
  decided,   \* what the person said to each question (history)
  work,      \* the channel of work
  worker,    \* the job the worker is at, "idle" or "gone"
  done,      \* the channel of what came back
  screen,    \* App: address, page, loading, error
  visited,   \* App::history
  panels,    \* App::show_cache and show_peers
  loads,     \* how many pages were asked for, and the last of them
  asked

dialog == <<asks, modal, reply, decided>>
reading == <<work, worker, done, screen, visited, panels, loads, asked>>
readerWindow == <<window, needs, asker, told, dialog, reading>>

Message(kind, url) == [kind |-> kind, url |-> url]
Ended == Message("gone", NoUrl)

\* App::new: the page the window was started with, and the statistics.
WindowInit ==
  /\ window = "starting" /\ needs \in BOOLEAN
  /\ asker = [a \in Askers |-> "idle"] /\ asks = <<>> /\ modal = NoUrl
  /\ reply = [a \in Askers |-> "none"] /\ told = reply /\ decided = reply
  /\ asked \in Urls \cup {NoUrl}
  /\ loads = IF asked = NoUrl THEN 0 ELSE 1
  /\ work = (IF asked = NoUrl THEN <<>> ELSE <<Message("load", asked)>>) \o <<Message("stats", NoUrl)>>
  /\ worker = Message("idle", NoUrl) /\ done = <<>> /\ visited = <<>> /\ panels = {}
  /\ screen = [address |-> IF asked = NoUrl THEN Empty ELSE asked,
               page |-> NoUrl, loading |-> FALSE, error |-> NoUrl]

-----------------------------------------------------------------------------
\* Session::start and unseal: the window is opened once the keystore is.
StartDrawing ==
  /\ window = "starting" /\ (needs => told[Starter] = "yes")
  /\ window' = "drawn"
  /\ UNCHANGED <<needs, asker, told, dialog, reading>>

\* The passphrase was not given, and main ends.
StartFails ==
  /\ window = "starting" /\ needs /\ told[Starter] = "no"
  /\ window' = "gone" /\ worker' = Ended
  /\ UNCHANGED <<needs, asker, told, dialog, work, done, screen, visited, panels, loads, asked>>

Drawn == window = "drawn"
IsOpen == window \in {"starting", "drawn"}
Over(a, answer) == /\ asker' = [asker EXCEPT ![a] = "over"]
                   /\ told' = [told EXCEPT ![a] = answer]

\* ask_window: a window that is closed says no.
AskWindow(a) ==
  /\ asker[a] = "idle" /\ (a = Starter <=> window = "starting") /\ (a = Starter => needs)
  /\ IF IsOpen THEN asker' = [asker EXCEPT ![a] = "posting"] /\ UNCHANGED told
     ELSE Over(a, "no")
  /\ UNCHANGED <<window, needs, dialog, reading>>

\* It is sent as soon as there is room, or not at all when nobody can receive it.
PostAsk(a) ==
  /\ asker[a] = "posting"
  /\ \/ /\ window # "gone" /\ Len(asks) < AskCapacity
        /\ asks' = Append(asks, a) /\ asker' = [asker EXCEPT ![a] = "waiting"]
        /\ UNCHANGED told
     \/ window = "gone" /\ Over(a, "no") /\ UNCHANGED asks
  /\ UNCHANGED <<window, needs, modal, reply, decided, reading>>

\* recv_timeout: the answer; PATIENCE; or the question dropped with its channel.
HearAnswer(a) ==
  /\ asker[a] = "waiting"
  /\ Over(a, IF reply[a] = "none" THEN "no" ELSE reply[a])
  /\ UNCHANGED <<window, needs, dialog, reading>>

\* Mutant: the answers go through one channel, to whoever waits.
HeardByAnyone(a) == IF \E b \in Askers : asker[b] = "waiting"
                     THEN {CHOOSE b \in Askers : asker[b] = "waiting"} ELSE {}

\* The channel that came with the question, if its asker still listens.
HeardBy(a) == {a} \cap {b \in Askers : asker[b] = "waiting"}

\* modal: the person answers the question on screen, yes or no.
AnswerModal ==
  /\ Drawn /\ modal # NoUrl
  /\ \E answer \in {"yes", "no"} :
       /\ reply' = [a \in Askers |-> IF a \in HeardBy(modal) THEN answer ELSE reply[a]]
       /\ decided' = [decided EXCEPT ![modal] = answer]
  /\ modal' = NoUrl
  /\ UNCHANGED <<window, needs, asker, told, asks, reading>>

-----------------------------------------------------------------------------
\* One message of the worker, as drain takes it.
Took(s, message) ==
  CASE message.kind = "loaded" -> [address |-> message.url, page |-> message.url,
                                   loading |-> FALSE, error |-> NoUrl]
    [] message.kind = "failed" -> [s EXCEPT !.loading = FALSE, !.error = message.url]
    [] OTHER -> s

\* drain: all that came back, the statistics again for each page that did, and one question
\* if none is on screen.
Drain ==
  /\ Drawn /\ (done # <<>> \/ (modal = NoUrl /\ asks # <<>>))
  /\ screen' = FoldLeft(Took, screen, done) /\ done' = <<>>
  /\ work' = work \o [i \in 1 .. Cardinality({d \in DOMAIN done : done[d].kind = "loaded"})
                                |-> Message("stats", NoUrl)]
  /\ IF modal = NoUrl /\ asks # <<>> THEN modal' = Head(asks) /\ asks' = Tail(asks)
     ELSE UNCHANGED <<modal, asks>>
  /\ UNCHANGED <<window, needs, asker, told, reply, decided, worker, visited, panels, loads, asked>>

\* The page is asked for, and the window says that it is loading.
RequestPage(url, address, error) ==
  /\ work' = Append(work, Message("load", url)) /\ asked' = url /\ loads' = loads + 1
  /\ screen' = [screen EXCEPT !.address = address, !.loading = TRUE, !.error = error]

Clicking == Drawn /\ modal = NoUrl /\ loads < MaxLoads
Rest == UNCHANGED <<window, needs, asker, told, dialog, worker, done, panels>>

\* load: an address that was typed, or a link of the page.
LoadPage ==
  /\ Clicking /\ Rest
  /\ \E url \in Urls : RequestPage(url, url, NoUrl)
  /\ visited' = IF screen.page = NoUrl THEN visited ELSE Append(visited, screen.page)

BackPage ==
  /\ Clicking /\ Rest /\ visited # <<>>
  /\ RequestPage(Last(visited), Last(visited), NoUrl) /\ visited' = Front(visited)

\* What the field says is asked for as it is, the error left where it is.
ReloadPage ==
  /\ Clicking /\ Rest
  /\ RequestPage(screen.address, screen.address, screen.error) /\ UNCHANGED visited

\* The field is typed in.
TypeText ==
  /\ Clicking /\ Rest
  /\ \E url \in (Urls \cup {Empty}) \ {screen.address} : screen' = [screen EXCEPT !.address = url]
  /\ UNCHANGED <<work, visited, loads, asked>>

\* cache_panel, peers_panel: one that is opened, or asked to, is filled again.
ShowPanel(kind) ==
  /\ Drawn /\ modal = NoUrl /\ Len(work) + Len(done) < MaxWork
  /\ \/ panels' = panels \cup {kind} /\ work' = Append(work, Message(kind, NoUrl))
     \/ kind \in panels /\ panels' = panels \ {kind} /\ UNCHANGED work
  /\ UNCHANGED <<window, needs, asker, told, dialog, worker, done, screen, visited, loads, asked>>

-----------------------------------------------------------------------------
\* serve: the next job.
TakeJob ==
  /\ window # "starting" /\ worker.kind = "idle"
  /\ IF work = <<>> THEN window = "gone" /\ worker' = Ended /\ UNCHANGED work
     ELSE /\ work' = Tail(work)
          /\ worker' = IF Head(work).kind = "quit" THEN Ended ELSE Head(work)
  /\ UNCHANGED <<window, needs, asker, told, dialog, done, screen, visited, panels, loads, asked>>

\* What comes back of a job; nothing where the statistics could not be had.
Results(job) ==
  CASE job.kind = "load" -> {<<Message("failed", job.url)>>}
                              \cup {<<Message("loaded", url)>> : url \in {job.url} \ {Empty}}
    [] job.kind = "stats" -> {<<job>>, <<>>}
    [] job.kind = "peers" -> {<<job>>}

\* load, stats, peers: it is sent back, and nobody to receive it ends the worker.
FinishJob ==
  /\ worker.kind \notin {"idle", "gone"}
  /\ \E result \in Results(worker) :
       IF window = "gone" /\ result # <<>> THEN worker' = Ended /\ UNCHANGED done
       ELSE worker' = Message("idle", NoUrl) /\ done' = done \o result
  /\ UNCHANGED <<window, needs, asker, told, dialog, work, screen, visited, panels, loads, asked>>

\* on_exit, while questions are asked, shown and under way.
OnExit ==
  /\ Drawn /\ window' = "leaving" /\ work' = Append(work, Message("quit", NoUrl))
  /\ UNCHANGED <<needs, asker, told, dialog, worker, done, screen, visited, panels, loads, asked>>

\* App is dropped, and the questions with it.
AppDropped ==
  /\ window = "leaving" /\ window' = "gone"
  /\ asks' = <<>> /\ modal' = NoUrl /\ done' = <<>>
  /\ UNCHANGED <<needs, asker, told, reply, decided, work, worker, screen, visited, panels, loads, asked>>

WindowNext ==
  \/ StartDrawing \/ StartFails \/ AnswerModal \/ Drain \/ LoadPage \/ BackPage \/ ReloadPage \/ TypeText
  \/ TakeJob \/ FinishJob \/ OnExit \/ AppDropped
  \/ \E a \in Askers : AskWindow(a) \/ PostAsk(a) \/ HearAnswer(a)
  \/ \E kind \in {"stats", "peers"} : ShowPanel(kind)

-----------------------------------------------------------------------------
Quiet == /\ Drawn /\ worker.kind # "load"
         /\ \A i \in DOMAIN work : work[i].kind # "load"
         /\ \A i \in DOMAIN done : done[i].kind \notin {"loaded", "failed"}

\* The window answers for the person and for the network, and confuses nothing: consent that an
\* asker hears is the person's, to its own question, though questions that nobody waits for any
\* more are still on screen; and once nothing is under way, what was asked for last is shown, as
\* a page or as an error, and nothing is said to be loading.
WindowHonest ==
  /\ \A a \in Askers : told[a] = "yes" => decided[a] = "yes"
  /\ Quiet /\ asked # NoUrl =>
       /\ ~screen.loading
       /\ screen.error = asked \/ (screen.error = NoUrl /\ screen.page = asked)

WindowSpec == WindowInit /\ [][WindowNext]_readerWindow
=============================================================================
