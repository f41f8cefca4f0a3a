---------------------------- MODULE AgentControl ----------------------------
(***************************************************************************)
(* Programs that drive the application's tabs: the socket, a thread for    *)
(* each connection, and the main thread that asks the person and does what *)
(* was allowed.  crates/syndeo-app/src/control_macos.rs and agent.rs.      *)
(*                                                                         *)
(* The main thread does one job at a time; a prompt is a loop of its own   *)
(* in which other jobs may run, as the code allows for.  Jobs of a         *)
(* connection stay in order; across connections the model orders them      *)
(* freely, which is more than the main queue does.  A window is a tab, and *)
(* a tab's number is never used again.                                     *)
(***************************************************************************)
EXTENDS Naturals, Sequences, FiniteSets

CONSTANTS
  Conns,        \* connections, each a number that is used once
  Agents,       \* AgentKey: the processes the person is asked about
  AgentOf,      \* the agent that root_of finds behind a connection
  MaxTabs,      \* bound on the tabs opened for agents
  Says,         \* the commands that a connection's clients send
  MaxRequests,  \* bound on the requests of each connection
  MaxStops,     \* bound on how often the person stops an agent
  MaxConnections,
  Nobody

Scopes == {"read", "navigate", "act", "script"}

\* Scopes::parse_list: hello asks for one scope at least, and never for script.
HelloScopes == SUBSET (Scopes \ {"script"}) \ {{}}

TabNumbers == 1 .. MaxTabs

\* Command, parse_request, command: what a line that could be read asks.  A page command is
\* any that acts in a page and is answered by it.
Commands ==
  [name : {"hello"}, scopes : HelloScopes] \cup [name : {"request"}, scope : Scopes]
    \cup [name : {"status", "open"}]
    \cup [name : {"goto", "close", "wait", "read", "click", "eval"}, tab : TabNumbers]

ASSUME ControlAssumption ==
  /\ AgentOf \in [Conns -> Agents] /\ MaxTabs \in Nat
  /\ MaxRequests \in [Conns -> Nat] /\ MaxStops \in Nat /\ Says \in [Conns -> SUBSET Commands]
  /\ MaxConnections \in Nat /\ Nobody \notin Agents

\* Command::needs.
Needs(command) ==
  CASE command.name \in {"hello", "request", "status"} -> {}
    [] command.name \in {"read", "wait"} -> {"read"}
    [] command.name \in {"open", "goto", "close"} -> {"navigate"}
    [] command.name = "click" -> {"act"}
    [] OTHER -> {"script"}

VARIABLES
  setting,    \* the person turned agents on, as it is kept
  serving,    \* Control.server is there
  mine,       \* the connections the present server counts as its own
  thread,     \* a connection's thread: where it is, and the request it is at
  stream,     \* a connection's socket is open
  jobs,       \* what a connection's thread handed to the main thread
  conns, allowed, once,        \* Control.conns
  agents, session,             \* Control.agents
  tabs, nextTab,               \* Control.tabs
  waiting, showing,            \* prompts that wait, and the one that shows
  denied,     \* agents refused less than AFTER_DENIAL ago
  awake,      \* Control.activity
  pages,      \* what runs in pages now, and will answer
  stops,      \* how often the person stopped an agent (history)
  since,      \* that count when the prompt of its session's leave was shown (history)
  shownAt     \* the same for the prompt that shows now (history)

person == <<waiting, showing, denied>>
held == <<conns, allowed, once, agents, session, awake>>
sockets == <<thread, stream, jobs, mine>>
history == <<stops, since, shownAt>>
control == <<setting, serving, sockets, held, tabs, nextTab, person, pages, history>>

\* What a connection's thread does, and the request it is at.
Thread == [at : {"none", "idle", "waiting", "wait", "settling", "answer", "gone"},
           request : Nat, tab : 0 .. MaxTabs, done : BOOLEAN]

\* What a thread has the main thread do: its connection came, or ended, or asks something.
HandedOver ==
  [job : {"connected", "closed"}, command : {<<>>}, request : {0}]
    \cup [job : {"request"}, command : Commands, request : Nat]

\* Ask: what the person is asked.
Asking == [conn : Conns, scopes : SUBSET Scopes, hello : BOOLEAN, request : Nat]

ControlType ==
  /\ setting \in BOOLEAN /\ serving \in BOOLEAN /\ mine \subseteq Conns
  /\ thread \in [Conns -> Thread] /\ stream \in [Conns -> BOOLEAN]
  /\ jobs \in [Conns -> Seq(HandedOver)]
  /\ conns \subseteq Conns /\ allowed \subseteq Conns /\ once \in [Conns -> SUBSET Scopes]
  /\ agents \subseteq Agents /\ session \in [Agents -> SUBSET Scopes]
  /\ tabs \in [TabNumbers -> Agents \cup {Nobody}] /\ nextTab \in 1 .. MaxTabs + 1
  /\ waiting \in Seq(Asking) /\ showing \in Seq(Asking) /\ denied \subseteq Agents
  /\ awake \in BOOLEAN /\ stops \in [Agents -> Nat] /\ since \in [Agents -> Nat]
  /\ shownAt \in Nat

ControlInit ==
  /\ setting \in BOOLEAN /\ serving = setting /\ mine = {}
  /\ thread = [c \in Conns |-> [at |-> "none", request |-> 0, tab |-> 0, done |-> FALSE]]
  /\ stream = [c \in Conns |-> FALSE] /\ jobs = [c \in Conns |-> <<>>]
  /\ conns = {} /\ allowed = {} /\ once = [c \in Conns |-> {}]
  /\ agents = {} /\ session = [a \in Agents |-> {}]
  /\ tabs = [t \in TabNumbers |-> Nobody] /\ nextTab = 1
  /\ waiting = <<>> /\ showing = <<>> /\ denied = {} /\ awake = FALSE /\ pages = {}
  /\ stops = [a \in Agents |-> 0] /\ since = [a \in Agents |-> 0]
  /\ shownAt = 0

-----------------------------------------------------------------------------
\* A connection's thread.

\* A thread that goes on to its next place, with what its request came to.
Goes(was, at, done) == [was EXCEPT !.at = at, !.done = done]

\* dispatch: a job for the main thread.
Dispatch(c, job) == jobs' = [jobs EXCEPT ![c] = Append(@, job)]

Live == {c \in mine : thread[c].at # "gone"}

\* accept, and the start of serve: of another user's program nothing is read; beyond
\* MAX_CONNECTIONS a connection is told so and dropped.
Accept(c) ==
  /\ serving /\ thread[c].at = "none"
  /\ IF Cardinality(Live) >= MaxConnections
     THEN /\ thread' = [thread EXCEPT ![c] = Goes(thread[c], "gone", FALSE)]
          /\ UNCHANGED <<stream, jobs, mine>>
     ELSE \/ /\ thread' = [thread EXCEPT ![c] = Goes(thread[c], "gone", FALSE)]      \* other_user
             /\ UNCHANGED <<stream, jobs, mine>>
          \/ /\ thread' = [thread EXCEPT ![c] = Goes(thread[c], "idle", FALSE)]
             /\ stream' = [stream EXCEPT ![c] = TRUE] /\ mine' = mine \cup {c}
             /\ Dispatch(c, [job |-> "connected", command |-> <<>>, request |-> 0])
  /\ UNCHANGED <<setting, serving, held, tabs, nextTab, person, pages, history>>

\* A thread that waits for what the main thread says to its request.
Waiting(was, n) == [was EXCEPT !.at = "waiting", !.request = n]

\* A thread that waits until its tab has settled.
WaitsIn(n, tab) == [at |-> "wait", request |-> n, tab |-> tab, done |-> FALSE]

\* serve, perform: a line that is too long, is not text, comes too fast or does not parse is
\* answered at once and changes nothing; any other goes to the main thread, and the thread
\* waits.  Wait is made of probes alone.
Say(c) ==
  /\ thread[c].at = "idle" /\ stream[c] /\ thread[c].request < MaxRequests[c]
  /\ \E command \in Says[c] :
       LET n == thread[c].request + 1 IN
       IF command.name = "wait"
       THEN /\ thread' = [thread EXCEPT ![c] = WaitsIn(n, command.tab)]
            /\ UNCHANGED jobs
       ELSE /\ thread' = [thread EXCEPT ![c] = Waiting(thread[c], n)]
            /\ Dispatch(c, [job |-> "request", command |-> command, request |-> n])
  /\ UNCHANGED <<setting, serving, mine, stream, held, tabs, nextTab, person, pages, history>>

\* recv_timeout gives up after ASK_LIMIT or ANSWER_LIMIT: what the main thread answers later
\* goes nowhere, and what it does later is done all the same.
TimeOut(c) ==
  /\ thread[c].at = "waiting"
  /\ thread' = [thread EXCEPT ![c] = Goes(thread[c], "answer", FALSE)]
  /\ UNCHANGED <<setting, serving, mine, stream, jobs, held, tabs, nextTab, person, pages,
                 history>>

\* settle, probe: each look at the tab is a job, refused once the connection or the tab is
\* gone; it ends when the page has settled or the time is over.  Only Wait needs the read
\* scope.
Probe(c) ==
  /\ thread[c].at \in {"wait", "settling"} /\ jobs[c] = <<>>
  /\ LET found == /\ c \in conns /\ c \in allowed
                  /\ thread[c].at = "wait" => "read" \in once[c] \cup session[AgentOf[c]]
                  /\ tabs[thread[c].tab] = AgentOf[c]
     IN thread' = [thread EXCEPT ![c] = Goes(thread[c], "answer", found)]
  /\ UNCHANGED <<setting, serving, mine, stream, jobs, held, tabs, nextTab, person, pages,
                 history>>

\* write: the answer, to a client that is there or to nobody.
Answer(c) ==
  /\ thread[c].at = "answer"
  /\ LET next == IF stream[c] THEN "idle" ELSE "gone"
     IN thread' = [thread EXCEPT ![c] = Goes(thread[c], next, FALSE)]
  /\ IF stream[c] THEN UNCHANGED jobs
     ELSE Dispatch(c, [job |-> "closed", command |-> <<>>, request |-> 0])
  /\ UNCHANGED <<setting, serving, mine, stream, held, tabs, nextTab, person, pages, history>>

\* The client says bye or closes its end, or the main thread shut the socket down: serve ends.
End(c) ==
  /\ thread[c].at = "idle"
  /\ thread' = [thread EXCEPT ![c] = Goes(thread[c], "gone", FALSE)] /\ stream' = [stream EXCEPT ![c] = FALSE]
  /\ Dispatch(c, [job |-> "closed", command |-> <<>>, request |-> 0])
  /\ UNCHANGED <<setting, serving, mine, held, tabs, nextTab, person, pages, history>>

-----------------------------------------------------------------------------
\* Jobs on the main thread.

\* A thread that was told: a goto or an open that was done may have its tab settle first.
Told(was, done, tab) ==
  [was EXCEPT !.at = IF done /\ tab # 0 THEN "settling" ELSE "answer",
              !.done = done /\ tab = 0, !.tab = tab]

\* The thread of request n of c hears, unless it stopped waiting for it.
Replied(c, n, done, tab) ==
  IF thread[c].at = "waiting" /\ thread[c].request = n
  THEN [thread EXCEPT ![c] = Told(thread[c], done, tab)] ELSE thread

Reply(c, n, done) == thread' = Replied(c, n, done, 0)

Job(c, name) ==
  /\ jobs[c] # <<>> /\ Head(jobs[c]).job = name
  /\ jobs' = [jobs EXCEPT ![c] = Tail(@)]

\* connected: shut at once if agents are off; else its agent is known from now on.
Connected(c) ==
  /\ Job(c, "connected")
  /\ IF ~serving
     THEN /\ stream' = [stream EXCEPT ![c] = FALSE] /\ UNCHANGED <<held, history>>
     ELSE /\ agents' = agents \cup {AgentOf[c]}
          /\ session' = IF AgentOf[c] \in agents THEN session
                        ELSE [session EXCEPT ![AgentOf[c]] = {}]
          /\ conns' = conns \cup {c} /\ allowed' = allowed \ {c}
          /\ once' = [once EXCEPT ![c] = {}] /\ awake' = TRUE
          /\ UNCHANGED <<stream, history>>
  /\ UNCHANGED <<setting, serving, mine, thread, tabs, nextTab, person, pages>>

\* release_tabs.
Released(a) == [t \in TabNumbers |-> IF tabs[t] = a THEN Nobody ELSE tabs[t]]

\* awake: the Mac is kept awake no longer than a connection is left.
Sleeps(left) == awake' = (awake /\ left # {})

\* A connection that ends, after which its agent is never forgotten.
IsNeverDone(a, left) == FALSE

\* forget_if_done's condition.
IsDone(a, left) == (\A d \in left : AgentOf[d] # a) /\ session[a] = {}

\* closed, forget_if_done: an agent with no connection left and nothing for the session.
Closed(c) ==
  /\ Job(c, "closed")
  /\ LET a == AgentOf[c]
         done == IsDone(a, conns \ {c})
     IN IF c \notin conns THEN UNCHANGED <<held, tabs>>
        ELSE /\ conns' = conns \ {c} /\ allowed' = allowed \ {c}
             /\ once' = [once EXCEPT ![c] = {}]
             /\ agents' = IF done THEN agents \ {a} ELSE agents
             /\ tabs' = IF done THEN Released(a) ELSE tabs
             /\ Sleeps(conns \ {c})
             /\ UNCHANGED session
  /\ UNCHANGED <<setting, serving, mine, thread, stream, nextTab, person, pages, history>>

Granted(c) == once[c] \cup session[AgentOf[c]]

\* Scopes::covers.
Covers(granted, scopes) == scopes \subseteq granted

\* allowed: only a hello makes its connection an allowed one.
Allow(ask) == allowed' = IF ask.hello THEN allowed \cup {ask.conn} ELSE allowed

\* request, ask: what is already covered is allowed at once; anything else waits its turn.
AskPerson(c, scopes, hello, n) ==
  LET ask == [conn |-> c, scopes |-> scopes, hello |-> hello, request |-> n] IN
  IF Covers(Granted(c), scopes)
  THEN /\ Allow(ask) /\ Reply(c, n, TRUE) /\ UNCHANGED waiting
  ELSE /\ waiting' = Append(waiting, ask) /\ UNCHANGED <<allowed, thread>>

\* tab: an agent finds the tabs that are its own.
Reaches(c, t) == tabs[t] = AgentOf[c]

\* adopt: a number, for a new tab of the agent's.
Adopt(a) == nextTab \in TabNumbers /\ tabs' = [tabs EXCEPT ![nextTab] = a] /\ nextTab' = nextTab + 1

\* open: a tab of the agent's own.
Open(c, n) ==
  /\ Adopt(AgentOf[c])
  /\ \E waits \in BOOLEAN : thread' = Replied(c, n, TRUE, IF waits THEN nextTab ELSE 0)
  /\ UNCHANGED pages

\* open without a web view, or with an address that is not the web's.
OpenRefused(c, n) == Reply(c, n, FALSE) /\ UNCHANGED <<tabs, nextTab, pages>>

\* step, in_world, screenshot: in the page, which answers when it is done.
InPage(c, command, n) ==
  /\ pages' = pages \cup {[conn |-> c, request |-> n, tab |-> command.tab,
                           scope |-> CHOOSE s \in Needs(command) : TRUE]}
  /\ UNCHANGED <<tabs, thread>>

\* command, goto: in a tab the agent reaches, or refused.
InTab(c, command, n) ==
  /\ UNCHANGED nextTab
  /\ IF ~Reaches(c, command.tab)
     THEN Reply(c, n, FALSE) /\ UNCHANGED <<tabs, pages>>
     ELSE CASE command.name = "close" ->
               /\ tabs' = [tabs EXCEPT ![command.tab] = Nobody]
               /\ Reply(c, n, TRUE) /\ UNCHANGED pages
            [] command.name = "goto" ->
               /\ \/ Reply(c, n, FALSE)      \* not an address of the web
                  \/ \E waits \in BOOLEAN :
                       thread' = Replied(c, n, TRUE, IF waits THEN command.tab ELSE 0)
               /\ UNCHANGED <<tabs, pages>>
            [] OTHER -> InPage(c, command, n)

\* request: revoked, not_approved and not_granted change nothing.
Do(c, command, n) ==
  IF c \notin conns \/ (c \notin allowed /\ command.name # "hello")
       \/ (command.name = "hello" /\ c \in allowed) \/ ~(Needs(command) \subseteq Granted(c))
  THEN Reply(c, n, FALSE) /\ UNCHANGED <<allowed, waiting, tabs, nextTab, pages>>
  ELSE CASE command.name = "hello" ->
              AskPerson(c, command.scopes, TRUE, n) /\ UNCHANGED <<tabs, nextTab, pages>>
         [] command.name = "request" ->
              AskPerson(c, {command.scope}, FALSE, n) /\ UNCHANGED <<tabs, nextTab, pages>>
         [] command.name = "status" ->
              Reply(c, n, TRUE) /\ UNCHANGED <<allowed, waiting, tabs, nextTab, pages>>
         [] command.name = "open" ->
              (Open(c, n) \/ OpenRefused(c, n)) /\ UNCHANGED <<allowed, waiting>>
         [] OTHER -> InTab(c, command, n) /\ UNCHANGED <<allowed, waiting>>

Request(c) ==
  /\ Job(c, "request")
  /\ Do(c, Head(jobs[c]).command, Head(jobs[c]).request)
  /\ UNCHANGED <<setting, serving, mine, stream, conns, once, agents, session, awake, showing, denied, history>>

\* run's handler: the page answered, or could not.
PageDone ==
  \E p \in pages : \E done \in BOOLEAN :
    /\ pages' = pages \ {p} /\ Reply(p.conn, p.request, done)
    /\ UNCHANGED <<setting, serving, mine, stream, jobs, held, tabs, nextTab, person, history>>

-----------------------------------------------------------------------------
\* The person.

\* ask's loop, answer up to its prompt: the next in turn is asked about, or need not be.
Take ==
  /\ showing = <<>> /\ waiting # <<>> /\ waiting' = Tail(waiting)
  /\ LET ask == Head(waiting)
         a == AgentOf[ask.conn]
     IN IF ask.conn \notin conns \/ (~Covers(Granted(ask.conn), ask.scopes) /\ a \in denied)
        THEN Reply(ask.conn, ask.request, FALSE) /\ UNCHANGED <<allowed, showing, shownAt>>
        ELSE IF Covers(Granted(ask.conn), ask.scopes)
        THEN Allow(ask) /\ Reply(ask.conn, ask.request, TRUE) /\ UNCHANGED <<showing, shownAt>>
        ELSE /\ showing' = <<ask>> /\ shownAt' = stops[a] /\ UNCHANGED <<allowed, thread>>
  /\ UNCHANGED <<setting, serving, mine, stream, jobs, conns, once, agents, session, awake, tabs, nextTab, denied, pages, stops, since>>

\* The answer taken without looking whether the connection is still there.
AskedAnyway(ask) == TRUE

\* answer: the connection is looked for again once the person has answered.
Asked(ask) == ask.conn \in conns

\* answer after its prompt.
Answered(said) ==
  /\ showing # <<>> /\ showing' = <<>>
  /\ LET ask == Head(showing)
         a == AgentOf[ask.conn]
     IN IF ~Asked(ask)
        THEN Reply(ask.conn, ask.request, FALSE) /\ UNCHANGED <<denied, once, session, allowed, since>>
        ELSE CASE said = "deny" ->
                  /\ denied' = denied \cup {a} /\ Reply(ask.conn, ask.request, FALSE)
                  /\ UNCHANGED <<once, session, allowed, since>>
               [] said = "once" ->
                  /\ once' = [once EXCEPT ![ask.conn] = @ \cup ask.scopes]
                  /\ Allow(ask) /\ Reply(ask.conn, ask.request, TRUE)
                  /\ UNCHANGED <<denied, session, since>>
               [] OTHER ->
                  /\ session' = IF a \in agents THEN [session EXCEPT ![a] = @ \cup ask.scopes]
                                ELSE session
                  /\ since' = [since EXCEPT ![a] = shownAt]
                  /\ Allow(ask) /\ Reply(ask.conn, ask.request, TRUE)
                  /\ UNCHANGED <<denied, once>>
  /\ UNCHANGED <<setting, serving, mine, stream, jobs, conns, agents, awake, tabs, nextTab, waiting, pages, stops, shownAt>>

\* AFTER_DENIAL has passed.
Forgive(a) ==
  /\ a \in denied /\ denied' = denied \ {a}
  /\ UNCHANGED <<setting, serving, sockets, held, tabs, nextTab, waiting, showing, pages,
                 history>>

\* revoke's stream.shutdown(Both).
Shutdown(shut) == stream' = [c \in Conns |-> stream[c] /\ c \notin shut]

\* revoke, of each of these agents: their connections are shut, their tabs are the person's.
Revoke(gone) ==
  LET shut == {c \in conns : AgentOf[c] \in gone} IN
  /\ conns' = conns \ shut /\ allowed' = allowed \ shut
  /\ once' = [c \in Conns |-> IF c \in shut THEN {} ELSE once[c]]
  /\ Shutdown(shut)
  /\ agents' = agents \ gone
  /\ session' = [a \in Agents |-> IF a \in gone THEN {} ELSE session[a]]
  /\ tabs' = [t \in TabNumbers |-> IF tabs[t] \in gone THEN Nobody ELSE tabs[t]]
  /\ Sleeps(conns \ shut)
  /\ stops' = [a \in Agents |-> stops[a] + (IF a \in gone THEN 1 ELSE 0)]
  /\ UNCHANGED <<nextTab, since, shownAt>>

\* stop_agent: Stop in a tab or Revoke in Agent Access, by the number it shows, and Revoke All.
StopAgents(gone) ==
  /\ gone # {} /\ gone \subseteq agents /\ \A a \in gone : stops[a] < MaxStops
  /\ Revoke(gone)
  /\ UNCHANGED <<setting, serving, mine, thread, jobs, person, pages>>

\* switch: on, or on and failing to bind.
SwitchOn ==
  /\ ~serving
  /\ \E works \in BOOLEAN : setting' = works /\ serving' = works
  /\ mine' = {}
  /\ UNCHANGED <<thread, stream, jobs, held, tabs, nextTab, person, pages, history>>

\* switch off, stop_serving.
SwitchOff ==
  /\ serving /\ setting' = FALSE /\ serving' = FALSE
  /\ \A a \in agents : stops[a] < MaxStops
  /\ Revoke(agents)
  /\ UNCHANGED <<mine, thread, jobs, person, pages>>

\* window_closed: the person closed a tab of an agent's.
WindowClosed(t) ==
  /\ tabs[t] # Nobody /\ tabs' = [tabs EXCEPT ![t] = Nobody]
  /\ UNCHANGED <<setting, serving, sockets, held, nextTab, person, pages, history>>

\* opened_beside: a page in an agent's tab opened another, which is the agent's too.
OpenedBeside(t) ==
  /\ tabs[t] # Nobody /\ Adopt(tabs[t])
  /\ UNCHANGED <<setting, serving, sockets, held, person, pages, history>>

ControlNext ==
  \/ \E c \in Conns : \/ Accept(c) \/ Say(c) \/ TimeOut(c) \/ Probe(c) \/ Answer(c) \/ End(c)
                      \/ Connected(c) \/ Closed(c) \/ Request(c)
  \/ PageDone \/ Take
  \/ \E said \in {"deny", "once", "session"} : Answered(said)
  \/ \E a \in Agents : Forgive(a) \/ StopAgents({a})
  \/ StopAgents(agents) \/ SwitchOn \/ SwitchOff
  \/ \E t \in TabNumbers : WindowClosed(t) \/ OpenedBeside(t)

-----------------------------------------------------------------------------
\* What the person stopped stays stopped: leave for the session that an agent holds was
\* given in answer to a prompt that was put up after the last time the person stopped it,
\* whatever was asked before, waited in the queue or showed meanwhile.
StopIsFinal == \A a \in Agents : session[a] # {} => since[a] = stops[a]

\* Tabs say that an agent is in control only while one may be: its agent is connected or
\* holds leave for the session.  And with agents off there is no connection, no agent, no
\* tab of one, and nothing that keeps the Mac awake; with them on, the Mac is kept awake
\* exactly while a connection is open.
ControlledWhileHeld ==
  /\ \A t \in TabNumbers : tabs[t] # Nobody =>
       (\E c \in conns : AgentOf[c] = tabs[t]) \/ session[tabs[t]] # {}
  /\ ~serving => conns = {} /\ agents = {}
  /\ awake = (conns # {})

ControlSpec == ControlInit /\ [][ControlNext]_control
=============================================================================
