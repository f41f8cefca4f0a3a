---------------------------- MODULE ControlProofs ----------------------------
(***************************************************************************)
(* The application, for any number of windows, sites and connections.      *)
(* Programs that drive its tabs: what the person stopped stays stopped,    *)
(* and a tab says that an agent controls it only while one may.  Windows   *)
(* that load pages: none is loaded again for ever, and the address bar     *)
(* says what is on screen.  The reader's window: an answer is the          *)
(* person's, and what was asked for last is what is shown in the end.  And *)
(* windows and their tabs: what is kept when they are closed is the        *)
(* person's.                                                               *)
(***************************************************************************)
EXTENDS AgentControl, Browser, ReaderWindow, Windows, FiniteSetTheorems, WellFoundedInduction, TLAPS

\* A connection that the main thread has not heard of yet.
Unheard(c) ==
  thread[c].at = "none" \/ (jobs[c] # <<>> /\ jobs[c][1].job = "connected")

\* A connection hands nothing over before it is there, and says that it is there first.
SaysItFirst(c) ==
  /\ thread[c].at = "none" => jobs[c] = <<>>
  /\ \A i \in 2 .. Len(jobs[c]) : jobs[c][i].job # "connected"

\* A connection not heard of yet is none of the application's, and nobody is asked for it.
AsksLater(c) ==
  Unheard(c) => /\ c \notin conns
                /\ \A i \in DOMAIN waiting : waiting[i].conn # c
                /\ \A i \in DOMAIN showing : showing[i].conn # c

\* A connection's agent is one of the application's.
Known == \A c \in conns : AgentOf[c] \in agents

\* The prompt that shows was put up after its agent was last stopped, or its connection went.
ShownSince == showing # <<>> /\ showing[1].conn \in conns =>
                shownAt = stops[AgentOf[showing[1].conn]]

Heard == \A c \in Conns : SaysItFirst(c) /\ AsksLater(c)
ControlInv == ControlType /\ Heard /\ Known /\ ShownSince /\ ControlledWhileHeld /\ StopIsFinal

\* A command says what its name says it does.
LEMMA CommandSays ==
  ASSUME NEW command \in Commands
  PROVE  /\ command.name = "hello" => command.scopes \in SUBSET Scopes
         /\ command.name = "request" => command.scope \in Scopes
         /\ command.name \in {"goto", "close", "wait", "read", "click", "eval"} =>
              command.tab \in TabNumbers
         /\ command.name \in {"hello", "request", "status", "open", "goto", "close", "wait",
                              "read", "click", "eval"}
BY DEF Commands, HelloScopes

LEMMA GoesType ==
  ASSUME NEW was \in Thread, NEW carried \in BOOLEAN,
         NEW place \in {"none", "idle", "waiting", "wait", "settling", "answer", "gone"}
  PROVE  Goes(was, place, carried) \in Thread /\ Goes(was, place, carried).at = place
BY DEF Goes, Thread

LEMMA WaitingType ==
  ASSUME NEW was \in Thread, NEW n \in Nat
  PROVE  Waiting(was, n) \in Thread /\ Waiting(was, n).at = "waiting"
BY DEF Waiting, Thread

\* Threads go on, and none that was not there comes to be.
ThreadsMove ==
  /\ thread' \in [Conns -> Thread]
  /\ \A d \in Conns : (thread'[d].at = "none") <=> (thread[d].at = "none")

\* What is spoken to a thread moves it from where it waits.
LEMMA RepliedMoves ==
  ASSUME ControlType, NEW c, NEW n, NEW carried \in BOOLEAN, NEW nr \in 0 .. MaxTabs,
         thread' = Replied(c, n, carried, nr)
  PROVE  ThreadsMove
<1> USE DEF ThreadsMove
<1> DEFINE answered == Told(thread[c], carried, nr)
<1>1. CASE c \in Conns /\ thread[c].at = "waiting" /\ thread[c].request = n
  <2>1. answered \in Thread /\ answered.at # "none"
    <3>1. thread[c] \in Thread
      BY <1>1 DEF ControlType
    <3> QED
      BY <3>1, ControlAssumption DEF Told, Thread
  <2> HIDE DEF answered
  <2>2. Replied(c, n, carried, nr) = [thread EXCEPT ![c] = answered]
    BY <1>1 DEF Replied, answered
  <2> QED
    BY <1>1, <2>1, <2>2 DEF ControlType
<1>2. CASE c \in Conns /\ ~(thread[c].at = "waiting" /\ thread[c].request = n)
  BY <1>2 DEF Replied, ControlType
<1>3. CASE c \notin Conns
  <2>1. [thread EXCEPT ![c] = answered] = thread
    BY <1>3 DEF ControlType
  <2> QED
    BY <2>1 DEF Replied, ControlType
<1> QED
  BY <1>1, <1>2, <1>3

\* A thread that hands something over, and a job that the main thread takes.
LEMMA DispatchType ==
  ASSUME ControlType, NEW c \in Conns, NEW job \in HandedOver, Dispatch(c, job)
  PROVE  jobs' \in [Conns -> Seq(HandedOver)]
BY DEF ControlType, Dispatch

LEMMA JobType ==
  ASSUME ControlType, NEW c \in Conns, NEW name, Job(c, name)
  PROVE  /\ jobs' \in [Conns -> Seq(HandedOver)]
         /\ Head(jobs[c]) \in HandedOver /\ Head(jobs[c]).job = name
BY DEF ControlType, Job

LEMMA ReplyMoves ==
  ASSUME ControlType, NEW c, NEW n, NEW carried \in BOOLEAN, Reply(c, n, carried)
  PROVE  ThreadsMove
<1>1. 0 \in 0 .. MaxTabs
  BY ControlAssumption
<1> QED
  BY <1>1, RepliedMoves DEF Reply

\* Every step of a connection's thread keeps the types.
LEMMA ThreadType ==
  ASSUME ControlType, NEW c \in Conns,
         Accept(c) \/ Say(c) \/ TimeOut(c) \/ Probe(c) \/ Answer(c) \/ End(c)
  PROVE  ControlType'
<1> USE DEF control, held, sockets, person, history
<1>0. /\ [job |-> "connected", command |-> <<>>, request |-> 0] \in HandedOver
      /\ [job |-> "closed", command |-> <<>>, request |-> 0] \in HandedOver
  BY DEF HandedOver
<1>1. CASE Accept(c)
  <2>1. CASE /\ thread' = [thread EXCEPT ![c] = Goes(thread[c], "gone", FALSE)]
             /\ UNCHANGED <<stream, jobs, mine>>
    BY <1>1, <2>1, GoesType DEF Accept, ControlType
  <2>2. CASE /\ thread' = [thread EXCEPT ![c] = Goes(thread[c], "idle", FALSE)]
             /\ stream' = [stream EXCEPT ![c] = TRUE] /\ mine' = mine \cup {c}
             /\ Dispatch(c, [job |-> "connected", command |-> <<>>, request |-> 0])
    <3>1. jobs' \in [Conns -> Seq(HandedOver)]
      BY <1>0, <2>2, DispatchType
    <3>2. thread' \in [Conns -> Thread]
      BY <2>2, GoesType DEF ControlType
    <3> QED
      BY <1>1, <2>2, <3>1, <3>2 DEF Accept, ControlType
  <2> QED
    BY <1>1, <2>1, <2>2 DEF Accept
<1>2. CASE Say(c)
  <2>1. PICK command \in Says[c] :
          LET n == thread[c].request + 1 IN
          IF command.name = "wait"
          THEN /\ thread' = [thread EXCEPT ![c] = WaitsIn(n, command.tab)]
               /\ UNCHANGED jobs
          ELSE /\ thread' = [thread EXCEPT ![c] = Waiting(thread[c], n)]
               /\ Dispatch(c, [job |-> "request", command |-> command, request |-> n])
    BY <1>2 DEF Say
  <2> DEFINE n == thread[c].request + 1
  <2>2. command \in Commands /\ n \in Nat
    BY ControlAssumption DEF ControlType, Thread
  <2>3. WaitsIn(n, command.tab) \in Thread \/ command.name # "wait"
    BY <2>2, CommandSays, ControlAssumption DEF WaitsIn, Thread, TabNumbers
  <2>4. Waiting(thread[c], n) \in Thread
    BY <2>2, WaitingType DEF ControlType
  <2>5. [job |-> "request", command |-> command, request |-> n] \in HandedOver
    BY <2>2 DEF HandedOver
  <2>6. thread' \in [Conns -> Thread]
    BY <2>1, <2>3, <2>4 DEF ControlType
  <2>7. jobs' \in [Conns -> Seq(HandedOver)]
    BY <2>1, <2>5, DispatchType DEF ControlType
  <2> QED
    BY <1>2, <2>6, <2>7 DEF Say, ControlType
<1>3. CASE TimeOut(c)
  BY <1>3, GoesType DEF TimeOut, ControlType
<1>4. CASE Probe(c)
  <2> DEFINE found == /\ c \in conns /\ c \in allowed
                      /\ thread[c].at = "wait" => "read" \in once[c] \cup session[AgentOf[c]]
                      /\ tabs[thread[c].tab] = AgentOf[c]
  <2>1. found \in BOOLEAN
    OBVIOUS
  <2>2. thread' = [thread EXCEPT ![c] = Goes(thread[c], "answer", found)]
    BY <1>4 DEF Probe
  <2> HIDE DEF found
  <2>3. thread' \in [Conns -> Thread]
    BY <2>1, <2>2, GoesType DEF ControlType
  <2> QED
    BY <1>4, <2>3 DEF Probe, ControlType
<1>5. CASE Answer(c)
  <2>1. thread' \in [Conns -> Thread]
    BY <1>5, GoesType DEF Answer, ControlType
  <2>2. jobs' \in [Conns -> Seq(HandedOver)]
    BY <1>0, <1>5, DispatchType DEF Answer, ControlType
  <2> QED
    BY <1>5, <2>1, <2>2 DEF Answer, ControlType
<1>6. CASE End(c)
  <2>1. thread' \in [Conns -> Thread] /\ stream' \in [Conns -> BOOLEAN]
    BY <1>6, GoesType DEF End, ControlType
  <2>2. jobs' \in [Conns -> Seq(HandedOver)]
    BY <1>0, <1>6, DispatchType DEF End
  <2> QED
    BY <1>6, <2>1, <2>2 DEF End, ControlType
<1> QED
  BY <1>1, <1>2, <1>3, <1>4, <1>5, <1>6

\* An agent's next tab, and the tabs of those let go, are somebody's or the person's.
LEMMA AdoptType ==
  ASSUME ControlType, NEW a \in Agents, Adopt(a)
  PROVE  /\ tabs' \in [TabNumbers -> Agents \cup {Nobody}] /\ nextTab' \in 1 .. MaxTabs + 1
         /\ nextTab \in 1 .. MaxTabs
BY ControlAssumption DEF ControlType, Adopt, TabNumbers

\* What is asked of the person keeps the types.
LEMMA AskType ==
  ASSUME ControlType, NEW c \in Conns, NEW scopes \in SUBSET Scopes, NEW hello \in BOOLEAN,
         NEW n \in Nat, AskPerson(c, scopes, hello, n)
  PROVE  /\ ThreadsMove /\ allowed' \subseteq Conns /\ waiting' \in Seq(Asking)
         /\ \/ waiting' = waiting
            \/ \E ask \in Asking : ask.conn = c /\ waiting' = Append(waiting, ask)
<1> DEFINE ask == [conn |-> c, scopes |-> scopes, hello |-> hello, request |-> n]
<1>1. ask \in Asking /\ ask.conn = c
  BY DEF Asking
<1>2. CASE Covers(Granted(c), scopes)
  <2>1. Allow(ask) /\ Reply(c, n, TRUE) /\ waiting' = waiting
    BY <1>2 DEF AskPerson
  <2>2. allowed' \subseteq Conns
    BY <1>1, <2>1 DEF Allow, ControlType
  <2>3. ThreadsMove
    BY <2>1, ReplyMoves
  <2> QED
    BY <2>1, <2>2, <2>3 DEF ControlType
<1>3. CASE ~Covers(Granted(c), scopes)
  <2>1. waiting' = Append(waiting, ask) /\ UNCHANGED <<allowed, thread>>
    BY <1>3 DEF AskPerson
  <2> HIDE DEF ask
  <2> QED
    BY <1>1, <2>1 DEF ControlType, ThreadsMove
<1> QED
  BY <1>2, <1>3

\* The tabs that a request leaves: those there were, or one more for the agent that asks, or
\* one less of its own.
TabsAfter(a) ==
  \/ tabs' = tabs
  \/ \E t \in TabNumbers : tabs' = [tabs EXCEPT ![t] = a]
  \/ \E t \in TabNumbers : tabs' = [tabs EXCEPT ![t] = Nobody]

\* A request keeps the types, makes none of the threads a new one, and lets its agent alone
\* have a tab more, which is connected.
LEMMA RequestMoves ==
  ASSUME ControlType, NEW c \in Conns, Request(c)
  PROVE  /\ ControlType' /\ ThreadsMove
         /\ \/ waiting' = waiting
            \/ \E ask \in Asking : ask.conn = c /\ waiting' = Append(waiting, ask)
         /\ tabs' = tabs \/ (c \in conns /\ TabsAfter(AgentOf[c]))
<1> DEFINE command == Head(jobs[c]).command
           n == Head(jobs[c]).request
<1>1. command \in Commands /\ n \in Nat /\ jobs' \in [Conns -> Seq(HandedOver)]
  BY JobType DEF Request, HandedOver
<1>2. Do(c, command, n)
  BY DEF Request
<1>a. AgentOf[c] \in Agents /\ 0 \in 0 .. MaxTabs
  BY ControlAssumption
<1> HIDE DEF command, n
<1> DEFINE Asks == \/ waiting' = waiting
                   \/ \E ask \in Asking : ask.conn = c /\ waiting' = Append(waiting, ask)
           TypeOK == /\ allowed' \subseteq Conns /\ waiting' \in Seq(Asking)
                    /\ tabs' \in [TabNumbers -> Agents \cup {Nobody}]
                    /\ nextTab' \in 1 .. MaxTabs + 1
           Done == ThreadsMove /\ TypeOK /\ Asks /\ (tabs' = tabs \/ TabsAfter(AgentOf[c]))
<1>3. ASSUME Done
      PROVE  ControlType'
  BY <1>1, <1>3 DEF Request, ControlType, ThreadsMove, control, held, history
<1>4. ASSUME NEW carried \in BOOLEAN, Reply(c, n, carried), UNCHANGED <<allowed, waiting, tabs, nextTab>>
      PROVE  Done
  <2>1. ThreadsMove
    BY <1>4, ReplyMoves
  <2> HIDE DEF ThreadsMove
  <2> QED
    BY <1>4, <2>1 DEF ControlType
<1>5. CASE c \notin conns \/ (c \notin allowed /\ command.name # "hello")
           \/ (command.name = "hello" /\ c \in allowed) \/ ~(Needs(command) \subseteq Granted(c))
  <2>1. Reply(c, n, FALSE) /\ UNCHANGED <<allowed, waiting, tabs, nextTab>>
    BY <1>2, <1>5 DEF Do
  <2> QED
    BY <1>3, <1>4, <2>1
<1>6. CASE ~(c \notin conns \/ (c \notin allowed /\ command.name # "hello")
           \/ (command.name = "hello" /\ c \in allowed) \/ ~(Needs(command) \subseteq Granted(c)))
  <2>1. CASE command.name = "hello"
    <3>1. AskPerson(c, command.scopes, TRUE, n) /\ UNCHANGED <<tabs, nextTab>>
      BY <1>2, <1>6, <2>1 DEF Do
    <3> QED
      BY <1>1, <1>3, <2>1, <3>1, AskType, CommandSays DEF ControlType
  <2>2. CASE command.name = "request"
    <3>1. AskPerson(c, {command.scope}, FALSE, n) /\ UNCHANGED <<tabs, nextTab>>
      BY <1>2, <1>6, <2>2 DEF Do
    <3>2. {command.scope} \in SUBSET Scopes
      BY <1>1, <2>2, CommandSays
    <3> QED
      BY <1>1, <1>3, <3>1, <3>2, AskType DEF ControlType
  <2>3. CASE command.name = "status"
    <3>1. Reply(c, n, TRUE) /\ UNCHANGED <<allowed, waiting, tabs, nextTab>>
      BY <1>2, <1>6, <2>3 DEF Do
    <3> QED
      BY <1>3, <1>4, <3>1
  <2>4. CASE command.name = "open"
    <3>1. (Open(c, n) \/ OpenRefused(c, n)) /\ UNCHANGED <<allowed, waiting>>
      BY <1>2, <1>6, <2>4 DEF Do
    <3>2. CASE OpenRefused(c, n)
      BY <1>3, <1>4, <1>6, <3>1, <3>2 DEF OpenRefused
    <3>3. CASE Open(c, n)
      <4>1. Adopt(AgentOf[c])
        BY <3>3 DEF Open
      <4>2. PICK waits \in BOOLEAN : thread' = Replied(c, n, TRUE, IF waits THEN nextTab ELSE 0)
        BY <3>3 DEF Open
      <4>3. (IF waits THEN nextTab ELSE 0) \in 0 .. MaxTabs
        BY <1>a, <4>1, AdoptType, ControlAssumption
      <4>4. TabsAfter(AgentOf[c])
        BY <4>1 DEF Adopt, TabsAfter
      <4>5. ThreadsMove
        BY <4>2, <4>3, RepliedMoves
      <4> HIDE DEF TabsAfter
      <4> QED
        BY <1>a, <1>3, <1>6, <3>1, <4>1, <4>4, <4>5, AdoptType DEF ControlType
    <3> QED
      BY <3>1, <3>2, <3>3
  <2>5. CASE command.name \notin {"hello", "request", "status", "open"}
    <3>1. InTab(c, command, n) /\ UNCHANGED <<allowed, waiting>>
      BY <1>2, <1>6, <2>5 DEF Do
    <3>2. command.tab \in TabNumbers /\ nextTab' = nextTab
      BY <1>1, <2>5, <3>1, CommandSays DEF InTab
    <3>3. CASE ~Reaches(c, command.tab)
      BY <1>3, <1>4, <1>6, <3>1, <3>3 DEF InTab
    <3>4. CASE Reaches(c, command.tab) /\ command.name = "close"
      <4>1. tabs' = [tabs EXCEPT ![command.tab] = Nobody] /\ Reply(c, n, TRUE)
        BY <3>1, <3>4 DEF InTab
      <4>2. TabsAfter(AgentOf[c]) /\ tabs' \in [TabNumbers -> Agents \cup {Nobody}]
        BY <3>2, <4>1 DEF TabsAfter, ControlType
      <4>3. ThreadsMove
        BY <4>1, ReplyMoves
      <4> HIDE DEF TabsAfter
      <4> QED
        BY <1>3, <1>6, <3>1, <3>2, <4>1, <4>2, <4>3 DEF ControlType
    <3>5. CASE Reaches(c, command.tab) /\ command.name = "goto"
      <4>1. /\ UNCHANGED tabs
            /\ Reply(c, n, FALSE) \/ \E waits \in BOOLEAN :
                 thread' = Replied(c, n, TRUE, IF waits THEN command.tab ELSE 0)
        BY <3>1, <3>5 DEF InTab
      <4>2. \A waits \in BOOLEAN : (IF waits THEN command.tab ELSE 0) \in 0 .. MaxTabs
        BY <1>a, <3>2, ControlAssumption DEF TabNumbers
      <4>3. ThreadsMove
        BY <4>1, <4>2, ReplyMoves, RepliedMoves
      <4> QED
        BY <1>3, <1>6, <3>1, <3>2, <4>1, <4>3 DEF ControlType
    <3>6. CASE Reaches(c, command.tab) /\ command.name \notin {"close", "goto"}
      <4>1. UNCHANGED <<tabs, thread>>
        BY <3>1, <3>6 DEF InTab, InPage
      <4> QED
        BY <1>3, <1>6, <3>1, <3>2, <4>1 DEF ControlType, ThreadsMove
    <3> QED
      BY <3>3, <3>4, <3>5, <3>6
  <2> QED
    BY <2>1, <2>2, <2>3, <2>4, <2>5
<1> QED
  BY <1>5, <1>6

\* The other jobs of the main thread keep the types.
LEMMA JobsType ==
  ASSUME ControlType, NEW c \in Conns, Connected(c) \/ Closed(c)
  PROVE  ControlType'
<1> USE DEF control, held, sockets, person, history
<1>1. jobs' \in [Conns -> Seq(HandedOver)] /\ AgentOf[c] \in Agents
  BY JobType, ControlAssumption DEF Connected, Closed
<1>2. CASE Connected(c)
  <2>1. CASE ~serving
    BY <1>1, <1>2, <2>1 DEF Connected, ControlType
  <2>2. CASE serving
    BY <1>1, <1>2, <2>2 DEF Connected, ControlType
  <2> QED
    BY <2>1, <2>2
<1>3. CASE Closed(c)
  <2>1. CASE c \notin conns
    BY <1>1, <1>3, <2>1 DEF Closed, ControlType
  <2>2. CASE c \in conns
    <3>1. tabs' \in [TabNumbers -> Agents \cup {Nobody}]
      BY <1>3, <2>2 DEF Closed, ControlType, Released
    <3>2. awake' \in BOOLEAN
      BY <1>3, <2>2 DEF Closed, Sleeps
    <3>3. conns' \subseteq Conns /\ allowed' \subseteq Conns /\ agents' \subseteq Agents
          /\ once' \in [Conns -> SUBSET Scopes] /\ session' = session
      BY <1>3, <2>2 DEF Closed, ControlType
    <3> QED
      BY <1>1, <1>3, <3>1, <3>2, <3>3 DEF Closed, ControlType
  <2> QED
    BY <2>1, <2>2
<1> QED
  BY <1>2, <1>3

LEMMA PersonType ==
  ASSUME ControlType, PageDone \/ Take \/ (\E a \in Agents : Forgive(a))
                        \/ \E spoken \in {"deny", "once", "session"} : Answered(spoken)
  PROVE  ControlType' /\ ThreadsMove
<1> USE DEF control, held, sockets, person, history
<1>0. ASSUME UNCHANGED thread PROVE ThreadsMove
  BY <1>0 DEF ThreadsMove, ControlType
<1>1. CASE PageDone
  <2>1. PICK p \in pages, carried \in BOOLEAN : Reply(p.conn, p.request, carried)
    BY <1>1 DEF PageDone
  <2>2. ThreadsMove
    BY <2>1, ReplyMoves
  <2> QED
    BY <1>1, <2>2 DEF PageDone, ControlType, ThreadsMove
<1>2. CASE Take
  <2> DEFINE ask == Head(waiting)
  <2>1. ask \in Asking /\ waiting' \in Seq(Asking)
    BY <1>2 DEF Take, ControlType
  <2>2. ask.conn \in Conns /\ AgentOf[ask.conn] \in Agents
    BY <2>1, ControlAssumption DEF Asking
  <2>3. CASE ask.conn \notin conns
             \/ (~Covers(Granted(ask.conn), ask.scopes) /\ AgentOf[ask.conn] \in denied)
    <3>1. Reply(ask.conn, ask.request, FALSE) /\ UNCHANGED <<allowed, showing, shownAt>>
      BY <1>2, <2>3 DEF Take
    <3>2. ThreadsMove
      BY <3>1, ReplyMoves
    <3> QED
      BY <1>2, <2>1, <3>1, <3>2 DEF Take, ControlType, ThreadsMove
  <2>4. CASE ~(ask.conn \notin conns
               \/ (~Covers(Granted(ask.conn), ask.scopes) /\ AgentOf[ask.conn] \in denied))
             /\ Covers(Granted(ask.conn), ask.scopes)
    <3>1. Allow(ask) /\ Reply(ask.conn, ask.request, TRUE) /\ UNCHANGED <<showing, shownAt>>
      BY <1>2, <2>4 DEF Take
    <3>2. ThreadsMove
      BY <3>1, ReplyMoves
    <3>3. allowed' \subseteq Conns
      BY <2>2, <3>1 DEF Allow, ControlType
    <3> QED
      BY <1>2, <2>1, <3>1, <3>2, <3>3 DEF Take, ControlType, ThreadsMove
  <2>5. CASE ~(ask.conn \notin conns
               \/ (~Covers(Granted(ask.conn), ask.scopes) /\ AgentOf[ask.conn] \in denied))
             /\ ~Covers(Granted(ask.conn), ask.scopes)
    <3>1. /\ showing' = <<ask>> /\ shownAt' = stops[AgentOf[ask.conn]]
          /\ UNCHANGED <<allowed, thread>>
      BY <1>2, <2>5 DEF Take
    <3>2. showing' \in Seq(Asking) /\ shownAt' \in Nat
      BY <2>1, <2>2, <3>1 DEF ControlType
    <3> QED
      BY <1>0, <1>2, <2>1, <3>1, <3>2 DEF Take, ControlType
  <2> QED
    BY <2>3, <2>4, <2>5
<1>3. CASE \E a \in Agents : Forgive(a)
  BY <1>0, <1>3 DEF Forgive, ControlType
<1>4. ASSUME NEW spoken \in {"deny", "once", "session"}, Answered(spoken)
      PROVE  ControlType' /\ ThreadsMove
  <2> DEFINE ask == Head(showing)
             a == AgentOf[ask.conn]
  <2>1. ask \in Asking /\ showing' \in Seq(Asking)
    BY <1>4 DEF Answered, ControlType
  <2>2. ask.conn \in Conns /\ a \in Agents /\ ask.scopes \in SUBSET Scopes
    BY <2>1, ControlAssumption DEF Asking
  <2>3. \E carried \in BOOLEAN : Reply(ask.conn, ask.request, carried)
    BY <1>4 DEF Answered
  <2>4. ThreadsMove
    BY <2>3, ReplyMoves
  <2>5. denied' \subseteq Agents /\ allowed' \subseteq Conns
    <3>1. \/ UNCHANGED allowed
          \/ Allow(ask)
      BY <1>4 DEF Answered
    <3>2. allowed' \subseteq Conns
      BY <2>2, <3>1 DEF Allow, ControlType
    <3>3. denied' = denied \/ denied' = denied \cup {a}
      BY <1>4 DEF Answered
    <3> QED
      BY <2>2, <3>2, <3>3 DEF ControlType
  <2>6. /\ once' \in [Conns -> SUBSET Scopes] /\ session' \in [Agents -> SUBSET Scopes]
        /\ since' \in [Agents -> Nat]
    <3>1. CASE ask.conn \notin conns \/ spoken = "deny"
      <4>1. UNCHANGED <<once, session, since>>
        BY <1>4, <3>1 DEF Answered, Asked
      <4> QED
        BY <4>1 DEF ControlType
    <3>2. CASE ask.conn \in conns /\ spoken = "once"
      <4>1. /\ once' = [once EXCEPT ![ask.conn] = @ \cup ask.scopes]
            /\ UNCHANGED <<session, since>>
        BY <1>4, <3>2 DEF Answered, Asked
      <4> QED
        BY <2>2, <4>1 DEF ControlType
    <3>3. CASE ask.conn \in conns /\ spoken = "session"
      <4>1. /\ session' = IF a \in agents THEN [session EXCEPT ![a] = @ \cup ask.scopes]
                          ELSE session
            /\ since' = [since EXCEPT ![a] = shownAt] /\ once' = once
        BY <1>4, <3>3 DEF Answered, Asked
      <4> HIDE DEF a, ask
      <4> QED
        BY <2>2, <4>1 DEF ControlType
    <3> QED
      BY <3>1, <3>2, <3>3
  <2> QED
    BY <1>4, <2>1, <2>4, <2>5, <2>6 DEF Answered, ControlType, ThreadsMove
<1> QED
  BY <1>1, <1>2, <1>3, <1>4

LEMMA RevokeType ==
  ASSUME ControlType, NEW gone \in SUBSET Agents, Revoke(gone)
  PROVE  /\ conns' \subseteq Conns /\ allowed' \subseteq Conns /\ agents' \subseteq Agents
         /\ once' \in [Conns -> SUBSET Scopes] /\ session' \in [Agents -> SUBSET Scopes]
         /\ tabs' \in [TabNumbers -> Agents \cup {Nobody}] /\ stream' \in [Conns -> BOOLEAN]
         /\ awake' \in BOOLEAN /\ stops' \in [Agents -> Nat]
<1>1. /\ conns' \subseteq Conns /\ allowed' \subseteq Conns /\ agents' \subseteq Agents
      /\ once' \in [Conns -> SUBSET Scopes] /\ session' \in [Agents -> SUBSET Scopes]
  BY DEF Revoke, ControlType
<1>2. tabs' \in [TabNumbers -> Agents \cup {Nobody}] /\ stops' \in [Agents -> Nat]
  BY DEF Revoke, ControlType
<1>3. stream' \in [Conns -> BOOLEAN]
  BY DEF Revoke, Shutdown, ControlType
<1>4. awake' \in BOOLEAN
  BY DEF Revoke, Sleeps
<1> QED
  BY <1>1, <1>2, <1>3, <1>4

LEMMA SwitchType ==
  ASSUME ControlType,
         \/ \E gone \in SUBSET Agents : StopAgents(gone)
         \/ SwitchOn \/ SwitchOff
         \/ \E t \in TabNumbers : WindowClosed(t) \/ OpenedBeside(t)
  PROVE  ControlType'
<1> USE DEF control, held, sockets, person, history
<1>1. ASSUME NEW gone \in SUBSET Agents, StopAgents(gone)
      PROVE  ControlType'
  BY <1>1, RevokeType DEF StopAgents, ControlType, Revoke
<1>2. CASE SwitchOn
  BY <1>2 DEF SwitchOn, ControlType
<1>3. CASE SwitchOff
  <2>1. agents \in SUBSET Agents
    BY DEF ControlType
  <2> QED
    BY <1>3, <2>1, RevokeType DEF SwitchOff, ControlType, Revoke
<1>4. ASSUME NEW t \in TabNumbers, WindowClosed(t)
      PROVE  ControlType'
  BY <1>4 DEF WindowClosed, ControlType
<1>5. ASSUME NEW t \in TabNumbers, OpenedBeside(t)
      PROVE  ControlType'
  <2>1. tabs[t] \in Agents
    BY <1>5 DEF OpenedBeside, ControlType
  <2> QED
    BY <1>5, <2>1, AdoptType DEF OpenedBeside, ControlType
<1> QED
  BY <1>1, <1>2, <1>3, <1>4, <1>5

-----------------------------------------------------------------------------
\* The rest of the invariant, a step at a time.

\* Nothing that the invariant tells of changed, but for jobs that are handed over or done
\* after the one that says that the connection is there.
LEMMA QuietStep ==
  ASSUME ControlInv, ControlType',
         UNCHANGED <<serving, conns, agents, session, tabs, awake, stops, since, shownAt>>,
         UNCHANGED <<waiting, showing>>, \A d \in Conns : SaysItFirst(d)',
         \A d \in Conns : Unheard(d)' => Unheard(d)
  PROVE  ControlInv'
<1>1. Heard'
  BY DEF ControlInv, Heard, AsksLater, Unheard
<1> QED
  BY <1>1 DEF ControlInv, Known, ShownSince, ControlledWhileHeld, StopIsFinal

\* What is handed over by a connection that is there comes after that it is there.
LEMMA SaidAfter ==
  ASSUME ControlInv, NEW c \in Conns, NEW job \in HandedOver, job.job # "connected",
         Dispatch(c, job), thread[c].at # "none", thread' \in [Conns -> Thread],
         \A d \in Conns \ {c} : thread'[d] = thread[d], thread'[c].at # "none"
  PROVE  /\ \A d \in Conns : SaysItFirst(d)'
         /\ \A d \in Conns : Unheard(d)' => Unheard(d)
<1>1. jobs' = [jobs EXCEPT ![c] = Append(jobs[c], job)] /\ jobs[c] \in Seq(HandedOver)
  BY DEF Dispatch, ControlInv, ControlType
<1>2. \A d \in Conns \ {c} : jobs'[d] = jobs[d]
  BY <1>1 DEF ControlInv, ControlType
<1>3. jobs'[c] = Append(jobs[c], job)
  BY <1>1 DEF ControlInv, ControlType
<1>4. SaysItFirst(c)
  BY DEF ControlInv, Heard
<1>5. SaysItFirst(c)'
  BY <1>1, <1>3, <1>4 DEF SaysItFirst
<1>6. Unheard(c)' => Unheard(c)
  <2>1. CASE jobs[c] = <<>>
    BY <1>1, <1>3, <2>1 DEF Unheard
  <2>2. CASE jobs[c] # <<>>
    <3>1. Len(jobs[c]) > 0 /\ jobs'[c][1] = jobs[c][1]
      BY <1>1, <1>3, <2>2
    <3> QED
      BY <2>2, <3>1 DEF Unheard
  <2> QED
    BY <2>1, <2>2
<1>7. ASSUME NEW d \in Conns \ {c}
      PROVE  SaysItFirst(d)' /\ (Unheard(d)' => Unheard(d))
  BY <1>2, <1>7 DEF ControlInv, Heard, SaysItFirst, Unheard
<1> QED
  BY <1>5, <1>6, <1>7

\* What a connection's thread does by itself.
LEMMA ThreadStep ==
  ASSUME ControlInv, NEW c \in Conns,
         Accept(c) \/ Say(c) \/ TimeOut(c) \/ Probe(c) \/ Answer(c) \/ End(c)
  PROVE  ControlInv'
<1> USE DEF held, person, history, sockets
<1>0. ControlType' /\ thread' \in [Conns -> Thread] /\ thread \in [Conns -> Thread]
  BY ThreadType DEF ControlInv, ControlType
<1>a. [job |-> "closed", command |-> <<>>, request |-> 0] \in HandedOver
  BY DEF HandedOver
<1>1. UNCHANGED <<serving, conns, agents, session, tabs, awake, stops, since, shownAt>>
      /\ UNCHANGED <<waiting, showing>>
  BY DEF Accept, Say, TimeOut, Probe, Answer, End
<1>2. ASSUME UNCHANGED jobs, \A d \in Conns : thread'[d].at = "none" => thread[d].at = "none"
      PROVE  ControlInv'
  BY <1>0, <1>1, <1>2, QuietStep DEF ControlInv, Heard, SaysItFirst, Unheard
<1>3. ASSUME NEW job \in HandedOver, job.job # "connected", Dispatch(c, job),
             thread[c].at # "none", thread'[c].at # "none",
             \A d \in Conns \ {c} : thread'[d] = thread[d]
      PROVE  ControlInv'
  BY <1>0, <1>1, <1>3, SaidAfter, QuietStep
<1>4. ASSUME NEW was \in Thread, NEW carried \in BOOLEAN,
             NEW place \in {"idle", "waiting", "wait", "settling", "answer", "gone"}
      PROVE  Goes(was, place, carried).at # "none"
  BY GoesType
<1>5. ASSUME NEW to, thread' = [thread EXCEPT ![c] = to], to.at # "none"
      PROVE  /\ \A d \in Conns : thread'[d].at = "none" => thread[d].at = "none"
             /\ thread'[c].at # "none" /\ \A d \in Conns \ {c} : thread'[d] = thread[d]
  BY <1>0, <1>5
<1>6. CASE Accept(c)
  <2>1. CASE /\ thread' = [thread EXCEPT ![c] = Goes(thread[c], "gone", FALSE)]
             /\ UNCHANGED <<stream, jobs, mine>>
    <3>1. Goes(thread[c], "gone", FALSE).at # "none"
      BY <1>0, <1>4
    <3> QED
      BY <1>2, <1>5, <2>1, <3>1
  <2>2. CASE /\ thread' = [thread EXCEPT ![c] = Goes(thread[c], "idle", FALSE)]
             /\ Dispatch(c, [job |-> "connected", command |-> <<>>, request |-> 0])
    <3> DEFINE job == [job |-> "connected", command |-> <<>>, request |-> 0]
    <3>1. jobs' = [jobs EXCEPT ![c] = Append(jobs[c], job)] /\ thread[c].at = "none"
      BY <1>6, <2>2 DEF Dispatch, Accept
    <3>2. jobs[c] = <<>> /\ jobs \in [Conns -> Seq(HandedOver)]
      BY <3>1 DEF ControlInv, Heard, SaysItFirst, ControlType
    <3>3. job \in HandedOver
      BY DEF HandedOver
    <3> HIDE DEF job
    <3>4. jobs'[c] = <<job>> /\ \A d \in Conns \ {c} : jobs'[d] = jobs[d]
      BY <3>1, <3>2, <3>3
    <3>5. thread'[c].at # "none" /\ \A d \in Conns \ {c} : thread'[d] = thread[d]
      BY <1>0, <1>4, <1>5, <2>2
    <3>6. \A d \in Conns : SaysItFirst(d)'
      BY <3>4, <3>5 DEF ControlInv, Heard, SaysItFirst
    <3>7. \A d \in Conns : Unheard(d)' => Unheard(d)
      BY <3>1, <3>4, <3>5 DEF Unheard
    <3> QED
      BY <1>0, <1>1, <3>6, <3>7, QuietStep
  <2> QED
    BY <1>6, <2>1, <2>2 DEF Accept
<1>7. CASE Say(c)
  <2>0. thread[c].at = "idle" /\ thread[c] \in Thread
    BY <1>0, <1>7 DEF Say
  <2>1. PICK command \in Says[c] :
          LET n == thread[c].request + 1 IN
          IF command.name = "wait"
          THEN /\ thread' = [thread EXCEPT ![c] = WaitsIn(n, command.tab)]
               /\ UNCHANGED jobs
          ELSE /\ thread' = [thread EXCEPT ![c] = Waiting(thread[c], n)]
               /\ Dispatch(c, [job |-> "request", command |-> command, request |-> n])
    BY <1>7 DEF Say
  <2> DEFINE n == thread[c].request + 1
             job == [job |-> "request", command |-> command, request |-> n]
  <2>2. command \in Commands /\ n \in Nat
    BY <2>0, ControlAssumption DEF Thread
  <2>3. job \in HandedOver /\ job.job # "connected"
    BY <2>2 DEF HandedOver
  <2>4. WaitsIn(n, command.tab).at # "none" /\ Waiting(thread[c], n).at # "none"
    BY <2>0, <2>2, WaitingType DEF WaitsIn
  <2> HIDE DEF n
  <2>5. CASE command.name = "wait"
    <3>1. thread' = [thread EXCEPT ![c] = WaitsIn(n, command.tab)] /\ UNCHANGED jobs
      BY <2>1, <2>5 DEF n
    <3> QED
      BY <1>2, <1>5, <2>4, <3>1
  <2>6. CASE command.name # "wait"
    <3>1. thread' = [thread EXCEPT ![c] = Waiting(thread[c], n)] /\ Dispatch(c, job)
      BY <2>1, <2>6 DEF n
    <3> HIDE DEF job
    <3> QED
      BY <1>3, <1>5, <2>0, <2>3, <2>4, <3>1
  <2> QED
    BY <2>5, <2>6
<1>8. CASE TimeOut(c)
  <2>1. thread' = [thread EXCEPT ![c] = Goes(thread[c], "answer", FALSE)] /\ UNCHANGED jobs
    BY <1>8 DEF TimeOut
  <2> QED
    BY <1>0, <1>2, <1>4, <1>5, <2>1
<1>9. CASE Probe(c)
  <2> DEFINE found == /\ c \in conns /\ c \in allowed
                      /\ thread[c].at = "wait" => "read" \in once[c] \cup session[AgentOf[c]]
                      /\ tabs[thread[c].tab] = AgentOf[c]
  <2>1. found \in BOOLEAN
    OBVIOUS
  <2>2. thread' = [thread EXCEPT ![c] = Goes(thread[c], "answer", found)] /\ UNCHANGED jobs
    BY <1>9 DEF Probe
  <2> HIDE DEF found
  <2> QED
    BY <1>0, <1>2, <1>4, <1>5, <2>1, <2>2
<1>10. CASE Answer(c)
  <2> DEFINE onto == IF stream[c] THEN "idle" ELSE "gone"
  <2>1. thread' = [thread EXCEPT ![c] = Goes(thread[c], onto, FALSE)] /\ thread[c].at = "answer"
    BY <1>10 DEF Answer
  <2>2. onto \in {"idle", "gone"}
    OBVIOUS
  <2> HIDE DEF onto
  <2>3. Goes(thread[c], onto, FALSE).at # "none"
    BY <1>0, <1>4, <2>2
  <2>4. CASE stream[c]
    <3>1. UNCHANGED jobs
      BY <1>10, <2>4 DEF Answer
    <3> QED
      BY <1>2, <1>5, <2>1, <2>3, <3>1
  <2>5. CASE ~stream[c]
    <3>1. Dispatch(c, [job |-> "closed", command |-> <<>>, request |-> 0])
      BY <1>10, <2>5 DEF Answer
    <3> QED
      BY <1>3, <1>5, <1>a, <2>1, <2>3, <3>1
  <2> QED
    BY <2>4, <2>5
<1>11. CASE End(c)
  <2>1. /\ thread' = [thread EXCEPT ![c] = Goes(thread[c], "gone", FALSE)]
        /\ thread[c].at = "idle"
        /\ Dispatch(c, [job |-> "closed", command |-> <<>>, request |-> 0])
    BY <1>11 DEF End
  <2>2. Goes(thread[c], "gone", FALSE).at # "none"
    BY <1>0, <1>4
  <2> QED
    BY <1>3, <1>5, <1>a, <2>1, <2>2
<1> QED
  BY <1>6, <1>7, <1>8, <1>9, <1>10, <1>11

\* Nothing is put in for a connection that the main thread has not heard of.
LEMMA AskedStep ==
  ASSUME ControlInv, ThreadsMove, jobs' = jobs, conns' \subseteq conns,
         waiting' = waiting \/ (waiting # <<>> /\ waiting' = Tail(waiting)),
         \/ showing' = showing \/ showing' = <<>>
         \/ waiting # <<>> /\ showing' = <<Head(waiting)>>
  PROVE  Heard'
<1>0. waiting \in Seq(Asking) /\ showing \in Seq(Asking)
  BY DEF ControlInv, ControlType
<1> SUFFICES ASSUME NEW d \in Conns
             PROVE  SaysItFirst(d)' /\ AsksLater(d)'
  BY DEF Heard
<1>1. SaysItFirst(d)' /\ (Unheard(d)' <=> Unheard(d))
  BY DEF ThreadsMove, ControlInv, Heard, SaysItFirst, Unheard
<1>2. ASSUME Unheard(d)
      PROVE  /\ d \notin conns'
             /\ \A i \in DOMAIN waiting' : waiting'[i].conn # d
             /\ \A i \in DOMAIN showing' : showing'[i].conn # d
  <2>1. /\ d \notin conns /\ \A i \in DOMAIN waiting : waiting[i].conn # d
        /\ \A i \in DOMAIN showing : showing[i].conn # d
    BY <1>2 DEF ControlInv, Heard, AsksLater
  <2>2. \A i \in DOMAIN waiting' : waiting'[i].conn # d
    <3>1. CASE waiting' = waiting
      BY <2>1, <3>1
    <3>2. CASE waiting # <<>> /\ waiting' = Tail(waiting)
      BY <1>0, <2>1, <3>2
    <3> QED
      BY <3>1, <3>2
  <2>3. \A i \in DOMAIN showing' : showing'[i].conn # d
    <3>1. CASE showing' = showing
      BY <2>1, <3>1
    <3>2. CASE showing' = <<>>
      BY <3>2
    <3>3. CASE waiting # <<>> /\ showing' = <<Head(waiting)>>
      <4>1. DOMAIN showing' = {1} /\ showing'[1] = Head(waiting)
        BY <3>3
      <4>2. 1 \in DOMAIN waiting /\ Head(waiting) = waiting[1]
        BY <1>0, <3>3
      <4> QED
        BY <2>1, <4>1, <4>2
    <3> QED
      BY <3>1, <3>2, <3>3
  <2> QED
    BY <2>1, <2>2, <2>3
<1> QED
  BY <1>1, <1>2 DEF AsksLater

\* The main thread takes a connection's next job, after which that connection is heard of;
\* another may ask of the person what it will.
LEMMA TakenJob ==
  ASSUME ControlInv, NEW c \in Conns, NEW name, Job(c, name), ThreadsMove,
         conns' \subseteq conns \cup {c}, showing' = showing,
         \/ waiting' = waiting
         \/ name # "connected" /\ \E ask \in Asking :
              ask.conn = c /\ waiting' = Append(waiting, ask)
  PROVE  Heard'
<1>0. waiting \in Seq(Asking) /\ jobs \in [Conns -> Seq(HandedOver)]
  BY DEF ControlInv, ControlType
<1>1. jobs[c] # <<>> /\ jobs' = [jobs EXCEPT ![c] = Tail(jobs[c])] /\ Head(jobs[c]).job = name
  BY DEF Job
<1>2. jobs'[c] = Tail(jobs[c]) /\ \A d \in Conns \ {c} : jobs'[d] = jobs[d]
  BY <1>0, <1>1
<1>3. /\ \A i \in 1 .. Len(jobs'[c]) : jobs'[c][i] = jobs[c][i + 1] /\ i + 1 \in 2 .. Len(jobs[c])
      /\ Len(jobs'[c]) \in Nat
  BY <1>0, <1>1, <1>2
<1>4. SaysItFirst(c)
  BY DEF ControlInv, Heard
<1>5. thread[c].at # "none" /\ thread'[c].at # "none"
  BY <1>1, <1>4 DEF SaysItFirst, ThreadsMove
<1>6. \A i \in 1 .. Len(jobs'[c]) : jobs'[c][i].job # "connected"
  BY <1>3, <1>4 DEF SaysItFirst
<1>7. jobs'[c] # <<>> => 1 \in 1 .. Len(jobs'[c])
  BY <1>0, <1>1, <1>2, <1>3
<1>8. SaysItFirst(c)' /\ ~Unheard(c)'
  BY <1>3, <1>5, <1>6, <1>7 DEF SaysItFirst, Unheard
<1>9. ASSUME NEW d \in Conns \ {c}
      PROVE  SaysItFirst(d)' /\ AsksLater(d)'
  <2>1. SaysItFirst(d) /\ AsksLater(d)
    BY DEF ControlInv, Heard
  <2>2. SaysItFirst(d)' /\ (Unheard(d)' => Unheard(d))
    BY <1>2, <2>1 DEF SaysItFirst, Unheard, ThreadsMove
  <2>3. ASSUME Unheard(d)
        PROVE  \A i \in DOMAIN waiting' : waiting'[i].conn # d
    <3>1. \A i \in DOMAIN waiting : waiting[i].conn # d
      BY <2>1, <2>3 DEF AsksLater
    <3>2. CASE waiting' = waiting
      BY <3>1, <3>2
    <3>3. ASSUME NEW ask \in Asking, ask.conn = c, waiting' = Append(waiting, ask)
          PROVE  \A i \in DOMAIN waiting' : waiting'[i].conn # d
      BY <1>0, <3>1, <3>3
    <3> QED
      BY <3>2, <3>3
  <2> QED
    BY <2>1, <2>2, <2>3 DEF AsksLater
<1> QED
  BY <1>8, <1>9 DEF Heard, AsksLater

\* A connection that came is one that nothing was asked for; one that ended takes its
\* agent's tabs along unless something is left that holds them.
LEMMA CameOrEnded ==
  ASSUME ControlInv, NEW c \in Conns, Connected(c) \/ Closed(c)
  PROVE  ControlInv'
<1> USE DEF held, person, history
<1>0. ControlType /\ ControlType'
  BY JobsType DEF ControlInv
<1>1. ThreadsMove /\ showing' = showing /\ waiting' = waiting
      /\ UNCHANGED <<serving, stops, since, shownAt>>
  BY <1>0 DEF Connected, Closed, ThreadsMove, ControlType
<1>2. CASE Connected(c)
  <2>1. Unheard(c)
    BY <1>0, <1>2 DEF Connected, Job, Unheard, ControlType
  <2>2. c \notin conns /\ (showing # <<>> => showing[1].conn # c)
    <3>1. c \notin conns /\ \A i \in DOMAIN showing : showing[i].conn # c
      BY <2>1 DEF ControlInv, Heard, AsksLater
    <3>2. showing # <<>> => 1 \in DOMAIN showing
      BY <1>0 DEF ControlType
    <3> QED
      BY <3>1, <3>2
  <2>3. CASE ~serving
    <3>1. UNCHANGED <<conns, agents, session, tabs, awake>>
      BY <1>2, <2>3 DEF Connected
    <3>2. Heard'
      BY <1>1, <1>2, <3>1, TakenJob DEF Connected
    <3> QED
      BY <1>0, <1>1, <3>1, <3>2 DEF ControlInv, Known, ShownSince, ControlledWhileHeld, StopIsFinal
  <2>4. CASE serving
    <3>1. /\ agents' = agents \cup {AgentOf[c]} /\ conns' = conns \cup {c} /\ awake' = TRUE
          /\ session' = IF AgentOf[c] \in agents THEN session
                        ELSE [session EXCEPT ![AgentOf[c]] = {}]
          /\ tabs' = tabs
      BY <1>2, <2>4 DEF Connected
    <3>2. Heard'
      BY <1>1, <1>2, <3>1, TakenJob DEF Connected
    <3>3. Known'
      BY <3>1 DEF ControlInv, Known
    <3>4. ShownSince'
      BY <1>1, <2>2, <3>1 DEF ControlInv, ShownSince
    <3>5. StopIsFinal'
      BY <1>0, <1>1, <3>1 DEF ControlInv, StopIsFinal, ControlType
    <3>6. ControlledWhileHeld'
      <4>1. ASSUME NEW t \in TabNumbers, tabs[t] # Nobody
            PROVE  (\E d \in conns' : AgentOf[d] = tabs[t]) \/ session'[tabs[t]] # {}
        <5>1. tabs[t] \in Agents
          BY <1>0, <4>1 DEF ControlType
        <5>2. (\E d \in conns : AgentOf[d] = tabs[t]) \/ session[tabs[t]] # {}
          BY <4>1 DEF ControlInv, ControlledWhileHeld
        <5>3. tabs[t] # AgentOf[c] => session'[tabs[t]] = session[tabs[t]]
          BY <1>0, <3>1, <5>1 DEF ControlType
        <5> QED
          BY <3>1, <5>2, <5>3
      <4> QED
        BY <1>1, <2>4, <3>1, <4>1 DEF ControlledWhileHeld
    <3> QED
      BY <1>0, <3>2, <3>3, <3>4, <3>5, <3>6 DEF ControlInv
  <2> QED
    BY <2>3, <2>4
<1>3. CASE Closed(c)
  <2>1. CASE c \notin conns
    <3>1. UNCHANGED <<conns, agents, session, tabs, awake>>
      BY <1>3, <2>1 DEF Closed
    <3>2. Heard'
      BY <1>1, <1>3, <3>1, TakenJob DEF Closed
    <3> QED
      BY <1>0, <1>1, <3>1, <3>2 DEF ControlInv, Known, ShownSince, ControlledWhileHeld, StopIsFinal
  <2>2. CASE c \in conns
    <3> DEFINE a == AgentOf[c]
    <3>1. /\ conns' = conns \ {c} /\ Sleeps(conns \ {c}) /\ session' = session
          /\ agents' = IF IsDone(a, conns \ {c}) THEN agents \ {a} ELSE agents
          /\ tabs' = IF IsDone(a, conns \ {c}) THEN Released(a) ELSE tabs
      BY <1>3, <2>2 DEF Closed
    <3>2. Heard'
      BY <1>1, <1>3, <3>1, TakenJob DEF Closed
    <3>3. Known'
      BY <3>1 DEF ControlInv, Known, IsDone
    <3>4. ShownSince' /\ StopIsFinal'
      BY <1>1, <3>1 DEF ControlInv, ShownSince, StopIsFinal
    <3>5. ControlledWhileHeld'
      <4>1. ASSUME NEW t \in TabNumbers, tabs'[t] # Nobody
            PROVE  (\E d \in conns' : AgentOf[d] = tabs'[t]) \/ session'[tabs'[t]] # {}
        <5>1. tabs'[t] = tabs[t] /\ (IsDone(a, conns \ {c}) => tabs[t] # a)
          BY <3>1, <4>1 DEF Released
        <5>2. (\E d \in conns : AgentOf[d] = tabs[t]) \/ session[tabs[t]] # {}
          BY <4>1, <5>1 DEF ControlInv, ControlledWhileHeld
        <5> QED
          BY <3>1, <5>1, <5>2 DEF IsDone
      <4>2. ~serving => conns' = {} /\ agents' = {}
        BY <3>1 DEF ControlInv, ControlledWhileHeld
      <4>3. awake' = (conns' # {})
        BY <1>0, <3>1 DEF ControlInv, ControlledWhileHeld, Sleeps
      <4> QED
        BY <1>1, <4>1, <4>2, <4>3 DEF ControlledWhileHeld
    <3> QED
      BY <1>0, <3>2, <3>3, <3>4, <3>5 DEF ControlInv
  <2> QED
    BY <2>1, <2>2
<1> QED
  BY <1>2, <1>3

\* An agent with a tab more is one that is connected, or held a tab before.
LEMMA TabsStay ==
  ASSUME ControlInv, ControlType', NEW a \in Agents, tabs' = tabs \/ TabsAfter(a),
         tabs' = tabs \/ (\E c \in conns : AgentOf[c] = a) \/ session[a] # {},
         UNCHANGED <<serving, conns, agents, session, awake>>
  PROVE  ControlledWhileHeld'
<1>1. ASSUME NEW t \in TabNumbers, tabs'[t] # Nobody
      PROVE  (\E c \in conns : AgentOf[c] = tabs'[t]) \/ session[tabs'[t]] # {}
  <2>1. tabs'[t] = tabs[t] \/ (tabs' # tabs /\ tabs'[t] = a)
    BY <1>1 DEF TabsAfter, ControlInv, ControlType
  <2> QED
    BY <1>1, <2>1 DEF ControlInv, ControlledWhileHeld
<1> QED
  BY <1>1 DEF ControlInv, ControlledWhileHeld

\* What a connection asks for.
LEMMA RequestStep ==
  ASSUME ControlInv, NEW c \in Conns, Request(c)
  PROVE  ControlInv'
<1> USE DEF held, person, history
<1>1. /\ ControlType' /\ ThreadsMove
      /\ \/ waiting' = waiting
         \/ \E ask \in Asking : ask.conn = c /\ waiting' = Append(waiting, ask)
      /\ tabs' = tabs \/ (c \in conns /\ TabsAfter(AgentOf[c]))
  BY RequestMoves DEF ControlInv
<1>2. /\ UNCHANGED <<serving, conns, agents, session, awake, stops, since, shownAt>>
      /\ showing' = showing /\ Job(c, "request")
  BY DEF Request
<1>3. Heard'
  BY <1>1, <1>2, TakenJob
<1>4. AgentOf[c] \in Agents
  BY ControlAssumption
<1>5. ControlledWhileHeld'
  BY <1>1, <1>2, <1>4, TabsStay
<1> QED
  BY <1>1, <1>2, <1>3, <1>5 DEF ControlInv, Known, ShownSince, StopIsFinal

\* What the person is asked and answers: leave for the session is for what was asked since
\* its agent was last stopped.
LEMMA PersonStep ==
  ASSUME ControlInv, PageDone \/ Take \/ (\E a \in Agents : Forgive(a))
                       \/ \E spoken \in {"deny", "once", "session"} : Answered(spoken)
  PROVE  ControlInv'
<1> USE DEF held, person, history, sockets
<1>0. ControlType /\ ControlType' /\ ThreadsMove
  BY PersonType DEF ControlInv
<1>1. UNCHANGED <<serving, conns, agents, tabs, awake, stops, jobs>>
  BY DEF PageDone, Take, Forgive, Answered
<1>2. CASE PageDone \/ \E a \in Agents : Forgive(a)
  <2>1. UNCHANGED <<session, since, shownAt, waiting, showing>>
    BY <1>2 DEF PageDone, Forgive
  <2>2. Heard'
    BY <1>0, <1>1, <2>1, AskedStep
  <2> QED
    BY <1>0, <1>1, <2>1, <2>2 DEF ControlInv, Known, ShownSince, ControlledWhileHeld, StopIsFinal
<1>3. CASE Take
  <2>1. /\ waiting # <<>> /\ waiting' = Tail(waiting) /\ UNCHANGED <<session, since>>
        /\ \/ UNCHANGED <<showing, shownAt>>
           \/ /\ showing' = <<Head(waiting)>>
              /\ shownAt' = stops[AgentOf[Head(waiting).conn]]
    BY <1>3 DEF Take
  <2>2. Heard'
    BY <1>0, <1>1, <2>1, AskedStep
  <2>3. ShownSince'
    BY <1>1, <2>1 DEF ControlInv, ShownSince
  <2> QED
    BY <1>0, <1>1, <2>1, <2>2, <2>3 DEF ControlInv, Known, ControlledWhileHeld, StopIsFinal
<1>4. ASSUME NEW spoken \in {"deny", "once", "session"}, Answered(spoken)
      PROVE  ControlInv'
  <2> DEFINE ask == Head(showing)
             a == AgentOf[ask.conn]
  <2>1. showing # <<>> /\ showing' = <<>> /\ UNCHANGED <<waiting, shownAt>>
    BY <1>4 DEF Answered
  <2>2. ask = showing[1] /\ ask \in Asking
    BY <1>0, <2>1 DEF ControlType
  <2>3. Heard'
    BY <1>0, <1>1, <2>1, AskedStep
  <2>4. ShownSince' /\ Known'
    BY <1>1, <2>1 DEF ControlInv, ShownSince, Known
  <2>5. CASE ask.conn \notin conns \/ spoken # "session"
    <3>1. UNCHANGED <<session, since>>
      BY <1>4, <2>5 DEF Answered, Asked
    <3> QED
      BY <1>0, <1>1, <2>3, <2>4, <3>1 DEF ControlInv, ControlledWhileHeld, StopIsFinal
  <2>6. CASE ask.conn \in conns /\ spoken = "session"
    <3>1. a \in agents /\ a \in Agents /\ shownAt = stops[a]
      BY <1>0, <2>1, <2>2, <2>6 DEF ControlInv, Known, ShownSince, ControlType
    <3>2. /\ session' = [session EXCEPT ![a] = session[a] \cup ask.scopes]
          /\ since' = [since EXCEPT ![a] = shownAt]
      BY <1>4, <2>6, <3>1 DEF Answered, Asked
    <3> HIDE DEF a, ask
    <3>3. StopIsFinal'
      BY <1>0, <1>1, <3>1, <3>2 DEF ControlInv, StopIsFinal, ControlType
    <3>4. \A b \in Agents : session[b] # {} => session'[b] # {}
      BY <1>0, <3>1, <3>2 DEF ControlType
    <3>5. ControlledWhileHeld'
      BY <1>0, <1>1, <3>4 DEF ControlInv, ControlledWhileHeld, ControlType
    <3> QED
      BY <1>0, <2>3, <2>4, <3>3, <3>5 DEF ControlInv
  <2> QED
    BY <2>5, <2>6
<1> QED
  BY <1>2, <1>3, <1>4

\* Stopping agents takes all that is theirs.
LEMMA RevokeStep ==
  ASSUME ControlInv, NEW gone \in SUBSET Agents, Revoke(gone), ControlType',
         UNCHANGED <<thread, jobs, waiting, showing>>, serving' = serving \/ gone = agents
  PROVE  ControlInv'
<1> DEFINE shut == {c \in conns : AgentOf[c] \in gone}
<1>0. ControlType
  BY DEF ControlInv
<1>1. /\ conns' = conns \ shut /\ agents' = agents \ gone /\ Sleeps(conns \ shut)
      /\ session' = [a \in Agents |-> IF a \in gone THEN {} ELSE session[a]]
      /\ tabs' = [t \in TabNumbers |-> IF tabs[t] \in gone THEN Nobody ELSE tabs[t]]
      /\ stops' = [a \in Agents |-> stops[a] + (IF a \in gone THEN 1 ELSE 0)]
      /\ UNCHANGED <<since, shownAt>>
  BY DEF Revoke
<1>2. Heard'
  <2>1. ThreadsMove
    BY <1>0 DEF ThreadsMove, ControlType
  <2> QED
    BY <1>1, <2>1, AskedStep
<1>3. Known'
  BY <1>1 DEF ControlInv, Known
<1>4. StopIsFinal'
  BY <1>0, <1>1 DEF ControlInv, StopIsFinal, ControlType
<1>5. ShownSince'
  <2>1. ASSUME showing # <<>>, showing[1].conn \in conns'
        PROVE  shownAt = stops'[AgentOf[showing[1].conn]]
    <3>1. showing[1].conn \in conns /\ AgentOf[showing[1].conn] \in Agents \ gone
      BY <1>0, <1>1, <2>1, ControlAssumption DEF ControlType
    <3> QED
      BY <1>0, <1>1, <2>1, <3>1 DEF ControlInv, ShownSince, ControlType
  <2> QED
    BY <1>1, <2>1 DEF ShownSince
<1>6. ControlledWhileHeld'
  <2>1. ASSUME NEW t \in TabNumbers, tabs'[t] # Nobody
        PROVE  (\E c \in conns' : AgentOf[c] = tabs'[t]) \/ session'[tabs'[t]] # {}
    <3>1. tabs'[t] = tabs[t] /\ tabs[t] \notin gone /\ tabs[t] \in Agents
      BY <1>0, <1>1, <2>1 DEF ControlType
    <3>2. (\E c \in conns : AgentOf[c] = tabs[t]) \/ session[tabs[t]] # {}
      BY <2>1, <3>1 DEF ControlInv, ControlledWhileHeld
    <3> QED
      BY <1>1, <3>1, <3>2
  <2>2. ~serving' => conns' = {} /\ agents' = {}
    BY <1>1 DEF ControlInv, ControlledWhileHeld, Known
  <2>3. awake' = (conns' # {})
    BY <1>0, <1>1 DEF ControlInv, ControlledWhileHeld, Sleeps
  <2> QED
    BY <2>1, <2>2, <2>3 DEF ControlledWhileHeld
<1> QED
  BY <1>2, <1>3, <1>4, <1>5, <1>6 DEF ControlInv

\* What the person does, and pages that open beside a tab.
LEMMA SwitchStep ==
  ASSUME ControlInv,
         \/ \E gone \in SUBSET Agents : StopAgents(gone)
         \/ SwitchOn \/ SwitchOff
         \/ \E t \in TabNumbers : WindowClosed(t) \/ OpenedBeside(t)
  PROVE  ControlInv'
<1> USE DEF held, person, history, sockets
<1>0. ControlType /\ ControlType'
  BY SwitchType DEF ControlInv
<1>1. ASSUME NEW gone \in SUBSET Agents, StopAgents(gone)
      PROVE  ControlInv'
  BY <1>0, <1>1, RevokeStep DEF StopAgents
<1>2. CASE SwitchOff
  <2>1. agents \in SUBSET Agents
    BY <1>0 DEF ControlType
  <2> QED
    BY <1>0, <1>2, <2>1, RevokeStep DEF SwitchOff
<1>3. ASSUME UNCHANGED <<thread, jobs, conns, waiting, showing>>
      PROVE  Heard'
  BY <1>3 DEF ControlInv, Heard, SaysItFirst, AsksLater, Unheard
<1>4. CASE SwitchOn
  <2>1. UNCHANGED <<thread, jobs, conns, agents, session, tabs, awake, waiting, showing,
                    stops, since, shownAt>> /\ ~serving
    BY <1>4 DEF SwitchOn
  <2> QED
    BY <1>0, <1>3, <2>1 DEF ControlInv, Known, ShownSince, ControlledWhileHeld, StopIsFinal
<1>5. ASSUME NEW t \in TabNumbers, WindowClosed(t) \/ OpenedBeside(t)
      PROVE  ControlInv'
  <2>1. UNCHANGED <<thread, jobs, conns, agents, session, awake, waiting, showing,
                    stops, since, shownAt, serving>>
    BY <1>5 DEF WindowClosed, OpenedBeside
  <2>2. ControlledWhileHeld'
    <3>1. CASE WindowClosed(t)
      <4>1. tabs' = [tabs EXCEPT ![t] = Nobody]
        BY <3>1 DEF WindowClosed
      <4> QED
        BY <1>0, <2>1, <4>1 DEF ControlInv, ControlledWhileHeld, ControlType
    <3>2. CASE OpenedBeside(t)
      <4>1. tabs[t] \in Agents /\ TabsAfter(tabs[t])
        BY <1>0, <3>2 DEF OpenedBeside, Adopt, TabsAfter, ControlType
      <4>2. (\E c \in conns : AgentOf[c] = tabs[t]) \/ session[tabs[t]] # {}
        BY <3>2 DEF OpenedBeside, ControlInv, ControlledWhileHeld
      <4> QED
        BY <1>0, <2>1, <4>1, <4>2, TabsStay
    <3> QED
      BY <1>5, <3>1, <3>2
  <2> QED
    BY <1>0, <1>3, <2>1, <2>2 DEF ControlInv, Known, ShownSince, StopIsFinal
<1> QED
  BY <1>1, <1>2, <1>4, <1>5

LEMMA InitInv == ControlInit => ControlInv
<1> SUFFICES ASSUME ControlInit PROVE ControlInv
  OBVIOUS
<1> USE DEF ControlInit
<1>1. ControlType
  <2>1. thread \in [Conns -> Thread]
    <3>1. [at |-> "none", request |-> 0, tab |-> 0, done |-> FALSE] \in Thread
      BY ControlAssumption DEF Thread
    <3> QED
      BY <3>1
  <2>2. nextTab \in 1 .. MaxTabs + 1 /\ MaxTabs \in Nat
    BY ControlAssumption
  <2>3. tabs \in [TabNumbers -> Agents \cup {Nobody}] /\ jobs \in [Conns -> Seq(HandedOver)]
    OBVIOUS
  <2>4. setting \in BOOLEAN /\ serving \in BOOLEAN /\ awake \in BOOLEAN
    OBVIOUS
  <2>5. stream \in [Conns -> BOOLEAN]
    OBVIOUS
  <2>6. mine \subseteq Conns /\ conns \subseteq Conns /\ allowed \subseteq Conns
        /\ agents \subseteq Agents /\ denied \subseteq Agents
        /\ waiting \in Seq(Asking) /\ showing \in Seq(Asking)
    OBVIOUS
  <2>7. once \in [Conns -> SUBSET Scopes] /\ session \in [Agents -> SUBSET Scopes]
        /\ stops \in [Agents -> Nat] /\ since \in [Agents -> Nat] /\ shownAt \in Nat
    OBVIOUS
  <2> HIDE DEF ControlInit
  <2> QED
    BY <2>1, <2>2, <2>3, <2>4, <2>5, <2>6, <2>7 DEF ControlType
<1>2. Heard
  BY DEF Heard, SaysItFirst, AsksLater
<1> QED
  BY <1>1, <1>2 DEF ControlInv, Known, ShownSince, ControlledWhileHeld, StopIsFinal

LEMMA StepInv == ControlInv /\ [ControlNext]_control => ControlInv'
<1> SUFFICES ASSUME ControlInv, [ControlNext]_control PROVE ControlInv'
  OBVIOUS
<1>1. ASSUME NEW c \in Conns, Accept(c) \/ Say(c) \/ TimeOut(c) \/ Probe(c) \/ Answer(c) \/ End(c)
      PROVE  ControlInv'
  BY <1>1, ThreadStep
<1>2. ASSUME NEW c \in Conns, Connected(c) \/ Closed(c)
      PROVE  ControlInv'
  BY <1>2, CameOrEnded
<1>3. ASSUME NEW c \in Conns, Request(c)
      PROVE  ControlInv'
  BY <1>3, RequestStep
<1>4. CASE PageDone \/ Take \/ (\E a \in Agents : Forgive(a))
           \/ \E spoken \in {"deny", "once", "session"} : Answered(spoken)
  BY <1>4, PersonStep
<1>5. CASE \/ \E gone \in SUBSET Agents : StopAgents(gone)
           \/ SwitchOn \/ SwitchOff
           \/ \E t \in TabNumbers : WindowClosed(t) \/ OpenedBeside(t)
  BY <1>5, SwitchStep
<1>6. CASE UNCHANGED control
  <2>1. ControlType'
    BY <1>6 DEF control, held, person, history, sockets, ControlInv, ControlType
  <2>2. /\ UNCHANGED <<serving, conns, agents, session, tabs, awake, stops, since, shownAt>>
        /\ UNCHANGED <<waiting, showing>> /\ UNCHANGED <<thread, jobs>>
    BY <1>6 DEF control, held, person, history, sockets
  <2>3. \A d \in Conns : SaysItFirst(d)' /\ (Unheard(d)' => Unheard(d))
    BY <2>2 DEF ControlInv, Heard, SaysItFirst, Unheard
  <2> QED
    BY <2>1, <2>2, <2>3, QuietStep
<1>7. agents \in SUBSET Agents /\ \A a \in Agents : {a} \in SUBSET Agents
  BY DEF ControlInv, ControlType
<1> QED
  BY <1>1, <1>2, <1>3, <1>4, <1>5, <1>6, <1>7 DEF ControlNext

\* Every state of the application's keeping of agents satisfies the invariant.
THEOREM ControlCorrect == ControlSpec => []ControlInv
BY InitInv, StepInv, PTL DEF ControlSpec

-----------------------------------------------------------------------------
\* An agent that the person stopped holds no leave that was asked for before: revoke ends its
\* connections, and answer looks for the connection again after its prompt.
THEOREM StoppedStays == ControlSpec => []StopIsFinal
<1>1. ControlInv => StopIsFinal
  BY DEF ControlInv
<1> QED
  BY <1>1, ControlCorrect, PTL

\* A tab that says an agent is in control of it is one whose agent is connected or holds
\* leave for the session; with agents off there is none, and nothing keeps the Mac awake.
THEOREM TabsAreHeld == ControlSpec => []ControlledWhileHeld
<1>1. ControlInv => ControlledWhileHeld
  BY DEF ControlInv
<1> QED
  BY <1>1, ControlCorrect, PTL

-----------------------------------------------------------------------------
\* Which sites are known to be refused, and by what.
Refused ==
  /\ pinned \in [Panes -> SUBSET ApplePinned]
  /\ heard \subseteq said /\ said \subseteq Preloaded
  /\ direct \subseteq Preloaded \cup ApplePinned

\* The page last loaded again is the one that is remembered, and it was once.
Retried ==
  /\ retried \in [Panes -> Sites \cup {Nothing}]
  /\ again \in [Panes -> [of : Sites \cup {Nothing}, times : {0, 1}]]
  /\ \A w \in Panes : again[w].of = retried[w]

Bar == [shown : Addresses, field : Addresses \cup {Typing}, typing : BOOLEAN,
        failed : Sites \cup {Nothing}, route : {"proxy", "direct", Nothing},
        icon : Sites \cup {Nothing}]

\* A field as it should be.
Field(b) == b.field = IF b.typing THEN Typing ELSE b.shown

\* What is on its way and what is on screen, and how it was reached.
Ways ==
  /\ next \in [Panes -> Addresses \cup {Nothing}] /\ going \in [Panes -> Addresses \cup {Nothing}]
  /\ at \in [Panes -> Addresses]
  /\ via \in [Panes -> {"proxy", "direct"}] /\ atVia \in [Panes -> {"proxy", "direct"}]
  /\ \A w \in Panes : going[w] \in Sites /\ via[w] = "direct" => going[w] \in direct
  /\ \A w \in Panes : at[w] \in Sites /\ atVia[w] = "direct" => at[w] \in direct

\* What is on screen, and what it can be left for.
InView ==
  /\ finished \in [Panes -> BOOLEAN] /\ uncommitted \in [Panes -> BOOLEAN]
  /\ cached \in [Panes -> {Nothing} \cup Left]
  /\ \A w \in Panes : cached[w] # Nothing /\ cached[w].via = "direct" => cached[w].of \in direct

\* What is looked for is looked for by a page that is or was on screen.
Icons ==
  /\ page \in [Panes -> Nat] /\ icons \in [Panes -> SUBSET (Nat \X Sites)]
  /\ \A w \in Panes : \A i \in icons[w] :
       i[1] <= page[w] /\ (i[1] = page[w] => i[2] = at[w] \/ uncommitted[w])

\* What a bar says of the route and of the icon.
Routed(w, b) == b.route = "proxy" /\ (finished[w] \/ ~uncommitted[w]) => atVia[w] = "proxy"
Pictured(w, b) == b.icon # Nothing => b.icon = at[w] \/ uncommitted[w]

Bars ==
  /\ bar \in [Panes -> Bar]
  /\ \A w \in Panes : Field(bar[w]) /\ Routed(w, bar[w]) /\ Pictured(w, bar[w])

BrowserInv == Refused /\ Retried /\ Ways /\ InView /\ Icons /\ Bars

LEMMA SendsDirect ==
  ASSUME NEW hosts, SendDirect(hosts)
  PROVE  direct \subseteq direct' /\ direct' \subseteq direct \cup hosts
<1>1. PICK kept \in SUBSET (hosts \ direct) : direct' = direct \cup kept
  BY DEF SendDirect
<1> QED
  BY <1>1

LEMMA Challenges ==
  ASSUME Refused, NEW w \in Panes, NEW xs, Challenged(w, xs)
  PROVE  pinned' \in [Panes -> SUBSET ApplePinned]
<1>1. pinned' = [pinned EXCEPT ![w] = @ \cup ((xs \ direct) \cap ApplePinned)]
  BY DEF Challenged
<1>2. pinned[w] \cup ((xs \ direct) \cap ApplePinned) \in SUBSET ApplePinned
  BY DEF Refused
<1> QED
  BY <1>1, <1>2 DEF Refused

LEMMA LoadsAgain ==
  ASSUME Retried, Ways, NEW w \in Panes, NEW x \in Sites, retried[w] # x, LoadAgain(w, x)
  PROVE  Retried' /\ next' \in [Panes -> Addresses \cup {Nothing}]
<1>1. next' \in [Panes -> Addresses \cup {Nothing}]
  BY DEF LoadAgain, Load, Ways, Addresses
<1>2. retried' = [retried EXCEPT ![w] = x]
  BY DEF LoadAgain
<1>3. again[w].of # x
  BY DEF Retried
<1>4. again' = [again EXCEPT ![w] = [of |-> x, times |-> 1]]
  BY <1>3 DEF LoadAgain
<1>5. [of |-> x, times |-> 1] \in [of : Sites \cup {Nothing}, times : {0, 1}]
  OBVIOUS
<1>6. retried' \in [Panes -> Sites \cup {Nothing}]
      /\ again' \in [Panes -> [of : Sites \cup {Nothing}, times : {0, 1}]]
  BY <1>2, <1>4, <1>5 DEF Retried
<1>7. \A v \in Panes : again'[v].of = retried'[v]
  BY <1>2, <1>4 DEF Retried
<1> QED
  BY <1>1, <1>6, <1>7 DEF Retried

\* What is sent around the proxy when a page has finished, or when it is looked again.
LEMMA PartsSent ==
  ASSUME Refused, Retried, Ways, NEW w \in Panes, SendRefusedParts(w, at[w]),
         UNCHANGED <<pinned, said>>
  PROVE  /\ Refused' /\ Retried' /\ next' \in [Panes -> Addresses \cup {Nothing}]
         /\ direct \subseteq direct'
<1> DEFINE x == at[w]
<1>1. CASE x \notin Sites \/ retried[w] = x
  <2>1. UNCHANGED <<next, retried, direct, heard, again>>
    BY <1>1 DEF SendRefusedParts
  <2> QED
    BY <2>1 DEF Refused, Retried, Ways
<1>2. CASE x \in Sites /\ retried[w] # x
  <2>1. /\ Hear
        /\ \/ UNCHANGED <<next, retried, direct, again>>
           \/ SendDirect(ToSendDirect(w)) /\ LoadAgain(w, x)
    BY <1>2 DEF SendRefusedParts
  <2>2. heard' \subseteq said
    BY <2>1 DEF Hear, Refused
  <2>3. CASE UNCHANGED <<next, retried, direct, again>>
    BY <2>2, <2>3 DEF Refused, Retried, Ways
  <2>4. CASE SendDirect(ToSendDirect(w)) /\ LoadAgain(w, x)
    <3>1. Retried' /\ next' \in [Panes -> Addresses \cup {Nothing}]
      BY <1>2, <2>4, LoadsAgain
    <3>2. direct \subseteq direct' /\ direct' \subseteq direct \cup ToSendDirect(w)
      BY <2>4, SendsDirect
    <3>3. ToSendDirect(w) \subseteq Preloaded \cup ApplePinned
      BY <2>2 DEF ToSendDirect, Refused
    <3> QED
      BY <2>2, <3>1, <3>2, <3>3 DEF Refused
  <2> QED
    BY <2>1, <2>3, <2>4
<1> QED
  BY <1>1, <1>2

LEMMA ShowingBar ==
  ASSUME NEW b \in Bar, NEW x \in Addresses
  PROVE  /\ Showing(b, x) \in Bar
         /\ Showing(b, x).shown = x /\ Showing(b, x).typing = b.typing
         /\ Showing(b, x).field = IF b.typing THEN b.field ELSE x
         /\ Showing(b, x).route = b.route /\ Showing(b, x).icon = b.icon
         /\ Field(b) => Field(Showing(b, x))
<1>1. Showing(b, x).shown = x /\ Showing(b, x).typing = b.typing
      /\ Showing(b, x).field = (IF b.typing THEN b.field ELSE x)
      /\ Showing(b, x).route = b.route /\ Showing(b, x).icon = b.icon
  BY DEF Showing, Bar
<1>2. Showing(b, x) \in Bar
  <2>1. (IF b.typing THEN b.field ELSE x) \in Addresses \cup {Typing}
    BY DEF Bar
  <2>2. x \in Addresses
    OBVIOUS
  <2> QED
    BY <2>1, <2>2 DEF Showing, Bar
<1>3. Field(b) => Field(Showing(b, x))
  BY <1>1 DEF Field
<1> QED
  BY <1>1, <1>2, <1>3

LEMMA FailureBar ==
  ASSUME NEW b \in Bar, NEW x \in Addresses
  PROVE  /\ FailurePage(b, x) \in Bar /\ FailurePage(b, x).route = Nothing
         /\ FailurePage(b, x).icon = b.icon
         /\ Field(b) => Field(FailurePage(b, x))
<1> DEFINE s == Showing(b, x)
           f == IF x = Blank THEN Nothing ELSE x
<1>1. s \in Bar /\ s.icon = b.icon /\ (Field(b) => Field(s))
  BY ShowingBar
<1>2. f \in Sites \cup {Nothing}
  BY DEF Addresses
<1>3. FailurePage(b, x) = [s EXCEPT !.failed = f, !.route = Nothing]
  BY DEF FailurePage
<1> HIDE DEF s, f
<1>4. /\ FailurePage(b, x) \in Bar /\ FailurePage(b, x).route = Nothing
      /\ FailurePage(b, x).icon = s.icon /\ FailurePage(b, x).shown = s.shown
      /\ FailurePage(b, x).field = s.field /\ FailurePage(b, x).typing = s.typing
  BY <1>1, <1>2, <1>3 DEF Bar
<1> QED
  BY <1>1, <1>4 DEF Field

LEMMA RefreshedBar ==
  ASSUME NEW b \in Bar, NEW x \in Addresses
  PROVE  /\ Refreshed(b, x) \in Bar /\ Refreshed(b, x).icon = b.icon
         /\ Refreshed(b, x).route = "proxy" => x \in Sites /\ x \notin direct
         /\ Field(b) => Field(Refreshed(b, x))
<1> USE BrowserAssumption
<1>1. CASE x \in Sites
  <2> DEFINE s == Showing(b, x)
             r == RouteWith(x)
  <2>1. s \in Bar /\ s.icon = b.icon /\ (Field(b) => Field(s))
    BY ShowingBar
  <2>2. r \in {"proxy", "direct"} /\ (r = "proxy" => x \notin direct)
    BY <1>1 DEF RouteWith, SentDirect
  <2>3. Refreshed(b, x) = [s EXCEPT !.failed = Nothing, !.route = r]
    BY <1>1 DEF Refreshed
  <2> HIDE DEF s, r
  <2>4. /\ Refreshed(b, x) \in Bar /\ Refreshed(b, x).route = r
        /\ Refreshed(b, x).icon = s.icon /\ Refreshed(b, x).shown = s.shown
        /\ Refreshed(b, x).field = s.field /\ Refreshed(b, x).typing = s.typing
    BY <2>1, <2>2, <2>3 DEF Bar
  <2> QED
    BY <1>1, <2>1, <2>2, <2>4 DEF Field
<1>2. CASE x \notin Sites
  <2>1. Refreshed(b, x) = [b EXCEPT !.route = Nothing]
    BY <1>2 DEF Refreshed
  <2>2. /\ Refreshed(b, x) \in Bar /\ Refreshed(b, x).route = Nothing
        /\ Refreshed(b, x).icon = b.icon /\ Refreshed(b, x).shown = b.shown
        /\ Refreshed(b, x).field = b.field /\ Refreshed(b, x).typing = b.typing
    BY <2>1 DEF Bar
  <2> QED
    BY <2>2 DEF Field
<1> QED
  BY <1>1, <1>2

LEMMA IconBar ==
  ASSUME NEW b \in Bar, NEW i \in Sites \cup {Nothing}
  PROVE  /\ [b EXCEPT !.icon = i] \in Bar /\ [b EXCEPT !.icon = i].icon = i
         /\ [b EXCEPT !.icon = i].route = b.route
         /\ Field(b) => Field([b EXCEPT !.icon = i])
BY DEF Bar, Field

\* A bar is changed to one of the page that is still on screen.
LEMMA BarChanges ==
  ASSUME Bars, NEW w \in Panes, NEW b \in Bar, bar' = [bar EXCEPT ![w] = b],
         UNCHANGED <<at, atVia, finished, uncommitted>>, Field(b), Routed(w, b), Pictured(w, b)
  PROVE  Bars'
BY DEF Bars, Routed, Pictured

\* A failure page takes a bar's place.
LEMMA PageShown ==
  ASSUME Bars, Ways, NEW w \in Panes, NEW x \in Addresses, ShowPage(w, x),
         UNCHANGED <<at, atVia, finished, uncommitted>>
  PROVE  Bars' /\ next' \in [Panes -> Addresses \cup {Nothing}]
<1> DEFINE b == FailurePage(bar[w], x)
<1>1. bar[w] \in Bar /\ Field(bar[w]) /\ Pictured(w, bar[w])
  BY DEF Bars
<1>2. b \in Bar /\ b.route = Nothing /\ b.icon = bar[w].icon /\ Field(b)
  BY <1>1, FailureBar
<1>3. bar' = [bar EXCEPT ![w] = b] /\ next' = [next EXCEPT ![w] = Blank]
  BY DEF ShowPage, Load
<1> HIDE DEF b
<1>4. Routed(w, b) /\ Pictured(w, b)
  BY <1>1, <1>2, BrowserAssumption DEF Routed, Pictured
<1>5. Bars'
  BY <1>2, <1>3, <1>4, BarChanges
<1> QED
  BY <1>3, <1>5 DEF Ways, Addresses

LEMMA FailureHandled ==
  ASSUME Refused, Retried, Ways, Bars, NEW w \in Panes, NEW x \in Addresses, NEW code,
         AfterFailure(w, x, code), code = "secure" => x \in Preloaded,
         pinned' \in [Panes -> SUBSET ApplePinned], UNCHANGED <<heard, said, at, atVia, finished, uncommitted>>,
         code \in {"secure", "cancelled", "other"}
  PROVE  /\ Refused' /\ Retried' /\ Bars' /\ next' \in [Panes -> Addresses \cup {Nothing}]
         /\ direct \subseteq direct'
<1>1. CASE x \in Sites /\ Refusal(w, x, code) /\ retried[w] # x
  <2>1. \/ ShowPage(w, x) /\ UNCHANGED <<retried, direct, again>>
        \/ SendDirect({x}) /\ LoadAgain(w, x) /\ UNCHANGED bar
    BY <1>1 DEF AfterFailure
  <2>2. CASE ShowPage(w, x) /\ UNCHANGED <<retried, direct, again>>
    <3>1. Bars' /\ next' \in [Panes -> Addresses \cup {Nothing}]
      BY <2>2, PageShown
    <3> QED
      BY <2>2, <3>1 DEF Refused, Retried
  <2>3. CASE SendDirect({x}) /\ LoadAgain(w, x) /\ UNCHANGED bar
    <3>1. Retried' /\ next' \in [Panes -> Addresses \cup {Nothing}]
      BY <1>1, <2>3, LoadsAgain
    <3>2. direct \subseteq direct' /\ direct' \subseteq direct \cup {x}
      BY <2>3, SendsDirect
    <3>3. x \in Preloaded \cup ApplePinned
      BY <1>1 DEF Refusal
    <3>4. Refused'
      BY <3>2, <3>3 DEF Refused
    <3> QED
      BY <2>3, <3>1, <3>2, <3>4 DEF Bars, Routed, Pictured
  <2> QED
    BY <2>1, <2>2, <2>3
<1>2. CASE ~(x \in Sites /\ Refusal(w, x, code) /\ retried[w] # x)
  <2>1. /\ UNCHANGED <<bar, next>> \/ ShowPage(w, x)
        /\ UNCHANGED <<retried, direct, again>>
    BY <1>2 DEF AfterFailure
  <2>2. Bars' /\ next' \in [Panes -> Addresses \cup {Nothing}]
    BY <2>1, PageShown DEF Bars, Ways, Routed, Pictured
  <2> QED
    BY <2>1, <2>2 DEF Refused, Retried
<1> QED
  BY <1>1, <1>2

\* Everything but the bar and the lists stays.
LEMMA GoesTo ==
  ASSUME BrowserInv, NEW w \in Panes, NEW x \in Addresses, GoTo(w, x),
         UNCHANGED <<at, atVia, finished, uncommitted>>
  PROVE  Bars' /\ next' \in [Panes -> Addresses \cup {Nothing}]
<1> USE BrowserAssumption
<1> DEFINE b == [bar[w] EXCEPT !.typing = FALSE]
<1>1. bar[w] \in Bar /\ Field(bar[w])
      /\ Pictured(w, bar[w]) /\ Routed(w, bar[w])
  BY DEF BrowserInv, Bars
<1>2. /\ b \in Bar /\ b.icon = bar[w].icon /\ b.route = bar[w].route /\ b.typing = FALSE
      /\ b.shown = bar[w].shown
  BY <1>1 DEF Bar
<1>3. PICK typed \in Typed :
        \/ /\ typed = "opened"
           /\ bar' = [bar EXCEPT ![w] = [Showing(b, x) EXCEPT !.failed = Nothing]]
           /\ Load(w, x)
        \/ /\ typed = "empty"
           /\ bar' = [bar EXCEPT ![w] = Showing(b, b.shown)] /\ UNCHANGED next
        \/ /\ typed = "refused"
           /\ bar' = [bar EXCEPT ![w] = FailurePage(b, x)] /\ Load(w, Blank)
  BY DEF GoTo
<1> HIDE DEF b
<1>4. next' \in [Panes -> Addresses \cup {Nothing}]
  BY <1>3 DEF Load, BrowserInv, Ways, Addresses
<1>5. Bars /\ \A y \in Addresses : /\ Showing(b, y) \in Bar /\ Showing(b, y).shown = y
                                  /\ Showing(b, y).field = y /\ Showing(b, y).typing = FALSE
                                  /\ Showing(b, y).route = b.route /\ Showing(b, y).icon = b.icon
  BY <1>2, ShowingBar DEF BrowserInv
<1>6. CASE bar' = [bar EXCEPT ![w] = [Showing(b, x) EXCEPT !.failed = Nothing]]
  <2> DEFINE s == Showing(b, x)
             c == [s EXCEPT !.failed = Nothing]
  <2>1. /\ s \in Bar /\ s.shown = x /\ s.field = x /\ s.typing = FALSE /\ s.route = b.route
        /\ s.icon = b.icon
    BY <1>5
  <2> HIDE DEF s
  <2>2. /\ c \in Bar /\ c.shown = x /\ c.field = x /\ c.typing = FALSE /\ c.route = b.route
        /\ c.icon = b.icon
    BY <2>1 DEF Bar
  <2>3. bar' = [bar EXCEPT ![w] = c]
    BY <1>6 DEF s
  <2> HIDE DEF c
  <2>4. Bars'
    BY <1>1, <1>2, <1>5, <2>2, <2>3, BarChanges DEF Field, Routed, Pictured
  <2> QED
    BY <1>4, <2>4
<1>7. CASE bar' = [bar EXCEPT ![w] = Showing(b, b.shown)]
  <2> DEFINE s == Showing(b, b.shown)
  <2>1. b.shown \in Addresses
    BY <1>2 DEF Bar
  <2>2. /\ s \in Bar /\ s.shown = b.shown /\ s.field = b.shown /\ s.typing = FALSE /\ s.route = b.route
        /\ s.icon = b.icon
    BY <1>5, <2>1
  <2>3. bar' = [bar EXCEPT ![w] = s]
    BY <1>7
  <2> HIDE DEF s
  <2>4. Bars'
    BY <1>1, <1>2, <1>5, <2>2, <2>3, BarChanges DEF Field, Routed, Pictured
  <2> QED
    BY <1>4, <2>4
<1>8. CASE bar' = [bar EXCEPT ![w] = FailurePage(b, x)]
  <2> DEFINE s == FailurePage(b, x)
  <2>1. s \in Bar /\ s.route = Nothing /\ s.icon = b.icon
    BY <1>2, FailureBar
  <2>2. Field(s)
    <3> DEFINE t == Showing(b, x)
               f == IF x = Blank THEN Nothing ELSE x
    <3>1. t \in Bar /\ t.field = x /\ t.shown = x /\ t.typing = FALSE
      BY <1>5
    <3>2. s = [t EXCEPT !.failed = f, !.route = Nothing]
      BY DEF FailurePage
    <3> HIDE DEF s, t, f
    <3>3. s.field = t.field /\ s.shown = t.shown /\ s.typing = t.typing
      BY <3>1, <3>2 DEF Bar
    <3> QED
      BY <3>1, <3>3 DEF Field
  <2>3. bar' = [bar EXCEPT ![w] = s]
    BY <1>8
  <2> HIDE DEF s
  <2>4. Routed(w, s) /\ Pictured(w, s)
    BY <1>1, <1>2, <2>1 DEF Routed, Pictured
  <2>5. Bars'
    BY <1>5, <2>1, <2>2, <2>3, <2>4, BarChanges
  <2> QED
    BY <1>4, <2>5
<1> QED
  BY <1>3, <1>6, <1>7, <1>8

\* Nothing of the pages on screen and on their way changes but what is asked for next.
LEMMA WaysStay ==
  ASSUME Ways, next' \in [Panes -> Addresses \cup {Nothing}], direct \subseteq direct',
         UNCHANGED <<at, via, atVia>>,
         \/ UNCHANGED going
         \/ \E w \in Panes : going' = [going EXCEPT ![w] = Nothing]
  PROVE  Ways'
<1>1. going' \in [Panes -> Addresses \cup {Nothing}]
  BY DEF Ways
<1>2. \A w \in Panes : going'[w] = going[w] \/ going'[w] \notin Sites
  BY BrowserAssumption DEF Ways
<1>3. \A w \in Panes : going'[w] \in Sites /\ via'[w] = "direct" => going'[w] \in direct'
  BY <1>2 DEF Ways
<1> QED
  BY <1>1, <1>3 DEF Ways

LEMMA IconsStay ==
  ASSUME Icons, UNCHANGED <<page, icons, at, uncommitted>>
  PROVE  Icons'
BY DEF Icons

LEMMA ScreensStay ==
  ASSUME InView, direct \subseteq direct', UNCHANGED <<cached, uncommitted>>,
         \/ UNCHANGED finished
         \/ \E w \in Panes : finished' = [finished EXCEPT ![w] = TRUE]
  PROVE  InView'
<1>1. finished' \in [Panes -> BOOLEAN]
  BY DEF InView
<1> QED
  BY <1>1 DEF InView

\* What the person does.
LEMMA PersonKeeps ==
  ASSUME BrowserInv, NEW w \in Panes, Type(w) \/ Leave(w) \/ Return(w) \/ Reload(w) \/ Back(w)
  PROVE  BrowserInv'
<1> USE BrowserAssumption
<1>1. UNCHANGED <<going, via, at, atVia, finished, cached, uncommitted, page, icons, retried, pinned,
                  direct, heard, said, again>>
  BY DEF Type, Leave, Return, Reload, Back, webkit, onScreen, lists, shared
<1>2. Refused' /\ Retried' /\ Icons' /\ InView'
  BY <1>1, IconsStay, ScreensStay DEF BrowserInv, Refused, Retried
<1>3. bar[w] \in Bar /\ Field(bar[w])
      /\ Pictured(w, bar[w]) /\ Routed(w, bar[w])
  BY DEF BrowserInv, Bars
<1>4. CASE Type(w)
  <2> DEFINE b == [bar[w] EXCEPT !.typing = TRUE, !.field = Typing]
  <2>1. b \in Bar /\ b.typing = TRUE /\ b.field = Typing /\ b.icon = bar[w].icon
        /\ b.route = bar[w].route
    BY <1>3 DEF Bar
  <2>2. bar' = [bar EXCEPT ![w] = b] /\ UNCHANGED next
    BY <1>4 DEF Type, webkit
  <2> HIDE DEF b
  <2>3. Bars'
    BY <1>1, <1>3, <2>1, <2>2, BarChanges DEF BrowserInv, Field, Routed, Pictured
  <2>4. Ways'
    BY <1>1, <2>2, WaysStay DEF BrowserInv, Ways
  <2> QED
    BY <1>2, <2>3, <2>4 DEF BrowserInv
<1>5. CASE Leave(w)
  <2> DEFINE b == [bar[w] EXCEPT !.typing = FALSE, !.field = bar[w].shown]
  <2>1. b \in Bar /\ b.typing = FALSE /\ b.field = b.shown /\ b.icon = bar[w].icon
        /\ b.route = bar[w].route
    BY <1>3 DEF Bar
  <2>2. bar' = [bar EXCEPT ![w] = b] /\ UNCHANGED next
    BY <1>5 DEF Leave, webkit
  <2> HIDE DEF b
  <2>3. Bars'
    BY <1>1, <1>3, <2>1, <2>2, BarChanges DEF BrowserInv, Field, Routed, Pictured
  <2>4. Ways'
    BY <1>1, <2>2, WaysStay DEF BrowserInv, Ways
  <2> QED
    BY <1>2, <2>3, <2>4 DEF BrowserInv
<1>6. CASE Return(w)
  <2>1. PICK x \in Sites : GoTo(w, x)
    BY <1>6 DEF Return
  <2>2. Bars' /\ next' \in [Panes -> Addresses \cup {Nothing}]
    BY <1>1, <2>1, GoesTo DEF Addresses
  <2>3. Ways'
    BY <1>1, <2>2, WaysStay DEF BrowserInv
  <2> QED
    BY <1>2, <2>2, <2>3 DEF BrowserInv
<1>7. CASE Reload(w)
  <2>1. \/ bar[w].failed # Nothing /\ GoTo(w, bar[w].failed)
        \/ Load(w, at[w]) /\ UNCHANGED bar
    BY <1>7 DEF Reload
  <2>2. Bars' /\ next' \in [Panes -> Addresses \cup {Nothing}]
    <3>1. CASE bar[w].failed # Nothing /\ GoTo(w, bar[w].failed)
      <4>1. bar[w].failed \in Addresses
        BY <1>3, <3>1 DEF Bar, Addresses
      <4> QED
        BY <1>1, <3>1, <4>1, GoesTo
    <3>2. CASE Load(w, at[w]) /\ UNCHANGED bar
      BY <1>1, <3>2 DEF BrowserInv, Bars, Ways, Load, Routed, Pictured
    <3> QED
      BY <2>1, <3>1, <3>2
  <2>3. Ways'
    BY <1>1, <2>2, WaysStay DEF BrowserInv
  <2> QED
    BY <1>2, <2>2, <2>3 DEF BrowserInv
<1>8. CASE Back(w)
  <2>1. Load(w, cached[w].of) /\ cached[w].of \in Sites /\ UNCHANGED bar
    BY <1>8 DEF Back, BrowserInv, InView, Left
  <2>2. Bars' /\ next' \in [Panes -> Addresses \cup {Nothing}]
    BY <1>1, <2>1 DEF BrowserInv, Bars, Ways, Load, Addresses, Routed, Pictured
  <2>3. Ways'
    BY <1>1, <2>2, WaysStay DEF BrowserInv
  <2> QED
    BY <1>2, <2>2, <2>3 DEF BrowserInv
<1> QED
  BY <1>4, <1>5, <1>6, <1>7, <1>8

\* A page that starts: another than the one last loaded again.
LEMMA StartsIs ==
  ASSUME Retried, NEW w \in Panes, NEW x, Starts(w, x)
  PROVE  Retried'
<1>1. /\ again[w] \in [of : Sites \cup {Nothing}, times : {0, 1}] /\ again[w].of = retried[w]
      /\ retried[w] \in Sites \cup {Nothing}
      /\ [of |-> Nothing, times |-> 0] \in [of : Sites \cup {Nothing}, times : {0, 1}]
  BY DEF Retried
<1>2. /\ retried' = [retried EXCEPT ![w] = IF Forgets(w, x) THEN Nothing ELSE retried[w]]
      /\ again' = [again EXCEPT ![w] = IF again[w].of = x THEN again[w]
                                       ELSE [of |-> Nothing, times |-> 0]]
  BY DEF Starts
<1>3. CASE retried[w] = x
  <2>1. retried' = [retried EXCEPT ![w] = retried[w]] /\ again' = [again EXCEPT ![w] = again[w]]
    BY <1>1, <1>2, <1>3 DEF Forgets
  <2> QED
    BY <2>1 DEF Retried
<1>4. CASE retried[w] # x
  <2>1. /\ retried' = [retried EXCEPT ![w] = Nothing]
        /\ again' = [again EXCEPT ![w] = [of |-> Nothing, times |-> 0]]
    BY <1>1, <1>2, <1>4 DEF Forgets
  <2> QED
    BY <1>1, <2>1 DEF Retried
<1> QED
  BY <1>3, <1>4

LEMMA StartKeeps ==
  ASSUME BrowserInv, NEW w \in Panes, DidStart(w)
  PROVE  BrowserInv'
<1> USE BrowserAssumption
<1>1. UNCHANGED <<at, atVia, finished, cached, uncommitted, bar, page, icons, pinned, direct, heard, said>>
  BY DEF DidStart, onScreen, lists, shared
<1>2. Refused' /\ Icons' /\ Bars' /\ InView'
  BY <1>1, IconsStay, ScreensStay DEF BrowserInv, Refused, Bars, Routed, Pictured
<1> DEFINE x == next[w]
<1>3. /\ x # Nothing /\ going' = [going EXCEPT ![w] = x] /\ next' = [next EXCEPT ![w] = Nothing]
      /\ via' = [via EXCEPT ![w] = IF SentDirect(x) THEN "direct" ELSE "proxy"]
  BY DEF DidStart
<1>4. Ways'
  <2>1. /\ next' \in [Panes -> Addresses \cup {Nothing}] /\ going' \in [Panes -> Addresses \cup {Nothing}]
        /\ via' \in [Panes -> {"proxy", "direct"}]
    BY <1>3 DEF BrowserInv, Ways
  <2>2. \A v \in Panes : going'[v] \in Sites /\ via'[v] = "direct" => going'[v] \in direct
    BY <1>3 DEF BrowserInv, Ways, SentDirect
  <2> QED
    BY <1>1, <2>1, <2>2 DEF BrowserInv, Ways
<1>5. Retried'
  BY StartsIs DEF DidStart, BrowserInv
<1> QED
  BY <1>2, <1>4, <1>5 DEF BrowserInv

\* What WebKit keeps of a page was a page on screen.
LEMMA LeftByIs ==
  ASSUME Ways, InView, NEW w \in Panes, NEW x, cached' = [cached EXCEPT ![w] = LeftBy(w, x)],
         UNCHANGED direct
  PROVE  /\ cached' \in [Panes -> {Nothing} \cup Left]
         /\ \A v \in Panes : cached'[v] # Nothing /\ cached'[v].via = "direct" =>
              cached'[v].of \in direct'
<1> DEFINE k == LeftBy(w, x)
           here == [of |-> at[w], via |-> atVia[w]]
<1>1. CASE at[w] \in Sites \ {x} /\ finished[w]
  <2>1. k = here
    BY <1>1 DEF LeftBy
  <2>2. here \in Left /\ here.of = at[w] /\ here.via = atVia[w]
    BY <1>1 DEF Ways, Left
  <2>3. here.via = "direct" => here.of \in direct
    BY <1>1, <2>2 DEF Ways
  <2> HIDE DEF here, k
  <2>4. cached' = [cached EXCEPT ![w] = here]
    BY <2>1 DEF k
  <2> QED
    BY <2>2, <2>3, <2>4 DEF InView
<1>2. CASE ~(at[w] \in Sites \ {x} /\ finished[w])
  <2>1. cached' = [cached EXCEPT ![w] = cached[w]]
    BY <1>2 DEF LeftBy
  <2> QED
    BY <2>1 DEF InView
<1> QED
  BY <1>1, <1>2

\* A page brought back was reached as it was when it was left.
LEMMA BackKeeps ==
  ASSUME BrowserInv, NEW w \in Panes, BroughtBack(w)
  PROVE  BrowserInv'
<1> USE BrowserAssumption
<1> DEFINE x == cached[w].of
           y == cached[w].via
<1>1. /\ at' = [at EXCEPT ![w] = x] /\ atVia' = [atVia EXCEPT ![w] = y]
      /\ finished' = [finished EXCEPT ![w] = FALSE]
      /\ uncommitted' = [uncommitted EXCEPT ![w] = TRUE]
      /\ cached' = [cached EXCEPT ![w] = LeftBy(w, x)] /\ Starts(w, x) /\ cached[w] # Nothing
      /\ UNCHANGED <<next, going, via, bar, page, icons, pinned, direct, heard, said>>
  BY DEF BroughtBack, lists, shared
<1>2. x \in Sites /\ y \in {"proxy", "direct"} /\ (y = "direct" => x \in direct)
  BY <1>1 DEF BrowserInv, InView, Left
<1> HIDE DEF x, y
<1>3. Refused' /\ Retried'
  BY <1>1, StartsIs DEF BrowserInv, Refused
<1>4. Ways'
  <2>1. at' \in [Panes -> Addresses] /\ atVia' \in [Panes -> {"proxy", "direct"}]
    BY <1>1, <1>2 DEF BrowserInv, Ways, Addresses
  <2>2. \A v \in Panes : at'[v] \in Sites /\ atVia'[v] = "direct" => at'[v] \in direct
    BY <1>1, <1>2 DEF BrowserInv, Ways
  <2> QED
    BY <1>1, <2>1, <2>2 DEF BrowserInv, Ways
<1>5. InView'
  <2>1. /\ cached' \in [Panes -> {Nothing} \cup Left]
        /\ \A v \in Panes : cached'[v] # Nothing /\ cached'[v].via = "direct" =>
             cached'[v].of \in direct'
    BY <1>1, LeftByIs DEF BrowserInv
  <2>2. finished' \in [Panes -> BOOLEAN] /\ uncommitted' \in [Panes -> BOOLEAN]
    BY <1>1 DEF BrowserInv, InView
  <2> QED
    BY <2>1, <2>2 DEF InView
<1>6. /\ ~finished'[w] /\ uncommitted'[w]
      /\ \A v \in Panes : v # w => /\ finished'[v] = finished[v] /\ uncommitted'[v] = uncommitted[v]
                                   /\ at'[v] = at[v] /\ atVia'[v] = atVia[v]
  BY <1>1 DEF BrowserInv, InView, Ways
<1>7. Icons'
  BY <1>1, <1>6 DEF BrowserInv, Icons
<1>8. Bars'
  BY <1>1, <1>6 DEF BrowserInv, Bars, Routed, Pictured
<1> QED
  BY <1>3, <1>4, <1>5, <1>7, <1>8 DEF BrowserInv

LEMMA RedirectKeeps ==
  ASSUME BrowserInv, NEW w \in Panes, Redirected(w)
  PROVE  BrowserInv'
<1>1. UNCHANGED <<next, at, atVia, finished, cached, uncommitted, bar, page, icons, retried, pinned,
                  direct, heard, said, again>>
  BY DEF Redirected, onScreen, lists, shared
<1>2. Refused' /\ Icons' /\ Bars' /\ Retried' /\ InView'
  BY <1>1, IconsStay, ScreensStay DEF BrowserInv, Refused, Bars, Retried, Routed, Pictured
<1>3. PICK x \in Sites : /\ going' = [going EXCEPT ![w] = x]
                         /\ via' = [via EXCEPT ![w] = IF SentDirect(x) THEN "direct" ELSE "proxy"]
  BY DEF Redirected
<1>4. going' \in [Panes -> Addresses \cup {Nothing}] /\ via' \in [Panes -> {"proxy", "direct"}]
  BY <1>3 DEF BrowserInv, Ways, Addresses
<1>5. \A v \in Panes : going'[v] \in Sites /\ via'[v] = "direct" => going'[v] \in direct
  BY <1>3 DEF BrowserInv, Ways, SentDirect
<1>6. Ways'
  BY <1>1, <1>4, <1>5 DEF BrowserInv, Ways
<1> QED
  BY <1>2, <1>6 DEF BrowserInv

LEMMA CommitKeeps ==
  ASSUME BrowserInv, NEW w \in Panes, DidCommit(w)
  PROVE  BrowserInv'
<1> USE BrowserAssumption
<1> DEFINE x == going[w]
           r == Refreshed(bar[w], x)
           b == [r EXCEPT !.icon = Nothing]
<1>1. /\ x # Nothing /\ at' = [at EXCEPT ![w] = x] /\ going' = [going EXCEPT ![w] = Nothing]
      /\ atVia' = [atVia EXCEPT ![w] = via[w]] /\ page' = [page EXCEPT ![w] = page[w] + 1]
      /\ bar' = [bar EXCEPT ![w] = b] /\ finished' = [finished EXCEPT ![w] = FALSE]
      /\ cached' = [cached EXCEPT ![w] = LeftBy(w, x)]
      /\ uncommitted' = [uncommitted EXCEPT ![w] = FALSE]
      /\ UNCHANGED <<next, via, icons, retried, direct, heard, said, again>>
      /\ Challenged(w, {x}) \/ UNCHANGED lists
  BY DEF DidCommit, shared
<1>2. x \in Addresses /\ via[w] \in {"proxy", "direct"} /\ (x \in Sites /\ via[w] = "direct" => x \in direct)
  BY <1>1 DEF BrowserInv, Ways
<1>3. Refused' /\ Retried'
  <2>1. pinned' \in [Panes -> SUBSET ApplePinned]
    BY <1>1, Challenges DEF BrowserInv, Refused, lists
  <2> QED
    BY <1>1, <2>1 DEF BrowserInv, Refused, Retried
<1>4. Ways'
  <2>1. /\ at' \in [Panes -> Addresses] /\ going' \in [Panes -> Addresses \cup {Nothing}]
        /\ atVia' \in [Panes -> {"proxy", "direct"}]
    BY <1>1, <1>2 DEF BrowserInv, Ways
  <2>2. \A v \in Panes : going'[v] \in Sites /\ via[v] = "direct" => going'[v] \in direct
    BY <1>1 DEF BrowserInv, Ways
  <2>3. \A v \in Panes : at'[v] \in Sites /\ atVia'[v] = "direct" => at'[v] \in direct
    BY <1>1, <1>2 DEF BrowserInv, Ways
  <2> QED
    BY <1>1, <2>1, <2>2, <2>3 DEF BrowserInv, Ways
<1>5. Icons'
  <2>1. page' \in [Panes -> Nat]
    BY <1>1 DEF BrowserInv, Icons
  <2>2. ASSUME NEW v \in Panes, NEW i \in icons[v]
        PROVE  i[1] <= page'[v] /\ (i[1] = page'[v] => i[2] = at'[v] \/ uncommitted'[v])
    <3>1. /\ i[1] \in Nat /\ page[v] \in Nat /\ i[1] <= page[v]
          /\ i[1] = page[v] => i[2] = at[v] \/ uncommitted[v]
      <4>1. icons[v] \in SUBSET (Nat \X Sites)
        BY DEF BrowserInv, Icons
      <4>2. i \in Nat \X Sites
        BY <4>1
      <4> QED
        BY <4>2 DEF BrowserInv, Icons
    <3>2. CASE v = w
      <4>1. page'[v] = page[v] + 1
        BY <1>1, <3>2 DEF BrowserInv, Icons
      <4> QED
        BY <3>1, <4>1
    <3>3. CASE v # w
      <4>1. page'[v] = page[v] /\ at'[v] = at[v] /\ uncommitted'[v] = uncommitted[v]
        BY <1>1, <3>3 DEF BrowserInv, Icons, Ways, InView
      <4> QED
        BY <3>1, <4>1
    <3> QED
      BY <3>2, <3>3
  <2> QED
    BY <1>1, <2>1, <2>2 DEF BrowserInv, Icons
<1>6. Bars'
  <2>1. bar[w] \in Bar /\ Field(bar[w])
    BY DEF BrowserInv, Bars
  <2>2. r \in Bar /\ (r.route = "proxy" => x \in Sites /\ x \notin direct) /\ Field(r)
    BY <1>2, <2>1, RefreshedBar
  <2> HIDE DEF r
  <2>3. b \in Bar /\ b.icon = Nothing /\ b.route = r.route /\ Field(b)
    BY <2>2, IconBar
  <2> HIDE DEF b
  <2>4. b.route = "proxy" => via[w] = "proxy"
    BY <1>2, <2>2, <2>3
  <2>5. bar' \in [Panes -> Bar] /\ bar'[w] = b /\ \A v \in Panes : v # w => bar'[v] = bar[v]
    BY <1>1, <2>3 DEF BrowserInv, Bars
  <2>6. /\ atVia'[w] = via[w] /\ ~uncommitted'[w]
        /\ \A v \in Panes : v # w => /\ atVia'[v] = atVia[v] /\ at'[v] = at[v]
                                     /\ finished'[v] = finished[v]
                                     /\ uncommitted'[v] = uncommitted[v]
    BY <1>1 DEF BrowserInv, Ways, InView
  <2> QED
    BY <2>3, <2>4, <2>5, <2>6 DEF BrowserInv, Bars, Routed, Pictured
<1>7. InView'
  <2>1. /\ cached' \in [Panes -> {Nothing} \cup Left]
        /\ \A v \in Panes : cached'[v] # Nothing /\ cached'[v].via = "direct" =>
             cached'[v].of \in direct'
    BY <1>1, LeftByIs DEF BrowserInv
  <2>2. finished' \in [Panes -> BOOLEAN] /\ uncommitted' \in [Panes -> BOOLEAN]
    BY <1>1 DEF BrowserInv, InView
  <2> QED
    BY <2>1, <2>2 DEF InView
<1> QED
  BY <1>3, <1>4, <1>5, <1>6, <1>7 DEF BrowserInv

LEMMA PartsKeep ==
  ASSUME BrowserInv, NEW w \in Panes, PartsLoaded(w)
  PROVE  BrowserInv'
<1>1. UNCHANGED <<next, going, via, at, atVia, finished, cached, uncommitted, bar, page, icons, retried,
                  direct, heard, said, again>>
  BY DEF PartsLoaded, webkit, onScreen, shared
<1>2. pinned' \in [Panes -> SUBSET ApplePinned]
  BY Challenges DEF BrowserInv, PartsLoaded
<1> QED
  BY <1>1, <1>2 DEF BrowserInv, Refused, Retried, Ways, InView, Icons, Bars, Routed, Pictured

LEMMA FinishKeeps ==
  ASSUME BrowserInv, NEW w \in Panes, DidFinish(w)
  PROVE  BrowserInv'
<1> USE BrowserAssumption
<1> DEFINE x == at[w]
           b == Refreshed(bar[w], x)
<1>1. /\ bar' = [bar EXCEPT ![w] = b] /\ SendRefusedParts(w, x)
      /\ icons' = [icons EXCEPT ![w] = IF x \in Sites THEN icons[w] \cup {<<page[w], x>>} ELSE icons[w]]
      /\ finished' = [finished EXCEPT ![w] = TRUE]
      /\ UNCHANGED <<going, via, at, atVia, cached, uncommitted, page, pinned, said>>
  BY DEF DidFinish, onScreen, lists
<1>2. /\ Refused' /\ Retried' /\ next' \in [Panes -> Addresses \cup {Nothing}]
      /\ direct \subseteq direct'
  BY <1>1, PartsSent DEF BrowserInv
<1>3. Ways' /\ InView'
  BY <1>1, <1>2, WaysStay, ScreensStay DEF BrowserInv
<1>4. Icons'
  <2>1. page[w] \in Nat
    BY DEF BrowserInv, Icons
  <2>2. icons' \in [Panes -> SUBSET (Nat \X Sites)]
    <3>1. (IF x \in Sites THEN icons[w] \cup {<<page[w], x>>} ELSE icons[w]) \in SUBSET (Nat \X Sites)
      BY <2>1 DEF BrowserInv, Icons
    <3> QED
      BY <1>1, <3>1 DEF BrowserInv, Icons
  <2>3. ASSUME NEW v \in Panes, NEW i \in icons'[v]
        PROVE  i[1] <= page[v] /\ (i[1] = page[v] => i[2] = at[v] \/ uncommitted[v])
    <3>1. i \in icons[v] \/ (v = w /\ i = <<page[w], x>>)
      BY <1>1 DEF BrowserInv, Icons
    <3>2. CASE i \in icons[v]
      BY <3>2 DEF BrowserInv, Icons
    <3>3. CASE v = w /\ i = <<page[w], x>>
      BY <2>1, <3>3
    <3> QED
      BY <3>1, <3>2, <3>3
  <2> QED
    BY <1>1, <2>2, <2>3 DEF BrowserInv, Icons
<1>5. Bars'
  <2>1. bar[w] \in Bar /\ Field(bar[w]) /\ x \in Addresses /\ Pictured(w, bar[w])
    BY DEF BrowserInv, Bars, Ways
  <2>2. /\ b \in Bar /\ b.icon = bar[w].icon /\ Field(b)
        /\ (b.route = "proxy" => x \in Sites /\ x \notin direct)
    BY <2>1, RefreshedBar
  <2>3. x \in Sites /\ x \notin direct => atVia[w] = "proxy"
    BY DEF BrowserInv, Ways
  <2> HIDE DEF b
  <2>4. /\ bar' \in [Panes -> Bar] /\ bar'[w] = b /\ \A v \in Panes : v # w => bar'[v] = bar[v]
        /\ \A v \in Panes : v # w => finished'[v] = finished[v]
    BY <1>1, <2>2 DEF BrowserInv, Bars, InView
  <2> QED
    BY <1>1, <2>1, <2>2, <2>3, <2>4 DEF BrowserInv, Bars, Routed, Pictured
<1> QED
  BY <1>2, <1>3, <1>4, <1>5 DEF BrowserInv

LEMMA IconKeeps ==
  ASSUME BrowserInv, NEW w \in Panes, FoundIcon(w)
  PROVE  BrowserInv'
<1>1. PICK i \in icons[w] :
        /\ icons' = [icons EXCEPT ![w] = icons[w] \ {i}]
        /\ bar' = IF IsOfPage(w, i) THEN [bar EXCEPT ![w] = [bar[w] EXCEPT !.icon = i[2]]] ELSE bar
        /\ UNCHANGED <<next, going, via, at, atVia, finished, cached, uncommitted, page, retried, pinned,
                       direct, heard, said, again>>
  BY DEF FoundIcon, webkit, onScreen, lists, shared
<1>2. Refused' /\ Retried' /\ Ways' /\ InView'
  BY <1>1 DEF BrowserInv, Refused, Retried, Ways, InView
<1>3. Icons'
  BY <1>1 DEF BrowserInv, Icons
<1>4. Bars'
  <2>1. CASE IsOfPage(w, i)
    <3>1. (i[2] = at[w] \/ uncommitted[w]) /\ i[2] \in Sites
      <4>1. icons[w] \in SUBSET (Nat \X Sites) /\ i[1] = page[w]
        BY <2>1 DEF BrowserInv, Icons, IsOfPage
      <4>2. i \in Nat \X Sites
        BY <4>1
      <4> QED
        BY <4>1, <4>2 DEF BrowserInv, Icons
    <3> DEFINE b == [bar[w] EXCEPT !.icon = i[2]]
    <3>2. bar[w] \in Bar /\ Field(bar[w]) /\ Routed(w, bar[w])
      BY DEF BrowserInv, Bars
    <3>3. b \in Bar /\ b.icon = i[2] /\ b.route = bar[w].route /\ Field(b)
      BY <3>1, <3>2, IconBar
    <3>4. bar' = [bar EXCEPT ![w] = b]
      BY <1>1, <2>1
    <3> HIDE DEF b
    <3> QED
      BY <1>1, <3>1, <3>2, <3>3, <3>4, BarChanges DEF BrowserInv, Routed, Pictured
  <2>2. CASE ~IsOfPage(w, i)
    BY <1>1, <2>2 DEF BrowserInv, Bars, Routed, Pictured
  <2> QED
    BY <2>1, <2>2
<1> QED
  BY <1>2, <1>3, <1>4 DEF BrowserInv

LEMMA LookKeeps ==
  ASSUME BrowserInv, NEW w \in Panes, LookAgain(w)
  PROVE  BrowserInv'
<1>1. /\ UNCHANGED <<next, retried, direct, heard, again>> \/ SendRefusedParts(w, at[w])
      /\ UNCHANGED <<going, via, at, atVia, finished, cached, uncommitted, bar, page, icons, pinned, said>>
  BY DEF LookAgain, onScreen, lists
<1>2. /\ Refused' /\ Retried' /\ next' \in [Panes -> Addresses \cup {Nothing}]
      /\ direct \subseteq direct'
  <2>1. CASE SendRefusedParts(w, at[w])
    BY <1>1, <2>1, PartsSent DEF BrowserInv
  <2>2. CASE UNCHANGED <<next, retried, direct, heard, again>>
    BY <1>1, <2>2 DEF BrowserInv, Refused, Retried, Ways
  <2> QED
    BY <1>1, <2>1, <2>2
<1>3. Ways' /\ InView' /\ Icons' /\ Bars'
  BY <1>1, <1>2, WaysStay, ScreensStay DEF BrowserInv, Icons, Bars, Routed, Pictured
<1> QED
  BY <1>2, <1>3 DEF BrowserInv

LEMMA FailKeeps ==
  ASSUME BrowserInv, NEW w \in Panes, DidFail(w) \/ Replaced(w) \/ StopLoading(w)
  PROVE  BrowserInv'
<1> USE BrowserAssumption
<1>1. /\ going' = [going EXCEPT ![w] = Nothing]
      /\ UNCHANGED <<via, at, atVia, finished, cached, uncommitted, page, icons, heard, said>>
  BY DEF DidFail, Replaced, StopLoading, onScreen
<1>2. going[w] \in Addresses
  BY DEF BrowserInv, Ways, DidFail, Replaced, StopLoading
<1>3. PICK code \in {"secure", "cancelled", "other"} :
        /\ code = "secure" => going[w] \in Preloaded
        /\ Challenged(w, {going[w]}) \/ UNCHANGED lists
        /\ AfterFailure(w, going[w], code)
  <2>1. CASE DidFail(w)
    BY <2>1 DEF DidFail
  <2>2. CASE Replaced(w) \/ StopLoading(w)
    <3>1. AfterFailure(w, going[w], "cancelled") /\ UNCHANGED lists
      BY <2>2 DEF Replaced, StopLoading
    <3> QED
      BY <3>1
  <2> QED
    BY <2>1, <2>2
<1>4. pinned' \in [Panes -> SUBSET ApplePinned]
  BY <1>3, Challenges DEF BrowserInv, Refused, lists
<1>5. /\ Refused' /\ Retried' /\ Bars' /\ next' \in [Panes -> Addresses \cup {Nothing}]
      /\ direct \subseteq direct'
  BY <1>1, <1>2, <1>3, <1>4, FailureHandled DEF BrowserInv
<1>6. Ways' /\ Icons' /\ InView'
  BY <1>1, <1>5, WaysStay, IconsStay, ScreensStay DEF BrowserInv
<1> QED
  BY <1>5, <1>6 DEF BrowserInv

LEMMA WordKeeps ==
  ASSUME BrowserInv, ProxySays \/ \E w \in Panes : DidFailLoad(w)
  PROVE  BrowserInv'
<1>1. UNCHANGED <<next, going, via, at, atVia, cached, uncommitted, bar, page, icons, retried, pinned,
                  direct, heard, again>>
  BY DEF ProxySays, DidFailLoad, webkit, onScreen, lists, shared
<1>2. said \subseteq said' /\ said' \subseteq Preloaded
  BY DEF ProxySays, DidFailLoad, shared, BrowserInv, Refused
<1>3. \/ UNCHANGED finished
      \/ \E w \in Panes : finished' = [finished EXCEPT ![w] = TRUE] /\ ~uncommitted[w]
  BY DEF ProxySays, DidFailLoad, webkit
<1>4. InView'
  BY <1>1, <1>3, ScreensStay DEF BrowserInv
<1>5. \A v \in Panes : finished'[v] /\ uncommitted[v] => finished[v]
  BY <1>3 DEF BrowserInv, InView
<1>6. Bars'
  BY <1>1, <1>5 DEF BrowserInv, Bars, Routed, Pictured
<1> QED
  BY <1>1, <1>2, <1>4, <1>6 DEF BrowserInv, Refused, Retried, Ways, Icons

LEMMA BrowserStarts ==
  ASSUME BrowserInit
  PROVE  BrowserInv
<1> USE BrowserAssumption
<1>1. Refused
  BY DEF BrowserInit, Refused
<1>2. Retried
  BY DEF BrowserInit, Retried
<1>3. Ways
  BY DEF BrowserInit, Ways, Addresses
<1>4. Icons /\ InView
  BY DEF BrowserInit, Icons, InView
<1>5. Bars
  <2>1. NewBar \in Bar /\ Field(NewBar) /\ NewBar.route = Nothing /\ NewBar.icon = Nothing
    BY DEF NewBar, Bar, Field, Addresses
  <2>2. bar = [w \in Panes |-> NewBar]
    BY DEF BrowserInit
  <2> QED
    BY <2>1, <2>2 DEF Bars, Routed, Pictured
<1> QED
  BY <1>1, <1>2, <1>3, <1>4, <1>5 DEF BrowserInv

\* What the window's delegate and app_macos.rs keep about loads: which sites are known to be
\* refused, the page last loaded again, where each window is and what its bar says of it.
THEOREM BrowserIsSound == BrowserSpec => []BrowserInv
<1>1. BrowserInv /\ [BrowserNext]_browser => BrowserInv'
  <2>1. ASSUME BrowserInv, BrowserNext
        PROVE  BrowserInv'
    <3>1. CASE ProxySays
      BY <2>1, <3>1, WordKeeps
    <3>2. ASSUME NEW w \in Panes,
                 \/ Type(w) \/ Leave(w) \/ Return(w) \/ Reload(w) \/ Back(w) \/ StopLoading(w)
                 \/ DidStart(w) \/ BroughtBack(w) \/ Redirected(w) \/ DidCommit(w)
                 \/ PartsLoaded(w) \/ DidFinish(w) \/ FoundIcon(w) \/ LookAgain(w)
                 \/ DidFail(w) \/ DidFailLoad(w) \/ Replaced(w)
          PROVE  BrowserInv'
      BY <2>1, <3>2, PersonKeeps, StartKeeps, BackKeeps, RedirectKeeps, CommitKeeps, PartsKeep, FinishKeeps,
         IconKeeps, LookKeeps, FailKeeps, WordKeeps
    <3> QED
      BY <2>1, <3>1, <3>2 DEF BrowserNext
  <2>2. BrowserInv /\ UNCHANGED browser => BrowserInv'
    BY DEF browser, webkit, onScreen, lists, shared, BrowserInv, Refused, Retried, Ways, InView,
       Icons, Bars, Routed, Pictured
  <2> QED
    BY <2>1, <2>2
<1> QED
  BY <1>1, BrowserStarts, PTL DEF BrowserSpec

\* A page that was refused through the proxy is loaded again once and no more: retried, set by
\* every load that the application starts by itself, is cleared only where another page starts,
\* so a failure and a page that is refused after all never take turns for ever.
THEOREM AgainIsOnce == BrowserSpec => []LoadedAgainOnce
<1>1. BrowserInv => LoadedAgainOnce
  BY DEF BrowserInv, Retried, LoadedAgainOnce
<1> QED
  BY <1>1, BrowserIsSound, PTL

\* Whatever the order in which WebKit starts, redirects, commits, finishes, fails and brings back
\* pages, and in which icons and the proxy's word arrive: a window never says that a page came
\* through Syndeo when it was reached directly, once it is committed or, brought back without a
\* commit, has finished; a tab shows no icon but its page's unless that was brought back; and
\* only what macOS refuses, or may refuse, is reached directly at all (browser_macos.rs,
\* did_commit, did_finish and find_icon).
THEOREM BarsAreHonest == BrowserSpec => []BarHonest
<1>1. BrowserInv => BarHonest
  BY DEF BrowserInv, Refused, Bars, Routed, Pictured, BarHonest
<1> QED
  BY <1>1, BrowserIsSound, PTL

-----------------------------------------------------------------------------
\* What is typed in one bar is as it was in the other.
Spared(b, c) == b.typing => c.typing /\ c.field = b.field
AllSpared == \A w \in Panes : Spared(bar[w], bar'[w])

\* What only the person's own steps leave as it is.
Unmoved == UNCHANGED <<going, via, onScreen, finished, page, loading, icons, looks, shared>>

LEMMA BarsSpare ==
  ASSUME NEW b \in Bar, NEW x \in Addresses
  PROVE  Spared(b, FailurePage(b, x)) /\ Spared(b, Refreshed(b, x))
<1> DEFINE s == Showing(b, x)
           f == IF x = Blank THEN Nothing ELSE x
           r == RouteWith(x)
<1>1. s \in Bar /\ s.typing = b.typing /\ s.field = (IF b.typing THEN b.field ELSE x)
  BY ShowingBar
<1>2. Spared(b, s)
  BY <1>1 DEF Spared
<1>3. FailurePage(b, x) = [s EXCEPT !.failed = f, !.route = Nothing]
  BY DEF FailurePage
<1>4. Refreshed(b, x) \in {[s EXCEPT !.failed = Nothing, !.route = r], [b EXCEPT !.route = Nothing]}
  BY DEF Refreshed
<1> HIDE DEF s, f, r
<1>5. Spared(b, [s EXCEPT !.failed = f, !.route = Nothing])
  BY <1>1, <1>2 DEF Spared, Bar
<1>6. Spared(b, [s EXCEPT !.failed = Nothing, !.route = r]) /\ Spared(b, [b EXCEPT !.route = Nothing])
  BY <1>1, <1>2 DEF Spared, Bar
<1> QED BY <1>3, <1>4, <1>5, <1>6

LEMMA OneSpared ==
  ASSUME bar \in [Panes -> Bar], NEW w \in Panes, NEW b, bar' = [bar EXCEPT ![w] = b],
         Spared(bar[w], b)
  PROVE  AllSpared
BY DEF AllSpared, Spared

LEMMA NoneTouched == ASSUME UNCHANGED bar PROVE AllSpared
BY DEF AllSpared, Spared

\* A load that failed leaves what is typed alone, whatever it comes to.
LEMMA FailureSpares ==
  ASSUME bar \in [Panes -> Bar], NEW w \in Panes, NEW x \in Addresses, NEW code,
         AfterFailure(w, x, code)
  PROVE  AllSpared
<1>1. ShowPage(w, x) \/ UNCHANGED bar
  BY DEF AfterFailure
<1>2. ASSUME ShowPage(w, x) PROVE AllSpared
  <2> DEFINE b == FailurePage(bar[w], x)
  <2>1. bar' = [bar EXCEPT ![w] = b] /\ Spared(bar[w], b)
    BY <1>2, BarsSpare DEF ShowPage
  <2> HIDE DEF b
  <2> QED BY <2>1, OneSpared
<1> QED BY <1>1, <1>2, NoneTouched

LEMMA PersonsSteps ==
  ASSUME NEW w \in Panes
  PROVE  Type(w) \/ Leave(w) \/ Return(w) \/ Reload(w) \/ Back(w) => Unmoved
BY DEF Type, Leave, Return, Reload, Back, Unmoved, webkit

LEMMA FailuresSpare ==
  ASSUME BrowserInv, NEW w \in Panes
  PROVE  DidFail(w) \/ Replaced(w) \/ StopLoading(w) => AllSpared
<1>1. bar \in [Panes -> Bar] /\ (going[w] # Nothing => going[w] \in Addresses)
  BY DEF BrowserInv, Bars, Ways
<1>2. ASSUME DidFail(w) PROVE AllSpared
  <2>1. going[w] \in Addresses /\ \E code : AfterFailure(w, going[w], code)
    BY <1>2 DEF DidFail, Addresses
  <2> QED BY <1>1, <2>1, FailureSpares
<1>3. ASSUME Replaced(w) \/ StopLoading(w) PROVE AllSpared
  <2>1. going[w] # Nothing /\ AfterFailure(w, going[w], "cancelled")
    BY <1>3 DEF Replaced, StopLoading
  <2> QED BY <1>1, <2>1, FailureSpares
<1> QED BY <1>2, <1>3

LEMMA PagesSpare ==
  ASSUME BrowserInv, NEW w \in Panes
  PROVE  DidCommit(w) \/ DidFinish(w) \/ FoundIcon(w) => AllSpared
<1>1. bar \in [Panes -> Bar] /\ bar[w] \in Bar /\ at[w] \in Addresses
      /\ (going[w] # Nothing => going[w] \in Addresses)
  BY DEF BrowserInv, Bars, Ways
<1>2. ASSUME DidCommit(w) PROVE AllSpared
  <2> DEFINE r == Refreshed(bar[w], going[w])
             b == [r EXCEPT !.icon = Nothing]
  <2>1. bar' = [bar EXCEPT ![w] = b] /\ going[w] # Nothing
    BY <1>2 DEF DidCommit
  <2>2. r \in Bar /\ Spared(bar[w], r)
    BY <1>1, <2>1, RefreshedBar, BarsSpare
  <2>3. Spared(bar[w], b)
    <3> HIDE DEF r
    <3> QED BY <2>2 DEF Spared, Bar
  <2> HIDE DEF b
  <2> QED BY <1>1, <2>1, <2>3, OneSpared
<1>3. ASSUME DidFinish(w) PROVE AllSpared
  <2> DEFINE b == Refreshed(bar[w], at[w])
  <2>1. bar' = [bar EXCEPT ![w] = b] /\ Spared(bar[w], b)
    BY <1>1, <1>3, BarsSpare DEF DidFinish
  <2> HIDE DEF b
  <2> QED BY <1>1, <2>1, OneSpared
<1>4. ASSUME FoundIcon(w) PROVE AllSpared
  <2>1. PICK icon \in icons[w] :
          bar' = IF IsOfPage(w, icon) THEN [bar EXCEPT ![w].icon = icon[2]] ELSE bar
    BY <1>4 DEF FoundIcon
  <2> DEFINE b == [bar[w] EXCEPT !.icon = icon[2]]
  <2>2. bar' = [bar EXCEPT ![w] = b] \/ UNCHANGED bar
    BY <2>1
  <2>3. Spared(bar[w], b)
    BY <1>1 DEF Spared, Bar
  <2> HIDE DEF b
  <2> QED BY <1>1, <2>2, <2>3, OneSpared, NoneTouched
<1> QED BY <1>2, <1>3, <1>4

\* What someone types stays until they press Return or leave the field: no page that starts,
\* redirects, commits, finishes, fails, is made again or brought back, no icon and no word of
\* the proxy's writes over it, whatever is under way when they type (browser_macos.rs,
\* set_shown, which every one of them goes through).
THEOREM TypingIsKept == BrowserSpec => TypingKept
<1> DEFINE keeps == \A w \in Panes :
             bar[w].typing /\ bar'[w] # bar[w] =>
               \/ bar'[w].typing /\ bar'[w].field = bar[w].field
               \/ UNCHANGED <<going, via, onScreen, finished, page, loading, icons, looks, shared>>
<1>1. AllSpared \/ Unmoved => keeps
  BY DEF AllSpared, Spared, Unmoved
<1>2. ASSUME BrowserInv, BrowserNext PROVE keeps
  <2> HIDE DEF keeps
  <2>1. ASSUME NEW w \in Panes,
               \/ DidStart(w) \/ BroughtBack(w) \/ Redirected(w) \/ PartsLoaded(w)
               \/ LookAgain(w) \/ DidFailLoad(w)
        PROVE  UNCHANGED bar
    BY <2>1 DEF DidStart, BroughtBack, Redirected, PartsLoaded, LookAgain, DidFailLoad
  <2>2. ProxySays => UNCHANGED bar
    BY DEF ProxySays
  <2> QED BY <1>1, <1>2, <2>1, <2>2, NoneTouched, PersonsSteps, FailuresSpare, PagesSpare DEF BrowserNext
<1>3. UNCHANGED browser => UNCHANGED bar
  BY DEF browser
<1>4. BrowserInv /\ [BrowserNext]_browser => [keeps]_browser
  <2> HIDE DEF keeps
  <2> QED BY <1>2
<1>5. BrowserSpec => [][keeps]_browser
  <2> HIDE DEF keeps
  <2> QED BY <1>4, BrowserIsSound, PTL DEF BrowserSpec
<1> QED BY <1>5 DEF TypingKept

(***************************************************************************)
(* The reader's window: its questions, and its pages.                      *)
(***************************************************************************)

\* Induction over numbers.
LEMMA LeastOf ==
  ASSUME NEW T, T \subseteq Nat, T # {}
  PROVE  \E m \in T : \A k \in T : m <= k
<1> DEFINE Below == {0 .. k : k \in T}
<1>1. Below \subseteq FiniteSubsetsOf(Nat)
  <2>1. \A k \in Nat : IsFiniteSet(0 .. k) /\ 0 .. k \subseteq Nat
    BY FS_Interval
  <2> QED BY <2>1 DEF FiniteSubsetsOf
<1>2. Below # {}
  OBVIOUS
<1>3. \E x \in Below : \A y \in Below : <<y, x>> \notin StrictSubsetOrdering(Nat)
  <2>1. IsWellFoundedOn(StrictSubsetOrdering(Nat), FiniteSubsetsOf(Nat))
    BY FS_StrictSubsetOrderingWellFounded
  <2> HIDE DEF Below
  <2> QED BY <1>1, <1>2, <2>1, WFMin
<1>4. PICK m \in T : \A y \in Below : <<y, 0 .. m>> \notin StrictSubsetOrdering(Nat)
  BY <1>3
<1>5. ASSUME NEW k \in T, k < m
      PROVE  FALSE
  <2>1. 0 .. k \in Below
    OBVIOUS
  <2>2. 0 .. k \subseteq 0 .. m /\ 0 .. k # 0 .. m /\ 0 .. k \subseteq Nat /\ 0 .. m \subseteq Nat
    <3>1. m \in 0 .. m /\ m \notin 0 .. k
      BY <1>5
    <3> QED BY <1>5, <3>1
  <2>3. <<0 .. k, 0 .. m>> \in StrictSubsetOrdering(Nat)
    BY <2>2 DEF StrictSubsetOrdering
  <2> QED BY <1>4, <2>1, <2>3
<1> QED BY <1>5

\* What holds of 0, and of what follows, holds of all.
LEMMA FromZero ==
  ASSUME NEW P, 0 \in P, \A n \in Nat : n \in P => n + 1 \in P
  PROVE  Nat \subseteq P
<1> SUFFICES ASSUME Nat \ P # {} PROVE FALSE
  OBVIOUS
<1>1. PICK m \in Nat \ P : \A k \in Nat \ P : m <= k
  BY LeastOf
<1>2. m # 0 /\ m - 1 \in Nat /\ m - 1 \in P
  BY <1>1
<1> QED BY <1>1, <1>2

\* The largest of some numbers, as FoldLeft looks for the message to take last.
Greatest(d) == CHOOSE x \in d : \A y \in d : x >= y

\* A bound that is reached.
LEMMA GreatestIs ==
  ASSUME NEW m \in Nat, NEW d \in SUBSET (1 .. m), m \in d
  PROVE  Greatest(d) = m
<1>1. \A y \in d : y \in Nat /\ m >= y
  OBVIOUS
<1>2. \A x \in d : (\A y \in d : x >= y) => x = m
  BY <1>1
<1> QED BY <1>1, <1>2 DEF Greatest

\* What drain makes of the screen, message by message.
LEMMA Taking ==
  ASSUME NEW X, NEW s \in Seq(X), NEW base
  PROVE  \E f : /\ f[0] = base
                /\ \A k \in 1 .. Len(s) : f[k] = Took(f[k - 1], s[k])
                /\ FoldLeft(Took, base, s) = f[Len(s)]
<1> DEFINE step(g, d) == IF d = {} THEN base ELSE Took(g[d \ {Greatest(d)}], s[Greatest(d)])
           Upto(k) == \E g : g = [d \in SUBSET (1 .. k) |-> step(g, d)]
           P == {k \in Nat : Upto(k)}
<1>1. 0 \in P
  <2>1. 1 .. 0 = {}
    OBVIOUS
  <2> DEFINE g == [d \in SUBSET (1 .. 0) |-> base]
  <2>2. g = [d \in SUBSET (1 .. 0) |-> step(g, d)]
    <3>1. \A d \in SUBSET (1 .. 0) : d = {}
      BY <2>1
    <3>2. \A d \in SUBSET (1 .. 0) : step(g, d) = base
      BY <3>1
    <3> HIDE DEF step
    <3> QED BY <3>2
  <2> HIDE DEF g, step
  <2> QED BY <2>2
<1>2. ASSUME NEW k \in Nat, k \in P
      PROVE  k + 1 \in P
  <2>1. PICK g : g = [d \in SUBSET (1 .. k) |-> step(g, d)]
    BY <1>2
  <2> DEFINE h == [d \in SUBSET (1 .. (k + 1)) |->
                     IF k + 1 \in d THEN Took(g[d \ {k + 1}], s[k + 1]) ELSE g[d]]
  <2>2. ASSUME NEW d \in SUBSET (1 .. (k + 1))
        PROVE  h[d] = step(h, d)
    <3>1. CASE k + 1 \in d
      <4>1. Greatest(d) = k + 1
        BY <3>1, GreatestIs
      <4>2. d \ {k + 1} \in SUBSET (1 .. k) /\ k + 1 \notin d \ {k + 1}
        OBVIOUS
      <4>3. d \ {k + 1} \in SUBSET (1 .. (k + 1))
        OBVIOUS
      <4>4. h[d \ {k + 1}] = g[d \ {k + 1}]
        BY <4>2, <4>3
      <4>5. h[d] = Took(g[d \ {k + 1}], s[k + 1])
        BY <3>1
      <4>6. step(h, d) = Took(h[d \ {k + 1}], s[k + 1])
        <5> HIDE DEF h
        <5> QED BY <3>1, <4>1
      <4> HIDE DEF h, step
      <4> QED BY <4>4, <4>5, <4>6
    <3>2. CASE k + 1 \notin d
      <4>1. d \in SUBSET (1 .. k) /\ d \ {Greatest(d)} \in SUBSET (1 .. (k + 1))
            /\ k + 1 \notin d \ {Greatest(d)}
        <5>1. \A y \in d : y \in 1 .. k
          BY <3>2
        <5>2. d \ {Greatest(d)} \subseteq d /\ 1 .. k \subseteq 1 .. (k + 1)
          OBVIOUS
        <5> QED BY <3>2, <5>1, <5>2
      <4>2. h[d] = g[d] /\ h[d \ {Greatest(d)}] = g[d \ {Greatest(d)}]
        BY <3>2, <4>1
      <4>3. g[d] = step(g, d)
        <5> HIDE DEF step
        <5> QED BY <2>1, <4>1
      <4>4. step(g, d) = step(h, d)
        <5> HIDE DEF h
        <5> QED BY <4>2
      <4> HIDE DEF h, step
      <4> QED BY <4>2, <4>3, <4>4
    <3> QED BY <3>1, <3>2
  <2>3. h = [d \in SUBSET (1 .. (k + 1)) |-> step(h, d)]
    <3> HIDE DEF step
    <3> QED BY <2>2
  <2>4. Upto(k + 1)
    <3> HIDE DEF h, step
    <3> QED BY <2>3
  <2> HIDE DEF Upto
  <2> QED BY <2>4
<1> DEFINE n == Len(s)
           G == CHOOSE g : g = [d \in SUBSET (1 .. n) |-> step(g, d)]
<1>3. G = [d \in SUBSET (1 .. n) |-> step(G, d)]
  <2>1. Upto(n)
    <3>1. Nat \subseteq P
      <4> HIDE DEF P
      <4> QED BY <1>1, <1>2, FromZero
    <3> HIDE DEF Upto
    <3> QED BY <3>1
  <2> HIDE DEF step, n
  <2> QED BY <2>1
<1>4. FoldLeft(Took, base, s) = G[1 .. n]
  <2>1. DOMAIN s = 1 .. n
    OBVIOUS
  <2> QED BY <2>1 DEF FoldLeft, MapThenFoldSet, Max, Greatest
<1> DEFINE f == [k \in 0 .. n |-> G[1 .. k]]
<1>5. f[0] = base
  <2>1. 1 .. 0 = {} /\ {} \in SUBSET (1 .. n) /\ 0 \in 0 .. n
    OBVIOUS
  <2>2. step(G, {}) = base
    OBVIOUS
  <2> HIDE DEF G, step
  <2> QED BY <1>3, <2>1, <2>2
<1>6. ASSUME NEW k \in 1 .. n
      PROVE  f[k] = Took(f[k - 1], s[k])
  <2>1. k \in 0 .. n /\ k - 1 \in 0 .. n /\ 1 .. k \in SUBSET (1 .. n) /\ 1 .. k # {}
    <3>1. n \in Nat
      OBVIOUS
    <3> HIDE DEF n
    <3>2. k \in Nat /\ k <= n /\ k - 1 \in Nat /\ k \in 1 .. k
      BY <3>1
    <3>3. \A y \in 1 .. k : y \in 1 .. n
      BY <3>1, <3>2
    <3>4. k \in 0 .. n /\ k - 1 \in 0 .. n
      BY <3>1, <3>2
    <3>5. 1 .. k \in SUBSET (1 .. n)
      BY <3>3
    <3> QED BY <3>2, <3>4, <3>5
  <2>2. Greatest(1 .. k) = k /\ (1 .. k) \ {k} = 1 .. (k - 1)
    <3>1. k \in Nat /\ k \in 1 .. k /\ 1 .. k \in SUBSET (1 .. k)
      OBVIOUS
    <3>2. \A y : y \in (1 .. k) \ {k} <=> y \in 1 .. (k - 1)
      BY <3>1
    <3> QED BY <3>1, <3>2, GreatestIs
  <2>3. step(G, 1 .. k) = Took(G[1 .. (k - 1)], s[k])
    <3> HIDE DEF G
    <3> QED BY <2>1, <2>2
  <2> HIDE DEF G, step
  <2> QED BY <1>3, <2>1, <2>3
<1>7. f[n] = G[1 .. n]
  <2>1. n \in 0 .. n
    OBVIOUS
  <2> HIDE DEF G, n
  <2> QED BY <2>1
<1> HIDE DEF f, G
<1> QED BY <1>4, <1>5, <1>6, <1>7

-----------------------------------------------------------------------------
\* What the address field may say, and be asked for.
Fields == Urls \cup {Empty}
Jobs == [kind : {"load"}, url : Fields] \cup [kind : {"stats", "peers", "quit"}, url : {NoUrl}]
Answers == [kind : {"loaded", "failed"}, url : Fields]
             \cup [kind : {"stats", "peers"}, url : {NoUrl}]
Workers == [kind : {"load"}, url : Fields]
             \cup [kind : {"stats", "peers", "idle", "gone"}, url : {NoUrl}]
Screens == [address : Fields, page : Fields \cup {NoUrl}, loading : BOOLEAN,
            error : Fields \cup {NoUrl}]

\* Messages of these kinds in a channel: none, or the last of them.
NoneOf(s, kinds) == \A i \in DOMAIN s : s[i].kind \notin kinds
IsLast(s, i, kinds) ==
  /\ i \in DOMAIN s /\ s[i].kind \in kinds
  /\ \A j \in DOMAIN s : j > i => s[j].kind \notin kinds

Loads == {"load"}
Outcomes == {"loaded", "failed"}

\* The address is on screen, as a page or as what failed, and nothing is said to be loading.
Shown(s, url) == ~s.loading /\ (s.error = url \/ (s.error = NoUrl /\ s.page = url))

\* What one message does to the screen.
LEMMA TookOne ==
  ASSUME NEW s \in Screens, NEW m \in Answers
  PROVE  /\ Took(s, m) \in Screens
         /\ m.kind \notin Outcomes => Took(s, m) = s
         /\ m.kind \in Outcomes => Shown(Took(s, m), m.url) /\ m.url \in Fields
<1>1. CASE m.kind = "loaded"
  <2>1. m.url \in Fields
    BY <1>1 DEF Answers
  <2>2. Took(s, m) = [address |-> m.url, page |-> m.url, loading |-> FALSE, error |-> NoUrl]
    BY <1>1 DEF Took
  <2> QED BY <1>1, <2>1, <2>2 DEF Screens, Shown, Outcomes
<1>2. CASE m.kind = "failed"
  <2>1. m.url \in Fields
    BY <1>2 DEF Answers
  <2> DEFINE t == [s EXCEPT !.loading = FALSE, !.error = m.url]
  <2>2. Took(s, m) = t
    BY <1>2 DEF Took
  <2>3. t \in Screens /\ t.loading = FALSE /\ t.error = m.url
    BY <2>1 DEF Screens
  <2> HIDE DEF t
  <2> QED BY <1>2, <2>1, <2>2, <2>3 DEF Shown, Outcomes
<1>3. CASE m.kind \notin Outcomes
  BY <1>3 DEF Took, Outcomes
<1> QED BY <1>1, <1>2, <1>3 DEF Outcomes

\* What drain makes of the screen is what the last page or failure says.
LEMMA Drained ==
  ASSUME NEW s \in Seq(Answers), NEW base \in Screens
  PROVE  /\ FoldLeft(Took, base, s) \in Screens
         /\ \/ NoneOf(s, Outcomes) /\ FoldLeft(Took, base, s) = base
            \/ \E i : IsLast(s, i, Outcomes) /\ Shown(FoldLeft(Took, base, s), s[i].url)
<1>1. PICK f : /\ f[0] = base
               /\ \A k \in 1 .. Len(s) : f[k] = Took(f[k - 1], s[k])
               /\ FoldLeft(Took, base, s) = f[Len(s)]
  BY Taking
<1> DEFINE n == Len(s)
           None(k) == f[k] = base /\ \A j \in 1 .. k : s[j].kind \notin Outcomes
           Some(k, i) == /\ i \in 1 .. k /\ s[i].kind \in Outcomes /\ Shown(f[k], s[i].url)
                         /\ \A j \in 1 .. k : j > i => s[j].kind \notin Outcomes
           Fine(k) == f[k] \in Screens /\ (None(k) \/ \E i : Some(k, i))
           P == {k \in Nat : k <= n => Fine(k)}
<1>0. n \in Nat /\ DOMAIN s = 1 .. n
  OBVIOUS
<1>2. 0 \in P
  BY <1>0, <1>1
<1>3. ASSUME NEW k \in Nat, k \in P
      PROVE  k + 1 \in P
  <2> SUFFICES ASSUME k + 1 <= n PROVE Fine(k + 1)
    BY <1>3
  <2>1. k <= n /\ k + 1 \in 1 .. n /\ (k + 1) - 1 = k
    BY <1>0
  <2>2. Fine(k) /\ f[k] \in Screens
    BY <1>3, <2>1
  <2>3. s[k + 1] \in Answers
    BY <2>1
  <2>4. f[k + 1] = Took(f[k], s[k + 1])
    BY <1>1, <2>1
  <2>5. f[k + 1] \in Screens
    BY <2>2, <2>3, <2>4, TookOne
  <2>6. \A j \in 1 .. (k + 1) : j = k + 1 \/ j \in 1 .. k
    OBVIOUS
  <2>7. CASE s[k + 1].kind \notin Outcomes
    <3>1. f[k + 1] = f[k]
      BY <2>2, <2>3, <2>4, <2>7, TookOne
    <3>2. None(k) => None(k + 1)
      BY <2>6, <2>7, <3>1
    <3>3. ASSUME NEW i, Some(k, i) PROVE Some(k + 1, i)
      BY <2>6, <2>7, <3>1, <3>3
    <3> HIDE DEF None, Some
    <3> QED BY <2>2, <2>5, <3>2, <3>3
  <2>8. CASE s[k + 1].kind \in Outcomes
    <3>1. Shown(f[k + 1], s[k + 1].url)
      BY <2>2, <2>3, <2>4, <2>8, TookOne
    <3>2. \A j \in 1 .. (k + 1) : ~(j > k + 1)
      OBVIOUS
    <3>3. Some(k + 1, k + 1)
      BY <2>8, <3>1, <3>2
    <3> HIDE DEF Some
    <3> QED BY <2>5, <3>3
  <2> QED BY <2>7, <2>8
<1>4. Fine(n)
  <2>1. Nat \subseteq P
    <3> HIDE DEF P
    <3> QED BY <1>2, <1>3, FromZero
  <2> HIDE DEF Fine, n
  <2> QED BY <1>0, <2>1
<1>5. None(n) => NoneOf(s, Outcomes)
  BY <1>0 DEF NoneOf
<1>6. \A i : Some(n, i) => IsLast(s, i, Outcomes) /\ Shown(f[n], s[i].url)
  BY <1>0 DEF IsLast
<1> QED BY <1>1, <1>4, <1>5, <1>6

\* A message that is added to a channel.
Adds(t, s, m) == t = Append(s, m)

LEMMA LastAdded ==
  ASSUME NEW X, NEW s \in Seq(X), NEW m \in X, NEW t, Adds(t, s, m)
  PROVE  /\ t \in Seq(X) /\ DOMAIN s = 1 .. Len(s) /\ DOMAIN t = 1 .. (Len(s) + 1) /\ t[Len(s) + 1] = m
         /\ \A i \in 1 .. Len(s) : t[i] = s[i] /\ i \in 1 .. (Len(s) + 1) /\ Len(s) + 1 > i
         /\ \A i \in 1 .. (Len(s) + 1) : i = Len(s) + 1 \/ i \in 1 .. Len(s)
         /\ Len(s) + 1 \in 1 .. (Len(s) + 1)
<1>1. Len(s) \in Nat
  OBVIOUS
<1>2. t \in Seq(X) /\ DOMAIN s = 1 .. Len(s) /\ DOMAIN t = 1 .. (Len(s) + 1) /\ t[Len(s) + 1] = m
  BY DEF Adds
<1>3. \A i \in 1 .. Len(s) : t[i] = s[i]
  BY DEF Adds
<1> QED BY <1>1, <1>2, <1>3

\* A message of these kinds is the last of them.
LEMMA OneOfThem ==
  ASSUME NEW X, NEW s \in Seq(X), NEW m \in X, NEW kinds, m.kind \in kinds, NEW t, Adds(t, s, m)
  PROVE  t \in Seq(X) /\ ~NoneOf(t, kinds) /\ \A i : IsLast(t, i, kinds) => t[i] = m
<1> DEFINE n == Len(s)
<1>1. /\ t \in Seq(X) /\ DOMAIN t = 1 .. (n + 1) /\ t[n + 1] = m /\ n + 1 \in 1 .. (n + 1)
      /\ \A i \in 1 .. (n + 1) : i = n + 1 \/ n + 1 > i
  BY LastAdded
<1> HIDE DEF n
<1> QED BY <1>1 DEF NoneOf, IsLast

\* A message of another kind changes nothing about them.
LEMMA NoneOfThem ==
  ASSUME NEW X, NEW s \in Seq(X), NEW m \in X, NEW kinds, m.kind \notin kinds, NEW t, Adds(t, s, m)
  PROVE  /\ t \in Seq(X) /\ NoneOf(t, kinds) = NoneOf(s, kinds)
         /\ \A i : IsLast(t, i, kinds) => IsLast(s, i, kinds) /\ t[i] = s[i]
<1> DEFINE n == Len(s)
<1>1. /\ t \in Seq(X) /\ DOMAIN s = 1 .. n /\ DOMAIN t = 1 .. (n + 1) /\ t[n + 1] = m
      /\ \A i \in 1 .. n : t[i] = s[i] /\ i \in 1 .. (n + 1)
      /\ \A i \in 1 .. (n + 1) : i = n + 1 \/ i \in 1 .. n
      /\ n + 1 \in 1 .. (n + 1)
  BY LastAdded
<1> HIDE DEF n
<1>2. NoneOf(t, kinds) = NoneOf(s, kinds)
  BY <1>1 DEF NoneOf
<1>3. ASSUME NEW i, IsLast(t, i, kinds)
      PROVE  IsLast(s, i, kinds) /\ t[i] = s[i]
  <2>1. i \in 1 .. n
    BY <1>1, <1>3 DEF IsLast
  <2> QED BY <1>1, <1>3, <2>1 DEF IsLast
<1> QED BY <1>1, <1>2, <1>3

\* Messages that are added, and the first taken.
Joins(u, s, t) == u = s \o t
Drops(t, s) == t = Tail(s)

\* Messages of other kinds that are added to a channel.
LEMMA OthersAdded ==
  ASSUME NEW X, NEW s \in Seq(X), NEW t \in Seq(X), NEW kinds, NoneOf(t, kinds), NEW u, Joins(u, s, t)
  PROVE  /\ u \in Seq(X) /\ NoneOf(u, kinds) = NoneOf(s, kinds)
         /\ \A i : IsLast(u, i, kinds) => IsLast(s, i, kinds) /\ u[i] = s[i]
<1> DEFINE n == Len(s)
           k == Len(t)
<1>1. /\ u \in Seq(X) /\ n \in Nat /\ k \in Nat /\ DOMAIN s = 1 .. n /\ DOMAIN t = 1 .. k
      /\ DOMAIN u = 1 .. (n + k)
  BY DEF Joins
<1>2. \A i \in 1 .. n : u[i] = s[i] /\ i \in 1 .. (n + k)
  BY DEF Joins
<1>3. \A i \in 1 .. (n + k) : i \in 1 .. n \/ (i - n \in 1 .. k /\ u[i] = t[i - n])
  BY DEF Joins
<1> HIDE DEF n, k
<1>4. \A i \in 1 .. (n + k) : i \in 1 .. n \/ u[i].kind \notin kinds
  BY <1>1, <1>3 DEF NoneOf
<1>5. NoneOf(u, kinds) = NoneOf(s, kinds)
  BY <1>1, <1>2, <1>4 DEF NoneOf
<1>6. ASSUME NEW i, IsLast(u, i, kinds)
      PROVE  IsLast(s, i, kinds) /\ u[i] = s[i]
  <2>1. i \in 1 .. n
    BY <1>1, <1>4, <1>6 DEF IsLast
  <2> QED BY <1>1, <1>2, <1>6, <2>1 DEF IsLast
<1> QED BY <1>1, <1>5, <1>6

\* The first message, taken.
LEMMA FirstTaken ==
  ASSUME NEW X, NEW s \in Seq(X), s # <<>>, NEW kinds, NEW t, Drops(t, s)
  PROVE  /\ Head(s) \in X /\ t \in Seq(X)
         /\ NoneOf(s, kinds) = (Head(s).kind \notin kinds /\ NoneOf(t, kinds))
         /\ \A i : IsLast(t, i, kinds) => IsLast(s, i + 1, kinds) /\ t[i] = s[i + 1]
         /\ Head(s).kind \in kinds /\ NoneOf(t, kinds) => IsLast(s, 1, kinds)
<1> DEFINE n == Len(s)
<1>1. /\ t \in Seq(X) /\ n \in Nat /\ n > 0 /\ DOMAIN s = 1 .. n /\ DOMAIN t = 1 .. (n - 1)
      /\ Head(s) = s[1] /\ s[1] \in X
  BY DEF Drops
<1>2. \A i \in 1 .. (n - 1) : t[i] = s[i + 1] /\ i + 1 \in 1 .. n
  BY DEF Drops
<1>3. \A i \in 1 .. n : i = 1 \/ (i - 1 \in 1 .. (n - 1) /\ (i - 1) + 1 = i)
  OBVIOUS
<1>4. 1 \in 1 .. n
  BY <1>1
<1> HIDE DEF n
<1>5. \A i \in 1 .. n : i = 1 \/ (i - 1 \in 1 .. (n - 1) /\ s[i] = t[i - 1])
  BY <1>2, <1>3
<1>6. NoneOf(s, kinds) = (s[1].kind \notin kinds /\ NoneOf(t, kinds))
  BY <1>1, <1>2, <1>4, <1>5 DEF NoneOf
<1>7. ASSUME NEW i, IsLast(t, i, kinds)
      PROVE  IsLast(s, i + 1, kinds) /\ t[i] = s[i + 1]
  <2>1. i \in 1 .. (n - 1) /\ i \in Nat
    BY <1>1, <1>7 DEF IsLast
  <2>2. \A j \in 1 .. n : j > i + 1 => j - 1 \in 1 .. (n - 1) /\ j - 1 > i /\ s[j] = t[j - 1]
    BY <1>5, <2>1
  <2> QED BY <1>1, <1>2, <1>7, <2>1, <2>2 DEF IsLast
<1>8. ASSUME s[1].kind \in kinds, NoneOf(t, kinds)
      PROVE  IsLast(s, 1, kinds)
  <2>1. \A i \in 1 .. (n - 1) : t[i].kind \notin kinds
    BY <1>1, <1>8 DEF NoneOf
  <2>2. \A i \in 1 .. n : i = 1 \/ s[i].kind \notin kinds
    BY <1>5, <2>1
  <2> QED BY <1>1, <1>4, <1>8, <2>2 DEF IsLast
<1> QED BY <1>1, <1>6, <1>7, <1>8

-----------------------------------------------------------------------------
\* Where a question is: on its way or on screen, once; answered only to who asked it, and by
\* the person.
AsksOnce ==
  /\ asks \in Seq(Askers) /\ modal \in Askers \cup {NoUrl}
  /\ \A i, j \in DOMAIN asks : asks[i] = asks[j] => i = j
  /\ \A i \in DOMAIN asks : asks[i] # modal

Unseen(a) == a # modal /\ \A i \in DOMAIN asks : asks[i] # a

ConsentInv ==
  /\ AsksOnce
  /\ asker \in [Askers -> {"idle", "posting", "waiting", "over"}]
  /\ reply \in [Askers -> {"none", "yes", "no"}] /\ told \in [Askers -> {"none", "yes", "no"}]
  /\ decided \in [Askers -> {"none", "yes", "no"}]
  /\ \A a \in Askers :
       /\ asker[a] \in {"idle", "posting"} => Unseen(a)
       /\ reply[a] # "none" => Unseen(a) /\ asker[a] \notin {"idle", "posting"}
       /\ reply[a] = "yes" => decided[a] = "yes"
       /\ told[a] = "yes" => reply[a] = "yes"

\* The pages asked for, on their way through the worker: what is last in the pipe is what was
\* asked for last, and once it has come out it is what the screen shows.
Pipe ==
  /\ \A i : IsLast(work, i, Loads) => work[i].url = asked
  /\ NoneOf(work, Loads) =>
       IF worker.kind = "load" THEN worker.url = asked
       ELSE /\ \A i : IsLast(done, i, Outcomes) => done[i].url = asked
            /\ NoneOf(done, Outcomes) => asked = NoUrl \/ Shown(screen, asked)

PipeTypes ==
  /\ work \in Seq(Jobs) /\ done \in Seq(Answers) /\ worker \in Workers /\ screen \in Screens
  /\ visited \in Seq(Fields) /\ asked \in Fields \cup {NoUrl}

PageInv == window # "gone" => PipeTypes /\ Pipe

WindowInv == ConsentInv /\ PageInv

-----------------------------------------------------------------------------
\* Questions.

\* Most steps leave the questions alone.
LEMMA QuestionsStay ==
  ASSUME ConsentInv, UNCHANGED <<asker, told, dialog>>
  PROVE  ConsentInv'
BY DEF dialog, ConsentInv, AsksOnce, Unseen

\* A question is begun, or its answer heard, or given up.
LEMMA AskKeeps ==
  ASSUME ConsentInv, NEW a \in Askers, AskWindow(a) \/ HearAnswer(a)
  PROVE  ConsentInv'
<1>1. asks' = asks /\ modal' = modal /\ reply' = reply /\ decided' = decided
  BY DEF AskWindow, HearAnswer, dialog
<1>2. AsksOnce' /\ \A b \in Askers : Unseen(b)' = Unseen(b)
  BY <1>1 DEF ConsentInv, AsksOnce, Unseen
<1>3. PICK s \in {"posting", "over"}, t \in {"none", "yes", "no"} :
         /\ asker' = [asker EXCEPT ![a] = s] /\ told' = [told EXCEPT ![a] = t]
         /\ s = "posting" => asker[a] = "idle"
         /\ t = "yes" => reply[a] = "yes" \/ told[a] = "yes"
  <2>1. CASE AskWindow(a) /\ asker' = [asker EXCEPT ![a] = "posting"] /\ UNCHANGED told
    <3>1. told' = [told EXCEPT ![a] = told[a]] /\ told[a] \in {"none", "yes", "no"}
      BY <2>1 DEF ConsentInv
    <3> QED BY <2>1, <3>1 DEF AskWindow
  <2>2. CASE AskWindow(a) /\ Over(a, "no")
    BY <2>2 DEF Over
  <2>3. CASE HearAnswer(a)
    <3>1. reply[a] \in {"none", "yes", "no"}
      BY DEF ConsentInv
    <3> QED BY <2>3, <3>1 DEF HearAnswer, Over
  <2> QED BY <2>1, <2>2, <2>3 DEF AskWindow
<1>4. /\ asker' \in [Askers -> {"idle", "posting", "waiting", "over"}]
      /\ told' \in [Askers -> {"none", "yes", "no"}]
  BY <1>3 DEF ConsentInv
<1>5. \A b \in Askers : /\ asker'[b] = IF b = a THEN asker'[a] ELSE asker[b]
                        /\ told'[b] = IF b = a THEN told'[a] ELSE told[b]
  BY <1>3 DEF ConsentInv
<1>6. /\ asker'[a] \in {"idle", "posting"} => asker[a] = "idle"
      /\ told'[a] = "yes" => reply[a] = "yes"
  BY <1>3 DEF ConsentInv
<1> QED BY <1>1, <1>2, <1>4, <1>5, <1>6 DEF ConsentInv

\* A question is posted behind those that are waiting to be shown.
LEMMA PostKeeps ==
  ASSUME ConsentInv, NEW a \in Askers, PostAsk(a)
  PROVE  ConsentInv'
<1>1. modal' = modal /\ reply' = reply /\ decided' = decided /\ asker[a] = "posting" /\ Unseen(a)
  BY DEF PostAsk, ConsentInv
<1>2. CASE asks' = Append(asks, a) /\ asker' = [asker EXCEPT ![a] = "waiting"] /\ UNCHANGED told
  <2> DEFINE n == Len(asks)
  <2>1. /\ n \in Nat /\ DOMAIN asks = 1 .. n /\ DOMAIN asks' = 1 .. (n + 1) /\ asks' \in Seq(Askers)
        /\ asks'[n + 1] = a
    BY <1>2 DEF ConsentInv, AsksOnce
  <2>2. \A i \in 1 .. n : asks'[i] = asks[i]
    BY <1>2 DEF ConsentInv, AsksOnce
  <2> HIDE DEF n
  <2>3. \A i \in 1 .. (n + 1) : i = n + 1 \/ i \in 1 .. n
    BY <2>1
  <2>4. AsksOnce'
    <3>1. /\ \A i, j \in 1 .. n : asks[i] = asks[j] => i = j
          /\ \A i \in 1 .. n : asks[i] # modal /\ asks[i] # a
          /\ a # modal /\ modal \in Askers \cup {NoUrl}
      BY <1>1, <2>1 DEF ConsentInv, AsksOnce, Unseen
    <3>2. \A i \in 1 .. (n + 1) : asks'[i] # modal
      BY <2>1, <2>2, <2>3, <3>1
    <3>3. ASSUME NEW i \in 1 .. (n + 1), NEW j \in 1 .. (n + 1), asks'[i] = asks'[j]
          PROVE  i = j
      BY <2>1, <2>2, <2>3, <3>1, <3>3
    <3> QED BY <1>1, <2>1, <3>1, <3>2, <3>3 DEF AsksOnce
  <2>5. \A b \in Askers : b # a /\ Unseen(b) => Unseen(b)'
    BY <1>1, <2>1, <2>2, <2>3 DEF Unseen
  <2>6. /\ asker' \in [Askers -> {"idle", "posting", "waiting", "over"}] /\ asker'[a] = "waiting"
        /\ \A b \in Askers : b # a => asker'[b] = asker[b]
    BY <1>2 DEF ConsentInv
  <2>7. reply[a] = "none" /\ told' = told
    BY <1>1, <1>2 DEF ConsentInv
  <2> QED BY <1>1, <2>4, <2>5, <2>6, <2>7 DEF ConsentInv
<1>3. CASE Over(a, "no") /\ UNCHANGED asks
  <2>1. AsksOnce' /\ \A b \in Askers : Unseen(b)' = Unseen(b)
    BY <1>1, <1>3 DEF ConsentInv, AsksOnce, Unseen
  <2>2. /\ asker' \in [Askers -> {"idle", "posting", "waiting", "over"}] /\ asker'[a] = "over"
        /\ told' \in [Askers -> {"none", "yes", "no"}] /\ told'[a] = "no"
        /\ \A b \in Askers : b # a => asker'[b] = asker[b] /\ told'[b] = told[b]
    BY <1>3 DEF ConsentInv, Over
  <2> QED BY <1>1, <2>1, <2>2 DEF ConsentInv
<1> QED BY <1>2, <1>3 DEF PostAsk

\* The person answers: reply and decision are of the question on screen, which is gone then.
LEMMA AnswerKeeps ==
  ASSUME ConsentInv, AnswerModal, NoUrl \notin Askers
  PROVE  ConsentInv'
<1>1. asks' = asks /\ asker' = asker /\ told' = told /\ modal' = NoUrl
  BY DEF AnswerModal
<1>2. PICK a \in Askers : a = modal
  BY DEF AnswerModal, ConsentInv, AsksOnce
<1>3. PICK answer \in {"yes", "no"} :
         /\ reply' = [b \in Askers |-> IF b \in HeardBy(modal) THEN answer ELSE reply[b]]
         /\ decided' = [decided EXCEPT ![modal] = answer]
  BY DEF AnswerModal
<1>4. AsksOnce'
  BY <1>1 DEF ConsentInv, AsksOnce
<1>5. Unseen(a)' /\ \A b \in Askers : Unseen(b) => Unseen(b)'
  <2>1. \A i \in DOMAIN asks : asks[i] # a
    BY <1>2 DEF ConsentInv, AsksOnce
  <2> QED BY <1>1, <2>1 DEF Unseen
<1>6. reply' \in [Askers -> {"none", "yes", "no"}] /\ decided' \in [Askers -> {"none", "yes", "no"}]
  BY <1>3 DEF ConsentInv
<1>7. \A b \in Askers : b # a => reply'[b] = reply[b] /\ decided'[b] = decided[b]
  BY <1>2, <1>3 DEF ConsentInv, HeardBy
<1>8. decided'[a] = answer /\ reply'[a] = IF asker[a] = "waiting" THEN answer ELSE reply[a]
  BY <1>2, <1>3 DEF ConsentInv, HeardBy
<1>9. reply[a] = "none" /\ told[a] # "yes"
  BY <1>2 DEF ConsentInv, Unseen
<1>10. ASSUME NEW b \in Askers
       PROVE  /\ asker'[b] \in {"idle", "posting"} => Unseen(b)'
              /\ reply'[b] # "none" => Unseen(b)' /\ asker'[b] \notin {"idle", "posting"}
              /\ reply'[b] = "yes" => decided'[b] = "yes"
              /\ told'[b] = "yes" => reply'[b] = "yes"
  <2>1. CASE b = a
    BY <1>1, <1>5, <1>8, <1>9, <2>1
  <2>2. CASE b # a
    BY <1>1, <1>5, <1>7, <2>2 DEF ConsentInv
  <2> QED BY <2>1, <2>2
<1>11. /\ asker' \in [Askers -> {"idle", "posting", "waiting", "over"}]
       /\ told' \in [Askers -> {"none", "yes", "no"}]
  BY <1>1 DEF ConsentInv
<1> QED BY <1>4, <1>6, <1>10, <1>11 DEF ConsentInv

\* drain shows the next question; AppDropped drops them all.
LEMMA ShowKeeps ==
  ASSUME ConsentInv, Drain \/ AppDropped
  PROVE  ConsentInv'
<1>1. asker' = asker /\ told' = told /\ reply' = reply /\ decided' = decided
  BY DEF Drain, AppDropped
<1>2. AsksOnce' /\ \A b \in Askers : Unseen(b) => Unseen(b)'
  <2>1. CASE asks' = asks /\ modal' = modal
    BY <2>1 DEF ConsentInv, AsksOnce, Unseen
  <2>2. CASE asks' = <<>> /\ modal' = NoUrl /\ NoUrl \notin Askers
    BY <2>2 DEF ConsentInv, AsksOnce, Unseen
  <2>3. CASE modal = NoUrl /\ asks # <<>> /\ modal' = Head(asks) /\ asks' = Tail(asks)
    <3> DEFINE n == Len(asks)
    <3>1. /\ n \in Nat /\ DOMAIN asks = 1 .. n /\ DOMAIN asks' = 1 .. (n - 1) /\ asks' \in Seq(Askers)
          /\ n > 0 /\ modal' = asks[1] /\ modal' \in Askers
      BY <2>3 DEF ConsentInv, AsksOnce
    <3>2. \A i \in 1 .. (n - 1) : asks'[i] = asks[i + 1]
      BY <2>3 DEF ConsentInv, AsksOnce
    <3> HIDE DEF n
    <3>3. 1 \in 1 .. n /\ \A i \in 1 .. (n - 1) : i + 1 \in 1 .. n /\ i + 1 # 1
      BY <3>1
    <3>0. /\ \A i, j \in 1 .. n : asks[i] = asks[j] => i = j
          /\ \A i \in 1 .. n : asks[i] # modal
      BY <3>1 DEF ConsentInv, AsksOnce
    <3>4. ASSUME NEW i \in 1 .. (n - 1), NEW j \in 1 .. (n - 1), asks'[i] = asks'[j]
          PROVE  i = j
      <4>1. i + 1 = j + 1
        BY <3>0, <3>2, <3>3, <3>4
      <4> QED BY <3>1, <4>1
    <3>5. \A i \in 1 .. (n - 1) : asks'[i] # modal'
      BY <3>0, <3>1, <3>2, <3>3
    <3>6. AsksOnce'
      BY <3>1, <3>4, <3>5 DEF AsksOnce
    <3>7. \A b \in Askers : Unseen(b) => Unseen(b)'
      BY <3>1, <3>2, <3>3 DEF Unseen
    <3> QED BY <3>6, <3>7
  <2> QED BY <2>1, <2>2, <2>3, WindowAssumption DEF Drain, AppDropped
<1> QED BY <1>1, <1>2 DEF ConsentInv

-----------------------------------------------------------------------------
\* Outcomes.

\* Most steps leave the pages alone, or end the window.
LEMMA PagesStay ==
  ASSUME PageInv, UNCHANGED reading \/ UNCHANGED <<work, worker, done, screen, visited, asked>>,
         window' # "gone" => window # "gone"
  PROVE  PageInv'
BY DEF reading, PageInv, PipeTypes, Pipe, NoneOf, IsLast, Shown

\* A page is asked for.
LEMMA AskedFor ==
  ASSUME PipeTypes, NEW url \in Fields, NEW address \in Fields,
         NEW error \in Fields \cup {NoUrl},
         RequestPage(url, address, error), UNCHANGED <<worker, done>>, visited' \in Seq(Fields)
  PROVE  PipeTypes' /\ Pipe'
<1>1. PICK job \in Jobs : job = Message("load", url) /\ job.kind \in Loads /\ job.url = url
  <2>1. Message("load", url) \in Jobs
    BY DEF Message, Jobs
  <2>2. Message("load", url).kind \in Loads /\ Message("load", url).url = url
    BY DEF Message, Loads
  <2> QED BY <2>1, <2>2
<1>2. work' = Append(work, job) /\ asked' = url /\ job.url = asked'
  BY <1>1 DEF RequestPage
<1>3. work \in Seq(Jobs)
  BY DEF PipeTypes
<1>4. /\ work' \in Seq(Jobs) /\ ~NoneOf(work', Loads)
      /\ \A i : IsLast(work', i, Loads) => work'[i] = job
  <2>1. Adds(work', work, job)
    BY <1>2 DEF Adds
  <2> QED BY <1>1, <1>3, <2>1, OneOfThem
<1>6. screen' \in Screens
  BY DEF RequestPage, PipeTypes, Screens
<1>7. PipeTypes'
  BY <1>2, <1>4, <1>6 DEF PipeTypes
<1>8. /\ \A i : IsLast(work', i, Loads) => work'[i].url = asked'
      /\ ~NoneOf(work', Loads)
  BY <1>2, <1>4
<1> QED BY <1>7, <1>8 DEF Pipe, NoneOf, IsLast

\* A link, Back and Reload each ask for a page.
LEMMA RequestKeeps ==
  ASSUME PageInv, LoadPage \/ BackPage \/ ReloadPage
  PROVE  PageInv'
<1>1. window' = window /\ window = "drawn" /\ UNCHANGED <<worker, done>> /\ PipeTypes
  BY DEF LoadPage, BackPage, ReloadPage, Clicking, Rest, PageInv, Drawn
<1>2. CASE LoadPage
  <2>1. PICK url \in Urls : RequestPage(url, url, NoUrl)
    BY <1>2 DEF LoadPage
  <2>2. visited' \in Seq(Fields)
    BY <1>1, <1>2 DEF LoadPage, PipeTypes, Screens
  <2> QED BY <1>1, <2>1, <2>2, AskedFor DEF Fields, PageInv
<1>3. CASE BackPage
  <2>1. visited \in Seq(Fields) /\ visited # <<>>
    BY <1>1, <1>3 DEF BackPage, PipeTypes
  <2>2. Last(visited) \in Fields /\ Front(visited) \in Seq(Fields)
    BY <2>1 DEF Last, Front
  <2> QED BY <1>1, <1>3, <2>2, AskedFor DEF BackPage, PageInv
<1>4. CASE ReloadPage
  <2>1. screen.address \in Fields /\ screen.error \in Fields \cup {NoUrl}
    BY <1>1 DEF PipeTypes, Screens
  <2> QED BY <1>1, <1>4, <2>1, AskedFor DEF ReloadPage, PageInv, PipeTypes
<1> QED BY <1>2, <1>3, <1>4

\* The field is typed in, a panel is opened, or the window closes: no page is asked for.
LEMMA TypeKeeps ==
  ASSUME PageInv, TypeText
  PROVE  PageInv'
<1>1. window' = window /\ window = "drawn" /\ UNCHANGED <<work, worker, done, visited, asked>>
  BY DEF TypeText, Clicking, Rest, Drawn
<1>2. PipeTypes /\ Pipe
  BY <1>1 DEF PageInv
<1>3. PICK url \in Fields : screen' = [screen EXCEPT !.address = url]
  BY DEF TypeText, Fields
<1>4. /\ screen' \in Screens /\ screen'.loading = screen.loading /\ screen'.error = screen.error
      /\ screen'.page = screen.page
  BY <1>2, <1>3 DEF PipeTypes, Screens
<1>5. Shown(screen', asked') = Shown(screen, asked)
  BY <1>1, <1>4 DEF Shown
<1>6. PipeTypes'
  BY <1>1, <1>2, <1>4 DEF PipeTypes
<1>7. Pipe'
  BY <1>1, <1>2, <1>5 DEF Pipe, NoneOf, IsLast
<1> QED BY <1>6, <1>7 DEF PageInv

\* A job that is no page, behind the others.
LEMMA OtherWork ==
  ASSUME PipeTypes, Pipe, NEW job \in Jobs, job.kind \notin Loads, Adds(work', work, job),
         UNCHANGED <<worker, done, screen, visited, asked>>
  PROVE  PipeTypes' /\ Pipe'
<1>1. work' \in Seq(Jobs) /\ NoneOf(work', Loads) = NoneOf(work, Loads)
      /\ \A i : IsLast(work', i, Loads) => IsLast(work, i, Loads) /\ work'[i] = work[i]
  <2>1. work \in Seq(Jobs)
    BY DEF PipeTypes
  <2> QED BY <2>1, NoneOfThem
<1>2. PipeTypes'
  BY <1>1 DEF PipeTypes
<1>3. /\ NoneOf(done', Outcomes) = NoneOf(done, Outcomes)
      /\ \A i : IsLast(done', i, Outcomes) = IsLast(done, i, Outcomes)
  BY DEF NoneOf, IsLast
<1>4. Pipe'
  BY <1>1, <1>3 DEF Pipe
<1> QED BY <1>2, <1>4

\* Panels, and the closing of the window.
LEMMA WorkKeeps ==
  ASSUME PageInv, OnExit \/ \E kind \in {"stats", "peers"} : ShowPanel(kind)
  PROVE  PageInv'
<1>1. window = "drawn" /\ window' # "gone" /\ PipeTypes /\ Pipe
  BY DEF OnExit, ShowPanel, Drawn, PageInv
<1>2. UNCHANGED <<worker, done, screen, visited, asked>>
  BY DEF OnExit, ShowPanel
<1>3. work' = work \/ \E kind \in {"stats", "peers", "quit"} : work' = Append(work, Message(kind, NoUrl))
  BY DEF OnExit, ShowPanel
<1>4. CASE work' = work
  BY <1>1, <1>2, <1>4, PagesStay DEF PageInv
<1>5. CASE \E kind \in {"stats", "peers", "quit"} : work' = Append(work, Message(kind, NoUrl))
  <2>1. \A kind \in {"stats", "peers", "quit"} :
          Message(kind, NoUrl) \in Jobs /\ Message(kind, NoUrl).kind \notin Loads
    BY DEF Message, Jobs, Loads
  <2>2. PICK kind \in {"stats", "peers", "quit"} : Adds(work', work, Message(kind, NoUrl))
    BY <1>5 DEF Adds
  <2> QED BY <1>1, <1>2, <2>1, <2>2, OtherWork DEF PageInv
<1> QED BY <1>3, <1>4, <1>5

\* What came back is shown.
LEMMA DrainKeeps ==
  ASSUME PageInv, Drain
  PROVE  PageInv'
<1>1. /\ window' = window /\ window = "drawn" /\ UNCHANGED <<worker, visited, asked>>
      /\ done' = <<>> /\ screen' = FoldLeft(Took, screen, done)
  BY DEF Drain, Drawn
<1>2. PipeTypes /\ Pipe
  BY <1>1 DEF PageInv
<1> DEFINE k == Cardinality({d \in DOMAIN done : done[d].kind = "loaded"})
           more == [i \in 1 .. k |-> Message("stats", NoUrl)]
<1>3. work' = work \o more
  BY DEF Drain
<1>4. k \in Nat
  <2>1. done \in Seq(Answers)
    BY <1>2 DEF PipeTypes
  <2>2. DOMAIN done = 1 .. Len(done) /\ Len(done) \in Nat
    BY <2>1
  <2>3. IsFiniteSet(1 .. Len(done))
    BY <2>2, FS_Interval
  <2>4. IsFiniteSet({d \in DOMAIN done : done[d].kind = "loaded"})
    BY <2>2, <2>3, FS_Subset
  <2> QED BY <2>4, FS_CardinalityType
<1> HIDE DEF k
<1>5. more \in Seq(Jobs) /\ NoneOf(more, Loads)
  <2>1. Message("stats", NoUrl) \in Jobs /\ Message("stats", NoUrl).kind \notin Loads
    BY DEF Message, Jobs, Loads
  <2> QED BY <1>4, <2>1 DEF NoneOf
<1> HIDE DEF more
<1>6. work' \in Seq(Jobs) /\ NoneOf(work', Loads) = NoneOf(work, Loads)
      /\ \A i : IsLast(work', i, Loads) => IsLast(work, i, Loads) /\ work'[i] = work[i]
  <2>1. work \in Seq(Jobs)
    BY <1>2 DEF PipeTypes
  <2>2. Joins(work', work, more)
    BY <1>3 DEF Joins
  <2> QED BY <1>5, <2>1, <2>2, OthersAdded
<1>7. /\ screen' \in Screens
      /\ \/ NoneOf(done, Outcomes) /\ screen' = screen
         \/ \E i : IsLast(done, i, Outcomes) /\ Shown(screen', done[i].url)
  BY <1>1, <1>2, Drained DEF PipeTypes
<1>8. PipeTypes'
  BY <1>1, <1>2, <1>6, <1>7 DEF PipeTypes
<1>9. NoneOf(done', Outcomes) /\ \A i : ~IsLast(done', i, Outcomes)
  BY <1>1 DEF NoneOf, IsLast
<1>10. ASSUME NoneOf(work, Loads), worker.kind # "load", asked # NoUrl
       PROVE  Shown(screen', asked)
  BY <1>2, <1>7, <1>10 DEF Pipe
<1>11. Pipe'
  BY <1>1, <1>2, <1>6, <1>9, <1>10 DEF Pipe
<1> QED BY <1>8, <1>11 DEF PageInv

\* The worker takes a job.
LEMMA JobKeeps ==
  ASSUME PageInv, TakeJob
  PROVE  PageInv'
<1> SUFFICES ASSUME window' # "gone" PROVE PipeTypes' /\ Pipe'
  BY DEF PageInv
<1>1. window # "gone" /\ UNCHANGED <<done, screen, visited, asked>>
  BY DEF TakeJob
<1>2. PipeTypes /\ Pipe /\ worker.kind = "idle"
  BY <1>1 DEF PageInv, TakeJob
<1>3. /\ work # <<>> /\ work' = Tail(work)
      /\ worker' = IF Head(work).kind = "quit" THEN Ended ELSE Head(work)
  BY <1>1 DEF TakeJob
<1>4. /\ Head(work) \in Jobs /\ work' \in Seq(Jobs)
      /\ NoneOf(work, Loads) = (Head(work).kind \notin Loads /\ NoneOf(work', Loads))
      /\ \A i : IsLast(work', i, Loads) => IsLast(work, i + 1, Loads) /\ work'[i] = work[i + 1]
      /\ Head(work).kind \in Loads /\ NoneOf(work', Loads) => IsLast(work, 1, Loads)
  <2>1. work \in Seq(Jobs) /\ work # <<>>
    BY <1>2, <1>3 DEF PipeTypes
  <2>2. Drops(work', work)
    BY <1>3 DEF Drops
  <2> QED BY <2>1, <2>2, FirstTaken
<1>5. worker' \in Workers /\ (worker'.kind = "load" <=> Head(work).kind \in Loads)
      /\ (Head(work).kind \in Loads => worker' = Head(work))
  <2>1. Ended \in Workers /\ Ended.kind = "gone"
    BY DEF Ended, Message, Workers
  <2>2. CASE Head(work).kind = "quit"
    BY <1>3, <2>1, <2>2 DEF Loads
  <2>3. CASE Head(work).kind # "quit"
    <3>1. worker' = Head(work) /\ Head(work) \in Workers
      BY <1>3, <1>4, <2>3 DEF Jobs, Workers
    <3> QED BY <3>1 DEF Loads
  <2> QED BY <2>2, <2>3
<1>6. PipeTypes'
  BY <1>1, <1>2, <1>4, <1>5 DEF PipeTypes
<1>7. /\ NoneOf(done', Outcomes) = NoneOf(done, Outcomes)
      /\ \A i : IsLast(done', i, Outcomes) = IsLast(done, i, Outcomes)
  BY <1>1 DEF NoneOf, IsLast
<1>8. Head(work) = work[1]
  BY <1>2, <1>3 DEF PipeTypes
<1>9. CASE Head(work).kind \in Loads
  <2>1. NoneOf(work', Loads) => worker'.url = asked'
    BY <1>1, <1>2, <1>4, <1>5, <1>8, <1>9 DEF Pipe
  <2>2. \A i : IsLast(work', i, Loads) => work'[i].url = asked'
    BY <1>1, <1>2, <1>4 DEF Pipe
  <2> QED BY <1>5, <1>6, <1>9, <2>1, <2>2 DEF Pipe
<1>10. CASE Head(work).kind \notin Loads
  <2>1. \A i : IsLast(work', i, Loads) => work'[i].url = asked'
    BY <1>1, <1>2, <1>4 DEF Pipe
  <2>2. NoneOf(work', Loads) => /\ \A i : IsLast(done, i, Outcomes) => done[i].url = asked
                                /\ NoneOf(done, Outcomes) => asked = NoUrl \/ Shown(screen, asked)
    BY <1>2, <1>4, <1>10 DEF Pipe
  <2> QED BY <1>1, <1>5, <1>6, <1>7, <1>10, <2>1, <2>2 DEF Pipe
<1> QED BY <1>9, <1>10

\* The worker is done with one.
LEMMA ResultKeeps ==
  ASSUME PageInv, FinishJob
  PROVE  PageInv'
<1> SUFFICES ASSUME window' # "gone" PROVE PipeTypes' /\ Pipe'
  BY DEF PageInv
<1>1. window # "gone" /\ UNCHANGED <<work, screen, visited, asked>>
  BY DEF FinishJob
<1>2. PipeTypes /\ Pipe /\ worker.kind \notin {"idle", "gone"}
  BY <1>1 DEF PageInv, FinishJob
<1>3. PICK result \in Results(worker) : worker' = Message("idle", NoUrl) /\ done' = done \o result
  BY <1>1 DEF FinishJob
<1>4. worker' \in Workers /\ worker'.kind = "idle"
  BY <1>3 DEF Message, Workers
<1>5. worker \in Workers /\ done \in Seq(Answers)
  BY <1>2 DEF PipeTypes, Workers
<1>6. /\ NoneOf(work', Loads) = NoneOf(work, Loads)
      /\ \A i : IsLast(work', i, Loads) = IsLast(work, i, Loads)
  BY <1>1 DEF NoneOf, IsLast
<1>7. CASE worker.kind = "load"
  <2>1. worker.url \in Fields
    BY <1>5, <1>7 DEF Workers
  <2>2. PICK m \in Answers : result = <<m>> /\ m.kind \in Outcomes /\ m.url = worker.url
    BY <1>3, <1>7, <2>1 DEF Results, Message, Answers, Outcomes
  <2>3. done' = Append(done, m)
    BY <1>3, <1>5, <2>2
  <2>4. /\ done' \in Seq(Answers) /\ ~NoneOf(done', Outcomes)
        /\ \A i : IsLast(done', i, Outcomes) => done'[i] = m
    <3>1. Adds(done', done, m)
      BY <2>3 DEF Adds
    <3> QED BY <1>5, <2>2, <3>1, OneOfThem
  <2>5. PipeTypes'
    BY <1>1, <1>2, <1>4, <2>4 DEF PipeTypes
  <2>6. NoneOf(work, Loads) => m.url = asked'
    BY <1>1, <1>2, <1>7, <2>2 DEF Pipe
  <2>7. Pipe'
    BY <1>1, <1>2, <1>4, <1>6, <2>4, <2>6 DEF Pipe
  <2> QED BY <2>5, <2>7
<1>8. CASE worker.kind # "load"
  <2>1. result \in Seq(Answers) /\ NoneOf(result, Outcomes)
    <3>1. CASE result = <<>>
      BY <3>1 DEF NoneOf
    <3>2. CASE worker.kind \in {"stats", "peers"} /\ result = <<worker>>
      <4>1. worker \in Answers /\ worker.kind \notin Outcomes
        BY <1>5, <3>2 DEF Workers, Answers, Outcomes
      <4> QED BY <3>2, <4>1 DEF NoneOf
    <3>3. worker.kind \in {"stats", "peers"}
      BY <1>2, <1>5, <1>8 DEF Workers
    <3> QED BY <1>3, <3>1, <3>2, <3>3 DEF Results
  <2>2. /\ done' \in Seq(Answers) /\ NoneOf(done', Outcomes) = NoneOf(done, Outcomes)
        /\ \A i : IsLast(done', i, Outcomes) => IsLast(done, i, Outcomes) /\ done'[i] = done[i]
    <3>1. Joins(done', done, result)
      BY <1>3 DEF Joins
    <3> QED BY <1>5, <2>1, <3>1, OthersAdded
  <2>3. PipeTypes'
    BY <1>1, <1>2, <1>4, <2>2 DEF PipeTypes
  <2>4. Pipe'
    BY <1>1, <1>2, <1>4, <1>6, <1>8, <2>2 DEF Pipe
  <2> QED BY <2>3, <2>4
<1> QED BY <1>7, <1>8

-----------------------------------------------------------------------------
\* The page a window was started with is asked for at once.
LEMMA WindowStarts ==
  ASSUME WindowInit
  PROVE  WindowInv
<1>1. ConsentInv
  <2>1. /\ asker = [a \in Askers |-> "idle"] /\ asks = <<>> /\ modal = NoUrl
        /\ reply = [a \in Askers |-> "none"] /\ told = reply /\ decided = reply
    BY DEF WindowInit
  <2>2. AsksOnce /\ \A a \in Askers : Unseen(a)
    BY <2>1, WindowAssumption DEF AsksOnce, Unseen
  <2>3. /\ reply \in [Askers -> {"none", "yes", "no"}]
        /\ asker \in [Askers -> {"idle", "posting", "waiting", "over"}]
    BY <2>1
  <2>4. \A a \in Askers : reply[a] = "none"
    BY <2>1
  <2> QED BY <2>1, <2>2, <2>3, <2>4 DEF ConsentInv
<1>2. PICK url \in Urls \cup {NoUrl} : asked = url
  BY DEF WindowInit
<1> DEFINE stats == Message("stats", NoUrl)
<1>3. /\ worker = Message("idle", NoUrl) /\ done = <<>> /\ visited = <<>>
      /\ screen = [address |-> IF asked = NoUrl THEN Empty ELSE asked,
                   page |-> NoUrl, loading |-> FALSE, error |-> NoUrl]
  BY DEF WindowInit
<1>4. stats \in Jobs /\ stats.kind \notin Loads
  BY DEF Message, Jobs, Loads
<1>5. /\ done \in Seq(Answers) /\ worker \in Workers /\ worker.kind = "idle"
      /\ visited \in Seq(Fields) /\ asked \in Fields \cup {NoUrl}
      /\ (\A i : ~IsLast(done, i, Outcomes))
  BY <1>2, <1>3 DEF Message, Workers, Fields, IsLast
<1>6. screen \in Screens
  BY <1>2, <1>3 DEF Screens, Fields
<1>7. CASE asked = NoUrl
  <2>1. work = <<stats>>
    BY <1>7 DEF WindowInit
  <2> HIDE DEF stats
  <2>2. work \in Seq(Jobs) /\ \A i : ~IsLast(work, i, Loads)
    BY <1>4, <2>1 DEF IsLast
  <2> QED BY <1>1, <1>5, <1>6, <1>7, <2>2 DEF WindowInv, PageInv, PipeTypes, Pipe
<1>8. CASE asked # NoUrl
  <2> DEFINE load == Message("load", asked)
  <2>1. work = <<load>> \o <<stats>>
    BY <1>8 DEF WindowInit
  <2>2. load \in Jobs /\ load.kind \in Loads /\ load.url = asked
    BY <1>2, <1>8 DEF Message, Jobs, Loads, Fields
  <2> HIDE DEF load, stats
  <2>3. work \in Seq(Jobs) /\ work[1] = load /\ DOMAIN work = 1 .. 2 /\ work[2] = stats
    BY <1>4, <2>1, <2>2
  <2>4. ~NoneOf(work, Loads) /\ \A i : IsLast(work, i, Loads) => work[i].url = asked
    BY <1>4, <2>2, <2>3 DEF NoneOf, IsLast
  <2> QED BY <1>1, <1>5, <1>6, <2>3, <2>4 DEF WindowInv, PageInv, PipeTypes, Pipe
<1> QED BY <1>7, <1>8

\* What the reader's window keeps: where each question is and who answered it, and the pages asked
\* for, in their order, from the window to the worker and back.
THEOREM WindowIsSound == WindowSpec => []WindowInv
<1>1. WindowInv /\ [WindowNext]_readerWindow => WindowInv'
  <2>1. ASSUME WindowInv, UNCHANGED readerWindow
        PROVE  WindowInv'
    BY <2>1, QuestionsStay, PagesStay DEF WindowInv, readerWindow
  <2>2. ASSUME WindowInv, StartDrawing \/ StartFails
        PROVE  WindowInv'
    <3>1. UNCHANGED <<asker, told, dialog>>
      BY <2>2 DEF StartDrawing, StartFails
    <3>2. window' = "gone" \/ (UNCHANGED reading /\ window # "gone")
      BY <2>2 DEF StartDrawing, StartFails
    <3>3. window' = "gone" => PageInv'
      BY DEF PageInv
    <3> QED BY <2>2, <3>1, <3>2, <3>3, QuestionsStay, PagesStay DEF WindowInv
  <2>3. ASSUME WindowInv, NEW a \in Askers, AskWindow(a) \/ PostAsk(a) \/ HearAnswer(a)
        PROVE  WindowInv'
    <3>1. UNCHANGED reading /\ window' = window
      BY <2>3 DEF AskWindow, PostAsk, HearAnswer
    <3> QED BY <2>3, <3>1, AskKeeps, PostKeeps, PagesStay DEF WindowInv
  <2>4. ASSUME WindowInv, AnswerModal
        PROVE  WindowInv'
    <3>1. UNCHANGED reading /\ window' = window
      BY <2>4 DEF AnswerModal
    <3> QED BY <2>4, <3>1, AnswerKeeps, PagesStay, WindowAssumption DEF WindowInv
  <2>5. ASSUME WindowInv, Drain
        PROVE  WindowInv'
    BY <2>5, ShowKeeps, DrainKeeps DEF WindowInv
  <2>6. ASSUME WindowInv, AppDropped
        PROVE  WindowInv'
    BY <2>6, ShowKeeps DEF WindowInv, PageInv, AppDropped
  <2>7. ASSUME WindowInv, \/ LoadPage \/ BackPage \/ ReloadPage \/ TypeText \/ TakeJob \/ FinishJob
                          \/ OnExit \/ \E kind \in {"stats", "peers"} : ShowPanel(kind)
        PROVE  WindowInv'
    <3>1. UNCHANGED <<asker, told, dialog>>
      BY <2>7 DEF LoadPage, BackPage, ReloadPage, TypeText, Rest, TakeJob, FinishJob, OnExit, ShowPanel
    <3>2. PageInv'
      BY <2>7, RequestKeeps, TypeKeeps, JobKeeps, ResultKeeps, WorkKeeps DEF WindowInv
    <3> QED BY <2>7, <3>1, <3>2, QuestionsStay DEF WindowInv
  <2> QED BY <2>1, <2>2, <2>3, <2>4, <2>5, <2>6, <2>7 DEF WindowNext
<1> QED BY <1>1, WindowStarts, PTL DEF WindowSpec

\* Consent that an asker hears is the person's, to its own question, though questions that
\* nobody waits for any more are still shown; and once nothing is under way the window shows
\* what was asked for last, as a page or as what failed, and does not say that it is loading.
THEOREM WindowsAreHonest == WindowSpec => []WindowHonest
<1>1. WindowInv => WindowHonest
  <2> SUFFICES ASSUME WindowInv PROVE WindowHonest
    OBVIOUS
  <2>1. \A a \in Askers : told[a] = "yes" => decided[a] = "yes"
    BY DEF WindowInv, ConsentInv
  <2>2. ASSUME Quiet, asked # NoUrl
        PROVE  Shown(screen, asked)
    <3>1. window # "gone" /\ worker.kind # "load"
      BY <2>2 DEF Quiet, Drawn
    <3>2. NoneOf(work, Loads) /\ NoneOf(done, Outcomes)
      BY <2>2 DEF Quiet, NoneOf, Loads, Outcomes
    <3> QED BY <2>2, <3>1, <3>2 DEF WindowInv, PageInv, Pipe
  <2> QED BY <2>1, <2>2 DEF WindowHonest, Shown
<1> QED BY <1>1, WindowIsSound, PTL

(***************************************************************************)
(* Windows and sessions: what is kept of an agent's pages.                 *)
(***************************************************************************)

\* A recursion from the greatest number of a set down, whose steps stay in V, is a function.
Tables(n, V) == [(1 .. n) \X V -> V]
Follows(g, n, V, base, T) ==
  /\ g \in [SUBSET (1 .. n) -> V]
  /\ \A d \in SUBSET (1 .. n) :
       g[d] = IF d = {} THEN base ELSE T[<<Greatest(d), g[d \ {Greatest(d)}]>>]
LEMMA Folded ==
  ASSUME NEW n \in Nat, NEW V, NEW base \in V, NEW T \in Tables(n, V)
  PROVE  \E g : Follows(g, n, V, base, T)
<1> USE DEF Tables, Follows
<1> DEFINE step(g, d) == IF d = {} THEN base ELSE T[<<Greatest(d), g[d \ {Greatest(d)}]>>]
           Upto(k) == \E g \in [SUBSET (1 .. k) -> V] : \A d \in SUBSET (1 .. k) : g[d] = step(g, d)
           P == {k \in Nat : k <= n => Upto(k)}
<1>1. 0 \in P
  <2> DEFINE g == [d \in SUBSET (1 .. 0) |-> base]
  <2>1. \A d \in SUBSET (1 .. 0) : d = {}
    OBVIOUS
  <2>2. g \in [SUBSET (1 .. 0) -> V]
    OBVIOUS
  <2>3. \A d \in SUBSET (1 .. 0) : g[d] = step(g, d)
    BY <2>1
  <2> HIDE DEF g, step
  <2> QED BY <2>2, <2>3
<1>2. ASSUME NEW k \in Nat, k \in P
      PROVE  k + 1 \in P
  <2> SUFFICES ASSUME k + 1 <= n PROVE Upto(k + 1)
    <3> HIDE DEF Upto
    <3> QED OBVIOUS
  <2>1. PICK g \in [SUBSET (1 .. k) -> V] : \A d \in SUBSET (1 .. k) : g[d] = step(g, d)
    <3>1. Upto(k)
      <4> HIDE DEF Upto
      <4> QED BY <1>2
    <3> HIDE DEF step
    <3> QED BY <3>1
  <2>2. k + 1 \in 1 .. n
    OBVIOUS
  <2> DEFINE h == [d \in SUBSET (1 .. (k + 1)) |->
                     IF k + 1 \in d THEN T[<<k + 1, g[d \ {k + 1}]>>] ELSE g[d]]
  <2>3. h \in [SUBSET (1 .. (k + 1)) -> V]
    <3>1. ASSUME NEW d \in SUBSET (1 .. (k + 1))
          PROVE  (IF k + 1 \in d THEN T[<<k + 1, g[d \ {k + 1}]>>] ELSE g[d]) \in V
      <4>1. d \ {k + 1} \in SUBSET (1 .. k)
        OBVIOUS
      <4>2. g[d \ {k + 1}] \in V
        BY <4>1
      <4>3. T[<<k + 1, g[d \ {k + 1}]>>] \in V
        BY <2>2, <4>2
      <4>4. CASE k + 1 \notin d
        <5>1. d \in SUBSET (1 .. k)
          BY <4>4
        <5> QED BY <4>4, <5>1
      <4> QED BY <4>3, <4>4
    <3> QED BY <3>1
  <2>4. ASSUME NEW d \in SUBSET (1 .. (k + 1))
        PROVE  h[d] = step(h, d)
    <3>1. CASE k + 1 \in d
      <4>1. Greatest(d) = k + 1
        BY <3>1, GreatestIs
      <4>2. d \ {k + 1} \in SUBSET (1 .. k) /\ k + 1 \notin d \ {k + 1}
        OBVIOUS
      <4>3. d \ {k + 1} \in SUBSET (1 .. (k + 1))
        OBVIOUS
      <4>4. h[d \ {k + 1}] = g[d \ {k + 1}]
        BY <4>2, <4>3
      <4>5. h[d] = T[<<k + 1, g[d \ {k + 1}]>>]
        BY <3>1
      <4>6. step(h, d) = T[<<k + 1, h[d \ {k + 1}]>>]
        <5> HIDE DEF h
        <5> QED BY <3>1, <4>1
      <4> HIDE DEF h, step
      <4> QED BY <4>4, <4>5, <4>6
    <3>2. CASE k + 1 \notin d
      <4>1. d \in SUBSET (1 .. k) /\ d \ {Greatest(d)} \in SUBSET (1 .. (k + 1))
            /\ k + 1 \notin d \ {Greatest(d)}
        <5>1. \A y \in d : y \in 1 .. k
          BY <3>2
        <5>2. d \ {Greatest(d)} \subseteq d /\ 1 .. k \subseteq 1 .. (k + 1)
          OBVIOUS
        <5> QED BY <3>2, <5>1, <5>2
      <4>2. h[d] = g[d] /\ h[d \ {Greatest(d)}] = g[d \ {Greatest(d)}]
        BY <3>2, <4>1
      <4>3. g[d] = step(g, d)
        <5> HIDE DEF step
        <5> QED BY <2>1, <4>1
      <4>4. step(g, d) = step(h, d)
        <5> HIDE DEF h
        <5> QED BY <4>2
      <4> HIDE DEF h, step
      <4> QED BY <4>2, <4>3, <4>4
    <3> QED BY <3>1, <3>2
  <2> HIDE DEF h, step
  <2> QED BY <2>3, <2>4
<1>3. Nat \subseteq P
  <2> HIDE DEF P
  <2> QED BY <1>1, <1>2, FromZero
<1>4. Upto(n)
  <2> HIDE DEF Upto
  <2> QED BY <1>3
<1> QED BY <1>4

\* What steps into V from V, and begins there, is there.
LEMMA StaysIn ==
  ASSUME NEW n \in Nat, NEW V, NEW g, g[{}] \in V,
         \A k \in 1 .. n : g[1 .. (k - 1)] \in V => g[1 .. k] \in V
  PROVE  g[1 .. n] \in V
<1> DEFINE P == {k \in Nat : k <= n => g[1 .. k] \in V}
<1>1. 0 \in P
  <2>1. 1 .. 0 = {}
    OBVIOUS
  <2> QED BY <2>1
<1>2. \A k \in Nat : k \in P => k + 1 \in P
  <2> SUFFICES ASSUME NEW k \in Nat, k \in P, k + 1 <= n PROVE g[1 .. (k + 1)] \in V
    OBVIOUS
  <2>1. k + 1 \in 1 .. n /\ (k + 1) - 1 = k
    OBVIOUS
  <2>2. g[1 .. k] \in V
    OBVIOUS
  <2> HIDE DEF P
  <2> QED BY <2>1, <2>2
<1>3. Nat \subseteq P
  <2> HIDE DEF P
  <2> QED BY <1>1, <1>2, FromZero
<1> QED BY <1>3

\* The first k of a set of numbers, taken off its greatest.
LEMMA Peeled ==
  ASSUME NEW n \in Nat, NEW k \in 1 .. n
  PROVE  /\ 1 .. k \in SUBSET (1 .. n) /\ 1 .. (k - 1) \in SUBSET (1 .. n) /\ 1 .. k # {}
         /\ Greatest(1 .. k) = k /\ (1 .. k) \ {k} = 1 .. (k - 1)
<1>1. k \in Nat /\ k - 1 \in Nat /\ k \in 1 .. k /\ k <= n
  OBVIOUS
<1>2. Greatest(1 .. k) = k
  BY <1>1, GreatestIs
<1>3. \A y \in 1 .. k : y \in 1 .. n
  BY <1>1
<1>4. \A y \in 1 .. (k - 1) : y \in 1 .. n
  BY <1>1
<1>5. (1 .. k) \ {k} = 1 .. (k - 1)
  BY <1>1
<1> QED BY <1>1, <1>2, <1>3, <1>4, <1>5

\* There is one, if there is any.
LEMMA GreatestIn ==
  ASSUME NEW n \in Nat, NEW d \in SUBSET (1 .. n), d # {}
  PROVE  Greatest(d) \in d
<1> DEFINE R == {n - y : y \in d}
<1>1. \A y \in d : y \in Nat /\ y <= n /\ n - y \in Nat
  OBVIOUS
<1>2. PICK m \in R : \A k \in R : m <= k
  <2>1. R \subseteq Nat /\ R # {}
    BY <1>1
  <2> HIDE DEF R
  <2> QED BY <2>1, LeastOf
<1>3. PICK x \in d : m = n - x
  OBVIOUS
<1>4. ASSUME NEW y \in d PROVE x >= y
  <2>1. n - x <= n - y
    BY <1>2, <1>3
  <2> QED BY <1>1, <2>1
<1> QED BY <1>4 DEF Greatest

\* Those of a list.
LEMMA ThoseAre ==
  ASSUME NEW X, NEW s \in Seq(X), NEW set
  PROVE  Those(s, set) \in Seq(X \cap set)
<1> DEFINE n == Len(s)
           V == Seq(X \cap set)
           none == <<>>
           op(kept, x) == IF x \in set THEN Append(kept, x) ELSE kept
           T == [a \in (1 .. n) \X V |-> op(a[2], s[a[1]])]
           step(g, d) == IF d = {} THEN none ELSE op(g[d \ {Greatest(d)}], s[Greatest(d)])
           G == CHOOSE g : g = [d \in SUBSET (1 .. n) |-> step(g, d)]
<1>1. n \in Nat /\ DOMAIN s = 1 .. n /\ \A i \in 1 .. n : s[i] \in X
  OBVIOUS
<1>2. \A kept \in V, i \in 1 .. n : op(kept, s[i]) \in V
  BY <1>1
<1>3. T \in Tables(n, V)
  <2> HIDE DEF op, V, n
  <2> QED BY <1>2 DEF Tables
<1>4. none \in V
  OBVIOUS
<1>5. PICK g : Follows(g, n, V, none, T)
  <2> HIDE DEF T, V, n, none
  <2> QED BY <1>1, <1>3, <1>4, Folded
<1>6. \A d \in SUBSET (1 .. n) : g[d] = step(g, d)
  <2> SUFFICES ASSUME NEW d \in SUBSET (1 .. n), d # {}
               PROVE  T[<<Greatest(d), g[d \ {Greatest(d)}]>>]
                        = op(g[d \ {Greatest(d)}], s[Greatest(d)])
    <3> HIDE DEF T, V, n, op
    <3> QED BY <1>5 DEF Follows
  <2>1. Greatest(d) \in 1 .. n
    <3> HIDE DEF n
    <3> QED BY <1>1, GreatestIn
  <2>2. d \ {Greatest(d)} \in SUBSET (1 .. n)
    OBVIOUS
  <2>3. g[d \ {Greatest(d)}] \in V
    <3> HIDE DEF T, V, n
    <3> QED BY <1>5, <2>2 DEF Follows
  <2> HIDE DEF V, n, op
  <2> QED BY <2>1, <2>3
<1>7. g = [d \in SUBSET (1 .. n) |-> step(g, d)]
  <2>1. g = [d \in SUBSET (1 .. n) |-> g[d]]
    <3> HIDE DEF T, V, n, none
    <3> QED BY <1>5 DEF Follows
  <2> HIDE DEF step, n, V
  <2> QED BY <1>6, <2>1
<1>8. G = [d \in SUBSET (1 .. n) |-> step(G, d)]
  <2> HIDE DEF step, n
  <2> QED BY <1>7
<1>9. Those(s, set) = G[1 .. n]
  BY <1>1 DEF Those, FoldLeft, MapThenFoldSet, Max, Greatest
<1>10. G[1 .. n] \in V
  <2>1. G[{}] \in V
    <3>1. {} \in SUBSET (1 .. n) /\ step(G, {}) = none
      OBVIOUS
    <3> HIDE DEF step, n, V, G
    <3> QED BY <1>4, <1>8, <3>1
  <2>2. ASSUME NEW k \in 1 .. n, G[1 .. (k - 1)] \in V
        PROVE  G[1 .. k] \in V
    <3>1. G[1 .. k] = step(G, 1 .. k)
      <4> HIDE DEF step, n, V, G
      <4> QED BY <1>1, <1>8, Peeled
    <3>2. step(G, 1 .. k) = op(G[1 .. (k - 1)], s[k])
      <4> HIDE DEF op, n, V, G
      <4> QED BY <1>1, Peeled
    <3> HIDE DEF op, step, n, V, G
    <3> QED BY <1>2, <2>2, <3>1, <3>2
  <2> HIDE DEF n, V, G
  <2> QED BY <1>1, <2>1, <2>2, StaysIn
<1> QED BY <1>9, <1>10

\* Where no tab is free, the tab that is taken is none of them.
Junk == CHOOSE t \in {} : \A u \in {} : t <= u
Names == Tabs \cup {Junk}

Pages == {Mine, Theirs, Own}
TabRecords == [page : Pages, pinned : BOOLEAN, agents : BOOLEAN, web : BOOLEAN]

\* What a tab shows is not an agent's, unless the tab is.
Fair(tb) == \A t \in Tabs : tb[t].page = Theirs => tb[t].agents
Layouts == [groups : Seq(Seq(Names)), tab : [Tabs -> TabRecords]]
Honest == {S \in Layouts : Fair(S.tab)}

\* What may be kept.
Clean == {saved \in SavedTab : saved.page # Theirs}

Has(S, t) == \E g \in DOMAIN S.groups : Contains(S.groups[g], t)

LEMMA NewTabIs ==
  ASSUME NEW S
  PROVE  NewTabOf(S) \in Names
<1>1. CASE Free(S) = {}
  <2>1. NewTabOf(S) = Junk
    BY <1>1, Zenon DEF NewTabOf, Junk
  <2> QED BY <2>1 DEF Names
<1>2. CASE Free(S) # {}
  <2>1. Free(S) \subseteq Nat /\ Free(S) \subseteq Tabs
    BY WindowsAssumption DEF Free, Tabs
  <2>2. \E t \in Free(S) : \A u \in Free(S) : t <= u
    BY <1>2, <2>1, LeastOf
  <2>3. NewTabOf(S) \in Free(S)
    BY <2>2 DEF NewTabOf
  <2> QED BY <2>1, <2>3 DEF Names
<1> QED BY <1>1, <1>2

LEMMA ThoseIn ==
  ASSUME NEW X, NEW s \in Seq(X), NEW set, NEW Y, X \cap set \subseteq Y
  PROVE  Those(s, set) \in Seq(Y)
<1> DEFINE those == Those(s, set)
           Z == X \cap set
<1>1. those \in Seq(Z) /\ Z \subseteq Y
  BY ThoseAre
<1> HIDE DEF those, Z
<1>2. \A i \in 1 .. Len(those) : those[i] \in Y
  BY <1>1
<1>3. those \in Seq(Y)
  BY <1>1, <1>2
<1> QED BY <1>3 DEF those

LEMMA ThoseOfEach ==
  ASSUME NEW X, NEW ss \in Seq(Seq(X)), NEW set, NEW Y, X \cap set \subseteq Y
  PROVE  [i \in DOMAIN ss |-> Those(ss[i], set)] \in Seq(Seq(Y))
<1>1. DOMAIN ss = 1 .. Len(ss) /\ Len(ss) \in Nat /\ \A i \in DOMAIN ss : ss[i] \in Seq(X)
  OBVIOUS
<1>2. ASSUME NEW i \in DOMAIN ss PROVE Those(ss[i], set) \in Seq(Y)
  BY <1>1, ThoseIn
<1> QED BY <1>1, <1>2

LEMMA WithoutIs ==
  ASSUME NEW gs \in Seq(Seq(Names)), NEW ts
  PROVE  Without(gs, ts) \in Seq(Seq(Names))
<1> DEFINE inner == [g \in DOMAIN gs |-> Those(gs[g], Tabs \ ts)]
<1>1. inner \in Seq(Seq(Names))
  BY ThoseOfEach
<1>2. Those(inner, Seq(Tabs) \ {<<>>}) \in Seq(Seq(Names))
  <2> HIDE DEF inner
  <2> QED BY <1>1, ThoseIn
<1> QED BY <1>2 DEF Without

\* A state of the windows, of its parts.
LEMMA Made ==
  ASSUME NEW gs \in Seq(Seq(Names)), NEW tb \in [Tabs -> TabRecords], Fair(tb)
  PROVE  [groups |-> gs, tab |-> tb] \in Honest
BY DEF Honest, Layouts

LEMMA Parts ==
  ASSUME NEW S \in Honest
  PROVE  /\ S.groups \in Seq(Seq(Names)) /\ S.tab \in [Tabs -> TabRecords] /\ Fair(S.tab)
         /\ S = [groups |-> S.groups, tab |-> S.tab]
BY DEF Honest, Layouts

LEMMA OneTab ==
  ASSUME NEW tb \in [Tabs -> TabRecords], Fair(tb), NEW r \in TabRecords,
         r.page = Theirs => r.agents, NEW t
  PROVE  [tb EXCEPT ![t] = r] \in [Tabs -> TabRecords] /\ Fair([tb EXCEPT ![t] = r])
<1> HIDE DEF TabRecords
<1> QED BY DEF Fair

LEMMA PutIn ==
  ASSUME NEW X, NEW gs \in Seq(X), NEW g, NEW v, g \in DOMAIN gs => v \in X
  PROVE  [gs EXCEPT ![g] = v] \in Seq(X)
<1> DEFINE hs == [gs EXCEPT ![g] = v]
<1>1. DOMAIN gs = 1 .. Len(gs) /\ Len(gs) \in Nat /\ \A i \in DOMAIN gs : gs[i] \in X
  OBVIOUS
<1>2. hs \in [1 .. Len(gs) -> X]
  <2>1. DOMAIN hs = DOMAIN gs /\ hs = [i \in DOMAIN hs |-> hs[i]]
    OBVIOUS
  <2>2. \A i \in DOMAIN gs : hs[i] = IF i = g THEN v ELSE gs[i]
    OBVIOUS
  <2>3. \A i \in DOMAIN gs : hs[i] \in X
    BY <1>1, <2>2
  <2> HIDE DEF hs
  <2> QED BY <1>1, <2>1, <2>3
<1> HIDE DEF hs
<1>3. hs \in Seq(X)
  BY <1>1, <1>2
<1> QED BY <1>3 DEF hs

LEMMA PlaceIs ==
  ASSUME NEW S \in Honest, NEW beside, NEW t \in Names, NEW index \in Nat
  PROVE  Place(S, beside, t, index) \in Honest
<1> DEFINE gs == Without(S.groups, {t})
           g == Where(gs, beside)
           spot == IF index < Len(gs[g]) THEN index ELSE Len(gs[g])
           new == [gs EXCEPT ![g] = InsertAt(@, spot + 1, t)]
<1>1. gs \in Seq(Seq(Names))
  BY Parts, WithoutIs
<1>4. new \in Seq(Seq(Names))
  <2>1. CASE g \in DOMAIN gs
    <3> DEFINE old == gs[g]
    <3>1. old \in Seq(Names) /\ Len(old) \in Nat
      <4> HIDE DEF gs, g
      <4> QED BY <1>1, <2>1
    <3>2. spot \in 0 .. Len(old)
      <4> HIDE DEF gs, g
      <4> QED BY <3>1
    <3>3. InsertAt(old, spot + 1, t) \in Seq(Names)
      <4> HIDE DEF old, spot
      <4>1. SubSeq(old, 1, spot) \in Seq(Names) /\ SubSeq(old, spot + 1, Len(old)) \in Seq(Names)
        BY <3>1, <3>2
      <4>2. (spot + 1) - 1 = spot
        BY <3>1, <3>2
      <4>3. <<t>> \in Seq(Names)
        OBVIOUS
      <4> QED BY <4>1, <4>2, <4>3 DEF InsertAt
    <3> HIDE DEF gs, g, spot
    <3> QED BY <1>1, <3>3, PutIn
  <2>2. CASE g \notin DOMAIN gs
    <3> HIDE DEF gs, g, spot
    <3> QED BY <1>1, <2>2, PutIn
  <2> QED BY <2>1, <2>2
<1>5. Place(S, beside, t, index) = [S EXCEPT !.groups = new]
  BY DEF Place
<1>6. [S EXCEPT !.groups = new] = [groups |-> new, tab |-> S.tab]
  <2> HIDE DEF new
  <2> QED BY Parts
<1> HIDE DEF new
<1> QED BY <1>4, <1>5, <1>6, Parts, Made

\* The tabs of an open tab's window.
LEMMA TabsOfIs ==
  ASSUME NEW S \in Honest, NEW t, Has(S, t)
  PROVE  /\ TabsOf(S, t) \in Seq(Names) /\ Len(TabsOf(S, t)) \in Nat
         /\ \A u \in ToSet(TabsOf(S, t)) : Has(S, u)
<1> DEFINE g == Where(S.groups, t)
           gs == S.groups
<1>1. g \in DOMAIN gs
  BY DEF Has, Where
<1>2. gs \in Seq(Seq(Names))
  BY Parts
<1>3. TabsOf(S, t) = gs[g]
  BY DEF TabsOf
<1>4. gs[g] \in Seq(Names) /\ Len(gs[g]) \in Nat
  <2> HIDE DEF gs, g
  <2> QED BY <1>1, <1>2
<1>5. ASSUME NEW u \in ToSet(gs[g])
      PROVE  Has(S, u)
  <2>1. Contains(gs[g], u)
    <3> DEFINE ts == gs[g]
    <3> HIDE DEF gs, g
    <3>1. ts \in Seq(Names)
      BY <1>4
    <3> HIDE DEF ts
    <3>2. Contains(ts, u)
      BY <1>5, <3>1 DEF Contains, ToSet, ts
    <3> QED BY <3>2 DEF ts
  <2> QED BY <1>1, <2>1 DEF Has
<1> QED BY <1>3, <1>4, <1>5

LEMMA NewWindowIs ==
  ASSUME NEW S \in Honest, NEW shows \in Pages, NEW works \in BOOLEAN, shows # Theirs
  PROVE  NewWindow(S, shows, works) \in Honest
<1> DEFINE t == NewTabOf(S)
           gs == Append(S.groups, <<t>>)
           r == [page |-> IF works THEN shows ELSE Own, pinned |-> FALSE, agents |-> FALSE,
                 web |-> works]
           tb == [S.tab EXCEPT ![t] = r]
<1>1. gs \in Seq(Seq(Names))
  <2>1. <<t>> \in Seq(Names)
    <3>1. t \in Names
      BY NewTabIs
    <3> HIDE DEF t
    <3> QED BY <3>1
  <2> HIDE DEF t
  <2> QED BY <2>1, Parts
<1>2. r \in TabRecords /\ r.page # Theirs
  BY WindowsAssumption DEF TabRecords, Pages
<1>3. tb \in [Tabs -> TabRecords] /\ Fair(tb)
  <2> HIDE DEF r, t
  <2> QED BY <1>2, Parts, OneTab
<1>4. NewWindow(S, shows, works) = [groups |-> gs, tab |-> tb]
  BY DEF NewWindow
<1> HIDE DEF gs, tb
<1> QED BY <1>1, <1>3, <1>4, Made

\* A window that an agent has, or that its page opened: the tab is marked before anything else.
LEMMA OwnedIs ==
  ASSUME NEW S \in Honest, NEW shows \in Pages, NEW works \in BOOLEAN, NEW theirs \in BOOLEAN,
         shows = Theirs /\ works => theirs
  PROVE  [NewWindow(S, shows, works) EXCEPT !.tab[NewTabOf(S)].agents = theirs] \in Honest
<1> DEFINE t == NewTabOf(S)
           gs == Append(S.groups, <<t>>)
           q == [page |-> IF works THEN shows ELSE Own, pinned |-> FALSE, agents |-> FALSE,
                 web |-> works]
           r == [q EXCEPT !.agents = theirs]
           tb == [S.tab EXCEPT ![t] = r]
<1>1. gs \in Seq(Seq(Names))
  <2>1. <<t>> \in Seq(Names)
    <3>1. t \in Names
      BY NewTabIs
    <3> HIDE DEF t
    <3> QED BY <3>1
  <2> HIDE DEF t
  <2> QED BY <2>1, Parts
<1>2. r \in TabRecords /\ (r.page = Theirs => r.agents)
  <2>1. q \in TabRecords /\ (q.page = Theirs => theirs)
    BY WindowsAssumption DEF TabRecords, Pages
  <2> HIDE DEF q
  <2>2. r \in TabRecords
    BY <2>1 DEF TabRecords
  <2>3. r.page = q.page /\ r.agents = theirs
    BY <2>1 DEF TabRecords
  <2> QED BY <2>1, <2>2, <2>3
<1>3. tb \in [Tabs -> TabRecords] /\ Fair(tb)
  <2> HIDE DEF r, t
  <2> QED BY <1>2, Parts, OneTab
<1>4. [NewWindow(S, shows, works) EXCEPT !.tab[t].agents = theirs] = [groups |-> gs, tab |-> tb]
  <2>1. NewWindow(S, shows, works) = [groups |-> gs, tab |-> [S.tab EXCEPT ![t] = q]]
    BY DEF NewWindow
  <2>2. [[S.tab EXCEPT ![t] = q] EXCEPT ![t].agents = theirs] = tb
    <3> HIDE DEF q, t
    <3> QED BY Parts
  <2> HIDE DEF q, t, gs
  <2> QED BY <2>1, <2>2
<1> HIDE DEF gs, tb
<1> QED BY <1>1, <1>3, <1>4, Made

LEMMA PinnedIsNumber ==
  ASSUME NEW S, NEW ts
  PROVE  PinnedAmong(S, ts) \in Nat
<1>1. IsFiniteSet(Tabs)
  BY WindowsAssumption, FS_Interval DEF Tabs
<1>2. IsFiniteSet({t \in Tabs : Contains(ts, t) /\ S.tab[t].pinned})
  BY <1>1, FS_Subset
<1> QED BY <1>2, FS_CardinalityType DEF PinnedAmong

LEMMA SetPinnedIs ==
  ASSUME NEW S \in Honest, NEW t \in Names, NEW pin \in BOOLEAN
  PROVE  SetPinned(S, t, pin) \in Honest
<1> DEFINE r == [S.tab[t] EXCEPT !.pinned = pin]
           pins == [S EXCEPT !.tab[t].pinned = pin]
           others == Those(TabsOf(S, t), Tabs \ {t})
           index == PinnedAmong(S, others)
<1>1. pins = [groups |-> S.groups, tab |-> [S.tab EXCEPT ![t] = r]]
  <2> DEFINE tb == [S.tab EXCEPT ![t] = r]
  <2>1. pins = [S EXCEPT !.tab = tb]
    OBVIOUS
  <2> HIDE DEF tb, pins
  <2>2. pins = [groups |-> S.groups, tab |-> tb]
    BY <2>1, Parts
  <2> QED BY <2>2 DEF tb
<1>2. [S.tab EXCEPT ![t] = r] \in [Tabs -> TabRecords] /\ Fair([S.tab EXCEPT ![t] = r])
  <2>1. CASE t \in Tabs
    <3>1. S.tab[t] \in TabRecords /\ (S.tab[t].page = Theirs => S.tab[t].agents)
      BY <2>1, Parts DEF Fair
    <3>2. r \in TabRecords
      BY <3>1 DEF TabRecords
    <3>3. r.page = S.tab[t].page /\ r.agents = S.tab[t].agents
      BY <3>1 DEF TabRecords
    <3> HIDE DEF r
    <3> QED BY <3>1, <3>2, <3>3, Parts, OneTab
  <2>2. CASE t \notin Tabs
    <3>1. [S.tab EXCEPT ![t] = r] = S.tab
      <4> HIDE DEF r
      <4> QED BY <2>2, Parts
    <3> QED BY <3>1, Parts
  <2> QED BY <2>1, <2>2
<1>3. pins \in Honest
  <2> DEFINE tb == [S.tab EXCEPT ![t] = r]
  <2> HIDE DEF tb, pins
  <2> QED BY <1>1, <1>2, Parts, Made DEF tb
<1>4. index \in Nat
  BY PinnedIsNumber
<1>5. Place(pins, others[1], t, index) \in Honest
  <2> HIDE DEF pins, others, index
  <2> QED BY <1>3, <1>4, PlaceIs
<1> QED BY <1>3, <1>5 DEF SetPinned

LEMMA BesideIs ==
  ASSUME NEW S \in Honest, NEW after, Has(S, after), NEW t \in Names
  PROVE  Beside(S, after, t) \in Honest
<1> DEFINE ts == TabsOf(S, after)
           index == AfterPinned(IndexOf(S, after) + 1, PinnedAmong(S, ts))
<1>1. Where(S.groups, after) \in DOMAIN S.groups /\ Contains(ts, after)
  BY DEF Has, Where, TabsOf
<1>2. ts \in Seq(Names)
  <2>1. S.groups \in Seq(Seq(Names))
    BY Parts
  <2> QED BY <1>1, <2>1 DEF TabsOf
<1>3. \E i \in DOMAIN ts : ts[i] = after
  <2> HIDE DEF ts
  <2> QED BY <1>1, <1>2 DEF Contains
<1>4. (CHOOSE i \in DOMAIN ts : ts[i] = after) \in DOMAIN ts
  <2> HIDE DEF ts
  <2> QED BY <1>3
<1>5. IndexOf(S, after) + 1 \in Nat
  <2>1. DOMAIN ts \subseteq Nat /\ 0 \notin DOMAIN ts
    <3> HIDE DEF ts
    <3> QED BY <1>2
  <2>2. IndexOf(S, after) = (CHOOSE i \in DOMAIN ts : ts[i] = after) - 1
    BY DEF IndexOf
  <2> DEFINE place == CHOOSE i \in DOMAIN ts : ts[i] = after
  <2> HIDE DEF place, ts
  <2> QED BY <1>4, <2>1, <2>2 DEF place
<1>6. index \in Nat
  <2> DEFINE n == PinnedAmong(S, ts)
             m == IndexOf(S, after) + 1
  <2>1. n \in Nat /\ m \in Nat
    BY <1>5, PinnedIsNumber
  <2>2. index = AfterPinned(m, n)
    OBVIOUS
  <2> HIDE DEF n, m, index
  <2> QED BY <2>1, <2>2 DEF AfterPinned
<1>7. Beside(S, after, t) = Place(S, after, t, index)
  BY DEF Beside
<1> HIDE DEF index
<1> QED BY <1>6, <1>7, PlaceIs

\* What there was is still there.
LEMMA StillThere ==
  ASSUME NEW S \in Honest, NEW t, Has(S, t), NEW R, NEW u, R.groups = Append(S.groups, <<u>>)
  PROVE  Has(R, t)
<1>1. PICK g \in DOMAIN S.groups : Contains(S.groups[g], t)
  BY DEF Has
<1>2. g \in DOMAIN R.groups /\ R.groups[g] = S.groups[g]
  <2>1. S.groups \in Seq(Seq(Names))
    BY Parts
  <2> DEFINE gs == S.groups
  <2> HIDE DEF gs
  <2> QED BY <2>1, <1>1 DEF gs
<1> QED BY <1>1, <1>2 DEF Has

LEMMA OpenedIs ==
  ASSUME NEW S \in Honest, NEW shows \in Pages, NEW works \in BOOLEAN, shows # Theirs,
         NEW R \in Opened(S, shows, works)
  PROVE  R \in Honest
<1> DEFINE made == NewWindow(S, shows, works)
<1>1. made \in Honest
  BY NewWindowIs
<1>2. CASE R = made
  BY <1>1, <1>2
<1>3. ASSUME NEW front \in Persons(S), R = Beside(made, front, NewTabOf(S))
      PROVE  R \in Honest
  <2>1. Has(S, front)
    BY DEF Persons, Free, Has
  <2>2. made.groups = Append(S.groups, <<NewTabOf(S)>>)
    BY DEF NewWindow
  <2>3. Has(made, front)
    <3> HIDE DEF made
    <3> QED BY <2>1, <2>2, StillThere
  <2> HIDE DEF made
  <2> QED BY <1>1, <1>3, <2>3, BesideIs, NewTabIs
<1> QED BY <1>2, <1>3 DEF Opened

LEMMA OpenLaterIs ==
  ASSUME NEW S \in Honest, NEW beside, NEW index \in Nat, NEW saved \in Clean,
         NEW works \in BOOLEAN
  PROVE  OpenLater(S, beside, index, saved, works) \in Honest
<1> DEFINE t == NewTabOf(S)
           made == NewWindow(S, saved.page, works)
           placed == IF beside \in Tabs THEN Place(made, beside, t, index) ELSE made
<1>1. saved.page \in Pages /\ saved.page # Theirs /\ saved.pinned \in BOOLEAN
  BY DEF Clean, SavedTab, Pages
<1>2. made \in Honest /\ t \in Names
  BY <1>1, NewWindowIs, NewTabIs
<1>3. placed \in Honest
  <2> HIDE DEF made, t
  <2> QED BY <1>2, PlaceIs
<1>4. SetPinned(placed, t, TRUE) \in Honest
  <2> HIDE DEF placed, t
  <2> QED BY <1>2, <1>3, SetPinnedIs
<1> QED BY <1>3, <1>4 DEF OpenLater

\* A window of the session, its tabs one after another.
LEMMA OpenSavedIs ==
  ASSUME NEW S \in Honest, NEW row \in Seq(Clean), NEW works \in BOOLEAN
  PROVE  OpenSaved(S, row, works) \in Honest
<1> DEFINE n == Len(row)
           V == [S : Honest, last : Names \cup {0}, count : Nat]
           base == [S |-> S, last |-> 0, count |-> 0]
           op(sofar, saved) == [S |-> OpenLater(sofar.S, sofar.last, sofar.count, saved, works),
                               last |-> NewTabOf(sofar.S), count |-> sofar.count + 1]
           T == [a \in (1 .. n) \X V |-> op(a[2], row[a[1]])]
           step(g, d) == IF d = {} THEN base ELSE op(g[d \ {Greatest(d)}], row[Greatest(d)])
           G == CHOOSE g : g = [d \in SUBSET (1 .. n) |-> step(g, d)]
<1>1. n \in Nat /\ DOMAIN row = 1 .. n /\ \A i \in 1 .. n : row[i] \in Clean
  OBVIOUS
<1>2. ASSUME NEW v \in V, NEW i \in 1 .. n
      PROVE  op(v, row[i]) \in V
  <2>1. v.S \in Honest /\ v.count \in Nat
    OBVIOUS
  <2>2. OpenLater(v.S, v.last, v.count, row[i], works) \in Honest
    BY <1>1, <2>1, OpenLaterIs
  <2>3. NewTabOf(v.S) \in Names
    BY NewTabIs
  <2> QED BY <2>1, <2>2, <2>3
<1>3. T \in Tables(n, V)
  <2> HIDE DEF op, V, n
  <2> QED BY <1>2 DEF Tables
<1>4. base \in V
  OBVIOUS
<1>5. PICK g : Follows(g, n, V, base, T)
  <2> HIDE DEF T, V, n, base
  <2> QED BY <1>1, <1>3, <1>4, Folded
<1>6. \A d \in SUBSET (1 .. n) : g[d] = step(g, d)
  <2> SUFFICES ASSUME NEW d \in SUBSET (1 .. n), d # {}
               PROVE  T[<<Greatest(d), g[d \ {Greatest(d)}]>>]
                        = op(g[d \ {Greatest(d)}], row[Greatest(d)])
    <3> HIDE DEF T, V, n, op, base
    <3> QED BY <1>5 DEF Follows
  <2>1. Greatest(d) \in 1 .. n
    <3> HIDE DEF n
    <3> QED BY <1>1, GreatestIn
  <2>2. d \ {Greatest(d)} \in SUBSET (1 .. n)
    OBVIOUS
  <2>3. g[d \ {Greatest(d)}] \in V
    <3> HIDE DEF T, V, n, base
    <3> QED BY <1>5, <2>2 DEF Follows
  <2> HIDE DEF V, n, op
  <2> QED BY <2>1, <2>3
<1>7. g = [d \in SUBSET (1 .. n) |-> step(g, d)]
  <2>1. g = [d \in SUBSET (1 .. n) |-> g[d]]
    <3> HIDE DEF T, V, n, base
    <3> QED BY <1>5 DEF Follows
  <2> HIDE DEF step, n, V
  <2> QED BY <1>6, <2>1
<1>8. G = [d \in SUBSET (1 .. n) |-> step(G, d)]
  <2> HIDE DEF step, n
  <2> QED BY <1>7
<1>9. OpenSaved(S, row, works) = G[1 .. n].S
  BY <1>1 DEF OpenSaved, FoldLeft, MapThenFoldSet, Max, Greatest
<1>10. G[1 .. n] \in V
  <2>1. G[{}] \in V
    <3>1. {} \in SUBSET (1 .. n) /\ step(G, {}) = base
      OBVIOUS
    <3> HIDE DEF step, n, V, G, base
    <3> QED BY <1>4, <1>8, <3>1
  <2>2. ASSUME NEW k \in 1 .. n, G[1 .. (k - 1)] \in V
        PROVE  G[1 .. k] \in V
    <3>1. G[1 .. k] = step(G, 1 .. k)
      <4> HIDE DEF step, n, V, G
      <4> QED BY <1>1, <1>8, Peeled
    <3>2. step(G, 1 .. k) = op(G[1 .. (k - 1)], row[k])
      <4> HIDE DEF op, n, V, G, base
      <4> QED BY <1>1, Peeled
    <3> HIDE DEF op, step, n, V, G
    <3> QED BY <1>2, <2>2, <3>1, <3>2
  <2> HIDE DEF n, V, G
  <2> QED BY <1>1, <2>1, <2>2, StaysIn
<1> QED BY <1>9, <1>10

\* A session, window by window.
LEMMA OpenSessionIs ==
  ASSUME NEW S \in Honest, NEW kept \in Seq(Seq(Clean)), NEW works \in BOOLEAN
  PROVE  OpenSession(S, kept, works) \in Honest
<1> DEFINE n == Len(kept)
           V == Honest
           base == S
           op(sofar, row) == OpenSaved(sofar, row, works)
           T == [a \in (1 .. n) \X V |-> op(a[2], kept[a[1]])]
           step(g, d) == IF d = {} THEN base ELSE op(g[d \ {Greatest(d)}], kept[Greatest(d)])
           G == CHOOSE g : g = [d \in SUBSET (1 .. n) |-> step(g, d)]
<1>1. n \in Nat /\ DOMAIN kept = 1 .. n /\ \A i \in 1 .. n : kept[i] \in Seq(Clean)
  OBVIOUS
<1>2. ASSUME NEW v \in V, NEW i \in 1 .. n
      PROVE  op(v, kept[i]) \in V
  BY <1>1, OpenSavedIs
<1>3. T \in Tables(n, V)
  <2> HIDE DEF op, V, n
  <2> QED BY <1>2 DEF Tables
<1>4. base \in V
  OBVIOUS
<1>5. PICK g : Follows(g, n, V, base, T)
  <2> HIDE DEF T, V, n, base
  <2> QED BY <1>1, <1>3, <1>4, Folded
<1>6. \A d \in SUBSET (1 .. n) : g[d] = step(g, d)
  <2> SUFFICES ASSUME NEW d \in SUBSET (1 .. n), d # {}
               PROVE  T[<<Greatest(d), g[d \ {Greatest(d)}]>>]
                        = op(g[d \ {Greatest(d)}], kept[Greatest(d)])
    <3> HIDE DEF T, V, n, op, base
    <3> QED BY <1>5 DEF Follows
  <2>1. Greatest(d) \in 1 .. n
    <3> HIDE DEF n
    <3> QED BY <1>1, GreatestIn
  <2>2. d \ {Greatest(d)} \in SUBSET (1 .. n)
    OBVIOUS
  <2>3. g[d \ {Greatest(d)}] \in V
    <3> HIDE DEF T, V, n, base
    <3> QED BY <1>5, <2>2 DEF Follows
  <2> HIDE DEF V, n, op
  <2> QED BY <2>1, <2>3
<1>7. g = [d \in SUBSET (1 .. n) |-> step(g, d)]
  <2>1. g = [d \in SUBSET (1 .. n) |-> g[d]]
    <3> HIDE DEF T, V, n, base
    <3> QED BY <1>5 DEF Follows
  <2> HIDE DEF step, n, V
  <2> QED BY <1>6, <2>1
<1>8. G = [d \in SUBSET (1 .. n) |-> step(G, d)]
  <2> HIDE DEF step, n
  <2> QED BY <1>7
<1>9. OpenSession(S, kept, works) = G[1 .. n]
  BY <1>1 DEF OpenSession, FoldLeft, MapThenFoldSet, Max, Greatest
<1>10. G[1 .. n] \in V
  <2>1. G[{}] \in V
    <3>1. {} \in SUBSET (1 .. n) /\ step(G, {}) = base
      OBVIOUS
    <3> HIDE DEF step, n, V, G, base
    <3> QED BY <1>4, <1>8, <3>1
  <2>2. ASSUME NEW k \in 1 .. n, G[1 .. (k - 1)] \in V
        PROVE  G[1 .. k] \in V
    <3>1. G[1 .. k] = step(G, 1 .. k)
      <4> HIDE DEF step, n, V, G
      <4> QED BY <1>1, <1>8, Peeled
    <3>2. step(G, 1 .. k) = op(G[1 .. (k - 1)], kept[k])
      <4> HIDE DEF op, n, V, G, base
      <4> QED BY <1>1, Peeled
    <3> HIDE DEF op, step, n, V, G
    <3> QED BY <1>2, <2>2, <3>1, <3>2
  <2> HIDE DEF n, V, G
  <2> QED BY <1>1, <2>1, <2>2, StaysIn
<1> QED BY <1>9, <1>10

\* The tabs of all the windows of a session.
LEMMA FlatIs ==
  ASSUME NEW kept \in Seq(Seq(Clean))
  PROVE  FoldLeft(LAMBDA row, w : row \o w, <<>>, kept) \in Seq(Clean)
<1> DEFINE n == Len(kept)
           V == Seq(Clean)
           base == <<>>
           op(row, w) == row \o w
           T == [a \in (1 .. n) \X V |-> op(a[2], kept[a[1]])]
           step(g, d) == IF d = {} THEN base ELSE op(g[d \ {Greatest(d)}], kept[Greatest(d)])
           G == CHOOSE g : g = [d \in SUBSET (1 .. n) |-> step(g, d)]
<1>1. n \in Nat /\ DOMAIN kept = 1 .. n /\ \A i \in 1 .. n : kept[i] \in Seq(Clean)
  OBVIOUS
<1>2. ASSUME NEW v \in V, NEW i \in 1 .. n
      PROVE  op(v, kept[i]) \in V
  BY <1>1
<1>3. T \in Tables(n, V)
  <2> HIDE DEF op, V, n
  <2> QED BY <1>2 DEF Tables
<1>4. base \in V
  OBVIOUS
<1>5. PICK g : Follows(g, n, V, base, T)
  <2> HIDE DEF T, V, n, base
  <2> QED BY <1>1, <1>3, <1>4, Folded
<1>6. \A d \in SUBSET (1 .. n) : g[d] = step(g, d)
  <2> SUFFICES ASSUME NEW d \in SUBSET (1 .. n), d # {}
               PROVE  T[<<Greatest(d), g[d \ {Greatest(d)}]>>]
                        = op(g[d \ {Greatest(d)}], kept[Greatest(d)])
    <3> HIDE DEF T, V, n, op, base
    <3> QED BY <1>5 DEF Follows
  <2>1. Greatest(d) \in 1 .. n
    <3> HIDE DEF n
    <3> QED BY <1>1, GreatestIn
  <2>2. d \ {Greatest(d)} \in SUBSET (1 .. n)
    OBVIOUS
  <2>3. g[d \ {Greatest(d)}] \in V
    <3> HIDE DEF T, V, n, base
    <3> QED BY <1>5, <2>2 DEF Follows
  <2> HIDE DEF V, n, op
  <2> QED BY <2>1, <2>3
<1>7. g = [d \in SUBSET (1 .. n) |-> step(g, d)]
  <2>1. g = [d \in SUBSET (1 .. n) |-> g[d]]
    <3> HIDE DEF T, V, n, base
    <3> QED BY <1>5 DEF Follows
  <2> HIDE DEF step, n, V
  <2> QED BY <1>6, <2>1
<1>8. G = [d \in SUBSET (1 .. n) |-> step(G, d)]
  <2> HIDE DEF step, n
  <2> QED BY <1>7
<1>9. FoldLeft(LAMBDA row, w : row \o w, <<>>, kept) = G[1 .. n]
  BY <1>1 DEF FoldLeft, MapThenFoldSet, Max, Greatest
<1>10. G[1 .. n] \in V
  <2>1. G[{}] \in V
    <3>1. {} \in SUBSET (1 .. n) /\ step(G, {}) = base
      OBVIOUS
    <3> HIDE DEF step, n, V, G, base
    <3> QED BY <1>4, <1>8, <3>1
  <2>2. ASSUME NEW k \in 1 .. n, G[1 .. (k - 1)] \in V
        PROVE  G[1 .. k] \in V
    <3>1. G[1 .. k] = step(G, 1 .. k)
      <4> HIDE DEF step, n, V, G
      <4> QED BY <1>1, <1>8, Peeled
    <3>2. step(G, 1 .. k) = op(G[1 .. (k - 1)], kept[k])
      <4> HIDE DEF op, n, V, G, base
      <4> QED BY <1>1, Peeled
    <3> HIDE DEF op, step, n, V, G
    <3> QED BY <1>2, <2>2, <3>1, <3>2
  <2> HIDE DEF n, V, G
  <2> QED BY <1>1, <2>1, <2>2, StaysIn
<1> QED BY <1>9, <1>10

LEMMA PinnedOfIs ==
  ASSUME NEW kept \in Seq(Seq(Clean))
  PROVE  PinnedOf(kept) \in Seq(Clean)
<1> DEFINE flat == FoldLeft(LAMBDA row, w : row \o w, <<>>, kept)
<1>1. flat \in Seq(Clean)
  BY FlatIs
<1> HIDE DEF flat
<1>2. Those(flat, {saved \in SavedTab : saved.pinned}) \in Seq(Clean)
  BY <1>1, ThoseIn
<1> QED BY <1>2 DEF PinnedOf, flat

\* The pinned tabs of a session, before the start page or beside each other.
LEMMA OpenPinnedIs ==
  ASSUME NEW S \in Honest, NEW front, NEW kept \in Seq(Seq(Clean)), NEW works \in BOOLEAN,
         NEW pins, pins = PinnedOf(kept)
  PROVE  OpenPinned(S, front, kept, works) \in Honest
<1> DEFINE n == Len(pins)
           V == [S : Honest, beside : Names \cup {0, front}, count : Nat]
           base == [S |-> S, beside |-> front, count |-> 0]
           op(sofar, saved) == [S |-> OpenLater(sofar.S, sofar.beside, sofar.count, saved, works),
                               beside |-> IF sofar.beside = 0 THEN NewTabOf(sofar.S) ELSE sofar.beside,
                               count |-> sofar.count + 1]
           T == [a \in (1 .. n) \X V |-> op(a[2], pins[a[1]])]
           step(g, d) == IF d = {} THEN base ELSE op(g[d \ {Greatest(d)}], pins[Greatest(d)])
           G == CHOOSE g : g = [d \in SUBSET (1 .. n) |-> step(g, d)]
<1>1. n \in Nat /\ DOMAIN pins = 1 .. n /\ \A i \in 1 .. n : pins[i] \in Clean
  <2>1. pins \in Seq(Clean)
    BY PinnedOfIs
  <2> QED BY <2>1
<1>2. ASSUME NEW v \in V, NEW i \in 1 .. n
      PROVE  op(v, pins[i]) \in V
  <2>1. v.S \in Honest /\ v.count \in Nat /\ v.beside \in Names \cup {0, front}
    OBVIOUS
  <2>2. OpenLater(v.S, v.beside, v.count, pins[i], works) \in Honest
    BY <1>1, <2>1, OpenLaterIs
  <2>3. NewTabOf(v.S) \in Names
    BY NewTabIs
  <2> QED BY <2>1, <2>2, <2>3
<1>3. T \in Tables(n, V)
  <2> HIDE DEF op, V, n
  <2> QED BY <1>2 DEF Tables
<1>4. base \in V
  OBVIOUS
<1>5. PICK g : Follows(g, n, V, base, T)
  <2> HIDE DEF T, V, n, base
  <2> QED BY <1>1, <1>3, <1>4, Folded
<1>6. \A d \in SUBSET (1 .. n) : g[d] = step(g, d)
  <2> SUFFICES ASSUME NEW d \in SUBSET (1 .. n), d # {}
               PROVE  T[<<Greatest(d), g[d \ {Greatest(d)}]>>]
                        = op(g[d \ {Greatest(d)}], pins[Greatest(d)])
    <3> HIDE DEF T, V, n, op, base
    <3> QED BY <1>5 DEF Follows
  <2>1. Greatest(d) \in 1 .. n
    <3> HIDE DEF n
    <3> QED BY <1>1, GreatestIn
  <2>2. d \ {Greatest(d)} \in SUBSET (1 .. n)
    OBVIOUS
  <2>3. g[d \ {Greatest(d)}] \in V
    <3> HIDE DEF T, V, n, base
    <3> QED BY <1>5, <2>2 DEF Follows
  <2> HIDE DEF V, n, op
  <2> QED BY <2>1, <2>3
<1>7. g = [d \in SUBSET (1 .. n) |-> step(g, d)]
  <2>1. g = [d \in SUBSET (1 .. n) |-> g[d]]
    <3> HIDE DEF T, V, n, base
    <3> QED BY <1>5 DEF Follows
  <2> HIDE DEF step, n, V
  <2> QED BY <1>6, <2>1
<1>8. G = [d \in SUBSET (1 .. n) |-> step(G, d)]
  <2> HIDE DEF step, n
  <2> QED BY <1>7
<1>9. OpenPinned(S, front, kept, works) = G[1 .. n].S
  BY <1>1 DEF OpenPinned, FoldLeft, MapThenFoldSet, Max, Greatest
<1>10. G[1 .. n] \in V
  <2>1. G[{}] \in V
    <3>1. {} \in SUBSET (1 .. n) /\ step(G, {}) = base
      OBVIOUS
    <3> HIDE DEF step, n, V, G, base
    <3> QED BY <1>4, <1>8, <3>1
  <2>2. ASSUME NEW k \in 1 .. n, G[1 .. (k - 1)] \in V
        PROVE  G[1 .. k] \in V
    <3>1. G[1 .. k] = step(G, 1 .. k)
      <4> HIDE DEF step, n, V, G
      <4> QED BY <1>1, <1>8, Peeled
    <3>2. step(G, 1 .. k) = op(G[1 .. (k - 1)], pins[k])
      <4> HIDE DEF op, n, V, G, base
      <4> QED BY <1>1, Peeled
    <3> HIDE DEF op, step, n, V, G
    <3> QED BY <1>2, <2>2, <3>1, <3>2
  <2> HIDE DEF n, V, G
  <2> QED BY <1>1, <2>1, <2>2, StaysIn
<1> QED BY <1>9, <1>10

LEMMA KeptIs ==
  ASSUME NEW kept \in Seq(Seq(Clean))
  PROVE  Kept(kept) \in Seq(Seq(Clean))
<1> DEFINE savable == {saved \in SavedTab : saved.page # Own}
           inner == [w \in DOMAIN kept |-> Those(kept[w], savable)]
<1>1. inner \in Seq(Seq(Clean))
  BY ThoseOfEach
<1>2. Those(inner, Seq(SavedTab) \ {<<>>}) \in Seq(Seq(Clean))
  <2> HIDE DEF inner
  <2> QED BY <1>1, ThoseIn
<1> QED BY <1>2 DEF Kept

LEMMA WithoutPinnedIs ==
  ASSUME NEW kept \in Seq(Seq(Clean))
  PROVE  WithoutPinned(kept) \in Seq(Seq(Clean))
<1> DEFINE others == {saved \in SavedTab : ~saved.pinned}
           inner == [w \in DOMAIN kept |-> Those(kept[w], others)]
<1>1. inner \in Seq(Seq(Clean))
  BY ThoseOfEach
<1>2. Kept(inner) \in Seq(Seq(Clean))
  <2> HIDE DEF inner
  <2> QED BY <1>1, KeptIs
<1> QED BY <1>2 DEF WithoutPinned

LEMMA LesserOf ==
  ASSUME NEW a \in Nat, NEW b \in Nat
  PROVE  Min({a, b}) \in 0 .. a
<1>1. \E x \in {a, b} : \A y \in {a, b} : x <= y
  OBVIOUS
<1> DEFINE m == CHOOSE x \in {a, b} : \A y \in {a, b} : x <= y
<1>2. m \in {a, b} /\ \A y \in {a, b} : m <= y
  BY <1>1
<1>3. m \in 0 .. a
  <2> HIDE DEF m
  <2> QED BY <1>2
<1> QED BY <1>3 DEF Min

LEMMA FromTextIs ==
  ASSUME NEW kept \in Seq(Seq(Clean))
  PROVE  FromText(kept) \in Seq(Seq(Clean))
<1> DEFINE n == Min({Len(kept), SessionWindows})
           cut(w) == SubSeq(kept[w], 1, Min({Len(kept[w]), SessionTabs}))
           inner == [w \in 1 .. n |-> cut(w)]
<1>1. n \in 0 .. Len(kept) /\ n \in Nat
  BY WindowsAssumption, LesserOf
<1>2. ASSUME NEW w \in 1 .. n
      PROVE  cut(w) \in Seq(Clean)
  <2> DEFINE row == kept[w]
             m == Min({Len(row), SessionTabs})
  <2>1. row \in Seq(Clean)
    <3> HIDE DEF n
    <3> QED BY <1>1
  <2>2. Len(row) \in Nat
    BY <2>1
  <2>3. m \in 0 .. Len(row)
    BY <2>2, WindowsAssumption, LesserOf
  <2>4. SubSeq(row, 1, m) \in Seq(Clean)
    <3> HIDE DEF row, m
    <3> QED BY <2>1, <2>2, <2>3
  <2> QED BY <2>4
<1>3. inner \in Seq(Seq(Clean))
  <2> HIDE DEF n, cut
  <2> QED BY <1>1, <1>2
<1>4. Kept(inner) \in Seq(Seq(Clean))
  <2> HIDE DEF inner
  <2> QED BY <1>3, KeptIs
<1> QED BY <1>4 DEF FromText

\* What the person's tab shows may be kept.
LEMMA SnapshotIs ==
  ASSUME NEW S \in Honest, NEW t \in Tabs, ~S.tab[t].agents
  PROVE  Snapshot(S, t) \in Clean
<1> DEFINE r == S.tab[t]
<1>1. r \in TabRecords /\ r.page # Theirs
  BY Parts DEF Fair
<1> HIDE DEF r
<1>2. [page |-> r.page, pinned |-> r.pinned /\ r.web] \in Clean
  <2>1. r.page \in Pages /\ (r.pinned /\ r.web) \in BOOLEAN
    BY <1>1 DEF TabRecords
  <2> DEFINE b == r.pinned /\ r.web
  <2> HIDE DEF b
  <2>2. [page |-> r.page, pinned |-> b] \in Clean
    BY <1>1, <2>1 DEF Clean, SavedTab, Pages, b
  <2> QED BY <2>2 DEF b
<1> QED BY <1>2 DEF Snapshot, r

LEMMA SessionOfIs ==
  ASSUME NEW S \in Honest
  PROVE  SessionOf(S) \in Seq(Seq(Clean))
<1> DEFINE persons(g) == Those(S.groups[g], Persons(S))
           shot(g) == [i \in DOMAIN persons(g) |-> Snapshot(S, persons(g)[i])]
           inner == [g \in DOMAIN S.groups |-> shot(g)]
<1>1. DOMAIN S.groups = 1 .. Len(S.groups) /\ Len(S.groups) \in Nat
      /\ \A g \in DOMAIN S.groups : S.groups[g] \in Seq(Names)
  <2>1. S.groups \in Seq(Seq(Names))
    BY Parts
  <2> DEFINE gs == S.groups
  <2> HIDE DEF gs
  <2>2. DOMAIN gs = 1 .. Len(gs) /\ Len(gs) \in Nat /\ \A g \in DOMAIN gs : gs[g] \in Seq(Names)
    BY <2>1 DEF gs
  <2> QED BY <2>2 DEF gs
<1>2. ASSUME NEW g \in DOMAIN S.groups
      PROVE  shot(g) \in Seq(Clean)
  <2> DEFINE ts == persons(g)
  <2>1. ts \in Seq(Persons(S))
    BY <1>1, ThoseIn
  <2>2. \A t \in Persons(S) : Snapshot(S, t) \in Clean
    BY SnapshotIs DEF Persons
  <2>3. [i \in DOMAIN ts |-> Snapshot(S, ts[i])] \in Seq(Clean)
    <3> HIDE DEF ts
    <3>1. DOMAIN ts = 1 .. Len(ts) /\ Len(ts) \in Nat /\ \A i \in DOMAIN ts : ts[i] \in Persons(S)
      BY <2>1
    <3> QED BY <2>2, <3>1
  <2> QED BY <2>3
<1>3. inner \in Seq(Seq(Clean))
  <2> HIDE DEF shot
  <2> QED BY <1>1, <1>2
<1>4. Kept(inner) \in Seq(Seq(Clean))
  <2> HIDE DEF inner
  <2> QED BY <1>3, KeptIs
<1> QED BY <1>4 DEF SessionOf

LEMMA PushIs ==
  ASSUME NEW list \in Seq(Clean), NEW saved \in Clean
  PROVE  Push(list, saved) \in Seq(Clean)
<1> DEFINE all == <<saved>> \o list
           m == IF Len(list) < KeptClosed THEN Len(list) + 1 ELSE KeptClosed
<1>1. all \in Seq(Clean) /\ Len(all) = Len(list) + 1 /\ Len(list) \in Nat
  OBVIOUS
<1>2. m \in 0 .. Len(all)
  <2> HIDE DEF all
  <2> QED BY <1>1, WindowsAssumption
<1>3. SubSeq(all, 1, m) \in Seq(Clean)
  <2> HIDE DEF all, m
  <2> QED BY <1>1, <1>2
<1> QED BY <1>3 DEF Push

\* Recently Closed, after these tabs were closed in turn.
LEMMA ForgottenIs ==
  ASSUME Now \in Honest, closed \in Seq(Clean), NEW ts \in Seq(Tabs)
  PROVE  FoldLeft(LAMBDA list, t : IF IsClosedTab(t) THEN Push(list, Snapshot(Now, t)) ELSE list,
                  closed, ts) \in Seq(Clean)
<1> DEFINE n == Len(ts)
           V == Seq(Clean)
           base == closed
           op(list, t) == IF IsClosedTab(t) THEN Push(list, Snapshot(Now, t)) ELSE list
           T == [a \in (1 .. n) \X V |-> op(a[2], ts[a[1]])]
           step(g, d) == IF d = {} THEN base ELSE op(g[d \ {Greatest(d)}], ts[Greatest(d)])
           G == CHOOSE g : g = [d \in SUBSET (1 .. n) |-> step(g, d)]
<1>1. n \in Nat /\ DOMAIN ts = 1 .. n /\ \A i \in 1 .. n : ts[i] \in Tabs
  OBVIOUS
<1>2. ASSUME NEW v \in V, NEW i \in 1 .. n
      PROVE  op(v, ts[i]) \in V
  <2>1. ts[i] \in Tabs /\ v \in Seq(Clean)
    BY <1>1
  <2>2. IsClosedTab(ts[i]) => Snapshot(Now, ts[i]) \in Clean
    BY <2>1, SnapshotIs DEF IsClosedTab, Now
  <2> QED BY <2>1, <2>2, PushIs
<1>3. T \in Tables(n, V)
  <2> HIDE DEF op, V, n
  <2> QED BY <1>2 DEF Tables
<1>4. base \in V
  OBVIOUS
<1>5. PICK g : Follows(g, n, V, base, T)
  <2> HIDE DEF T, V, n, base
  <2> QED BY <1>1, <1>3, <1>4, Folded
<1>6. \A d \in SUBSET (1 .. n) : g[d] = step(g, d)
  <2> SUFFICES ASSUME NEW d \in SUBSET (1 .. n), d # {}
               PROVE  T[<<Greatest(d), g[d \ {Greatest(d)}]>>]
                        = op(g[d \ {Greatest(d)}], ts[Greatest(d)])
    <3> HIDE DEF T, V, n, op, base
    <3> QED BY <1>5 DEF Follows
  <2>1. Greatest(d) \in 1 .. n
    <3> HIDE DEF n
    <3> QED BY <1>1, GreatestIn
  <2>2. d \ {Greatest(d)} \in SUBSET (1 .. n)
    OBVIOUS
  <2>3. g[d \ {Greatest(d)}] \in V
    <3> HIDE DEF T, V, n, base
    <3> QED BY <1>5, <2>2 DEF Follows
  <2> HIDE DEF V, n, op
  <2> QED BY <2>1, <2>3
<1>7. g = [d \in SUBSET (1 .. n) |-> step(g, d)]
  <2>1. g = [d \in SUBSET (1 .. n) |-> g[d]]
    <3> HIDE DEF T, V, n, base
    <3> QED BY <1>5 DEF Follows
  <2> HIDE DEF step, n, V
  <2> QED BY <1>6, <2>1
<1>8. G = [d \in SUBSET (1 .. n) |-> step(G, d)]
  <2> HIDE DEF step, n
  <2> QED BY <1>7
<1>9. FoldLeft(LAMBDA list, t : IF IsClosedTab(t) THEN Push(list, Snapshot(Now, t)) ELSE list,
                  closed, ts) = G[1 .. n]
  BY <1>1 DEF FoldLeft, MapThenFoldSet, Max, Greatest
<1>10. G[1 .. n] \in V
  <2>1. G[{}] \in V
    <3>1. {} \in SUBSET (1 .. n) /\ step(G, {}) = base
      OBVIOUS
    <3> HIDE DEF step, n, V, G, base
    <3> QED BY <1>4, <1>8, <3>1
  <2>2. ASSUME NEW k \in 1 .. n, G[1 .. (k - 1)] \in V
        PROVE  G[1 .. k] \in V
    <3>1. G[1 .. k] = step(G, 1 .. k)
      <4> HIDE DEF step, n, V, G
      <4> QED BY <1>1, <1>8, Peeled
    <3>2. step(G, 1 .. k) = op(G[1 .. (k - 1)], ts[k])
      <4> HIDE DEF op, n, V, G, base
      <4> QED BY <1>1, Peeled
    <3> HIDE DEF op, step, n, V, G
    <3> QED BY <1>2, <2>2, <3>1, <3>2
  <2> HIDE DEF n, V, G
  <2> QED BY <1>1, <2>1, <2>2, StaysIn
<1> QED BY <1>9, <1>10

(***************************************************************************)
(* What is open, closed and kept, step by step.                            *)
(***************************************************************************)

\* An agent's page is in an agent's tab and nowhere else: in no other tab, and in nothing that
\* is kept.
KeptInv ==
  /\ Now \in Honest /\ closed \in Seq(Clean)
  /\ last \in Seq(Seq(Clean)) /\ file \in Seq(Seq(Clean))

LEMMA KeptSays == KeptInv => KeptIsPersons
<1> SUFFICES ASSUME KeptInv,
                    NEW saved \in UNION ({ToSet(closed)} \cup {ToSet(last[w]) : w \in DOMAIN last}
                                           \cup {ToSet(file[w]) : w \in DOMAIN file})
             PROVE  saved.page # Theirs
  BY DEF KeptIsPersons
<1>1. closed \in Seq(Clean) /\ last \in Seq(Seq(Clean)) /\ file \in Seq(Seq(Clean))
  BY DEF KeptInv
<1>2. \A i \in DOMAIN closed : closed[i].page # Theirs
  BY <1>1 DEF Clean
<1>3. ASSUME NEW ss \in Seq(Seq(Clean)), NEW w \in DOMAIN ss, NEW i \in DOMAIN ss[w]
      PROVE  ss[w][i].page # Theirs
  BY DEF Clean
<1>4. PICK set \in {ToSet(closed)} \cup {ToSet(last[w]) : w \in DOMAIN last}
                \cup {ToSet(file[w]) : w \in DOMAIN file} : saved \in set
  OBVIOUS
<1>5. CASE set = ToSet(closed)
  BY <1>2, <1>4, <1>5 DEF ToSet
<1>6. ASSUME NEW ss \in Seq(Seq(Clean)), NEW w \in DOMAIN ss, set = ToSet(ss[w])
      PROVE  saved.page # Theirs
  <2>1. PICK i \in DOMAIN ss[w] : saved = ss[w][i]
    BY <1>4, <1>6 DEF ToSet
  <2> QED BY <1>3, <2>1
<1> QED BY <1>1, <1>4, <1>5, <1>6

\* The windows at the start are none.
LEMMA NothingOpen == [groups |-> <<>>, tab |-> [t \in Tabs |-> NoTab]] \in Honest
<1>1. NoTab \in TabRecords /\ NoTab.page # Theirs
  BY WindowsAssumption DEF NoTab, TabRecords, Pages
<1> DEFINE tb == [t \in Tabs |-> NoTab]
<1>2. tb \in [Tabs -> TabRecords] /\ Fair(tb)
  BY <1>1 DEF Fair
<1> DEFINE gs == <<>>
<1>3. gs \in Seq(Seq(Names))
  OBVIOUS
<1> HIDE DEF tb, gs
<1>4. [groups |-> gs, tab |-> tb] \in Honest
  BY <1>2, <1>3, Made
<1> QED BY <1>4 DEF gs, tb

LEMMA Becomes ==
  ASSUME NEW S \in Honest, Become(S)
  PROVE  Now' \in Honest
<1>1. Now' = [groups |-> S.groups, tab |-> S.tab]
  BY DEF Become, Now
<1> QED BY <1>1, Parts

LEMMA FirstWindowsAre ==
  ASSUME NEW S \in Honest, file \in Seq(Seq(Clean)), NEW startPage \in BOOLEAN,
         NEW keeps \in BOOLEAN, NEW works \in BOOLEAN
  PROVE  /\ FirstWindows(S, startPage, keeps, works).S \in Honest
         /\ FirstWindows(S, startPage, keeps, works).last \in Seq(Seq(Clean))
<1> DEFINE back == FromText(file)
           front == IF startPage THEN NewTabOf(S) ELSE 0
           first == IF startPage THEN NewWindow(S, Own, works) ELSE S
           alone == IF startPage THEN NewWindow(S, Own, FALSE) ELSE S
           pins == OpenPinned(first, front, back, works)
           opened == OpenSession(S, back, works)
           rest == WithoutPinned(back)
           none == <<>>
<1>1. back \in Seq(Seq(Clean))
  BY FromTextIs
<1>2. Own \in Pages /\ Own # Theirs
  BY WindowsAssumption DEF Pages
<1>3. first \in Honest /\ alone \in Honest
  BY <1>2, NewWindowIs
<1>4. pins \in Honest /\ opened \in Honest /\ rest \in Seq(Seq(Clean))
  <2> HIDE DEF first, back, front
  <2> QED BY <1>1, <1>3, OpenPinnedIs, OpenSessionIs, WithoutPinnedIs
<1>5. none \in Seq(Seq(Clean))
  OBVIOUS
<1>6. FirstWindows(S, startPage, keeps, works) \in
        {[S |-> alone, last |-> none], [S |-> opened, last |-> none], [S |-> pins, last |-> rest]}
  BY DEF FirstWindows
<1>7. ASSUME NEW R \in {[S |-> alone, last |-> none], [S |-> opened, last |-> none],
                        [S |-> pins, last |-> rest]}
      PROVE  R.S \in Honest /\ R.last \in Seq(Seq(Clean))
  <2> HIDE DEF alone, opened, pins, rest, none
  <2> QED BY <1>3, <1>4, <1>5
<1> HIDE DEF alone, opened, pins, rest, none
<1> QED BY <1>6, <1>7

LEMMA LaunchKeeps == KeptInv /\ Launch => KeptInv'
<1> SUFFICES ASSUME KeptInv, Launch PROVE KeptInv'
  BY DEF KeptInv
<1>1. file \in Seq(Seq(Clean))
  BY DEF KeptInv, Launch
<1> DEFINE none == [groups |-> <<>>, tab |-> [t \in Tabs |-> NoTab]]
<1> DEFINE begin(want, keeps, works) == FirstWindows(none, ~want, keeps, works)
<1>2. PICK want \in BOOLEAN, keeps \in BOOLEAN, works \in BOOLEAN :
        /\ last' = begin(want, keeps, works).last
        /\ \/ \E S \in Opened(begin(want, keeps, works).S, Mine, works) : Become(S)
           \/ Become(begin(want, keeps, works).S)
  <2>1. PICK want \in BOOLEAN, keeps \in BOOLEAN :
          \E works \in (IF browsing' THEN BOOLEAN ELSE {FALSE}) :
            /\ last' = begin(want, keeps, works).last
            /\ IF want THEN \E S \in Opened(begin(want, keeps, works).S, Mine, works) : Become(S)
                       ELSE Become(begin(want, keeps, works).S)
    BY Zenon DEF Launch
  <2> HIDE DEF begin
  <2>2. PICK works \in (IF browsing' THEN BOOLEAN ELSE {FALSE}) :
          /\ last' = begin(want, keeps, works).last
          /\ IF want THEN \E S \in Opened(begin(want, keeps, works).S, Mine, works) : Become(S)
                     ELSE Become(begin(want, keeps, works).S)
    BY <2>1, Zenon
  <2>3. works \in BOOLEAN
    BY <2>2
  <2> QED BY <2>2, <2>3, Zenon
<1>3. none \in Honest
  BY NothingOpen
<1> HIDE DEF none
<1> DEFINE begun == FirstWindows(none, ~want, keeps, works)
<1>4. begun.S \in Honest /\ begun.last \in Seq(Seq(Clean))
  BY <1>1, <1>3, FirstWindowsAre
<1>5. Mine \in Pages /\ Mine # Theirs
  BY WindowsAssumption DEF Pages
<1>6. Now' \in Honest
  <2> HIDE DEF begun
  <2>1. \A S \in Opened(begun.S, Mine, works) : S \in Honest
    BY <1>4, <1>5, OpenedIs
  <2> QED BY <1>2, <1>4, <2>1, Becomes DEF begun
<1>7. last' \in Seq(Seq(Clean)) /\ closed' = <<>> /\ file' = file
  BY <1>2, <1>4 DEF Launch
<1>8. closed' \in Seq(Clean)
  BY <1>7
<1> QED BY <1>1, <1>6, <1>7, <1>8 DEF KeptInv

LEMMA OpenKeeps == KeptInv /\ (OpenWindow \/ OpenAsked \/ ReopenSession \/ AgentOpens) => KeptInv'
<1> SUFFICES ASSUME KeptInv, OpenWindow \/ OpenAsked \/ ReopenSession \/ AgentOpens
             PROVE  KeptInv'
  BY DEF KeptInv
<1>1. file' = file /\ closed' = closed /\ (last' = last \/ last' = <<>>)
  BY DEF OpenWindow, OpenAsked, ReopenSession, AgentOpens, Same
<1>2. /\ Now \in Honest /\ closed \in Seq(Clean)
      /\ last \in Seq(Seq(Clean)) /\ file \in Seq(Seq(Clean))
  BY <1>1 DEF KeptInv
<1>3. Mine \in Pages /\ Mine # Theirs /\ Own \in Pages /\ Own # Theirs /\ Theirs \in Pages
  BY WindowsAssumption DEF Pages
<1>4. Works \subseteq BOOLEAN
  BY DEF Works
<1>5. ASSUME OpenWindow PROVE Now' \in Honest
  <2>1. PICK works \in BOOLEAN : Become(NewWindow(Now, Own, works))
    BY <1>4, <1>5 DEF OpenWindow
  <2> QED BY <1>2, <1>3, <2>1, NewWindowIs, Becomes
<1>6. ASSUME OpenAsked PROVE Now' \in Honest
  <2>0. PICK works \in BOOLEAN, shows \in {Mine, Own} :
          \E S \in Opened(Now, shows, works) : Become(S)
    BY <1>4, <1>6 DEF OpenAsked
  <2>1. PICK S \in Opened(Now, shows, works) : Become(S)
    BY <2>0
  <2>2. S \in Honest
    BY <1>2, <1>3, OpenedIs
  <2> QED BY <2>1, <2>2, Becomes
<1>7. ASSUME ReopenSession PROVE Now' \in Honest
  <2>1. PICK works \in BOOLEAN : Become(OpenSession(Now, last, works))
    BY <1>4, <1>7 DEF ReopenSession
  <2>2. OpenSession(Now, last, works) \in Honest
    BY <1>2, OpenSessionIs
  <2> QED BY <2>1, <2>2, Becomes
<1>8. ASSUME AgentOpens PROVE Now' \in Honest
  <2> DEFINE new == NewTabOf(Now)
             made == [NewWindow(Now, Theirs, TRUE) EXCEPT !.tab[new].agents = TRUE]
  <2>1. made \in Honest /\ new \in Names
    BY <1>2, <1>3, OwnedIs, NewTabIs
  <2>2. CASE Become(made)
    <3> HIDE DEF made
    <3> QED BY <2>1, <2>2, Becomes
  <2>3. ASSUME NEW beside \in OpenTabs, Become(Place(made, beside, new, Len(TabsOf(Now, beside))))
        PROVE  Now' \in Honest
    <3> DEFINE n == Len(TabsOf(Now, beside))
    <3>1. n \in Nat
      BY <1>2, TabsOfIs DEF OpenTabs, Has, Now
    <3>2. Place(made, beside, new, n) \in Honest
      <4> HIDE DEF made, new, n
      <4> QED BY <2>1, <3>1, PlaceIs
    <3> HIDE DEF made, new, n
    <3> QED BY <2>3, <3>2, Becomes DEF n
  <2>4. \/ Become(made)
        \/ \E beside \in OpenTabs : Become(Place(made, beside, new, Len(TabsOf(Now, beside))))
    BY <1>8 DEF AgentOpens
  <2> HIDE DEF made, new
  <2> QED BY <2>2, <2>3, <2>4
<1>9. Now' \in Honest
  BY <1>5, <1>6, <1>7, <1>8
<1>10. last' \in Seq(Seq(Clean))
  <2> DEFINE none == <<>>
  <2>1. none \in Seq(Seq(Clean))
    OBVIOUS
  <2> HIDE DEF none
  <2> QED BY <1>1, <1>2, <2>1 DEF none
<1> QED BY <1>1, <1>2, <1>9, <1>10 DEF KeptInv

\* What a tab of the person's opens is the person's, and what an agent's does is the agent's.
LEMMA OpensKeep ==
  ASSUME NEW t \in OpenTabs
  PROVE  KeptInv /\ (OpenTab(t) \/ PageOpens(t)) => KeptInv'
<1> SUFFICES ASSUME KeptInv, OpenTab(t) \/ PageOpens(t) PROVE KeptInv'
  BY DEF KeptInv
<1>1. file' = file /\ closed' = closed /\ last' = last
  BY DEF OpenTab, PageOpens, Same
<1>2. /\ Now \in Honest /\ closed \in Seq(Clean)
      /\ last \in Seq(Seq(Clean)) /\ file \in Seq(Seq(Clean))
  BY <1>1 DEF KeptInv
<1>3. Own \in Pages /\ Own # Theirs /\ Mine \in Pages /\ Mine # Theirs
  BY WindowsAssumption DEF Pages
<1>4. Works \subseteq BOOLEAN
  BY DEF Works
<1>5. t \in Tabs /\ Has(Now, t) /\ tab[t] \in TabRecords /\ (tab[t].page = Theirs => tab[t].agents)
  BY <1>2, Parts DEF OpenTabs, Has, Now, Fair
<1>6. tab[t].page \in Pages /\ tab[t].agents \in BOOLEAN
  BY <1>5 DEF TabRecords
<1> DEFINE new == NewTabOf(Now)
<1>7. new \in Names
  BY NewTabIs
<1>8. ASSUME OpenTab(t) PROVE Now' \in Honest
  <2>1. PICK works \in BOOLEAN, shows \in {Own, Taken(tab[t].page)} :
          IF tab[t].agents THEN \E S \in Opened(Now, shows, works) : Become(S)
          ELSE Become(Beside(NewWindow(Now, shows, works), t, new))
    BY <1>4, <1>8 DEF OpenTab
  <2> DEFINE made == NewWindow(Now, shows, works)
  <2>2. shows \in Pages /\ shows # Theirs
    BY <1>3, <1>6 DEF Taken
  <2>3. made \in Honest
    BY <1>2, <2>2, NewWindowIs
  <2>4. made.groups = Append(Now.groups, <<new>>)
    BY DEF NewWindow
  <2>5. Has(made, t)
    <3> HIDE DEF made, new
    <3> QED BY <1>2, <1>5, <2>4, StillThere
  <2>6. Beside(made, t, new) \in Honest
    <3> HIDE DEF made, new
    <3> QED BY <1>7, <2>3, <2>5, BesideIs
  <2>7. \A S \in Opened(Now, shows, works) : S \in Honest
    BY <1>2, <2>2, OpenedIs
  <2> HIDE DEF new
  <2> QED BY <2>1, <2>6, <2>7, Becomes
<1>9. ASSUME PageOpens(t) PROVE Now' \in Honest
  <2>1. PICK works \in BOOLEAN, after \in ToSet(TabsOf(Now, t)), apart \in BOOLEAN :
          LET made == NewWindow(Now, tab[t].page, works)
              owned == [made EXCEPT !.tab[new].agents = tab[t].agents /\ works]
          IN Become(IF apart THEN owned ELSE Beside(owned, after, new))
    BY <1>4, <1>9 DEF PageOpens
  <2> DEFINE made == NewWindow(Now, tab[t].page, works)
             owned == [made EXCEPT !.tab[new].agents = tab[t].agents /\ works]
  <2>2. owned \in Honest
    <3> DEFINE a == tab[t].agents /\ works
    <3>1. a \in BOOLEAN /\ (tab[t].page = Theirs /\ works => a)
      BY <1>5, <1>6
    <3> HIDE DEF a
    <3>2. [NewWindow(Now, tab[t].page, works) EXCEPT !.tab[NewTabOf(Now)].agents = a] \in Honest
      BY <1>2, <1>6, <3>1, OwnedIs
    <3> QED BY <3>2 DEF a
  <2>3. owned.groups = Append(Now.groups, <<new>>)
    <3>1. made.groups = Append(Now.groups, <<new>>)
      BY DEF NewWindow
    <3>2. owned.groups = made.groups
      <4>1. made = [groups |-> made.groups, tab |-> made.tab]
        BY DEF NewWindow
      <4> HIDE DEF made, new
      <4> QED BY <4>1
    <3> QED BY <3>1, <3>2
  <2>4. Has(Now, after)
    BY <1>2, <1>5, TabsOfIs
  <2>5. Has(owned, after)
    <3> HIDE DEF owned, new
    <3> QED BY <1>2, <2>3, <2>4, StillThere
  <2>6. Beside(owned, after, new) \in Honest
    <3> HIDE DEF owned, new
    <3> QED BY <1>7, <2>2, <2>5, BesideIs
  <2>7. Become(IF apart THEN owned ELSE Beside(owned, after, new))
    BY <2>1
  <2> HIDE DEF owned, new
  <2> QED BY <2>2, <2>6, <2>7, Becomes
<1>10. Now' \in Honest
  BY <1>8, <1>9
<1> QED BY <1>1, <1>2, <1>10 DEF KeptInv

LEMMA TabsKeep ==
  ASSUME NEW t \in OpenTabs
  PROVE  KeptInv /\ (Navigate(t) \/ TogglePin(t) \/ MoveToNewWindow(t)) => KeptInv'
<1> SUFFICES ASSUME KeptInv, Navigate(t) \/ TogglePin(t) \/ MoveToNewWindow(t)
             PROVE  KeptInv'
  BY DEF KeptInv
<1>1. file' = file /\ closed' = closed /\ last' = last
  BY DEF Navigate, TogglePin, MoveToNewWindow, Same
<1>2. /\ Now \in Honest /\ closed \in Seq(Clean)
      /\ last \in Seq(Seq(Clean)) /\ file \in Seq(Seq(Clean))
  BY <1>1 DEF KeptInv
<1>3. t \in Tabs /\ Has(Now, t) /\ tab[t] \in TabRecords /\ tab \in [Tabs -> TabRecords] /\ Fair(tab)
      /\ groups \in Seq(Seq(Names))
  BY <1>2, Parts DEF OpenTabs, Has, Now, Fair
<1>4. ASSUME Navigate(t) PROVE Now' \in Honest
  <2> DEFINE shows == IF tab[t].agents THEN Theirs ELSE Mine
             r == [tab[t] EXCEPT !.page = shows]
  <2>1. r \in TabRecords
    BY <1>3 DEF TabRecords, Pages
  <2>2. r.page = shows /\ r.agents = tab[t].agents
    BY <1>3 DEF TabRecords
  <2>3. r.page = Theirs => r.agents
    BY <2>2, WindowsAssumption
  <2>4. tab' = [tab EXCEPT ![t] = r] /\ groups' = groups
    BY <1>4 DEF Navigate
  <2> HIDE DEF r
  <2>5. tab' \in [Tabs -> TabRecords] /\ Fair(tab')
    BY <1>3, <2>1, <2>3, <2>4, OneTab
  <2>6. [groups |-> groups', tab |-> tab'] \in Honest
    BY <1>3, <2>4, <2>5, Made
  <2> QED BY <2>6 DEF Now
<1>5. ASSUME TogglePin(t) PROVE Now' \in Honest
  <2> DEFINE pin == ~tab[t].pinned
  <2>1. pin \in BOOLEAN
    OBVIOUS
  <2>2. t \in Names
    BY <1>3 DEF Names
  <2>3. Become(SetPinned(Now, t, pin))
    BY <1>5 DEF TogglePin
  <2> HIDE DEF pin
  <2>4. SetPinned(Now, t, pin) \in Honest
    BY <1>2, <2>1, <2>2, SetPinnedIs
  <2> QED BY <2>3, <2>4, Becomes
<1>6. ASSUME MoveToNewWindow(t) PROVE Now' \in Honest
  <2>1. groups' = Append(Without(groups, {t}), <<t>>) /\ tab' = tab
    BY <1>6 DEF MoveToNewWindow
  <2>2. Without(groups, {t}) \in Seq(Seq(Names))
    BY <1>3, WithoutIs
  <2>3. <<t>> \in Seq(Names)
    BY <1>3 DEF Names
  <2>4. groups' \in Seq(Seq(Names))
    BY <2>1, <2>2, <2>3
  <2>5. [groups |-> groups', tab |-> tab'] \in Honest
    BY <1>3, <2>1, <2>4, Made
  <2> QED BY <2>5 DEF Now
<1>7. Now' \in Honest
  BY <1>4, <1>5, <1>6
<1> QED BY <1>1, <1>2, <1>7 DEF KeptInv

\* Tabs that close leave what is shown elsewhere alone, and only the person's go to Recently
\* Closed.
LEMMA CloseTabsKeeps ==
  ASSUME KeptInv, NEW ts \in Seq(Tabs), CloseTabs(ts)
  PROVE  KeptInv'
<1>1. file' = file /\ last' = last
  BY DEF CloseTabs, Same
<1>2. /\ Now \in Honest /\ closed \in Seq(Clean)
      /\ last \in Seq(Seq(Clean)) /\ file \in Seq(Seq(Clean))
  BY <1>1 DEF KeptInv
<1>3. tab \in [Tabs -> TabRecords] /\ Fair(tab) /\ groups \in Seq(Seq(Names))
  BY <1>2, Parts DEF Now
<1>4. groups' \in Seq(Seq(Names))
  <2>1. groups' = Without(groups, ToSet(ts))
    BY DEF CloseTabs
  <2> QED BY <1>3, <2>1, WithoutIs
<1>5. tab' \in [Tabs -> TabRecords] /\ Fair(tab')
  <2>1. tab' = [t \in Tabs |-> IF t \in ToSet(ts) THEN NoTab ELSE tab[t]]
    BY DEF CloseTabs
  <2>2. NoTab \in TabRecords /\ NoTab.page # Theirs
    BY WindowsAssumption DEF NoTab, TabRecords, Pages
  <2> QED BY <1>3, <2>1, <2>2 DEF Fair
<1>6. closed' \in Seq(Clean)
  <2>1. closed' = FoldLeft(LAMBDA list, t : IF IsClosedTab(t) THEN Push(list, Snapshot(Now, t))
                                            ELSE list, closed, ts)
    BY DEF CloseTabs
  <2> QED BY <1>2, <2>1, ForgottenIs
<1>7. [groups |-> groups', tab |-> tab'] \in Honest
  BY <1>4, <1>5, Made
<1>8. Now' \in Honest
  BY <1>7 DEF Now
<1> QED BY <1>1, <1>2, <1>6, <1>8 DEF KeptInv

LEMMA ClosesKeep ==
  ASSUME NEW t \in OpenTabs
  PROVE  KeptInv /\ (Close(t) \/ CloseOthers(t) \/ CloseWindow(t)) => KeptInv'
<1> SUFFICES ASSUME KeptInv, Close(t) \/ CloseOthers(t) \/ CloseWindow(t) PROVE KeptInv'
  BY DEF KeptInv
<1>2. t \in Tabs /\ Now \in Honest /\ Has(Now, t)
  BY DEF KeptInv, OpenTabs, Has, Now
<1>3. TabsOf(Now, t) \in Seq(Names)
  BY <1>2, TabsOfIs
<1>4. CASE Close(t)
  <2>1. <<t>> \in Seq(Tabs)
    BY <1>2
  <2> QED BY <1>4, <2>1, CloseTabsKeeps DEF Close
<1>5. CASE CloseOthers(t)
  <2> DEFINE ts == Those(TabsOf(Now, t), {u \in Tabs \ {t} : ~tab[u].pinned})
  <2>1. ts \in Seq(Tabs)
    BY <1>3, ThoseIn
  <2>2. CloseTabs(ts)
    BY <1>5 DEF CloseOthers
  <2> HIDE DEF ts
  <2> QED BY <2>1, <2>2, CloseTabsKeeps
<1>6. CASE CloseWindow(t)
  <2> DEFINE ts == Those(TabsOf(Now, t), {u \in Tabs : u = t \/ ~tab[u].pinned})
  <2>1. ts \in Seq(Tabs)
    BY <1>3, ThoseIn
  <2>2. CloseTabs(ts)
    BY <1>6 DEF CloseWindow
  <2> HIDE DEF ts
  <2> QED BY <2>1, <2>2, CloseTabsKeeps
<1> QED BY <1>4, <1>5, <1>6

LEMMA ReopenKeeps == ASSUME NEW i \in DOMAIN closed PROVE KeptInv /\ Reopen(i) => KeptInv'
<1> SUFFICES ASSUME KeptInv, Reopen(i) PROVE KeptInv'
  BY DEF KeptInv
<1>1. file' = file /\ last' = last /\ closed' = RemoveAt(closed, i)
  BY DEF Reopen, Same
<1>2. /\ Now \in Honest /\ closed \in Seq(Clean)
      /\ last \in Seq(Seq(Clean)) /\ file \in Seq(Seq(Clean))
  BY <1>1 DEF KeptInv
<1>3. closed[i] \in Clean
  BY <1>2
<1>4. closed[i].page \in Pages /\ closed[i].page # Theirs
  BY <1>3 DEF Clean, SavedTab, Pages
<1>5. PICK works \in BOOLEAN : \E S \in Opened(Now, closed[i].page, works) :
        Become(IF closed[i].pinned THEN SetPinned(S, NewTabOf(Now), TRUE) ELSE S)
  BY DEF Reopen, Works
<1>6. PICK S \in Opened(Now, closed[i].page, works) :
        Become(IF closed[i].pinned THEN SetPinned(S, NewTabOf(Now), TRUE) ELSE S)
  BY <1>5
<1>7. S \in Honest
  BY <1>2, <1>4, OpenedIs
<1>8. SetPinned(S, NewTabOf(Now), TRUE) \in Honest
  BY <1>7, NewTabIs, SetPinnedIs
<1>9. Now' \in Honest
  BY <1>6, <1>7, <1>8, Becomes
<1>10. RemoveAt(closed, i) \in Seq(Clean)
  <2>1. i \in 1 .. Len(closed) /\ Len(closed) \in Nat
    BY <1>2
  <2>2. SubSeq(closed, 1, i - 1) \in Seq(Clean) /\ SubSeq(closed, i + 1, Len(closed)) \in Seq(Clean)
    BY <1>2, <2>1
  <2> QED BY <2>2 DEF RemoveAt
<1> QED BY <1>1, <1>2, <1>9, <1>10 DEF KeptInv

LEMMA EndsKeep == KeptInv /\ (Clear \/ AgentLeaves \/ Quit \/ Crash) => KeptInv'
<1> SUFFICES ASSUME KeptInv, Clear \/ AgentLeaves \/ Quit \/ Crash PROVE KeptInv'
  BY DEF KeptInv
<1> DEFINE none == <<>>
<1>1. none \in Seq(Seq(Clean)) /\ none \in Seq(Clean)
  OBVIOUS
<1>3. /\ Now \in Honest /\ closed \in Seq(Clean)
      /\ last \in Seq(Seq(Clean)) /\ file \in Seq(Seq(Clean))
  BY DEF KeptInv
<1>4. ASSUME Clear PROVE KeptInv'
  <2>1. /\ Now' = Now /\ closed' = none /\ last' = none /\ file' \in {none, file}
    BY <1>4 DEF Clear, Now
  <2> HIDE DEF none
  <2> QED BY <1>1, <1>3, <2>1 DEF KeptInv
<1>5. ASSUME Quit \/ Crash PROVE KeptInv'
  <2>1. closed' = none /\ last' = none /\ Gone /\ file' \in {file, SessionOf(Now)}
    BY <1>5 DEF Quit, Crash, Gone
  <2>2. SessionOf(Now) \in Seq(Seq(Clean))
    BY <1>3, SessionOfIs
  <2>3. Now' \in Honest
    <3>1. Now' = [groups |-> <<>>, tab |-> [t \in Tabs |-> NoTab]]
      BY <2>1 DEF Gone, Now
    <3> QED BY <3>1, NothingOpen
  <2> HIDE DEF none
  <2> QED BY <1>1, <1>3, <2>1, <2>2, <2>3 DEF KeptInv
<1>6. ASSUME AgentLeaves PROVE KeptInv'
  <2> DEFINE left(t) == [tab[t] EXCEPT !.agents = FALSE, !.page = Taken(@)]
  <2>1. tab' = [t \in Tabs |-> left(t)] /\ groups' = groups /\ closed' = closed /\ last' = last
        /\ file' = file
    BY <1>6 DEF AgentLeaves, Same
  <2>2. tab \in [Tabs -> TabRecords] /\ groups \in Seq(Seq(Names))
    BY <1>3, Parts DEF Now
  <2>3. ASSUME NEW t \in Tabs
        PROVE  left(t) \in TabRecords /\ left(t).page # Theirs
    <3>1. tab[t] \in TabRecords
      BY <2>2
    <3> DEFINE x == tab[t]
    <3> HIDE DEF x
    <3>2. Taken(x.page) \in Pages /\ Taken(x.page) # Theirs
      BY <3>1, WindowsAssumption DEF Taken, TabRecords, Pages, x
    <3>3. [x EXCEPT !.agents = FALSE, !.page = Taken(@)]
            = [x EXCEPT !.agents = FALSE, !.page = Taken(x.page)]
      OBVIOUS
    <3>4. x \in TabRecords
      BY <3>1 DEF x
    <3>5. /\ [x EXCEPT !.agents = FALSE, !.page = Taken(x.page)] \in TabRecords
          /\ [x EXCEPT !.agents = FALSE, !.page = Taken(x.page)].page # Theirs
      BY <3>2, <3>4 DEF TabRecords
    <3> QED BY <3>3, <3>5 DEF x
  <2> HIDE DEF left
  <2>4. tab' \in [Tabs -> TabRecords] /\ Fair(tab')
    BY <2>1, <2>3 DEF Fair
  <2>5. [groups |-> groups', tab |-> tab'] \in Honest
    BY <2>1, <2>2, <2>4, Made
  <2> QED BY <1>3, <2>1, <2>5 DEF KeptInv, Now
<1> QED BY <1>4, <1>5, <1>6

\* What is kept is the person's: whatever tabs agents open, whatever those pages open, and
\* however often the person quits, is cut off, reopens and clears, nothing an agent opened is in
\* Recently Closed or in a session, unless its tab was left to the person.
THEOREM KeptStaysPersons == WindowsSpec => []KeptIsPersons
<1>1. WindowsInit => KeptInv
  <2> SUFFICES ASSUME WindowsInit PROVE KeptInv
    OBVIOUS
  <2>1. Now = [groups |-> <<>>, tab |-> [t \in Tabs |-> NoTab]]
    BY DEF WindowsInit, Now
  <2>2. Now \in Honest
    BY <2>1, NothingOpen
  <2>3. closed \in Seq(Clean) /\ last \in Seq(Seq(Clean)) /\ file \in Seq(Seq(Clean))
    BY DEF WindowsInit
  <2> QED BY <2>2, <2>3 DEF KeptInv
<1>2. KeptInv /\ [WindowsNext]_windows => KeptInv'
  <2>1. KeptInv /\ UNCHANGED windows => KeptInv'
    BY DEF KeptInv, windows, Now
  <2>2. ASSUME KeptInv, NEW t \in OpenTabs,
               \/ OpenTab(t) \/ PageOpens(t) \/ Navigate(t) \/ TogglePin(t) \/ MoveToNewWindow(t)
               \/ Close(t) \/ CloseOthers(t) \/ CloseWindow(t)
        PROVE  KeptInv'
    BY <2>2, OpensKeep, TabsKeep, ClosesKeep
  <2> QED BY <2>1, <2>2, LaunchKeeps, OpenKeeps, ReopenKeeps, EndsKeep DEF WindowsNext
<1> QED BY <1>1, <1>2, KeptSays, PTL DEF WindowsSpec

==============================================================================
