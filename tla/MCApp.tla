-------------------------------- MODULE MCApp --------------------------------
(***************************************************************************)
(* The application's main parts and the shells that are started from its   *)
(* releases, checked in one run: each behaviour is of one part, while the  *)
(* others stay as they begin; of the reader's window, either questions are *)
(* put or pages are asked for.                                             *)
(***************************************************************************)
EXTENDS AgentControl, Browser, Windows, ReaderWindow, Supervisor

CONSTANTS c1, c2, a1, s1, s2, s3, w1, q0, q1, q2, u1, u2

VARIABLE part

\* Two connections of one agent.
MCAgentOf == [c \in {c1, c2} |-> a1]

MCSays ==
  [c \in {c1, c2} |->
     IF c = c1
     THEN {[name |-> "hello", scopes |-> {"read", "navigate"}], [name |-> "open"],
           [name |-> "wait", tab |-> 1]}
     ELSE {[name |-> "hello", scopes |-> {"navigate"}], [name |-> "read", tab |-> 1],
           [name |-> "request", scope |-> "script"]}]

MCRequests == [c \in {c1, c2} |-> 2]

\* A page with a part from another site.
MCParts == [x \in {s1, s2, s3} |-> IF x = s1 THEN {s2} ELSE {}]

Init ==
  /\ part \in {"agents", "browser", "windows", "questions", "pages", "shells"}
  /\ ControlInit /\ BrowserInit /\ WindowsInit /\ WindowInit /\ SupervisorInit
  /\ part # "agents" => ~setting
  /\ part \notin {"questions", "pages"} => needs /\ asked = NoUrl
  /\ part = "questions" => asked = NoUrl

Next ==
  /\ UNCHANGED part
  /\ \/ part = "agents" /\ ControlNext /\ UNCHANGED <<browser, windows, readerWindow, supervisor>>
     \/ part = "browser" /\ BrowserNext /\ UNCHANGED <<control, windows, readerWindow, supervisor>>
     \/ part = "windows" /\ WindowsNext /\ UNCHANGED <<control, browser, readerWindow, supervisor>>
     \/ /\ part \in {"questions", "pages"} /\ WindowNext
        /\ part = "questions" => UNCHANGED <<screen, panels>>
        /\ part = "pages" => UNCHANGED asker
        /\ UNCHANGED <<control, browser, windows, supervisor>>
     \/ part = "shells" /\ SupervisorNext /\ UNCHANGED <<control, browser, windows, readerWindow>>

vars == <<part, control, browser, windows, readerWindow, supervisor>>

Spec == Init /\ [][Next]_vars
=============================================================================
