------------------------------- MODULE Windows -------------------------------
(***************************************************************************)
(* The application's windows and their tabs: where a new tab goes, pinned  *)
(* tabs, tabs opened again, and the session kept from one run to the next. *)
(* crates/syndeo-app/src/app_macos.rs, tabs.rs and tabs_macos.rs, and the  *)
(* tab commands of browser_macos.rs.                                       *)
(*                                                                         *)
(* A tab is a window to AppKit; windows that are tabbed together are a     *)
(* group.  Which window is the main one, and which tab is in front, are    *)
(* AppKit's and may be any.  A tab's page is the address its snapshot      *)
(* would give: of a page to be opened later, of a failure page and of the  *)
(* page on screen alike.  The person dragging a tab is not modelled.       *)
(***************************************************************************)
EXTENDS Naturals, SequencesExt

CONSTANTS
  MaxOpen,     \* bound on the tabs open at once
  KeptClosed,  \* KEPT_CLOSED
  MaxRuns,     \* bound on the launches
  MaxSteps,    \* bound on the steps of a run
  SessionWindows, SessionTabs,  \* the windows, and tabs of each, that are read back
  Mine,        \* a page of the person's: opened by them, or left to them
  Theirs,      \* a page an agent opens
  Own          \* a page of Syndeo's own, which has no address

ASSUME WindowsAssumption ==
  /\ MaxOpen \in Nat \ {0} /\ KeptClosed \in Nat \ {0} /\ MaxRuns \in Nat /\ MaxSteps \in Nat
  /\ SessionWindows \in Nat /\ SessionTabs \in Nat
  /\ Mine # Theirs /\ Own \notin {Mine, Theirs}

Tabs == 1 .. MaxOpen
NoTab == [page |-> Own, pinned |-> FALSE, agents |-> FALSE, web |-> FALSE]
SavedTab == [page : {Mine, Theirs, Own}, pinned : BOOLEAN]

\* A tab, and how many windows, and tabs of its own, are kept before it.
Had == [window : Nat, place : Nat, saved : SavedTab]

VARIABLES
  running, browsing,  \* the process is there; State.browsing is
  groups,             \* the tab groups, each the order of its tabs
  tab,                \* what a tab shows, whether it is pinned, an agent's, and has a web view
  closed,             \* State.closed
  last,               \* State.last_session: for each window, its tabs
  file,               \* session.txt
  had,                \* the person's tabs when the session was last kept (history)
  runs, steps         \* launches, and steps since the last

windows == <<running, browsing, groups, tab, closed, last, file, had, runs, steps>>

OpenTabs == {t \in Tabs : \E g \in DOMAIN groups : Contains(groups[g], t)}

WindowsType ==
  /\ running \in BOOLEAN /\ browsing \in BOOLEAN /\ had \subseteq Had
  /\ groups \in Seq(Seq(Tabs)) /\ closed \in Seq(SavedTab)
  /\ tab \in [Tabs -> [page : {Mine, Theirs, Own}, pinned : BOOLEAN, agents : BOOLEAN,
                       web : BOOLEAN]]
  /\ last \in Seq(Seq(SavedTab)) /\ file \in Seq(Seq(SavedTab))
  /\ runs \in Nat /\ steps \in Nat

WindowsInit ==
  /\ running = FALSE /\ browsing = FALSE /\ groups = <<>> /\ tab = [t \in Tabs |-> NoTab]
  /\ closed = <<>> /\ last = <<>> /\ file = <<>> /\ had = {} /\ runs = 0 /\ steps = 0

-----------------------------------------------------------------------------
\* Those of a list that are in a set, in their order: SelectSeq, as a fold.
Those(list, set) ==
  FoldLeft(LAMBDA kept, x : IF x \in set THEN Append(kept, x) ELSE kept, <<>>, list)

\* What the windows are, as a handler changes them step by step.
Now == [groups |-> groups, tab |-> tab]

Become(S) == groups' = S.groups /\ tab' = S.tab

Free(S) == {t \in Tabs : \A g \in DOMAIN S.groups : ~Contains(S.groups[g], t)}

NewTabOf(S) == CHOOSE t \in Free(S) : \A u \in Free(S) : t <= u

Where(gs, t) == CHOOSE g \in DOMAIN gs : Contains(gs[g], t)

\* tabs_of, index_of.
TabsOf(S, t) == S.groups[Where(S.groups, t)]

IndexOf(S, t) == (CHOOSE i \in DOMAIN TabsOf(S, t) : TabsOf(S, t)[i] = t) - 1

PinnedAmong(S, ts) == Cardinality({t \in Tabs : Contains(ts, t) /\ S.tab[t].pinned})

Without(gs, ts) ==
  Those([g \in DOMAIN gs |-> Those(gs[g], Tabs \ ts)], Seq(Tabs) \ {<<>>})

\* place.  A window that has no tab group yet takes the new tab after it, which is where
\* every caller has it, or puts it next.
Place(S, beside, t, index) ==
  LET gs == Without(S.groups, {t})
      g == Where(gs, beside)
      at == IF index < Len(gs[g]) THEN index ELSE Len(gs[g])
  IN [S EXCEPT !.groups = [gs EXCEPT ![g] = InsertAt(@, at + 1, t)]]

\* new_window, content: on its own, with a web view or saying why it has none.
NewWindow(S, page, works) ==
  LET t == NewTabOf(S) IN
  [groups |-> Append(S.groups, <<t>>),
   tab |-> [S.tab EXCEPT ![t] = [page |-> IF works THEN page ELSE Own, pinned |-> FALSE,
                                 agents |-> FALSE, web |-> works]]]

\* set_pinned, pinned_place: after the other pinned tabs, before the rest.
SetPinned(S, t, pin) ==
  LET pinned == [S EXCEPT !.tab[t].pinned = pin]
      others == Those(TabsOf(S, t), Tabs \ {t})
      index == PinnedAmong(S, others)
  IN IF others = <<>> \/ IndexOf(S, t) = index THEN pinned
     ELSE Place(pinned, others[1], t, index)

\* after_pinned.
AfterPinned(wanted, pinned) == IF wanted < pinned THEN pinned ELSE wanted

\* open_tab's placing of t: where its caller asks, but never among the pinned tabs.
Beside(S, after, t) ==
  Place(S, after, t, AfterPinned(IndexOf(S, after) + 1, PinnedAmong(S, TabsOf(S, after))))

\* The person's windows, of which persons_front finds one.
Persons(S) == {t \in Tabs \ Free(S) : ~S.tab[t].agents}

\* open_tab for the person, or another application: beside a window of the person's, if
\* there is one, and never an agent's.
Opened(S, page, works) ==
  IF Persons(S) = {} THEN {NewWindow(S, page, works)}
  ELSE {Beside(NewWindow(S, page, works), front, NewTabOf(S)) : front \in Persons(S)}

-----------------------------------------------------------------------------
\* The session.

\* Session::kept, savable: only what can be opened again, and no empty window.
Kept(session) ==
  LET savable == {saved \in SavedTab : saved.page # Own} IN
  Those([w \in DOMAIN session |-> Those(session[w], savable)], Seq(SavedTab) \ {<<>>})

\* to_text, from_text: what is read back of a session that was written, so many windows and tabs.
FromText(session) ==
  Kept([w \in 1 .. Min({Len(session), SessionWindows}) |->
          SubSeq(session[w], 1, Min({Len(session[w]), SessionTabs}))])

\* Without the windows that have a pinned tab.
WithoutPinnedWindows(session) ==
  Those(session, {w \in ToSet(session) : \A i \in DOMAIN w : ~w[i].pinned})

\* Session::without_pinned, Session::pinned.
WithoutPinned(session) ==
  LET others == {saved \in SavedTab : ~saved.pinned} IN
  Kept([w \in DOMAIN session |-> Those(session[w], others)])

PinnedOf(session) ==
  Those(FoldLeft(LAMBDA tabs, w : tabs \o w, <<>>, session), {saved \in SavedTab : saved.pinned})

\* snapshot, as the session and Recently Closed have it.
Snapshot(S, t) == [page |-> S.tab[t].page, pinned |-> S.tab[t].pinned /\ S.tab[t].web]

\* The session of every tab, the agents' too.
SessionOfAll(S) ==
  Kept([g \in DOMAIN S.groups |-> [i \in DOMAIN S.groups[g] |-> Snapshot(S, S.groups[g][i])]])

\* session: every window's tabs, but for the agents'.
SessionOf(S) ==
  LET persons(g) == Those(S.groups[g], Persons(S)) IN
  Kept([g \in DOMAIN S.groups |-> [i \in DOMAIN persons(g) |-> Snapshot(S, persons(g)[i])]])

\* A tab opened later, beside another or on its own, and pinned if it was.
OpenLater(S, beside, index, saved, works) ==
  LET t == NewTabOf(S)
      made == NewWindow(S, saved.page, works)
      placed == IF beside \in Tabs THEN Place(made, beside, t, index) ELSE made
  IN IF saved.pinned THEN SetPinned(placed, t, TRUE) ELSE placed

\* A window's tabs, each after the one before.
OpenSaved(S, tabs, works) ==
  FoldLeft(LAMBDA done, saved : [S |-> OpenLater(done.S, done.last, done.count, saved, works),
                                 last |-> NewTabOf(done.S), count |-> done.count + 1],
           [S |-> S, last |-> 0, count |-> 0], tabs).S

\* open_session.
OpenSession(S, session, works) ==
  FoldLeft(LAMBDA done, tabs : OpenSaved(done, tabs, works), S, session)

\* open_first_windows' pinned tabs: before the start page, or beside the first of them.
OpenPinned(S, front, session, works) ==
  FoldLeft(LAMBDA done, saved :
             [S |-> OpenLater(done.S, done.beside, done.count, saved, works),
              beside |-> IF done.beside = 0 THEN NewTabOf(done.S) ELSE done.beside,
              count |-> done.count + 1],
           [S |-> S, beside |-> front, count |-> 0], PinnedOf(session)).S

\* Windows that browse, if this launch can: each is still made step by step, and may fail.
Works == IF browsing THEN BOOLEAN ELSE {FALSE}

-----------------------------------------------------------------------------
Same == UNCHANGED <<running, browsing, file, had, runs>>

Step == running /\ steps < MaxSteps /\ steps' = steps + 1

Room(n) == Cardinality(Free(Now)) >= n

\* open_first_windows, once it is known whether this launch can browse.
FirstWindows(S, startPage, keeps, works) ==
  IF ~browsing' THEN [S |-> IF startPage THEN NewWindow(S, Own, FALSE) ELSE S, last |-> <<>>]
  ELSE IF keeps /\ FromText(file) # <<>> THEN [S |-> OpenSession(S, FromText(file), works), last |-> <<>>]
  ELSE LET front == IF startPage THEN NewTabOf(S) ELSE 0
           first == IF startPage THEN NewWindow(S, Own, works) ELSE S
       IN [S |-> OpenPinned(first, front, FromText(file), works), last |-> WithoutPinned(FromText(file))]

\* did_finish_launching, prepare: opened for its own sake, or to open an address.
Launch ==
  /\ ~running /\ runs < MaxRuns /\ running' = TRUE /\ runs' = runs + 1 /\ steps' = 0
  /\ browsing' \in BOOLEAN /\ closed' = <<>>
  /\ Len(FlattenSeq(FromText(file))) < MaxOpen
  /\ \E asked, keeps \in BOOLEAN : \E works \in (IF browsing' THEN BOOLEAN ELSE {FALSE}) :
       LET begun == FirstWindows([groups |-> <<>>, tab |-> [t \in Tabs |-> NoTab]],
                                 ~asked, keeps, works)
       IN /\ last' = begun.last
          /\ IF asked THEN \E S \in Opened(begun.S, Mine, works) : Become(S) ELSE Become(begun.S)
  /\ UNCHANGED <<file, had>>

\* open_window: New Window, New Tab with no window in front, and the Dock with none.
OpenWindow ==
  /\ Step /\ Room(1)
  /\ \E works \in Works : Become(NewWindow(Now, Own, works))
  /\ UNCHANGED <<closed, last>> /\ Same

\* A page that the person takes for their own.
Taken(page) == IF page = Theirs THEN Mine ELSE page

\* New Tab, Duplicate Tab: beside this tab, or beside the person's own if it is an agent's.
OpenTab(t) ==
  /\ Step /\ Room(1)
  /\ \E works \in Works : \E page \in {Own} \cup (IF tab[t].web THEN {Taken(tab[t].page)} ELSE {}) :
       IF tab[t].agents THEN \E S \in Opened(Now, page, works) : Become(S)
       ELSE Become(Beside(NewWindow(Now, page, works), t, NewTabOf(Now)))
  /\ UNCHANGED <<closed, last>> /\ Same

\* open_beside, opened_beside: what a page opens, in front, behind this tab (after the last it
\* opened there, any of its group) or as a window; an agent's if the tab is.
PageOpens(t) ==
  /\ Step /\ Room(1) /\ tab[t].web
  /\ \E works \in Works : \E after \in ToSet(TabsOf(Now, t)) : \E apart \in BOOLEAN :
       LET new == NewTabOf(Now)
           made == NewWindow(Now, tab[t].page, works)
           owned == [made EXCEPT !.tab[new].agents = tab[t].agents /\ works]
       IN Become(IF apart THEN owned ELSE Beside(owned, after, new))
  /\ UNCHANGED <<closed, last>> /\ Same

\* open_asked: an address, or a page that says why not.
OpenAsked ==
  /\ Step /\ Room(1)
  /\ \E works \in Works : \E page \in {Mine, Own} :
       \E S \in Opened(Now, page, works) : Become(S)
  /\ UNCHANGED <<closed, last>> /\ Same

\* The page in a tab is another.
Navigate(t) ==
  /\ Step /\ tab[t].web
  /\ tab' = [tab EXCEPT ![t].page = IF tab[t].agents THEN Theirs ELSE Mine]
  /\ UNCHANGED <<groups, closed, last>> /\ Same

\* toggle_pin.
TogglePin(t) ==
  /\ Step /\ tab[t].web /\ Become(SetPinned(Now, t, ~tab[t].pinned))
  /\ UNCHANGED <<closed, last>> /\ Same

\* AppKit's Move Tab to New Window.
MoveToNewWindow(t) ==
  /\ Step /\ Len(TabsOf(Now, t)) > 1
  /\ groups' = Append(Without(groups, {t}), <<t>>)
  /\ UNCHANGED <<tab, closed, last>> /\ Same

-----------------------------------------------------------------------------
\* Closed::push.
Push(list, saved) == SubSeq(<<saved>> \o list, 1,
                            IF Len(list) < KeptClosed THEN Len(list) + 1 ELSE KeptClosed)

\* forget: an agent's tab goes in no Recently Closed, nor does one that shows no page.
IsClosedTab(t) == tab[t].web /\ ~tab[t].agents

\* window_will_close and forget, of each of these tabs in turn.
CloseTabs(ts) ==
  /\ groups' = Without(groups, ToSet(ts))
  /\ tab' = [t \in Tabs |-> IF t \in ToSet(ts) THEN NoTab ELSE tab[t]]
  /\ closed' = FoldLeft(LAMBDA list, t : IF IsClosedTab(t) THEN Push(list, Snapshot(Now, t))
                                         ELSE list, closed, ts)
  /\ UNCHANGED last /\ Same

\* close_tab.
Close(t) == Step /\ CloseTabs(<<t>>)

\* close_other_tabs, others_to_close.
CloseOthers(t) ==
  LET others == Those(TabsOf(Now, t), {u \in Tabs \ {t} : ~tab[u].pinned}) IN
  Step /\ others # <<>> /\ CloseTabs(others)

\* A whole window, which AppKit closes tab by tab; window_should_close keeps the pinned ones
\* but for the key window's.
CloseWindow(t) ==
  Step /\ CloseTabs(Those(TabsOf(Now, t), {u \in Tabs : u = t \/ ~tab[u].pinned}))

\* reopen, from Reopen Last Closed Tab or Recently Closed.
Reopen(i) ==
  /\ Step /\ Room(1) /\ closed' = RemoveAt(closed, i)
  /\ \E works \in Works : \E S \in Opened(Now, closed[i].page, works) :
       Become(IF closed[i].pinned THEN SetPinned(S, NewTabOf(Now), TRUE) ELSE S)
  /\ UNCHANGED last /\ Same

\* reopen_session, where offers has it.
ReopenSession ==
  /\ Step /\ last # <<>> /\ browsing /\ Room(Len(FlattenSeq(last))) /\ last' = <<>>
  /\ \E works \in Works : Become(OpenSession(Now, last, works))
  /\ UNCHANGED closed /\ Same

\* forget_tabs, with Clear Browsing Data; the file may not go.
Clear ==
  /\ Step /\ closed' = <<>> /\ last' = <<>>
  /\ (file' = <<>> /\ had' = {}) \/ UNCHANGED <<file, had>>
  /\ UNCHANGED <<running, browsing, groups, tab, runs>>

-----------------------------------------------------------------------------
\* control's open: beside its newest tab, AppKit's addTabbedWindow putting it last, or alone.
\* A window that cannot browse is closed again at once.
AgentOpens ==
  /\ Step /\ Room(1) /\ browsing
  /\ LET new == NewTabOf(Now)
         made == [NewWindow(Now, Theirs, TRUE) EXCEPT !.tab[new].agents = TRUE]
         theirs == {t \in OpenTabs : tab[t].agents}
     IN IF theirs = {} THEN Become(made)
        ELSE \E beside \in theirs : Become(Place(made, beside, new, Len(TabsOf(Now, beside))))
  /\ UNCHANGED <<closed, last>> /\ Same

\* release_tabs: the agent was stopped, or left; its tabs are the person's.
AgentLeaves ==
  /\ Step /\ \E t \in OpenTabs : tab[t].agents
  /\ tab' = [t \in Tabs |-> [tab[t] EXCEPT !.agents = FALSE, !.page = Taken(@)]]
  /\ UNCHANGED <<groups, closed, last>> /\ Same

\* The person's tabs that show a page, each with what is kept before it.
HadNow ==
  LET worth == {t \in OpenTabs : ~tab[t].agents /\ tab[t].page # Own}
      windowsBefore(t) == {g \in 1 .. Where(groups, t) - 1 : ToSet(groups[g]) \cap worth # {}}
      before(t) == {u \in worth : Contains(TabsOf(Now, t), u) /\ IndexOf(Now, u) < IndexOf(Now, t)}
  IN {[window |-> Cardinality(windowsBefore(t)), place |-> Cardinality(before(t)),
       saved |-> [page |-> tab[t].page, pinned |-> tab[t].pinned]] : t \in worth}

Gone ==
  /\ running' = FALSE /\ browsing' = FALSE /\ groups' = <<>> /\ tab' = [t \in Tabs |-> NoTab]
  /\ closed' = <<>> /\ last' = <<>> /\ UNCHANGED <<runs, steps>>

\* will_terminate, keep_session, write_session: while the agents' tabs are still known, the
\* session in place of the last, whole, or the last as it was.  A launch that could not
\* browse leaves it.
Quit ==
  /\ running /\ Gone
  /\ \/ UNCHANGED <<file, had>>
     \/ browsing /\ file' = SessionOf(Now) /\ had' = HadNow

Crash == running /\ Gone /\ UNCHANGED <<file, had>>

WindowsNext ==
  \/ Launch \/ OpenWindow \/ OpenAsked \/ ReopenSession \/ Clear \/ AgentOpens \/ AgentLeaves
  \/ Quit \/ Crash
  \/ \E t \in OpenTabs :
       \/ OpenTab(t) \/ PageOpens(t) \/ Navigate(t) \/ TogglePin(t) \/ MoveToNewWindow(t)
       \/ Close(t) \/ CloseOthers(t) \/ CloseWindow(t)
  \/ \E i \in DOMAIN closed : Reopen(i)

-----------------------------------------------------------------------------
\* Nothing an agent opened is kept as the person's: it is in no Recently Closed and in no
\* session, in this run or a later one, but for a page whose tab was left to the person, and
\* one the person made a tab of their own of.
KeptIsPersons ==
  \A saved \in UNION ({ToSet(closed)} \cup {ToSet(last[w]) : w \in DOMAIN last}
                       \cup {ToSet(file[w]) : w \in DOMAIN file}) :
    saved.page # Theirs

\* "Every tab comes back when Syndeo opens again; otherwise pinned tabs come back, and
\* History brings back the rest" (README.md:112), of those in as many windows, and as many
\* of each, as a session is read back with: what the person's tabs showed when the session
\* was last kept is open after a launch that can browse, pinned where it was, or waits in
\* History, whatever launches that could not browse and crashes came between.
LaunchLosesNone ==
  [][~running /\ browsing' /\ (\A t \in OpenTabs' : tab'[t].web) =>
       \A saved \in SavedTab :
         Cardinality({h \in had : h.saved = saved /\ h.window < SessionWindows
                                                 /\ h.place < SessionTabs}) <=
           Len(SelectSeq(FlattenSeq(last'), LAMBDA s : s = saved))
             + Cardinality({t \in OpenTabs' : tab'[t].page = saved.page
                                               /\ tab'[t].pinned = saved.pinned})]_windows

WindowsSpec == WindowsInit /\ [][WindowsNext]_windows
=============================================================================
