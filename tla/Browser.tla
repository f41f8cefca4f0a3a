------------------------------- MODULE Browser -------------------------------
(***************************************************************************)
(* What a window's controller makes of WebKit's reports on its page: the   *)
(* address field, the route beside it, the tab's icon, and a page that is  *)
(* loaded again by itself once hosts that macOS refuses through the proxy  *)
(* are sent around it.  crates/syndeo-app/src/browser_macos.rs, with       *)
(* address.rs, and send_direct and refused of app_macos.rs.                *)
(*                                                                         *)
(* WebKit, macOS and the proxy's word on refusals are external.  An        *)
(* address is a site, and stands for its host too; a page that is          *)
(* Syndeo's own (the start page, a failure page) has the address Blank.    *)
(***************************************************************************)
EXTENDS Naturals, FiniteSets

CONSTANTS
  Panes,
  Sites,        \* addresses of the web
  Preloaded,    \* sites macOS refuses after the window vouched for the proxy's certificate
  ApplePinned,  \* sites for which the window's own check fails on macOS's pinning
  PartsOf,      \* the sites a page loads its parts from
  DirectKept,   \* DIRECT_KEPT
  MaxPages,     \* bound on the pages committed in a window
  Blank, Typing, Nothing

ASSUME BrowserAssumption ==
  /\ Preloaded \subseteq Sites /\ ApplePinned \subseteq Sites \ Preloaded
  /\ PartsOf \in [Sites -> SUBSET Sites] /\ DirectKept \in Nat /\ MaxPages \in Nat
  /\ Blank \notin Sites /\ Nothing \notin Sites \cup {Blank, Typing, "proxy", "direct"}

Addresses == Sites \cup {Blank}

\* A page that was left.
Left == [of : Sites, via : {"proxy", "direct"}]

VARIABLES
  next,      \* the load a web view was asked for and has not started (WebKit)
  going,     \* its provisional navigation (WebKit)
  via,       \* whether that connected directly or through the proxy (WebKit)
  at,        \* the page on screen (WebKit)
  atVia,     \* how that page was reached
  finished,  \* that page has finished loading (WebKit)
  cached,    \* the page left last, and how it was reached: the back-forward cache (WebKit)
  uncommitted,   \* the page on screen was brought back, and not committed anew (WebKit)
  bar,       \* shown, field, typing, failed, route, icon of a window
  page,      \* Ivars.page, the number of the page on screen
  loading,   \* Ivars.loading
  icons,     \* icons being looked for: the number and the page of each
  retried,   \* Ivars.retried
  vouched, pinned,   \* Ivars.vouched, Ivars.macos_pinned
  looking, looks,    \* Ivars.looking_again, and the looks that are due
  direct, heard,     \* State.direct, State.heard
  said,              \* what the proxy said was refused
  again              \* the page a window last loaded again by itself, and how often (history)

onScreen == <<at, atVia, cached, uncommitted>>
webkit == <<next, going, via, onScreen, finished>>
lists == <<vouched, pinned>>
shared == <<direct, heard, said>>
browser == <<webkit, bar, page, loading, icons, retried, lists, looking, looks, shared, again>>

NewBar == [shown |-> Blank, field |-> Blank, typing |-> FALSE, failed |-> Nothing,
           route |-> Nothing, icon |-> Nothing]

BrowserType ==
  /\ next \in [Panes -> Addresses \cup {Nothing}] /\ going \in [Panes -> Addresses \cup {Nothing}]
  /\ via \in [Panes -> {"proxy", "direct"}] /\ atVia \in [Panes -> {"proxy", "direct"}]
  /\ at \in [Panes -> Addresses] /\ finished \in [Panes -> BOOLEAN]
  /\ cached \in [Panes -> {Nothing} \cup Left] /\ uncommitted \in [Panes -> BOOLEAN]
  /\ page \in [Panes -> Nat] /\ loading \in [Panes -> BOOLEAN]
  /\ retried \in [Panes -> Sites \cup {Nothing}]
  /\ vouched \in [Panes -> SUBSET Sites] /\ pinned \in [Panes -> SUBSET Sites]
  /\ looking \in [Panes -> BOOLEAN] /\ looks \in [Panes -> Nat]
  /\ direct \subseteq Sites /\ heard \subseteq Sites /\ said \subseteq Sites

BrowserInit ==
  /\ next = [w \in Panes |-> Blank] /\ going = [w \in Panes |-> Nothing]
  /\ via = [w \in Panes |-> "proxy"] /\ atVia = [w \in Panes |-> "proxy"]
  /\ at = [w \in Panes |-> Blank] /\ finished = [w \in Panes |-> TRUE]
  /\ cached = [w \in Panes |-> Nothing] /\ uncommitted = [w \in Panes |-> FALSE]
  /\ bar = [w \in Panes |-> NewBar] /\ page = [w \in Panes |-> 0]
  /\ loading = [w \in Panes |-> FALSE]
  /\ icons = [w \in Panes |-> {}] /\ retried = [w \in Panes |-> Nothing]
  /\ vouched = [w \in Panes |-> {}] /\ pinned = [w \in Panes |-> {}]
  /\ looking = [w \in Panes |-> FALSE] /\ looks = [w \in Panes |-> 0]
  /\ direct = {} /\ heard = {} /\ said = {}
  /\ again = [w \in Panes |-> [of |-> Nothing, times |-> 0]]

-----------------------------------------------------------------------------
\* load: the request the web view takes up next, in place of any it was given before.
Load(w, x) == next' = [next EXCEPT ![w] = x]

\* The address field written over what is typed there.
ShowingOver(b, text) == [b EXCEPT !.shown = text, !.field = text]

\* set_shown, show_address.
Showing(b, text) == [b EXCEPT !.shown = text, !.field = IF b.typing THEN b.field ELSE text]

\* show_page, refuse: a failure page, with the address it stands for.
FailurePage(b, x) == [Showing(b, x) EXCEPT !.failed = IF x = Blank THEN Nothing ELSE x,
                      !.route = Nothing]

ShowPage(w, x) == bar' = [bar EXCEPT ![w] = FailurePage(@, x)] /\ Load(w, Blank)

\* address::sent_direct.
SentDirect(x) == x \in direct

\* The page's address alone.
RouteAlone(x) == IF x \in Sites THEN "proxy" ELSE Nothing

\* address::route_with.
RouteWith(x) ==
  IF x \notin Sites THEN Nothing ELSE IF SentDirect(x) THEN "direct" ELSE "proxy"

\* refresh_address, of the page x on screen: Syndeo's own leaves the kept address as it is.
Refreshed(b, x) ==
  IF x \in Sites THEN [Showing(b, x) EXCEPT !.failed = Nothing, !.route = RouteWith(x)]
  ELSE [b EXCEPT !.route = Nothing]

\* AppDelegate::send_direct: it may fail to take effect; a full list takes no more.
SendDirect(hosts) ==
  \E kept \in SUBSET (hosts \ direct) :
    /\ direct' = direct \cup kept
    /\ IF Cardinality(direct) + Cardinality(hosts \ direct) <= DirectKept
       THEN kept = hosts \ direct
       ELSE Cardinality(direct') = IF DirectKept > Cardinality(direct) THEN DirectKept
                                   ELSE Cardinality(direct)

\* load_again: the page, and the fact that it was.
LoadAgain(w, x) ==
  /\ Load(w, x) /\ retried' = [retried EXCEPT ![w] = x]
  /\ again' = [again EXCEPT ![w] = [of |-> x, times |-> IF @.of = x THEN @.times + 1 ELSE 1]]

-----------------------------------------------------------------------------
\* The person.

\* control_text_did_change.
Type(w) ==
  /\ ~bar[w].typing
  /\ bar' = [bar EXCEPT ![w].typing = TRUE, ![w].field = Typing]
  /\ UNCHANGED <<webkit, page, loading, icons, retried, lists, looking, looks, shared, again>>

\* control_text_did_end_editing, without Return.
Leave(w) ==
  /\ bar[w].typing
  /\ bar' = [bar EXCEPT ![w].typing = FALSE, ![w].field = bar[w].shown]
  /\ UNCHANGED <<webkit, page, loading, icons, retried, lists, looking, looks, shared, again>>

\* interpret: what was typed is an address or a search, which are opened, nothing, or anything
\* else, which is refused with a page that says why.
Typed == {"opened", "empty", "refused"}

\* go: an empty field leaves all as it was.
GoTo(w, x) ==
  \E typed \in Typed : LET b == [bar[w] EXCEPT !.typing = FALSE] IN
  \/ /\ typed = "opened"
     /\ bar' = [bar EXCEPT ![w] = [Showing(b, x) EXCEPT !.failed = Nothing]]
     /\ Load(w, x)
  \/ /\ typed = "empty"
     /\ bar' = [bar EXCEPT ![w] = Showing(b, b.shown)] /\ UNCHANGED next
  \/ /\ typed = "refused"
     /\ bar' = [bar EXCEPT ![w] = FailurePage(b, x)] /\ Load(w, Blank)

\* control_text_did_end_editing by Return, and navigate_to.
Return(w) ==
  /\ bar[w].typing /\ page[w] < MaxPages
  /\ \E x \in Sites : GoTo(w, x)
  /\ UNCHANGED <<going, via, onScreen, finished, page, loading, icons, retried, lists, looking,
                 looks, shared, again>>

\* back, forward, of a page that WebKit loads anew.
Back(w) ==
  /\ cached[w] # Nothing /\ next[w] = Nothing /\ going[w] = Nothing
  /\ Load(w, cached[w].of)
  /\ UNCHANGED <<going, via, onScreen, finished, bar, page, loading, icons,
                 retried, lists, looking, looks, shared, again>>

\* reload: of a failure page, the page it stands for.
Reload(w) ==
  /\ page[w] < MaxPages /\ going[w] = Nothing
  /\ IF bar[w].failed # Nothing THEN GoTo(w, bar[w].failed)
     ELSE Load(w, at[w]) /\ UNCHANGED bar
  /\ UNCHANGED <<going, via, onScreen, finished, page, loading, icons, retried, lists, looking,
                 looks, shared, again>>

-----------------------------------------------------------------------------
\* WebKit.

\* Every start.
ForgetsAlways(w, x) == TRUE

\* did_start: another page than the one last loaded again may be loaded again, once.
Forgets(w, x) == retried[w] # x

Starts(w, x) ==
  /\ retried' = [retried EXCEPT ![w] = IF Forgets(w, x) THEN Nothing ELSE @]
  /\ again' = [again EXCEPT ![w] = IF @.of = x THEN @ ELSE [of |-> Nothing, times |-> 0]]
  /\ loading' = [loading EXCEPT ![w] = TRUE]

DidStart(w) ==
  /\ next[w] # Nothing /\ going[w] = Nothing
  /\ going' = [going EXCEPT ![w] = next[w]] /\ next' = [next EXCEPT ![w] = Nothing]
  /\ via' = [via EXCEPT ![w] = IF SentDirect(next[w]) THEN "direct" ELSE "proxy"]
  /\ Starts(w, next[w])
  /\ UNCHANGED <<onScreen, finished, bar, page, icons, lists, looking, looks,
                 shared>>

\* What WebKit keeps of the page on screen when x takes its place.
LeftBy(w, x) ==
  IF at[w] \in Sites \ {x} /\ finished[w] THEN [of |-> at[w], via |-> atVia[w]] ELSE cached[w]

\* back, forward, of a page that WebKit still has: it starts, and is on screen as it was left,
\* without being committed anew.
BroughtBack(w) ==
  /\ cached[w] # Nothing /\ next[w] = Nothing /\ going[w] = Nothing /\ looks[w] < MaxPages
  /\ at' = [at EXCEPT ![w] = cached[w].of] /\ atVia' = [atVia EXCEPT ![w] = cached[w].via]
  /\ finished' = [finished EXCEPT ![w] = FALSE] /\ uncommitted' = [uncommitted EXCEPT ![w] = TRUE]
  /\ cached' = [cached EXCEPT ![w] = LeftBy(w, cached[w].of)]
  /\ Starts(w, cached[w].of)
  /\ UNCHANGED <<next, going, via, bar, page, icons, lists, looking, looks, shared>>

\* A redirect, which WebKit follows before it commits.
Redirected(w) ==
  /\ going[w] \in Sites /\ page[w] < MaxPages
  /\ \E x \in Sites \ {going[w]} :
       /\ going' = [going EXCEPT ![w] = x]
       /\ via' = [via EXCEPT ![w] = IF SentDirect(x) THEN "direct" ELSE "proxy"]
  /\ UNCHANGED <<next, onScreen, finished, bar, page, loading, icons, retried, lists, looking,
                 looks, shared, again>>

\* did_receive_challenge, for x: macOS's own trust for a host sent directly; otherwise the
\* pinner's verdict, remembered.
Challenged(w, xs) ==
  /\ vouched' = [vouched EXCEPT ![w] = @ \cup (xs \ (direct \cup ApplePinned))]
  /\ pinned' = [pinned EXCEPT ![w] = @ \cup ((xs \ direct) \cap ApplePinned)]

\* A page macOS does not let through the proxy.
Refusable(x) == x \in Preloaded \cup ApplePinned

\* did_commit: another page, so the last one's icon goes.
DidCommit(w) ==
  /\ going[w] # Nothing /\ page[w] < MaxPages
  /\ going[w] \in Sites => via[w] = "direct" \/ ~Refusable(going[w])
  /\ at' = [at EXCEPT ![w] = going[w]] /\ going' = [going EXCEPT ![w] = Nothing]
  /\ atVia' = [atVia EXCEPT ![w] = via[w]] /\ finished' = [finished EXCEPT ![w] = FALSE]
  /\ cached' = [cached EXCEPT ![w] = LeftBy(w, going[w])]
  /\ uncommitted' = [uncommitted EXCEPT ![w] = FALSE]
  /\ page' = [page EXCEPT ![w] = @ + 1]
  /\ bar' = [bar EXCEPT ![w] = [Refreshed(@, going[w]) EXCEPT !.icon = Nothing]]
  /\ IF going[w] \in Sites /\ via[w] = "proxy" THEN Challenged(w, {going[w]})
     ELSE UNCHANGED lists
  /\ UNCHANGED <<next, via, loading, icons, retried, looking, looks, shared, again>>

\* address::to_send_direct.
ToSendDirect(w) == ((vouched[w] \cap heard') \cup pinned[w]) \ direct

\* AppDelegate::refused.
Hear ==
  \E more \in SUBSET (said \ heard) :
    /\ heard' = heard \cup more
    /\ IF Cardinality(heard \cup said) <= DirectKept THEN more = said \ heard
       ELSE Cardinality(heard') = DirectKept

\* send_refused_parts_direct, and whether there is nothing to send.
NothingToSend(w, x) == x \in Sites /\ retried[w] # x /\ ToSendDirect(w) = {}

SendRefusedParts(w, x) ==
  IF x \notin Sites \/ retried[w] = x THEN UNCHANGED <<next, retried, direct, heard, again>>
  ELSE /\ Hear
       /\ \/ UNCHANGED <<next, retried, direct, again>>   \* nothing, or it could not be sent
          \/ /\ ToSendDirect(w) # {}
             /\ SendDirect(ToSendDirect(w)) /\ LoadAgain(w, x)

\* The page's parts, each challenged on its own.
PartsLoaded(w) ==
  /\ at[w] \in Sites /\ ~finished[w] /\ going[w] = Nothing
  /\ PartsOf[at[w]] \ (vouched[w] \cup pinned[w] \cup direct) # {}
  /\ Challenged(w, PartsOf[at[w]])
  /\ UNCHANGED <<webkit, bar, page, loading, icons, retried, looking, looks, shared, again>>

\* did_finish, find_icon.
DidFinish(w) ==
  /\ ~finished[w] /\ going[w] = Nothing
  /\ at[w] \in Sites => PartsOf[at[w]] \subseteq vouched[w] \cup pinned[w] \cup direct
  /\ finished' = [finished EXCEPT ![w] = TRUE]
  /\ bar' = [bar EXCEPT ![w] = Refreshed(@, at[w])]
  /\ icons' = [icons EXCEPT ![w] = IF at[w] \in Sites THEN @ \cup {<<page[w], at[w]>>} ELSE @]
  /\ SendRefusedParts(w, at[w])
  /\ looking' = [looking EXCEPT ![w] = @ \/ NothingToSend(w, at[w])]
  /\ looks' = [looks EXCEPT ![w] = @ + (IF NothingToSend(w, at[w]) THEN 1 ELSE 0)]
  /\ loading' = [loading EXCEPT ![w] = FALSE]
  /\ UNCHANGED <<going, via, onScreen, page, lists, said>>

\* find_icon's script answered for the page that is still on screen.
IsOfPage(w, icon) == icon[1] = page[w]

FoundIcon(w) ==
  \E icon \in icons[w] :
    /\ icons' = [icons EXCEPT ![w] = @ \ {icon}]
    /\ bar' = IF IsOfPage(w, icon) THEN [bar EXCEPT ![w].icon = icon[2]] ELSE bar
    /\ UNCHANGED <<webkit, page, loading, retried, lists, looking, looks, shared, again>>

\* look_again_for_refused_parts: due once for every look that was put off.
LookAgain(w) ==
  /\ looks[w] > 0 /\ looks' = [looks EXCEPT ![w] = @ - 1]
  /\ looking' = [looking EXCEPT ![w] = FALSE]
  /\ IF loading[w] THEN UNCHANGED <<next, retried, direct, heard, again>>
     ELSE SendRefusedParts(w, at[w])
  /\ UNCHANGED <<going, via, onScreen, finished, bar, page, loading, icons, lists, said>>

-----------------------------------------------------------------------------
\* address::refusal, after_failure: macOS refused this page, and it was not loaded again yet.
Refusal(w, x, code) ==
  \/ code = "secure" /\ x \in vouched'[w]
  \/ code = "cancelled" /\ x \in pinned'[w]

\* retry_direct, show_failure: the page again, once, around the proxy; or what went wrong.
AfterFailure(w, x, code) ==
  IF x \in Sites /\ Refusal(w, x, code) /\ retried[w] # x
  THEN \/ ShowPage(w, x) /\ UNCHANGED <<retried, direct, again>>      \* it could not be sent
       \/ SendDirect({x}) /\ LoadAgain(w, x) /\ UNCHANGED bar
  ELSE /\ IF code = "cancelled" THEN UNCHANGED <<bar, next>> ELSE ShowPage(w, x)
       /\ UNCHANGED <<retried, direct, again>>

\* did_fail_provisional: macOS refused it, or anything else went wrong with it.
DidFail(w) ==
  /\ going[w] \in Sites /\ next[w] = Nothing
  /\ \E code \in {"secure", "cancelled", "other"} :
       /\ code = "secure" => going[w] \in Preloaded /\ via[w] = "proxy"
       /\ code = "cancelled" => going[w] \in ApplePinned /\ via[w] = "proxy"
       /\ IF via[w] = "proxy" THEN Challenged(w, {going[w]}) ELSE UNCHANGED lists
       /\ AfterFailure(w, going[w], code)
  /\ going' = [going EXCEPT ![w] = Nothing]
  /\ loading' = [loading EXCEPT ![w] = FALSE]
  /\ UNCHANGED <<via, onScreen, finished, page, icons, looking, looks, heard, said>>

\* did_fail_provisional: another load took the place of this one.
Replaced(w) ==
  /\ going[w] # Nothing /\ next[w] # Nothing
  /\ going' = [going EXCEPT ![w] = Nothing]
  /\ UNCHANGED lists /\ AfterFailure(w, going[w], "cancelled")
  /\ loading' = [loading EXCEPT ![w] = FALSE]
  /\ UNCHANGED <<via, onScreen, finished, page, icons, looking, looks, heard, said>>

\* stop, stop_loading: the page keeps what it has; a provisional one fails as cancelled.
StopLoading(w) ==
  /\ going[w] # Nothing /\ next[w] = Nothing
  /\ going' = [going EXCEPT ![w] = Nothing]
  /\ UNCHANGED lists /\ AfterFailure(w, going[w], "cancelled")
  /\ loading' = [loading EXCEPT ![w] = FALSE]
  /\ UNCHANGED <<via, onScreen, finished, page, icons, looking, looks, heard, said>>

\* did_fail: the page on screen stopped coming.
DidFailLoad(w) ==
  /\ ~finished[w] /\ ~uncommitted[w] /\ going[w] = Nothing
  /\ finished' = [finished EXCEPT ![w] = TRUE] /\ loading' = [loading EXCEPT ![w] = FALSE]
  /\ UNCHANGED <<next, going, via, onScreen, bar, page, icons, retried, lists, looking, looks,
                 shared, again>>

\* The proxy says that a site was refused, some time after it was (refusals).
ProxySays ==
  \E x \in Preloaded \ said :
    /\ \E w \in Panes : x \in vouched[w]
    /\ said' = said \cup {x}
    /\ UNCHANGED <<webkit, bar, page, loading, icons, retried, lists, looking, looks, direct, heard,
                   again>>

BrowserNext ==
  \/ \E w \in Panes :
       \/ Type(w) \/ Leave(w) \/ Return(w) \/ Reload(w) \/ Back(w) \/ StopLoading(w)
       \/ DidStart(w) \/ BroughtBack(w) \/ Redirected(w) \/ DidCommit(w) \/ PartsLoaded(w)
       \/ DidFinish(w) \/ FoundIcon(w) \/ LookAgain(w) \/ DidFail(w) \/ DidFailLoad(w)
       \/ Replaced(w)
  \/ ProxySays

-----------------------------------------------------------------------------
\* A page is loaded again by itself at most once until another page starts, whichever of its
\* hosts are refused, by whichever of the two signs, and however late the proxy's word comes.
LoadedAgainOnce == \A w \in Panes : again[w].times <= 1

\* What a window says is of the page on screen: a page that was reached directly is never said
\* to come through Syndeo, from its commit, or, brought back without one, from where it has
\* finished; the tab's icon is that of its page, or one left from before a page was brought
\* back; and only what macOS refuses goes around the proxy.
BarHonest ==
  /\ \A w \in Panes :
       /\ bar[w].route = "proxy" /\ (finished[w] \/ ~uncommitted[w]) => atVia[w] = "proxy"
       /\ bar[w].icon # Nothing => bar[w].icon = at[w] \/ uncommitted[w]
  /\ direct \subseteq Preloaded \cup ApplePinned

\* "Until they press Return or leave it, nothing a page does overwrites what they typed"
\* (browser_macos.rs:432): no load that starts, redirects, commits, finishes, fails or is made
\* again, no icon and no word of the proxy changes a field someone types in, whatever comes
\* while they do; only they end it, by what leaves all of these as they are.
TypingKept ==
  [][\A w \in Panes :
       bar[w].typing /\ bar'[w] # bar[w] =>
         \/ bar'[w].typing /\ bar'[w].field = bar[w].field
         \/ UNCHANGED <<going, via, onScreen, finished, page, loading, icons, looks, shared>>
    ]_browser

BrowserSpec == BrowserInit /\ [][BrowserNext]_browser
=============================================================================
