# Syndeo in TLA+

Specifications of Syndeo, configurations that model-check them, and machine-checked proofs of
properties that hold for every instance. The code is the reference: every definition names, in
`PROJECT.json` under `map`, the lines it stands for. Paths below are relative to `src/crates`.

## The system

Syndeo is a browser split into processes. Each row is a part, the state it keeps, what changes
that state, what makes it hard, and what would make it correct.

| Part | State | Operations | What is hard | Correct when |
|---|---|---|---|---|
| cache index (`syndeo-cache/src/index.rs`) | redb tables: entries, variants, blob rows with counts, digests, hashes peers may ask by | one transaction per call | counts and lists kept in step across tables | counts are the number of entries that name a body |
| blob store (`blob.rs`) | a file per content address | put by rename, get that removes what fails its hash, remove, wipe | a file and its row are not changed together | a row has its file |
| cache (`cache.rs`) | both, and the blob gate | store, ranges, revalidate, HEAD, invalidate, discard, clear, grant, serve, evict | every call is several transactions and file operations | nothing leaks, and a clear forgets everything |
| policy, ranges (`policy.rs`, `range.rs`) | none | may it be stored, may it answer; coverage of a body by ranges | clocks that disagree; intervals that touch | nothing is used past its leave, and a range is its bytes |
| network fetch (`syndeo-net/src/fetch.rs`) | the epoch of the cache, refreshes under way, entries being written | fetch, redirects, refresh, stream, clear | an answer from before a clear; waiting for an entry another writes | nothing from before a clear, what was declared, credentials at home |
| HTTP/3 (`h3.rs`) | what origins advertised, cooldowns, connections | try QUIC, fall back | repeating what may have been done | only safe requests are repeated |
| peer swarm (`syndeo-peer`) | fetches, requests in flight, provider queries, ledgers | one event at a time | late answers, deadlines | each call is answered once |
| network service, ipc (`syndeo-net/src/service.rs`, `syndeo-ipc`) | frames on a socket | head, chunks, end or error | a body cut short | a page is whole or it is an error |
| confirmations (`syndeo-ipc/src/confirm.rs`) | used tokens until they expire | issue, verify | single use within a bounded memory | one confirmation, one signature |
| keystore (`syndeo-keystore`) | the seed in memory, the idle watch, sealed files, wrapping keys | unseal, lock, sign, enrol, restore | requests racing the timer; a crash between two writes | a lapsed session serves nobody, a seed keeps its key |
| shell (`syndeo-shell/src/service.rs`) | conversations, the lock around the keystore | confirm, unseal, retry | prompts under a lock | nobody waits but for a person |
| child processes (`supervisor.rs`, `quit.rs`) | children, sockets, pipes | start and wait, quit | an upgrade in between; a child that hangs | one release, and an end |
| tools (`syndeo-shell/src/tools.rs`) | a directory, stagings | seed, sweep | kills, and two shells at once | whole or not at all |
| proxy (`syndeo-proxy`) | connections, tunnels, its authority | admit, tunnel, forward, join | who a tunnelled request is for | only who was admitted asks |
| the browser's proxy (`syndeo-webkit/src/owned_macos.rs`) | the pipes to it | start, clear, quit | answers that come late | an answer is to its question |
| application (`syndeo-app`) | agents and their leave, tabs, windows, sessions, address bars | see below | people, agents, pages and macOS act at once | stopped is stopped; what is kept is the person's |
| reader (`syndeo-ui`, `syndeo-dom`) | questions, pages, a budget of work | ask, load, parse | answers to questions nobody waits for | consent is the person's; work is paid for |

The parts meet as follows. The network process calls the cache, which it shares with the peer
swarm; the proxy, the shell, the reader and Servo ask the network process over a local socket, a
frame at a time. A browser owns its proxy, through two pipes. The shell starts the keystore, mints
the confirmation it checks over a secret it passed at the start, and asks the person through the
reader's window. Agents reach the application over a socket of its own.

## Modules

| Module | Models |
|---|---|
| `CacheIndex` | one action per transaction of `index.rs`, over five tables |
| `CacheStore` | threads in the cache's operations, a step per transaction, file operation or passage of the blob gate |
| `Ranges` | `range.rs`, and the store and the join of ranges, over bodies of a few bytes and integers of a given width |
| `Freshness` | `policy.rs` with the directives it reads, and a clock for the origin, for a cache on the way and for this machine |
| `NetFetch`, over `Http3` | `Net::fetch` and all it starts: requests, redirects, peers, revalidation, streamed bodies and who writes their entries, refreshes, clears |
| `PeerFetch` | what a caller of the swarm is promised |
| `PeerSwarm` | the event loop, which implements it |
| `NetService` | one fetch over the socket, by frames, and what collects it |
| `Confirmations`, `Keystore`, `Signing` | the memory of confirmations; the keystore and enrolment beside it; the shell in front of it. Each extends the one before |
| `Proxy`, `Authority`, `Owner` | the proxy's connections; its certificate authority; the browser that owns it, and its pipes |
| `Supervisor`, `Tools` | the processes of two lives of a shell across an upgrade; seeding of the example tools |
| `AgentControl` | the application and the agents that drive its tabs |
| `AgentClient` | the program an agent runs, its lines and its calls |
| `Browser`, `Windows` | a window's address bar and what is loaded again; tabs, windows and the session kept from run to run |
| `ReaderWindow`, `PageBudget` | questions and pages of syndeo-ui; parsing a page within a budget |
| `MC…` | instances: model values, small sets, and which parts a run puts side by side |
| `…Proofs` | theorems |

How state and actions correspond to the code:

**Cache.** `entries`, `variants`, `blobs`, `sri` and `eligible` are redb's tables; redb has one
writer, so a transaction is one action. A record keeps what decides which transactions run: its
validator, whether its body is whole, the contents it names, its use count. In `CacheStore` a
thread is at a step (`at`) with the locals of the Rust call (`loc`). What is between steps is
what the code leaves unlocked: the look at the disk before a store commits, what a commit orphans
being deleted after the gate is let go, entries read in one transaction and written in another, a
corrupt file removed by its name, an eviction with a running total, the two halves of a clear. A
process killed inside a call is a thread that takes no further step. Which answer a lookup gives
is a choice there; `Freshness` and `Ranges` say which.

**Fetch.** A request is at a step of `fetch_once` (`at`, `loc`), a step being what happens between
two awaits. `cleared` is `Net::cleared`, `clearing` and `kept` its lock held exclusively or shared
(`Keep`); `write` is `Landing`, with the requests that wait in their `waits`; `refreshing` and
`task` are the refreshes. The cache is what callers see of it: an entry per address, changed at
once. An entry also carries the epoch it was asked for in (`since`), which the code does not keep:
it is the history that `NothingFromBefore` speaks of. In `Http3`, `known` is `AltSvc`'s map and
`open` the connections kept.

**Swarm.** `Open` is `fetches`, `InFlight` the outbound requests that libp2p holds, `queries` the
DHT's, `ledgers` the ledger. `outstanding` is the code's own count, whose saturating subtractions
`CountIsExact` shows never to be needed. `Late` is an answer to a fetch that is gone.

**Signing.** `issued` and `consumed` are the keystore's memory, `accepted` a history. `sealed` and
`wrapping` are files and credential store entries, a seal being a name for a key and for what it
seals. `last` and `timer` are `Watch`, with a monotonic clock and a wall clock that `Suspend`
moves alone. A request to the keystore is taken in the steps between which `master` is unlocked;
the keystore may die between any two.

**Proxy and processes.** `conn` is a connection of the proxy at the step of `handle`,
`tunnel_service` or `forward` that it waits in. `files` is the authority's directory, written one
file at a time. In `Owner`, both pipes are sequences, and the process at either end may go at any
moment. In `Supervisor` each process carries the version it was started from, and sockets belong
to whoever bound them.

**Application.** `conns`, `agents`, `session`, `tabs` and `awake` are the tables the main thread
keeps; a connection's thread, its jobs on the main queue and its prompt are separate, because the
code passes what it decided in one to another. `since` and `stops` are histories of the person's
stops. `Browser` takes WebKit's reports as actions of its environment, with a page of the
back-forward cache that is loaded anew (`Back`) or brought back without a commit (`BroughtBack`);
`TypingKept` is about WebKit's reports only, since a reload of a failure page, which the person
asks for, does write over what is in the field. `Windows` takes AppKit's in the same way, and
writes the session where the code does; a launch reads it. `had` is the history of the tabs that
were there when the session was last kept, and a page is `Mine` once its tab was left to the
person.

**Sequential parts.** `Ranges`, `Freshness`, `PageBudget` and `AgentClient` have one thread; what
varies is their input. `Word` stands for 2^64, so that saturation happens. A character of a page
is a byte, words that the code compares as one are one letter. A line to the client comes in
pieces of any size.

## Runs

| Run | Instance | Distinct states |
|---|---|---|
| `store` | two threads, two variants that may share a body, a budget of one blob | 270 000 |
| `alone` | one thread, every operation, rot, failed writes and HEADs included | 35 000 |
| `keystore` | one conversation, two homes, one enrolment, a death, a suspend | 4 million |
| `conversations` | two conversations, a memory for one confirmation | 360 000 |
| `fetch` | one request, one writer, two addresses of two origins and one over QUIC, two bodies, a clear | 2.3 million |
| `swarm` | two fetches, two peers, a credit of one; and `NetFetch`: requests for one address, one writer, QUIC, a clear | 550 000 |
| `processes` | `Proxy`, `Authority`, `Owner`, `NetService`, `Tools`; `Ranges`, `Freshness`, `PageBudget`, `AgentClient` | 360 000 |
| `app` | `AgentControl`, `Browser`, `Windows`, `ReaderWindow`, `Supervisor` | 3.4 million |
| `refresh_race`, `ageing`, `unsaid_cut`, `lone_certificate` | where the code does not do what a comment of it says | 600, 105 000, 4 000 and 97 000, to the violation |

`fetch`, `swarm`, `processes` and `app` put several modules in one run.
Each behaviour is of one part (`part` is chosen at the start) while the others stay as they begin;
their parts share no state, so that this checks each of them, and nothing about them together.

What each property says is the comment above it. By what they are about:

* files and peer rows: `RowsHaveFiles`, `EligibleHasRow`, `QuietIsClean`; counts, which
  `refresh_race` refutes and a theorem keeps: `RefcountsExact`; headers with their body:
  `TagNamesBody`; a clear, and that calls end: `ClearErases`, `CallsReturn`;
* `NothingFromBefore`, `DeclaredIsWhatArrives`, `CredentialsStayHome`, `SettlesEventually` of a
  fetch; `WaitsForSomething`, `TakesWithinCredit` and the refinement `KeepsPromise` of the swarm;
  `WholeOrNothing` of what comes over the socket;
* `RangeIsExact` and `HeldIsServed` compare the code's interval arithmetic with sets of bytes;
  `UsedWithLeave` compares its ages with a clock the code does not have;
* `SealedHasKey`, `AcceptedOnce`, `NoneSlipsIn`, `LapsedIsForgotten`, `WaitsOnlyForPeople` of signing;
* `OnlyAdmittedAsk`, `PairMatches`, `AnswersInStep`, `QuitEnds`, `OneRelease`, `ToolsWhole` of the
  proxy, the shell and their processes;
* `StopIsFinal`, `ControlledWhileHeld`, `LoadedAgainOnce`, `BarHonest`, `TypingKept`,
  `KeptIsPersons`, `LaunchLosesNone`, `WindowHonest` of the application and the reader's window;
* `AttributesPaid`, `CutHonest`, `AnsweredInOrder`, `DoneOnce` of a page's parsing and a client.

### Bounds, and why they are enough

* Cache: the hazards are between a call that read something and one that changed it, so two
  threads; a third would repeat either role. Two bodies, so that a replacement can orphan, share or
  keep one; a capacity of one, so that every second store evicts. `MaxRefs` stops a refresh once a
  count has drifted past 2, and matters only to runs that revalidate.
* Signing: lifetimes, idle times and horizons of one or two seconds put every comparison just
  before, at and after its edge. A memory of one confirmation is full while one is valid. Three
  seals let one be replaced while an older and a newer one exist.
* Fetch: an address that redirects to another origin, where the declared body is, and one that
  redirects nowhere. One redirect is followed and a second is too many. One clear divides before
  from after. HTTP/3 and its clock are met
  at a third origin, by a request of its own. `swarm` has those that wait: two without HTTP/3, or
  one with it; the proofs cover more.
* Swarm: two peers, so that one may answer wrongly or leave while the other still owes an answer;
  a credit of one, so that the second body is refused.
* Processes: two connections, so that one may be the proxy's own; three keys, so that a run that is
  killed and the next that finishes differ; two questions, so that a late answer meets the
  next; two versions around one upgrade; two seeders.
* Application: two connections of one agent; stops, connections, tabs and requests counted by
  `MaxStops`, `MaxConnections`, `MaxTabs` and `MaxRequests`; three sites, of which one is preloaded
  and one is pinned; two commits, and one page in the back-forward cache, so that it is brought
  back beside a page reached the other way; two runs and `MaxSteps` of the person's and the
  agent's steps in each; three askers and a channel of one. A session is read back with two
  windows of two tabs, where the code has 50 and 500 (`tabs.rs:188-191`), so that three tabs of one window, or in three, are too
  many: `LaunchLosesNone` is about those within the limits, and the others do not come back. Of
  an agent's tab tools, opening, reading and waiting are asked for:
  `goto` answers as `open` does and `close` frees a tab as a closed window does, and the proofs
  have both.
* Sequential: a body of six bytes with every range of it, and numbers that saturate at 8; clocks
  right and two seconds ahead; pages of up to three pieces out of thirteen, under nine budgets (in
  `unsaid_cut`, comments of two pieces, under ten); three lines, of which one is too long.

### Fairness

* `CacheStore`: a thread inside a call keeps running (weak), and a passage of the gate is not passed over for
  ever (strong). `std::sync::RwLock` queues its waiters on the platforms Syndeo builds for;
  the standard library does not promise it, so `CallsReturn` rests on this.
* `Signing`: tasks of tokio keep running (weak); `tokio::sync::Mutex` is handed over in the order
  it was asked for (strong). Nothing is assumed of people, clocks, sessions or terminals.
* `NetFetch`: a request whose wait is over goes on, a thread that writes an entry keeps
  writing it, a clear ends. Nothing is assumed of origins, peers or callers.
* `PeerSwarm`: the sweep's timer fires, and each late fetch is swept. An answer need never come.
* `Owner`: the signal is sent when the grace is over and what was killed can be reaped.

Deadlock is checked in the runs of the cache, of signing and of fetches, where something can
always begin. It is not in `swarm`, `processes`, `app`, and the runs of their
modules that expect a violation: their behaviours end, a page being parsed or the bound on steps
being reached.

## What the code does against its own words

Four runs expect a violation:

* `refresh_race`: `record_not_modified` reads an entry and writes it back in two transactions, the
  second unconditional (`cache.rs:1261`), so a store between them is overwritten and counts drift.
  `index.rs:397-398`: "All in one transaction so refcounts cannot drift."
* `ageing`: every caller passes a time taken after the answer as `request_time` (`fetch.rs:618`,
  `1027`, `1454`, `1594`); `policy.rs:74` says it is when the request was sent. The delay of an
  answer is so never counted, and a response can be used as fresh past its lifetime.
* `unsaid_cut`: `tokenizer.end()` (`budget.rs:159`) hands over what the tokenizer held back, an
  unfinished comment for one; the gate drops it if the budget does not pay for it, and `cut_at`
  stays `None`. `budget.rs:33-34`: "When the budget is spent, the rest of the page is not parsed:
  the Document says so". The page `<!--//` with a budget of six is such a page.
* `lone_certificate`: where a certificate is found without its key, both are replaced, the key
  first (`ca.rs:111-118`, `244-245`). A process killed in between leaves the new key beside the old
  certificate, and the next start takes them for a pair (`ca.rs:96-99`). `ca.rs:240-241`: "written
  key first so an interruption can only ever leave the key". From any other directory that
  `PairMatches` starts from, it is so.

Seen while modelling, without a run:

* `syndeo-cache`: the slice that completes a body is put as a file that nothing refers to
  (`cache.rs:1183`); a reader removes a file it found corrupt by its name, with no gate
  (`blob.rs:361`, against `cache.rs:428`, "The only place a blob file is deleted"); stale digests
  are found in one transaction and removed in another (`index.rs:930`, `946`); a 304 with no Date
  and no Age leaves an entry stale; an equal Last-Modified is taken for the same representation
  (`cache.rs:1575-1581`); a window of stale-if-error is tested for being there only (`fetch.rs:708`).
* `syndeo-net`: an unsafe method invalidates before it asks (`fetch.rs:532`); a refresh that
  panics keeps its key (`fetch.rs:1135`); an answer over TCP with Alt-Svc ends a cooldown at once
  (`fetch.rs:818-879`, against `h3.rs:17-18`); redirects that are followed are never stored when
  their body is dropped first.
* `syndeo-peer`: a fetch may be given up while its query runs (`swarm.rs:712-728`, against `597`), and
  the DHT asked more than once (`720`).
* `syndeo-keystore` and the shell: a confirmation is used up by a lapsed session
  (`keystore.rs:278-286`, "refused as locked rather than burning the single-use confirmation");
  the timer decides about one session and locks the next (`service.rs:263-265` of the shell); two
  `init`s may pass the check together (`keystore.rs:157-168`).
* Processes: `ca.rs:240-248` with two first runs at once may leave a pair that does not match;
  `wait_ready` (`supervisor.rs:238-256`) may connect to a socket of another shell, and
  `transport.rs:125` removes a successor's; the TLS handshake in a tunnel has no deadline
  (`syndeo-proxy/src/main.rs:698`); a seeding suspended for over an hour is taken for abandoned.
* Application: of a session with more windows or tabs than are read back, the rest are neither
  opened nor in History (`tabs.rs:280-318`, against `README.md:110-114`); a page brought back
  keeps the icon of the one that was left until its own is found; a page the person stopped may
  be loaded again by itself when its refusal is told later; a tab of
  refused content that is never shown again is not in the next session; a request that timed out may still be granted, and its prompt stays for a client that left.
* `syndeo-ui`: `unseal` asks through a window that is not drawn before `Session::start` returns
  (`main.rs:69`, `211`); a fifth question blocks its asker once four were left unanswered
  (`prompt.rs:94`); a page that loads replaces what is being typed, and `loading` is cleared while
  a later load waits.

## Proofs

TLC agrees with those that a passing run checks on the instances above; the theorems say the
same for every value of the constants that their modules' assumptions allow (`IndexAssumption`, `StoreAssumption`,
`ConfirmationAssumption`, `KeystoreAssumption`, `SigningAssumption`, `SwarmAssumption`,
`Http3Assumption`, `FetchAssumption`, `ServiceAssumption`, `ProxyAssumption`,
`AuthorityAssumption`, `OwnerAssumption`, `SupervisorAssumption`, `ToolsAssumption`,
`ControlAssumption`, `BrowserAssumption`, `WindowAssumption`, `WindowsAssumption`,
`FreshnessAssumption`, `LinesAssumption`, `RepsAssumption`, `BudgetAssumption`: numbers are
naturals, names of different kinds differ, sets of keys and contents are finite).
`RepsAssumption` says more of the origin: a strong tag, or a date, names one representation, and
a body is shorter than `Word`; `BudgetAssumption` has a place past the end of every page. Each
safety invariant is proved from an inductive one that implies it, with a lemma per action.

* `CacheStoreProofs`. `TypeCorrect` needs `Typed`, which says what a thread holds at each step.
  `StepIsTransaction` factors every step of every thread into one transaction or none, so that a
  property of the tables needs a case per transaction: `OnlyHeldBlobsAreOffered` is one.
  `CountsAreExact`: a refresh that lands on another body than the one it was made from is the only
  way counts drift. The hypothesis is the defect that `refresh_race` shows, so the theorem says it
  is the only one.
* `CacheGateProofs`. `GateKeepsFiles` proves `RowsHaveFiles` when no file rots. `GateInv` says who
  holds the gate at which step, that what a store put is on disk until it commits, and that a file
  is removed only after its row. `EntriesCanBeRead` combines it with exact counts. Three more say
  what overlapping calls leave behind, each under the hypotheses that the code needs.
  `NothingIsLeftBehind` (`CleanInv`: what is on disk or in a table and named by no entry is still
  in the hands of a thread that will see to it) takes no rot, exact counts, and no ranges, because
  a range whose commit fails leaves its slice on disk. `ClearLeavesNothing` (`Emptied`) takes no
  rot, and that a 304 finds a record to land on: one that comes after a clear puts its record
  back. `TagsNameBodies` (`TagInv`) takes one thread at a time, or no revalidation: two that
  overlap may leave the validator of one answer with the body of another. `WithoutRefreshes` shows
  that a cache of GETs that revalidates nothing meets the hypotheses.
* `KeystoreProofs`. `KeyIsThere` needs `KeyFirst`, the order of an enrolment's two writes.
  `OneAtATime` proves `Order`: who is inside `keystore_call` has the lock, and what is handled is
  handled by a live keystore. `PassesOnce` follows from `Order` and from `Memory`, that what is
  carried or accepted has been minted. `LateIsRefused` uses `LateLocked`: between its arrival and
  its answer, a late request finds the session lapsed or locked, which `Order` makes stable.
* `PeerSwarmProofs`. `CountIsExact` is the invariant the rest stands on: `outstanding` is the
  number of requests in flight. From it follow `OpenWaits`, `CreditIsKept`, and `Implements`: the
  safety part of the refinement, `Spec => Abstract!Spec` where `Abstract` is `PeerFetch` with each
  call's state computed from the event loop's: an open fetch is "waiting".
* `ControlProofs`. `ControlInv` relates where each connection's thread is, what of it is on its
  way to the main thread, in a prompt or in a page, and the tables: a prompt's answer is used only
  if its connection is still there, and a connection that is gone has left no leave that is not
  the session's. `StoppedStays` and `TabsAreHeld` follow. `AgainIsOnce` and `BarsAreHonest` rest
  on `BrowserInv`, which ties what a page is loading, what is on screen and what is kept behind
  it, what was said of its site and what the bar shows; `TypingIsKept` is a lemma for each report
  of WebKit's (`Spared`). `WindowsAreHonest` rests on `WindowInv`: its `ConsentInv` says where each question is,
  waiting, on screen or gone, and that an answer is the person's to that one; its `PageInv` says
  that the last load there is, in the work, at the worker, among the results or on screen, is of
  what was asked for last. `KeptStaysPersons` rests on `KeptInv`: an
  agent's page is in an agent's tab, and in nothing that is kept. Its lemmas say
  of each operation on windows and sessions, the folds that open and filter them among them, that
  it leads from windows of that kind to windows of that kind.
* `FetchProofs`. `FetchInv` has three parts beside its types. `Where` says what a request has at
  each step: a declaration is for a GET, never streamed, and by the time it is stored or confirmed
  its answer satisfies it. `LockOK` says that who is about to store holds the lock and asked since
  the last clear, and that a refresh runs only while its address is in the set. The third is
  `NothingFromBefore` itself. Each step is two facts, `Goes` (of the request) and `Touches` (of
  what is shared), and `RequestKeeps` combines them. `ClearedStaysClear`, `DeclaredArrives` and
  `CredentialsStay` follow.
* `ProxyProofs`. `ProxyInv` says what a connection has shown at each step: who is in a tunnel was
  admitted by its CONNECT, and what is asked there is for its origin. `AskersAdmitted` and
  `LoopsEnd` follow. `PairsMatch` takes one hypothesis, that the first run found no certificate
  without its own key beside it, since the code compares nothing and replaces a lone certificate in
  two steps (`lone_certificate`); its invariant is
  that a certificate is written only for the key that is on disk. `AnswersKeepStep` (`OwnerInv`):
  while a question waits, whatever is on its way is about that question, and is there once.
  `ReleasesMatch` (`ShellInv`) needs little more than itself. `PagesAreWhole` (`ServiceInv`): what
  is on the wire follows what was read, without a gap, up to what was sent. `ToolsAppearWhole`
  needs `Seeding`, which ties each run's step to its staging directory: what is over an hour old
  is only what a run that was cut off left, so nothing is swept from under a run that goes on.
* `SequentialProofs`. `UsedOnlyWithLeave`: `FreshnessInv` bounds what is left unsaid of an entry's
  age by the times it was stored with, and the rest is arithmetic, a case for each directive.
  `LinesAreAnswered` and `NothingIsDoneTwice` rest on `ClientInv`: what was read and what remains
  are the input, the lines answered are those read, and what was done is at most the line at hand.
  `RangesAreExact` and `HeldRangesAreServed` rest on `RangesInv`: the segments of an entry are of
  one representation, each with its bytes, in order and disjoint, and the entry is whole exactly
  when they are the body and its length is known. A segment may touch the next; what the coverage
  merges them into may not (`Apart`), or a range that two of them hold would go unanswered.
  `RangesAreSound` proves the invariant, and each lemma takes one loop of the code (place, merge,
  walk, fill, read) through it.
  `AttributesArePaid` and `CutsAreHonest` rest on `BudgetInv`, whose `Between` says that between
  two turns the tokenizer is where the lookahead is, in the same state. Of the tables of states
  a few facts are enough (`Way`, `Moving`): a tag's inside is entered from its name and leads to
  itself or the tag's end, only a `<` begins a tag, and two dashes are taken at once only where
  both are there. `Sound` says of a reader that it has attributes only inside a tag and knows
  where that tag began, and `Later` that they only grow there; so a scan has at its end the most
  attributes of its way, and none before its tag (`NextTagIs`). `LockHolds` takes the tokenizer
  along that scan a character at a time (`Locked`), `FeedIs` over a feed, and `TurnReads` over
  both of a turn. What a page that is not cut may lose is what `FlushedIs` says: tokens that were
  held back to the end, and nothing before.

`FlattenSeq` and `FoldLeft` are recursive functions, chosen by their equation. `SequentialProofs`
and `ControlProofs` show by induction over the numbers (a least counterexample, `LeastOf`) that
there is such a function, and so unfold it one element at a time. The loops of `Ranges` are such
folds, each named by its state and its step, so that a lemma can say what one turn keeps; so are
the scan and the feed of `PageBudget`.

Only model-checked: `LaunchLosesNone`, which counts tabs that several folds open, close and keep.
Out of the provers' reach: `CallsReturn`, `LapsedIsForgotten`, `WaitsOnlyForPeople`,
`SettlesEventually`, `QuitEnds` and the liveness of `KeepsPromise`, which need fairness.

## Not modelled, and why

* Commits that are only eventually durable, under a power cut: what redb leaves is the library's.
* An origin whose content changes, so that what an unsafe method makes stale is not told from
  what is fresh. A wall clock that goes back, which `confirm.rs` does not look for.
* Cryptography, key derivation, addresses; text (header parsing, integrity syntax, wording, typed
  addresses); the tree of a document and what is read from it.
* WebKit, Servo, AppKit, the keychain, sandboxes, libp2p, QUIC, redb and html5ever: external, and
  modelled by what the code may see of them.
* The agent process (`syndeo-agent`), an interpreter of WebAssembly in a sandbox; `doctor.rs` and
  other reports; installers and packaging, which are scripts.
* The whole of it at once: the cache under `NetFetch` is what callers see of it, and that
  `CacheStore` is such a cache is not shown. With `refresh_race` it is not one.

`PROJECT.json` lists every part, with what of it is modelled, and every hazard, with the properties
that would catch it.

## Next

An abstract cache that `CacheStore` without refreshes implements and `NetFetch` uses; a proof that
a launch loses no tab (`LaunchLosesNone`); a crash that loses the commits since the last durable
one; a wall clock that steps back.
