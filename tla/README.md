# Verification of rust-headless-chrome

`rust-headless-chrome` drives a Chrome process over the DevTools protocol: JSON
messages on one WebSocket, shared by every thread of the application, with
answers and events of many targets (tabs, workers) interleaved on it. Its
difficulty lies in the concurrency between a handful of threads that share
mutexes, channels and atomics; that is what these modules are about.

Paths below are relative to the crate, `src/src/browser/` unless said otherwise.

## 1. The system

### Threads

| thread | code | lives until |
|---|---|---|
| application threads | any public method, most of them ending in `Transport::call_method` | they return |
| WebSocket reader | `WebSocketConnection::dispatch_incoming_messages` | the socket ends, or the message loop is gone |
| message loop | `Transport::handle_incoming_messages` | shutdown, silence for the idle time, a failed delivery |
| browser event thread | `Browser::handle_browser_level_events` | shutdown, silence, a failed `Tab::new` |
| one event thread per tab | `Tab::start_event_handler_thread` | its sender is dropped by the message loop's tail |

### Components

| component | state | operations | interacts with |
|---|---|---|---|
| **Method calls** `transport/mod.rs`, `src/src/util.rs` | `open`, `call_id_counter` | `call_method` for the browser, and for a target: a call nested in a `SendMessageToTarget` | registry, socket, its reply channel polled by `Wait::until` |
| **Waiting call registry** `transport/waiting_call_registry.rs` | map id → sender, under a mutex | `register_call`, `resolve_call`, `unregister_call`, `cancel_outstanding_method_calls` | callers and the message loop |
| **WebSocket connection** `transport/web_socket_connection.rs` | the sender, the reading thread | `send_message`, `shutdown`, reading | Chrome; forwards to the message loop over an mpsc channel |
| **Message loop** `transport/mod.rs` | listeners' senders, under a mutex | resolve an answer, route an event, end | registry, listeners, socket |
| **Browser and tab list** `mod.rs` | `tabs` under a mutex, the event thread | `new_tab`, `register_missing_tabs`, created / changed / destroyed, drop | calls, events, `Tab::new` |
| **Contexts** `context.rs` | an id | `new_tab`, `get_tabs` (calls Chrome with `tabs` locked) | tab list, calls |
| **Navigation** `tab/mod.rs` | `navigating` (atomic) | `navigate_to`, `wait_until_navigated`, lifecycle events | the tab's event thread |
| **Tab event thread** `tab/mod.rs`, `tab/dialog.rs` | listeners, bindings, interceptor, authentication, response and failure handlers, paired response parameters, each under a mutex of its own | one handler per kind of event; registering and removing each kind of callback | calls made from inside the handlers, the callbacks themselves |
| **Elements** `tab/element/mod.rs`, `tab/mod.rs` | three ids of a node per element | finders, waits that poll them, clicking, typing, screenshots | ids that Chrome invalidates, also at another thread's request |
| **Quads and box model** `tab/element/box_model.rs`, `tab/point.rs` | none | comparisons, bounds, viewports, the midpoint | screenshots and clicks |
| **Process launch** `process.rs`, `mod.rs` | the child process, its port and temporary profile | choose a port, spawn, read the WebSocket URL, kill on drop | the operating system, other launchers |
| **Fetcher** `fetcher.rs` | directories on disk | find, download, unzip, clean up | the network, the disk, other launchers |
| **Node search** `src/src/types.rs` | none | `Node::find` | – |

### What is hard, and what makes each component correct

* **Calls**: `open` is read before a call registers and sends, so the loop's
  whole tail may run in between; a target call nests two ids, and its failure
  paths unregister what an answer or a cancellation may have removed already; a
  timed-out call leaves an id whose answer may still come. *Correct* means: every
  call returns, with the answer to its own request or an error; nobody waits for a
  sender that is gone; no `unwrap` fails; nothing stays behind.
* **Message loop**: it ends by shutdown, silence, a message of the reader, the
  reader's death, or a failed delivery, in any state of the callers. *Correct*
  means: the tail reaches every caller and every listener.
* **Tab list**: two kinds of thread attach to targets that open, change and close
  meanwhile; `Tab::new` makes calls between the event that caused it and the push.
  *Correct* means: the list settles to Chrome's pages; `new_tab` gets its tab; the
  mutex is not poisoned while the connection stands.
* **Navigation**: one flag, stored by two threads, with the lifecycle of every
  frame and of the document before. *Correct* means: a wait ends when the load is
  over, and not before.
* **Tab event thread**: callbacks run under mutexes that the same callbacks'
  registration needs, and call Chrome, whose answer may never come; a binding is
  removed while its call is queued; a request is paused while the interceptor is
  replaced or interception switched off. *Correct* means: no callback runs after its
  removal has returned, none misses its response, no request stays paused, every
  operation returns, and the page cannot end the thread.
* **Elements**: every search asks for the document, and that discards the node ids
  and searches of everyone else; the page changes between scrolling, measuring and
  clicking. *Correct* means: a wait goes on over what is a miss and ends on what is
  not; what is returned matches; an element stays usable beside other threads'
  searches.
* **Process launch**: a port is free when it is tested and bound a second later by
  another process; an attempt that fails must take its Chrome and its profile with
  it. *Correct* means: it ends, talks to the Chrome it started, and leaves nothing.
* **Fetcher**: a directory with the right name counts as an installation. *Correct*
  means: a failed download leaves none behind.

`PROJECT.json` lists the single hazards with their lines and the properties that
cover them.

## 2. The modules

| module | code | content |
|---|---|---|
| `Transport` | `transport/{mod, waiting_call_registry, web_socket_connection}.rs`, `util.rs` `Wait::until` | callers, reader, loop, shutdown |
| `TransportProofs` | – | theorems about `Transport` |
| `CallService` | `Transport::call_method` as its callers see it | abstract specification: a call's stages |
| `CallRefinement` | – | the refinement mapping from `Transport` to `CallService` |
| `CallRefinementProofs` | – | the refinement, step by step, and what `Transport` does when nothing disturbs it |
| `BrowserTabs` | `mod.rs`, `Tab::new` | tab list, its threads, Chrome's targets |
| `BrowserTabsProofs` | – | theorems about `BrowserTabs` |
| `Navigation` | `tab/mod.rs` navigation | the flag, frames, the driving thread |
| `NavigationProofs` | – | theorems about `Navigation` |
| `TabEvents` | `tab/mod.rs` 228-259, 305-526, 1290-1549, `tab/dialog.rs` | the event thread, callbacks, interception, bindings, dialogs |
| `TabEventsProofs` | – | theorems about `TabEvents` |
| `Elements` | `tab/element/mod.rs`, finders, waits and input of `tab/mod.rs`, `util.rs` `Wait::strict_until` | finding elements and acting on them |
| `ElementsProofs` | – | theorems about `Elements` |
| `Geometry` | `tab/element/box_model.rs`, `tab/point.rs` | quads, with theorems |
| `Fetcher` | `fetcher.rs` | installing Chrome |
| `Launch` (extends `Fetcher`) | `process.rs`, `Browser::new` and its drop | starting Chrome, composed with installing it |
| `LaunchProofs` | – | theorems about `Fetcher` and `Launch` |
| `NodeSearch` | `types.rs` `Node::find` | the visitor on every small tree |
| `MCTransport`, `MCBrowserTabs`, `MCNavigation`, `MCTabEvents`, `MCElements`, `MCLaunch` | – | instances for TLC |

The modules compose in two ways. `Launch` extends `Fetcher`, whose launchers go on to
start what they have fetched. The others meet at `call_method`: `Transport` is the
call in full, `CallService` what it promises, and the modules above it use just that
promise: a call is executed by Chrome and answered, or fails. In `TabEvents` it may also
run out of time (`CallExpires`), and in `BrowserTabs` where `WaitsExpire`. In `Elements`
a call fails by Chrome's refusal or by `Close`; `Expire` is the clock of the waits and of
the midpoint's polling, and a single call that runs out on an open connection is left out.

### Transport

*One action is one atomic step*: an atomic load, one mutex section, or one channel
operation together with the thread-local code after it. `call_method` on a target
is two activations of the function, the outer one and the nested
`SendMessageToTarget`; each is a *frame* `<<caller, "target">>` or
`<<caller, "browser">>` with its own id (`callId`) and its own reply channel
(`inbox`). `pc` says where a caller is:

| `pc` | code |
|---|---|
| `registerT` → `check` | outer activation: id and registration (mod.rs 133-137), then the nested call's test of `open` (129) |
| `register` → `send` → `wait` | the inner activation: 134-137, `send_message` (web_socket_connection.rs 184), polling (174) |
| `unregister`, `unregisterT` | the error paths (151-164) |
| `waitT` | the outer activation polls its own channel |
| `expired`, `expiredT` | between the last empty poll and `Wait`'s return of `Timeout` |
| `panicked` | an `unwrap` failed: the thread is gone, the mutex poisoned |

`calls` is the registry's map as a set of (id, receiving frame) pairs; inserting an
id takes an older one out. `msgs` is the channel from the reader to the loop,
`loop` the loop's place, its tail being `shutdown → close → cancel → clear → done`
(`TailOrder`, mod.rs 338-348). A dropped receiver is `callId = None` for a call and
membership in `deadRx` for a listener. Chrome answers the requests it is `owed` in
any order; with `OuterFirst` the target's answer may even overtake the answer to
the `SendMessageToTarget` that carried it. Failing unwraps are modelled where the
code has them: `LoopPanics` and `CallerPanics` poison the mutex that was held, and
the later users of that mutex panic as well.

One pair of steps is fused: `LoopResolvesCall` takes the entry out of the map
(waiting_call_registry.rs 42-45, under the mutex) and sends to it (46, without) at once.
The removal commutes with every step of a caller but the unregistering of the same id
between the two. That caller finds no entry and panics, with the registry poisoned, in
the fused order too; all that differs is whether the loop breaks at the failing send or
panics at its next use of the registry.

Payloads are abstracted to "which request this answers" (`from`, `nth`), which is
what `OwnAnswer` compares. Left out: serialisation errors, texts that do not
parse (the reader skips them), the handshake, and the counter's wrap at 2^32.

### BrowserTabs

Chrome's side is the set of targets that are `live`, their urls (the number of a target's
changes so far; `DevtoolsUrls` says which of whose urls begin with `devtools://`) and
sessions; a browser-level event is appended to `events` as the change happens. The event
thread (`evt`) takes one event at a time; a page's `Tab::new` is three steps, attaching (`EvtTargetCreated`), the two enabling calls
(`EvtEnablesTab`) and the push under the list's mutex (`EvtPushesTab`), so that the
target can change or close in between. `register_missing_tabs` is: ask for the
targets (`ListTargets`), lock (`LockTabs`), then per target skip or attach, enable
and insert (`RegisterTarget`, `EnableMissingTab`), unlock. The guard is held during
the calls, as in the code; `lock = "poisoned"` after a panic under it. A call
succeeds or fails as a whole: `Transport` is represented by `conn` and by the rule
that an event without a receiver ends the connection (mod.rs 323-333 of the
transport).

Three details of the code are kept because they decide something: `Skips` asks
`attached` only inside `any()` over the listed tabs, so an empty list skips
nobody; only the *first* tab of a target is updated or removed; and a change to a
`devtools://` url is ignored (`Concerns`, mod.rs 410-411), so that the tab keeps the url
it had, for as long as the page stays there.

### Navigation

A frame goes through `starting → loading → idle`, sending `init` and
`networkAlmostIdle`; a new document of the main frame takes the child frames away.
The event thread looks at the events' names only (`FlagAfter`). `navigate_to` is
two steps, the call and the store of the flag, with anything of Chrome and of the
event thread in between. Two history variables serve the properties: `calm`
(`navigate_to` found the tab at rest and only its own load has happened since) and
`orphaned` (since the main frame last started to load, the flag was stored with
nothing to come, or a frame that was loading was removed).

### CallService and CallRefinement

`CallService` has a phase of the service (open, closed, over) and a stage of each
caller's call, and says which stages follow each other: a call is asked at most once
and while the service is open; it returns with the reply, a refusal or the end of
the service; and the end reaches every call that waits. There are no ids, no
registry, no nesting and no socket. `CallRefinement` reads the stage of a call off
`Transport`'s state, latest evidence first: the reply in the caller's channel, the
refusal of the carrying `SendMessageToTarget`, the cancellation, an answer on its way to the loop, a
request Chrome owes, and finally whether the caller still waits. `CallsAreServed` is
`CallService!Spec` under that mapping, a property of `transport_nominal` and a theorem.

### TabEvents

The event thread takes an event (`Receive`, which locks the listeners for the whole
of the loop's body), runs the listeners (`RunListener`) and then what the kind of
event asks for: the interceptor (`AskInterceptor`, `Decide`, `Answered`),
credentials (`ContinueWithAuth`), a binding (`CallBinding`, `BindingReturns`), the
parameters of a response (`ResponseReceived`), response or failure handlers
(`LoadingEnds`, `RunHandler`, `HandlersReturn`), or nothing (`OtherEvent`). `held`
says who holds each mutex, `poisoned` which a panic has poisoned.

An operation of a thread is in `op`, with `step` for how far it is: `AddEventListener`,
`RegisterHandling` (which first calls `Network.enable`), `RemoveEventListener`,
`DeregisterHandling`, `EnableRequestInterception`, `Authenticate`, `ExposeFunction`
(three steps under the bindings' mutex), `RemoveFunction`, and `Calls` for those that
are one protocol call. The event thread may do any of them too, inside a callback: a
callback's code is at most one operation. `AtLock` says when an operation is at its
`lock().unwrap()`: the register operations come to it only after their `Network.enable`
has returned, so that is also when a poisoned mutex ends them.

Chrome's side is what the calls do: it executes commands in order, except those a
dialog blocks; requests go from paused over running to responded, loaded or failed;
events come only from enabled domains. Three assumptions on callbacks and Chrome are
visible in the model: a callback does not want a mutex that is held for it (`MayDo`;
it would never return, in the code as in the model), one thread's operation is over
before its next begins, and a request is paused once.

### Elements

Every finder, wait and action is its sequence of protocol calls (`TabFinds`, `ElemFinds`,
`Acts`, ...); one action of the module is one call, so that another thread's calls and the
page's changes come between any two. Two facts about Chrome carry the module:
`DOM.getDocument` discards the node ids and the searches that were handed out before,
whoever holds them, while object and backend ids are good until the page is left. The
documentation of `Element::new` (`tab/element/mod.rs` 47-49) states the second.

What the code finds need not be the HTML element it takes it for: a text node by xpath, an
SVG element by a selector. `Sparse` is the set of such nodes. Of them Chrome's answers may
lack the value or the object that the code unwraps, so that `Element::new` (72),
`get_inner_text` and `get_content` (358-374), `is_visible` (605) and the polling for a
midpoint (`util.rs` 37) panic, and calls on them may be refused. `Focusable` nodes are those
that `DOM.focus` accepts while they have boxes.

`Miss` is what becomes of "no element found": a new attempt in a wait whose time has
not run out (`Wait::strict_until` tries first and looks at the clock afterwards), an
error elsewhere. `Fail` is every other error. Which error the code makes of what is
not the same everywhere, and the differences are kept: a query for all nodes is empty
for an element and a miss for the tab (`NoneOfAll`), an xpath without results is a
miss for `find_element_by_xpath`, an error or an empty list or a panic elsewhere
(`NoResults`), and `wait_until_visible` calls `is_visible` without looking at its
answer (`CheckVisibility`).

The page is followed as far as one selector goes: the first node it matches, whether
that has boxes and is in view.

Two history variables serve the properties: `changed[t]`, what has changed since `t`'s
operation began (another thread's document, the shape of the page, the node, the page
itself), and `since[t]`, what has changed since the element that `t` holds was looked
for. They are two because a thread may search again with the element still in its hands:
what the second search forgets, the element has lived through.

### Fetcher and Launch

`installed` is the content of the revision's directory in each of the two roots, `zip`
the archive beside it, and `writer` who created or truncated it last; each action is
one change of the file system. Launchers are not coordinated, as in the code, and
`Killed` stops one between any two changes. `torn` is a history variable: directories
in which an extraction was cut short.

`Launch` goes on from there: `ChoosePort` (bind and release), `Spawn`, `Replace` (the
assignment to `process`, which drops the Chrome before), `Ask` (reading what Chrome
writes), `GivesUp`, `Connect`, `DropBrowser`. `Dropped` is `TemporaryProcess`'s drop;
every error path of the code drops the process, and so every failing action contains
it. Chrome binds its port some time after it was started (`ChromeSpeaks`) and finds
it taken if another launcher's Chrome was quicker.

`Dropped` tries: killing or waiting may fail, which the code ignores (process.rs 73), and
the profile may not go, which it logs (75-77). A Chrome or a profile that the operating
system did not let go belongs to nobody (`None`) from then on; such a Chrome runs on,
with its port. `Fetcher` has the error of `base_path` for a file whose name is not UTF-8
(`Garbled`), and `SaysAnError` those of reading Chrome's output and parsing the address.
What Chrome wrote before it exited is still read. The requests of the fetcher and the
handshake of the WebSocket have no timeout: `OnNetwork` says where a launcher may wait
for ever.

### Geometry and NodeSearch

`Geometry` has the arithmetic of `ElementQuad` over the integers and no state: its
statements are theorems. `NodeSearch` runs `Node::find`'s visitor once on each tree.
It recurses, as a recursive function, and is checked on trees of up to four nodes.

## 3. The runs

State numbers are distinct states of the complete search.

| run | bounds | states | shows |
|---|---|---|---|
| `transport_nominal` | 2 callers, a call each, to target or browser | 228 k | `NoPanic`, `AnswersFindTheirCall`, `NoAbandonedEntry`, `CallsAreServed` while the connection ends in every way and no wait runs out |
| `transport_live` | 1 caller, 2 listeners, 1 event | 75 k | `EveryCallReturns`, `ListenersAreReleased` |
| `transport_faults` | 1 caller, 2 calls; waits run out, answers overtake, a tab's thread may die | 3.5 M | `TypeOK`, `NoStrandedCall`, `WaitersAreRegistered`, `AtMostOneReply`, `OwnAnswer`, `NothingSentAfterClose` |
| `transport_late_answer` | 1 caller, 1 call | violation | a late answer ends the connection |
| `tabs_register` | 2 pages, 2 registrars, 1 change each, one of them to a `devtools://` url | 4.2 M | `TypeOK`, `ListIsCurrent`, `EveryPageIsListed`, `PoisonedOnlyAtTheEnd` |
| `tabs_live` | 1 page, 1 worker, 1 opener, 1 registrar | 493 k | `OpenedTabIsComing`, `ListedTabIsFound`, `EventThreadEnds` |
| `tabs_twice` | 2 pages, 1 opener, 1 registrar | violation | a tab of `new_tab` is listed twice |
| `navigation` | 2 child frames, 3 documents, 4 events on their way | 168 k | `FlagSettles`, `CalmWaitSeesLoad` |
| `tab_events` | 2 threads and a callback, an operation each; 1 request, function and handler; calls may time out | 105 k | `TypeOK`, `RemovedStaysSilent`, `ExposedFunctionsAreSafe`, `EveryHandlerSeesTheResponse`, `PausedIsReleased`, `OperationsReturn` |
| `launch` | 2 launchers, 1 port, 2 entries, 1 kill, 1 further attempt, a misnamed file in the first directory, 1 Chrome or profile that cannot be removed | 660 k | `TypeOK`, `OnlyTornIsIncomplete`, `TalksToItsChrome`, `NothingIsLeftBehind`, `LaunchEnds` |
| `page` | a thread that finds, then acts, in every way, then acts once more (hovers, takes a screenshot or reads), one that gets the document, 2 nodes of which 1 is sparse, 1 change of the page | 282 k | `TypeOK`, `MissesAreRetried`, `WaitsMissNothing`, `FoundMatches`, `HandlesAreStable`, `InputIsInView`, `PanicsAreKnown`, `OperationsEnd` |
| `node_find` | trees of up to 4 nodes | violation | `Node::find` does not return the first match |

**Why these bounds are enough to be interesting.** A race of the transport needs
one call between two of its steps and the loop's tail, or two calls that share the
registry: two callers with a target call each have four ids at a time. A stale
answer needs a thread that calls again after a timeout, hence the two calls of
`transport_faults`. For the tab list, a duplicate or a loss needs a page beside the
one inserted, and two registrars contend for the mutex. For the flag, two child
frames overtake each other, and three documents let a load inherit what the two
before it left. In `tab_events` one thread sets something up, the other interferes
with it, and a callback does what callbacks of the examples and tests do: every pair
of such operations meets every stage of the request, the dialog and the event
thread; a second request would add a queue of the same. In `launch` one port is the
worst case: whoever is second finds it taken, before or after the test; one
further attempt reaches the limit; two entries let an extraction stop before and
after the executable; one thing that cannot be removed is a Chrome that keeps the only port
or a profile that stays. In `tabs_register` one page's change leads to a `devtools://` url
and the other's does not. In `page` a search of one thread and the document of another
is all that invalidates an id, and the page changes between any two calls; more
changes at one place could only add what one change there already excuses. The
theorems below remove the bounds for the properties they cover.

**Options of the launchers.** `launch` has two kinds. One installs the latest revision in
a directory of its own or, when that directory is there, finds it, and is given its port
and profile; the other is given its Chrome, looks for a free port and makes a temporary
profile. A home directory is there or not. Launchers may be of one kind or of both.

**Why the violations are not repaired in the model.** `AnswersFindTheirCall`,
`NoPanic`, `NoAbandonedEntry` and `CallsAreServed` are checked with waits that outlast the
connection, because with a wait that runs out they are false of the code: that is
the finding of `transport_late_answer`. Other properties name the exceptions that the
code makes, and say by that that there are no more:

* `FlagSettles` excludes the two ways in which the code leaves the flag set, and says
  that the next load repairs them. One is the store of `navigate_to`, which may come
  after the load's last event. The changelog (`src/CHANGELOG.md` 110) speaks of a race
  of `wait_until_navigated` that was fixed; this one is there.
* `ExposedFunctionsAreSafe` excludes `remove_function`, which can remove a function
  whose call is queued: the event thread's `unwrap` then ends it.
* `LaunchEnds` excludes two ways of waiting for ever. A Chrome that runs and says nothing
  of what is looked for: reading its output has no end, and the Wait around it looks at its clock between the
  readings. And the network: no request of the fetcher (fetcher.rs 229-231, 336, 430) and
  no handshake (web_socket_connection.rs 154) has a timeout.
* `NothingIsLeftBehind` says that whatever a launch has started is tried to be removed
  wherever the launch ends. That trying succeeds is up to the operating system.
* `ListIsCurrent` excludes changes to `devtools://` urls: a tab's url may be older than
  its page's by such changes, and by no others.
* `OnlyTornIsIncomplete` excludes directories in which an extraction was cut short:
  the code takes them for installations.
* `MissesAreRetried` and `FoundMatches` name the finders that return an error or an
  empty list where others report an element not found, so that waits on them end.
* `PanicsAreKnown` names an element's `find_element_by_xpath` without results, the
  polling for a midpoint when the page is left or the connection lost, and the operations
  that unwrap what Chrome need not answer for a `Sparse` node. `MissesAreRetried` has the
  last of these, too.
* `HandlesAreStable` speaks of HTML elements. It names the computed styles, which go by
  `node_id`; the boxes, which a screenshot and focus need; and what cannot have the focus.

**Deadlock** is not checked: every instance has final states in which the
callers have made their calls and the threads have ended. What must not hang is
stated as liveness instead.

### Fairness

* `Transport!FairSpec`: weak fairness of each caller's steps, of the loop and of
  `ShutdownSignal` (the second half of `Transport::shutdown`, which the browser's
  `Drop` calls and which does not block in between). Each is a running thread that never waits for anything
  but a lock that is held for a bounded time; polling sleeps and polls again; and
  `recv_timeout` returns after the idle time, which is why `LoopHearsNothing` is a
  step of the loop and needs no assumption on Chrome. Nothing is assumed of Chrome,
  the socket or the application. `EveryCallReturns` is checked with a bounded
  number of events: Chrome sending events for ever would keep the loop alive, and
  a call whose answer never comes waits for its own timeout then.
* `BrowserTabs!FairSpec`: the event thread, a polling `new_tab`, a
  `register_missing_tabs` that has begun, and the connection of a dropped browser
  (its `Drop` shuts the transport down). Not assumed: that anyone calls anything,
  or that Chrome does.
* `TabEvents!FairSpec`: the event thread; each thread's operation, where its protocol
  call may run out (`Wait` in `call_method`) as well as be answered; and Chrome
  executing the commands it has. A command behind a dialog is not executed, and what
  waits for it returns by its timeout. What the page, the server and the application
  begin is not assumed.
* `Launch!FairSpec`: launchers' steps except those on the network (`OnNetwork`). Not
  assumed: that a server or Chrome's WebSocket ever answers, or that a Chrome ever says
  anything, binds its port or exits.
* `Elements!FairSpec`: the next call of each operation, because Chrome answers or
  `call_method` ends (`EveryCallReturns`), and the passing of time in a wait. A call that
  ends by its own timeout would end the operation all the sooner.
* `Navigation` has no liveness: "the wait returns" is stated as the state in which
  it does, `FlagSettles`.

### Findings

1. `transport_late_answer` – a call that timed out leaves its id in the registry
   with a dropped receiver; when Chrome's answer arrives, `resolve_call` fails, the
   loop breaks and every other call and listener of the connection ends. The
   documentation of `idle_browser_timeout` speaks of silence only.
2. `tabs_twice` – `register_missing_tabs` "adds tabs that have not been opened with
   new_tab" (mod.rs 299), but also adds one that `new_tab` opened while the event
   thread is between attaching and pushing; the thread then pushes a second one.
3. `node_find` – `Node::find` "returns the first node for which the given closure
   returns true", "breadth-first" (`src/src/types.rs` 276-278). Its visitor goes down
   depth first and visits the later siblings of a match, each of which replaces
   it: of two matching siblings the last is returned.

## 4. The proofs

Checked by TLAPS for every value of the constants that satisfies the named
assumptions of the modules (bounds are naturals, flags are Booleans; `None` is no
id, no thread, no target, no node, no operation, no event and no directory; the main frame is no child frame; pages
and other targets, threads that open and threads that register are disjoint; the
archive's entries are finite and numbered; there is a port). Two results have a
hypothesis besides, which their run has too: `Undisturbed` in `CallRefinementProofs` and
`~WaitsExpire` in `PoisonComesLast`. Without it each is false of the code, as said there.

### TransportProofs

`Spec => []P` for `TypeOK`, `WaitersAreRegistered`, `NoStrandedCall`, `AtMostOneReply`,
`OwnAnswer`, and the action property `NothingSentAfterClose`: any number of threads, calls,
listeners and events, waits that run out or not, answers in any order.

None of the safety properties is inductive by itself: `NoStrandedCall` speaks of
the moment after the cancellation, while what saves a call is that the loop
shut the socket *before*. The invariant is

    IInv == TypeOK /\ Shape /\ RegistryInv /\ SocketInv /\ TailInv /\ OwnInv

* `Shape`: which frames have an id, by the caller's place;
* `RegistryInv`: ids are below the counter; an id belongs to one frame, and its
  entry to that frame; a frame with an id has a reply or an entry, never two
  replies, and until the cancellation never both;
* `SocketInv`: `open` is false only where the tail has closed the socket;
* `TailInv`: from the cancellation on, a frame that waits has its reply, and so has
  the target frame around it;
* `OwnInv`: the id of a request that Chrome owes, or of an answer on its way to the loop,
  is below the counter, and whichever activation has that id now is the one that sent
  the request, in the same call of its thread. `OwnAnswer` needs it because an answer is
  matched by its id alone: it survives timeouts only since no id is given out twice.

The proof that a step preserves it goes conjunct by conjunct, each with one step
per action; lemmas at the top of the module state what `RegisterCall`,
`DropReceivers`, `Removed` and the queue operations do.

### CallRefinementProofs

`NoPanic`, `AnswersFindTheirCall`, `NoAbandonedEntry` and `CallsAreServed`, for any callers,
listeners, calls and events, while the connection may end at any moment and in every
way, on one hypothesis:

    Undisturbed == ~WaitsExpire /\ ~OuterFirst /\ Mortal \subseteq {Browser}

No wait runs out, Chrome accepts a message for a target before the target's answer
overtakes it, and no tab's thread dies under its events. Each of the three is needed:
a late answer ends the connection (`transport_late_answer`); an event for a tab whose
thread is gone fails the loop's `expect` (`transport/mod.rs` 295); and when an answer
has overtaken the acceptance, and the connection then ends, the error path of the call
unregisters, and unwraps, an id that the answer has taken out
(`waiting_call_registry.rs` 61). The browser's own event thread may end.

The invariant is `IInv` of `TransportProofs` together with `CalmInv`:

* `Calm`: nothing is poisoned, nobody has panicked or is about to time out, and `open`
  is false exactly from the cancellation on;
* `HoldsEntry`: whoever may have to unregister a call still has it in the registry. The
  outer activation's entry goes only after its `SendMessageToTarget` was accepted;
* `Traffic`, while the loop takes answers: registered senders have living receivers
  (`EntriesAreLive`); a request that Chrome owes, or an answer on its way, has its asker
  waiting and registered (`UnderWay`), there is one of them per activation (`Single`), a
  carrying request carries the call of its own thread (`Wraps`), and the answer of a
  target comes after the acceptance (`InOrder`).

`CalmInv` is kept by kinds of step instead of by single actions: a caller's move (it
walks, files an entry, asks, hears, finishes or takes back), the loop's (it delivers,
cancels all or goes on) and the environment's. For the refinement `HeardInv` adds what a
channel may hold beside a registered sender, and each kind of step is then shown to be
a step of `CallService` or a stutter, by what it does to the callers' stages: the
sending of the request that Chrome will answer maps to `Ask`, the loop's delivery to
`Deliver`, the cancellation to `Cancel`, and all the bookkeeping of ids, nesting and
registry to nothing.

`NobodyWaitsForAnEndedService` follows from the promise alone: in `CallService`, with
any number of callers, nobody waits once the service is over.

### BrowserTabsProofs

`TypeOK`, `ListIsCurrent`, `EveryPageIsListed`, `OpenedTabIsComing`, and
`PoisonedOnlyAtTheEnd` where no wait expires, for any targets, threads and changes. The
properties speak of moments at which everything is settled; the invariant says what
holds in between, target by target:

    ListInv == Types /\ NoReaderNoEvents /\ EventsAreTrue /\ FreshIsTrue
               /\ TabsAreTrue /\ PagesAreComing /\ OpenersWantPages

* `NoReaderNoEvents`: an ended event thread leaves no events;
* `EventsAreTrue`: of each target, the channel has its beginning first, its present url
  last, and its end only if it is gone for good;
* `IsTrue(t, u)`, of a tab of `t` with url `u`: `t` is a page, its beginning is behind,
  each url that `t` has had since is a `devtools://` one or still to come as an event, and
  if `t` is gone its end is still to come. `FreshIsTrue` says this of the tab that is being made,
  `TabsAreTrue` of those listed, each once, while nobody registers missing tabs;
* `PagesAreComing`: every living page has a tab, has one being made, or has its beginning
  in the channel. Registrars only add to that, which is why `EveryPageIsListed` needs no
  hypothesis on them.

Every step is one of a few kinds (`Silent`, `Leaves`, a target that begins, changes or
ends, and the event thread passing over, making, updating, removing or pushing a tab),
and each conjunct is kept by each kind.

`PoisonComesLast` assumes `~WaitsExpire`: `register_missing_tabs` unwraps the answer of
`GetTargets` with the list locked, so a `GetTargets` that runs out poisons the list
of a connection that is up. The other call under the lock is `Tab::new`, whose failure is
passed over (mod.rs 317).

### NavigationProofs

`TypeOK`, `FlagSettles` and `CalmWaitSeesLoad`, for any child frames and bounds. The
key is the value that the flag will have once the queue has been handled:

    LastFlag == IF queue = <<>> THEN navigating ELSE queue[Len(queue)].name = "init"

`FlagHasCause` says that it is TRUE only while some frame has still to send its
`networkAlmostIdle` (or the history is `orphaned`), which every step keeps and which
gives `FlagSettles` when the queue is empty. `CalmLoad` describes an undisturbed
load: the queue holds nothing that clears the flag until the main frame is idle.

### TabEventsProofs

`TypeOK`, `RemovedStaysSilent`, `ExposedFunctionsAreSafe` and
`EveryHandlerSeesTheResponse`, for any threads with any operations, any callbacks, exposed functions and requests. The invariant is

    IInv == Types /\ Places /\ RunsWhatIsRegistered /\ UntilUnexposed /\ Handling

* `Types` adds the type of the commands under way: which method goes with which
  argument decides what Chrome can say back;
* `RunsWhatIsRegistered`: where the event thread runs a listener or a handler, it holds
  the mutex of that set and what it runs is in the set. An operation that removes it
  needs the same mutex, so it returns either before the snapshot or after the event;
* `UntilUnexposed`: until `remove_function` has been called, no mutex that bindings
  need is poisoned, and every name that Chrome knows, is about to know (an
  `addBinding` under way), or has in an event not yet handled, is in the map. Here it
  matters that `expose_function` inserts before it sends, and leaves the name in when
  a command fails; the same clause fails at once when the order is swapped;
* `Handling` leads from a registration to the handler's run. `CallsAreOwn`: a thread has
  one call under way at most, so the answer that a register operation sees is that of
  its own `Network.enable`. `NetworkIsOn`: a registered response handler means that the
  domain is on. `FinishedIsLoaded` and `Expectations`: for every handler and request that
  the property speaks of, the response is in the map, with the event thread or in the
  channel, before the end of the loading is; and once that has come the handler has run,
  is about to, or the event is still to be handled.

### ElementsProofs

`TypeOK`, `MissesAreRetried`, `WaitsMissNothing`, `FoundMatches`, `HandlesAreStable`,
`InputIsInView` and `PanicsAreKnown`, for any threads, nodes and sequences of operations.
The invariant is about one thread at a time, `ThreadInv(t)`:

* `Searches`: what is found is what matches, or something has changed since; a call that
  needs a node has one; and while nothing has changed since a wait's search began, the
  ids of the calls to come are good;
* `Holds`: the element that the thread holds is the matching one and its object id is
  good, unless `since` says what happened to it; after the first call of an input
  operation the element is in view, and so is the point that is then asked for;
* `Promises`: the six properties.

A thread's own calls are followed by their outcomes (`FinderProceeds`, `FinderRepeats`,
`FinderFails`, `ActProceeds`, `ActFails`) with `CallOrder`, the lemmas on which call
comes after which. What everybody else does to it, the page, time and the other
threads, is one relation, `Bystander`: its own variables stay, ids and page may change,
but never without an entry in its histories. `BystanderKeeps` is proved once and covers
all of them.

### LaunchProofs

`TypeOK`, `OnlyTornIsIncomplete`, `NothingIsLeftBehind` and `TalksToItsChrome`, for any
launchers, directories, ports, attempts and kills.

    IInv == TypeOK /\ FetchInv /\ LaunchPlaces /\ OwnsItsOwn /\ TalksToItsChrome

`OnlyTornIsIncomplete` is not inductive: with two launchers extracting to one directory,
that *somebody* extracts says nothing after one of them is done. `MissingIsSeenTo`, in
`FetchInv`, says which: of a directory that is not torn, every missing entry is still
ahead of some launcher that extracts there. `OwnsItsOwn` ties the Chromes and the
profiles that exist to the place of the launcher they belong to, from which
`NothingIsLeftBehind` is read off. What could not be removed belongs to no launcher, and
`OwnsItsOwn` says nothing of it, except that it is not in a launcher's way: the theorems
hold for any number of Chromes and profiles so left (`MaxLeft`).

### Geometry

For any four corners, not only those of an upright box: each comparison of two quads
holds exactly when it holds of every pair of their corners (`StrictOrders`,
`WeakOrders`); containment is transitive and excludes lying beside each other
(`BoundsNest`); the clicked midpoint is inside the bounding box (`MidpointIsInside`).
`ViewportIsTheBox` needs the quad to be upright: the viewport's width and height are
differences of three particular corners, and for a turned quad they are not those of
its bounding box. All follow from `Extremes`: the four extremes bound every corner and
are attained. Coordinates are integers where the code has `f64`; no theorem uses that
they are whole, but the solver's theory of them is what decides the leaves.

### What the proofs have changed

Two attempts failed because something was wrong with the model:

* `HandlesAreStable` and `PanicsAreKnown` did not follow for a thread that searches
  again and then uses the element it has, because the only history was reset by the
  search. `since` keeps the element's own, and the run has a third operation for it;
* a register operation could panic on a poisoned mutex before its `Network.enable` had
  returned, which the code does not: `AtLock`.

### Only model-checked

* liveness (`EveryCallReturns`, `ListenersAreReleased`, `ListedTabIsFound`,
  `EventThreadEnds`, `PausedIsReleased`, `OperationsReturn`, `LaunchEnds`,
  `OperationsEnd`): the prover handles neither fairness nor ENABLED;
* `Node::find`: what a recursive function computes for every input needs induction
  over data, whose theorems in the library take an operator as a parameter, which
  no installed backend instantiates.

Every safety property of the passing runs is a theorem.

## 5. Not modelled

* **Contexts**: `new_tab` is the browser's with an id added, and `get_tabs` only reads,
  with the list locked during calls as in `register_missing_tabs`.
* **Other tab commands** (PDF, screencast, storage, cookies, coverage, logging, window
  bounds, stealth mode, closing): each sends one protocol command or a few and keeps
  nothing in the crate.
* **The key table, the generated protocol, serialisation, conversions of bounds and
  cookies**: data and field-by-field translations.
* **`default_executable`**: look-ups in the environment without effect.
* **`wait_for_initial_tab`**: a read of the list, else `new_tab`.
* **Wrap of the call id** after 2^32 calls: `Transport` has the counter below the wrap.
* **A listener registered after the loop's tail has cleared the map**: `Listen` has it, as
  the code does not look at `open` there either, but no property speaks of it;
  `ListenersAreReleased` is about the listeners that the tail finds.
* **A launcher killed after it has started Chrome**: the code has nothing for it, and
  its Chrome and profile stay.
* **`f64`** in `Geometry`: rounding, NaN.

What Chrome does is assumed from how the code uses it, and marked external in the
map: commands are executed in order; the `Network` and `Fetch` domains send their events
only while enabled; a dialog blocks scripts and bindings; `DOM.getDocument` and leaving
a page discard ids as described under *Elements*; and a port is bound by one process.

## 6. Plan

In the order of importance:

1. **A second refinement**: the tab list as a set of pages with their urls that
   follows Chrome's, implemented by `BrowserTabs` as long as nobody registers missing tabs.
2. **Contexts** in `BrowserTabs`, and the composition of `BrowserTabs` with a
   `CallService` per caller in place of `conn`.
3. **Action properties** of the single modules, from the invariants above: an element's
   ids are never replaced, a request that is answered is never paused again.
