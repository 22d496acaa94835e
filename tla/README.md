# TLA+ models of mcp-browser-control

The program lets MCP clients drive Chromium browsers. A Go server
(`internal/`) speaks MCP to clients and WebSocket to browser extensions; the
extension (`chrome-extension/src/`) executes the commands. These modules model
the parts whose correctness depends on interleaving, failure and restart, and
what the two sides say of each other's messages. TLC checks them on small
instances, TLAPS proves safety properties of eight of them for all instances.
`PROJECT.json` holds the exact list of runs, mutants, theorems, hazards and the map from definitions to source lines.

## The system

| Part | State it keeps | Operations | Talks to |
|---|---|---|---|
| registry (`internal/registry`) | one entry per known browser: connection, capabilities, name, times | Register, Disconnect, Touch, UpdateCapabilities, Rename, PruneDisconnected, Route | transport, router, tools |
| connection (`websocket/server.go`) | bounded outbound queue, done signal, write pump | Send, Close, CloseWithCode | handler, router, shutdown |
| router (`internal/router`) | pending map, one-slot result channels, closed flag | Send, HandleResponse, FailConnection, Close | registry, connections |
| transport (`websocket/server.go`) | one handler per connection, tracked set, shutdown flag | ServeHTTP, Shutdown | all of the above, pairing |
| application (`internal/app`) | the order of shutdown | run | router, transport, stores |
| pairing (`internal/security/pairing`) | code, invalid-code account, credentials, their file | Pair, Authenticate, Revoke, CurrentCode, load | transport, operator |
| artifacts (`internal/artifacts`) | index, used bytes, two files per artifact | Put, Read, Delete, Cleanup, load | tools, resources |
| token, selection, mcpsession, ratelimit, policy, redaction, netguard | a file; maps under a mutex; buckets; tables | one method each per request | tools, HTTP |
| tools (`internal/tools`) | none of their own | one handler per MCP tool, the batch tool | router, selection, policy, artifacts |
| service worker (`service-worker.js`) | socket, connection id, timers, pairing state | connect, disconnect, reconnect, message handlers | server, command router, CDP |
| command router (`command-router.js`) | active requests | execute, cancel, dispatch | handlers |
| CDP sessions (`cdp-session-manager.js`) | one debugger session per tab, consumers, event queues | acquire, release, detachAll, events | chrome.debugger, handlers |
| handlers (`handlers/*.js`), content scripts | captures, leases | one per command | chrome APIs, CDP sessions |
| popup, options | none | runtime messages | service worker |

What is hard in it: on the server, goroutines of the same browser's old and new
connection, of requests and of shutdown meet in shared maps; every wait has a
deadline that races its answer; pairing and artifacts must survive a crash
between two file operations. In the extension, one thread, but every `await`
lets another handler run between a test and its use.

What makes each part correct: the registry offers only living connections and
forgets only offline browsers; a request ends exactly once, with the answer of
its own connection or an error, and leaves nothing behind; shutdown ends
everything; a code pairs once, a credential lives until it is replaced or
revoked; an artifact is whole or absent and the quota is true; a debugger
attachment lives as long as its consumers, no longer and no shorter; the worker
is connected or trying, while it should be; a command is accepted by the
extension if the server let it through, reads the document it was sent for,
undoes what it switched on and ends; a network log pairs headers, bodies and
pages of a read with the right request.

## Modules

| Module | Models | Composes |
|---|---|---|
| `Protocol` | message kinds (`protocol/message.go`) | |
| `Registry` | `registry.go` | Protocol |
| `Connection` | type `connection` | Protocol |
| `Router` | `router.go` | Registry, Connection |
| `Transport` | `Server` of `websocket/server.go`, shutdown of `app.go` | Router |
| `TransportProofs` | theorems of Transport | Transport |
| `Pairing`, `PairingProofs` | `pairing/manager.go` and its theorems | Sums |
| `Artifacts`, `ArtifactsProofs` | `artifacts/store.go` and its theorems | Sums |
| `CDPSessions`, `CDPSessionsProofs` | lifecycle half of `cdp-session-manager.js` and its theorem | |
| `CDPEvents` | event queue of one consumer, same file | implements LossyChannel |
| `LossyChannel` | what that queue promises: the abstract specification | |
| `CDPEventsProofs` | that it implements it, and its limits | CDPEvents, Sums |
| `Sums` | laws of sums over finite sets, least numbers | |
| `ServiceWorker` | `service-worker.js` | |
| `CommandSchemas` | validators and command table of `command-router.js` | |
| `ToolCalls` | argument checks, target and policy probe of `internal/tools` | CommandSchemas |
| `Jobs`, `JobsProofs` | `execute` of `command-router.js` and the handlers of page, CDP, emulation, performance and data commands, and theorems | |
| `NetworkCapture`, `NetworkCaptureProofs` | `handlers/network.js` and its theorems | |
| `MCRegistry`, `MCTransport`, `MCCDPSessions`, `MCJobs`, `MCNetwork`, `MCServiceWorker` | constants for TLC | |

Operators marked `Fault:` are deliberate bugs; no specification uses them. Each
replaces the definition after it to show that a property can fail.

### Server: Registry, Connection, Router, Transport

`browsers` is the registry's map. Its methods run under one mutex and are one
action each, except that Register reads the clock before it locks
(`registry.go:87`, `:105`), so two registrations can commit in either order.

A connection is `queue`, `pump`, `done` and the pump's verdict per message. The
message being written stays at the head of the queue while `pump` is
`"writing"`; `Backlog` subtracts it where the Go channel would have lost it.
Close codes and reasons are left out.

A `Router.Send` call is a control state per request, cut wherever another
goroutine can run: the first test of `closed`, Route, the insert, the three
selects of `connection.Send`, the final select, the removal and the cancel.
`TIMEOUT` is the end of the context, by deadline or by the caller.
HandleResponse, FailConnection and Close delete under the mutex and push
afterwards; only the final select reads the channel, so they are one step.

A handler of `ServeHTTP` goes through hello, Register, closing the connection it
replaces, tracking, welcome, reading, and the deferred cleanup in the code's
order: untrack and Disconnect, FailConnection, Close, finish. Shutdown takes its
snapshot and runs one closer per connection. `app.run` closes the router before
the transport.

The extension is external: it answers a written request at most once, at any
time or never, over any connection of its browser that is still read. `Inputs`
chooses what else it sends, `MayShutDown` whether the application stops.

### Pairing

A call stamps its time, waits for the mutex, looks at code and limit, writes the
file while it holds the mutex, then commits to memory. The process can die at
each of these points and restarts from the file. Codes and credentials are
numbers drawn once; hashing is left out. The rename either happened or did not,
and one that happened survives. A random source that fails ends a call like a
save that fails. Not modelled: a manager without a file, Authenticate (it only
reads), and the report of an error by the deferred removal of the temporary file
after a rename that succeeded.

### Artifacts

One operation at a time, file operation by file operation, each of which may
fail; a crash can fall between any two. `writeAtomic` is one step, as `load()`
removes the temporary names. The quota may change at a restart. Foreign or
damaged files in the directory are not modelled.

### CDPSessions and CDPEvents

A session object is identified with the `acquire()` that created it, a consumer
with its call. A handler runs to its next `await`; the promises it settles
resume their waiters (`ResumeReady`, `ResumeAuto`, `ResumeDisable`) before the
next event is taken (`Quiet`). `chrome.debugger` is external: it executes calls
in order, and replies and `onDetach` events of a tab arrive in order. `dispose()`
is never called by the extension and is left out, as are child-session and
frame indexes and allowlists. `CDPEvents` is the queue of one consumer, as
consumers share nothing there. Under the mapping of its queue to the messages
that wait, its drop count to what was lost and its reports to what was told, it
implements `LossyChannel`: what handlers of events may rely on.

### ServiceWorker

The globals of the worker are the variables. Every asynchronous function is a
sequence of segments in `run`, one per task (a UI command, the hello, message
chain and close of a socket, a call of `connect`), cut at the awaits after which
it reads or writes what others change; awaits between which it only reads are one
segment. Each revocation has its timeout in `timeouts`, beside the one that is
pending: the answer, the close of the socket and the timeout itself each clear
one of the two or both. Storage and the alarm survive when the worker is
unloaded, everything else is lost. The browser keeps a worker that has a socket,
as the keepalive is for, so only one without is unloaded (`Terminate`); a crash or
the user may stop it at any moment (`Kill`, in a workload that allows it). The server
answers a hello as `Transport` does: `valid` and `offer` say whether it accepts the
credential and the code. A ping's answer, latency, and the hand-over of requests to
the command router change nothing of this state and are left out, as are messages
that fail validation.

`KeepsTrying` is the promise behind timer and alarm: when the current socket has
closed, another will be opened, unless the settings, a refusal or the user say
otherwise, and whether or not the worker is unloaded in between. It is about states
with no handler between its check of the socket and its effect, no `disconnect` under
way, no timer armed without its alarm and no stop of a busy worker to come; what
happens there is under the divergences. A revocation settles in one of many ways, and
`NoLeakedTimer` says that after each of them the armed timeouts are those of the
callers that still wait, one each: a caller without one might wait for ever.

A `Workload` bounds what a behaviour may do, so that one specification serves for
commands that cross, sockets that cross and a worker that is stopped: the initial
state picks one of the constant `Workloads`, and `load` is what is left of it.

### CommandSchemas and ToolCalls

A validator is a record: the rule of each property, the shape of target it takes,
and the condition that relates several properties. A value carries what rules
look at: a string its length in characters, UTF-16 units and bytes. A tool is the
parameters its Go handler builds, each with the edges of its own check: `ToolCalls`
sends every tool with one argument at each edge and the others typical, through
`resolveTarget`, the policy's `tabs.get` and the command itself, each of which the
extension accepts or refuses. Sessions, rate limits and results are left out.

### Jobs

A handler is a list of steps, as in its source: look up the tab and its access,
pin or compare the document, acquire, send a command, switch something on (which
pushes its undoing, the `finally`), pause, lock, release. A step marked `Live` is
followed by `throwIfCancelled`. Commands wait in `wire` until Chrome executes
them; a cancelled handler stops waiting (`Abandon`), the command is executed all
the same. A workload gives each request its handler and says whether targets name
the document, which documents are accessible, and whether another consumer keeps
the session. Chrome is external: it may refuse any question, navigate, or detach.
What results look like is left out. `tabs.js`, `windows.js` and the like are one
call of Chrome and would add nothing. What a capture reports counts as read while it
runs (`Pause`), trace and audits included. Viewport captures and PDFs, which promise no document, are not
of `Pinning`. A script that changes the page's storage is a step like one that reads
the page: it may go on after an abort has ended the wait for it (`storage.js:107`,
`:571`), and nothing is claimed of that.

### NetworkCapture

`captures` is the map of `network.js`; each start has its capture, lease and
control state. A command is cut at its awaits. Events of a request come in Chrome's
order, ExtraInfo events at any time near their hop; a hop may have none. An entry's
size grows with what is known of it. `partial` marks requests of which a capture
has not seen or kept everything: an event came while it did not listen, the limit of
pending ExtraInfo events dropped one, an entry was evicted or cleared. That limit is on
their number; the one on their bytes (`network.js:456`), which drops them in the same
way, is left out. Redaction, MIME types and the shape of the HAR are
left out; filters of a read select entries and are one of them, the cursor.

## Runs

| Run | Instance | Shows |
|---|---|---|
| registry | 2 browsers, 2 connections, 2 times | connection, state and routing of an entry agree |
| reconnect | 1 browser; 2 connections and 1 request, or 1 connection, 2 requests and every input; queue of 1 | no ghosts, live browsers listed, completion by the right connection, nothing left pending, no second push |
| shutdown | 1 browser; 1 connection, 1 request, a flooding peer and the shutdown, or 2 connections | nothing is served afterwards; calls return, replacement and shutdown end |
| cdp | 3 consumers (2 child-aware, 2 with one id), 2 tabs, 1 session, 1 detach by the user | attachments, leases and counts agree, every call settles, nothing unused stays |
| cdp_events | 8 events of 4 sizes, queue of 3 events and 4 bytes | the limits, and `LossyChannel` with its progress |
| pairing | 2 browsers, 2 callers, 1 crash, 4 ticks of a window of 2 | one-time codes, durability, final revocation, the limit on guesses |
| artifacts | 3 artifacts, 2 faults, 1 crash | quota and account, files as indexed, no return, expiry |
| worker | six workloads: 2 sockets and 2 `connect` calls, or 2 sockets and a `DISCONNECT`; 1 socket and 2 of connect and disconnect, or 3 revocations, of 2 pages; 1 socket and one other command, with and without a stop at any moment | one timer, every waiting caller has its timeout, keeps trying, credentials deleted only when revoked |
| tool_calls | every tool, every argument at every edge, characters of 1 and 3 bytes | the extension refuses nothing the server let through, but in three named cases |
| jobs | 16 handlers against a moving page, 13 against Chrome only, 5 pairs that meet | the pinned document, everything undone, truthful emulation, every request ends |
| network | 3 commands, 2 tabs, 2 requests of up to 2 hops, log of 2 entries, 1 slot | leases and captures match, log consistent, headers, bodies and pages right |

`page_targets` finds a disagreement: `README.md:339` says that page tools accept
`frameId` and `documentId`, but `enforceTargetPolicy` sends `tabs.get` with the
call's whole target (`tools.go:1181`), and the extension refuses a tab command that
names a frame or a document (`command-router.js:2736`). A policy is always set
(`app.go:77`), so such a call never reaches its page.

### Divergences found beside the runs

* A request written between FailConnection and the close of its connection is not
  failed by the disconnect (`server.go:352`, `PRD.md:151`); it waits for its timeout.
* A request that expires in the queue is still written and never cancelled
  (`router.go:164`, `TASKS.md:336`).
* A consumer that joins an attach its first consumer gave up loses the session
  (`cdp-session-manager.js:398`, `docs/cdp-session-manager.md:37`).
* Worker: a message of an abandoned socket, applied after its await, or the rest of a
  `disconnect` clears the alarm of a timer that was armed meanwhile
  (`service-worker.js:367`, `:661`), and `scheduleReconnect` sets none while it is
  armed (`:629`; the exceptions in `Lost`): unloaded with that timer, the worker has
  nothing that loads it again. A `CONNECT` that stores autoConnect and finds the socket
  alive while a `DISCONNECT` is about to drop it leaves autoConnect on with neither
  socket, timer nor alarm (`:172`, `:248`, `:655`). Two `connect` calls open two sockets
  (`:275`). The late answer to one revocation settles the next (`:413`): over an
  abandoned socket, even one of another connection (the exception of
  `RevocationIsConfirmed`, which quotes `chrome-extension/INSTALL.md:152`).
* Worker: "Terminating the MV3 service worker causes automatic reconnect"
  (`docs/release-checklist.md:85`), but a welcome clears the alarm
  (`service-worker.js:391`), so a welcomed worker that is stopped is loaded again only
  by the popup, a navigation or the start of the browser; the test of it opens a page
  to wake the worker (`internal/e2e/two_browser_test.go:177`).
* Tools: a browser-wide command is given the selected tab as target and refused
  (`tools.go:1239`). A performance capture whose timeout is its duration and a second
  is refused (`performance.go:190`, `performance.js:92`). Limits on text count bytes
  or characters in Go and UTF-16 units in JavaScript, which differ beyond the basic
  plane (why `tool_calls` leaves such characters out).
* Handlers: viewport captures and PDFs ignore the target's document
  (`docs/screenshots.md:67`, `page.js:175`, `:403`). A command that switches
  something on and is abandoned is executed later and not undone
  (`docs/performance-diagnostics.md:57`; the `lost` of `BrowserRestored`). A
  cancelled reset leaves overrides behind (`docs/emulation.md:72`; `spoiled`). A
  cancelled click leaves the button pressed. A download answers its timeout and goes
  on (`downloads.js:98`).
* Network: after a clear, an eviction, a dropped event or a start in mid-request, extra
  headers go to another hop (`network.js:430`; `partial`). The same happens when a hop
  without ExtraInfo events comes before one with them, since only a response says that it
  has none, and never a request: `ExtrasPaired` speaks of the others (`Regular`), and the
  workload with the chain `<<FALSE, TRUE>>` is such a case. ExtraInfo of requests that never show up
  stays pending (`:450`). A request body asked for during a redirect may be that of
  the next hop, so `ResponseBodyIsOfEntry` speaks of response bodies.

* CDPSessions, with four calls of one tab, `MaxConsumers = 1` and `MaxDetaches = 2`:
  `LeaseKeepsAttachment` fails, which quotes `docs/cdp-session-manager.md:37` ("The root
  session remains attached while at least one consumer is active"). An `onDetach` event
  names the tab and not the attachment, so the news that an old attachment ended makes
  `handleDetach` (`cdp-session-manager.js:515`) give up the session that has replaced it,
  whose attach may be unanswered. When the answer comes, `attachSession` finds no
  consumers (`:288`) and detaches by tab (`:585`), which takes the attachment of a third
  session. No `onDetach` follows a detach that the extension asked for: the third lease
  stays active, with nothing attached. With one detach the property is proved
  (`ActiveLeaseIsAttached`, a part of `SessionsMatchLeases`).
* CDPSessions: a release that waited for a pending auto-attach
  turns it off under a child-aware consumer that joined meanwhile.

### Bounds

Each connection, request, call and credential is used once, so behaviours end:
hence `CHECK_DEADLOCK FALSE` where they do. Two connections of one
browser are the least with a replacement, two requests over a queue of one the
least with backpressure behind a message being written. Time does not advance in
the composed runs, where nothing compares times. Two faults in Artifacts are
needed for a failed metadata write followed by a failed removal. In Pairing,
`MaxWait` bounds how long a call waits for the mutex; it is 0 in the run, since
a stamp taken before a long wait weakens the limit on guesses, while the proofs
of the other properties cover every wait. In CDPSessions two calls share a
consumer id and the third may name a second tab: the least that reaches every
refusal beside a shared session. `reconnect` and `shutdown` each check the union
of two instances, by a constraint (`ConnectionsOrInputs`, `ConnectionsOrShutdown`)
that stops a behaviour which would need both at their full size; the safety
properties of both are proved without it. In ServiceWorker two sockets are the least at
which one is abandoned for another; a `WebSocket` object is used again once nothing
refers to it, so connections are not counted. The workloads with two sockets have one
UI command at most, which crosses the timer, the alarm and the events of the sockets;
two commands cross only in the two workloads with several commands over one socket:
two of each are beyond a run. In `jobs` two
documents suffice for every gap between two checks, and the pairs are those that
share a queue, a CDP domain or the end of the session. In `network` a log of two
entries and one slot are the least at which eviction meets a redirect and a start
meets a full table; a read returns one entry, so that reading takes two.

### Fairness

Transport: goroutines that can run do; a Send has a deadline, a hello a read
deadline, a write a write deadline, a read of a closed socket fails. Nothing is
assumed of the browser, the caller, pings or the shutdown deadline. CDPSessions:
the event loop runs and the browser answers. CDPEvents: callbacks settle.
ServiceWorker: segments that can run do, sockets open or fail, the server answers
a hello and closes what it refused, timers, timeouts and alarms fire; nothing is assumed of
the user, who may never load the worker again. Jobs: Chrome answers and executes, timers fire; without that a handler
may wait for Chrome for ever. Artifacts: an operation runs to its end; a tick of RunCleanup gets the mutex
again and again (strong fairness: the ticker repeats and Go's mutex serves
waiters in turn).

## Proofs

All theorems hold for every value of the constants, from the named assumptions
beside them (non-empty bounds, distinct model values, maps of the right type).

`TransportProofs`: type correctness first, component by component, with the head
of the queue present while it is written. The router's invariants need that an
entry is in `pending` exactly while its Send is between insert and removal, and
that a result is in a mailbox only when its entry is gone; the shutdown
invariants, that a handler past tracking is tracked and has a closer once the
snapshot is taken; the listing invariants, that the registry's connection of a
browser has not been disconnected by its handler. `AnswersAreCorrelated` and
`FailuresAreTargeted` are action properties from the type invariant.

`PairingProofs`: `PairingInv` strengthens the properties with `MutexHeld` (the
mutex is held exactly from the look at the credentials to the return),
`FileFollows` (the file is the credentials in use, or those plus the change of
the holder), `DrawnOnce` (credentials are distinct, new ones were never revoked),
`CodeUnused` (the active code is the newest and unused, but for the holder) and
`CallsStamped`. Without `CodeUnused` nothing excludes that a code was redeemed
before; without `FileFollows` a crash could restore anything.

`GuessesStayLimited` bounds a sum over every interval of time, and has an invariant of
its own, `Windows`. `Fresh` and `Open` say what the counter stands for: while a window
is open, all invalid codes since its start are in the count; at its start, what an interval
that reaches it can still hold of the time before is at most `MaxAttempts - 2` (a window
that had reached the limit is followed by a block as long as itself, `BlockHolds`).
`Prompt` and `NoneAhead` keep recorded times in order; they are where the proof needs that
a call does not wait for the mutex across a tick. An interval then splits in the part before the
current window and the part within it.

`CDPEventsProofs`: `QueueImplementsChannel`, that every initial state and every
step of the queue is one of `LossyChannel` or a stutter. The invariant it needs:
drops are accounted for (`totalDroppedEvents = reported + droppedEvents`, or a
report that is late would tell of the wrong number), and with no loop running the
queue of an active consumer is empty (or an event would be overtaken by the next).
What `Shed` and `SubSeq` return on queues is stated in lemmas. `QueueStaysWithinLimits`
adds that the byte account is the sum over the queue and that both limits hold after
every arrival, since `Shed` drops the least number of events that suffices.

`Sums`: a sum over a finite set grows and shrinks by one element's value, splits, and
is monotone, and changes by what one of its elements does; a non-empty set of numbers has a least one. The fold behind `SumFunctionOnSet` is shown to be the
number of cells in the function's bar chart, so that the laws are laws of
cardinalities. This needs an induction, and the library's induction theorems take a
predicate as parameter, which no installed prover can instantiate. The subsets on which
the two differ are a *set* instead; the strict subset order is well-founded on it, and
a minimal member gives the contradiction.

`ArtifactsProofs`: `ArtifactsInv` holds of every step of every operation. It says
which entries, files and bytes a `Put`, a removal or a `load` has reached at each of
its file operations, that the account is exact at each of them, that an artifact in
`stored` is whole, that one in `gone` has lost what `load` needs to index it again, and
that an orphan is owed to an operation in progress or to a second failure. Without the
statement about `gone` and the metadata file, nothing excludes that a restart finds
the artifact whole; without the account inside an operation, `EnforceQuota` could stop
early. `QuotaAlwaysHeld`, `FilesAlwaysMatch` and `GoneNeverReturns` follow.

`CDPSessionsProofs`: `SessionsAlwaysMatch`, the longest argument. The manager's half,
`ManagerInv`, relates calls to sessions: a consumer is in exactly the session that its
call names, a managed session is the tab's only one, the count of child-aware
consumers is the size of their set. The browser's half, `BrowserInv`, relates each
tab's sessions to what Chrome still owes: every reply in the inbox belongs to a session
in the state that waits for it (`RepliesFit`), an attachment is that of the tab's
managed session or there is a reply or an event under way that will end it
(`AttachmentKnown`), and while at most one detach came from outside, at most one
event or late reply can hit a session that it was not meant for (`OneDetach`). The last
one is what a second detach breaks (see the divergences above). The proof goes tab by
tab: lemmas `Tab...` say that a step on one tab's inbox keeps `TabInv`, lemmas
`Manager...` that a handler keeps `ManagerInv`, one `...Kept` lemma per action combines
them.

`NetworkCaptureProofs`: all six properties of the run. `CaptureInv` is what
`LeasesHaveCaptures` and `CapturesAreOfDocument` need: an active capture is one of a start
that has put it in the map and has neither failed nor been superseded, the capture object
and the session manager agree on the lease at every step, and a tab's capture is of its
document also while its start is under way (`TabFits`). With the properties alone, a capture
that ends could leave a lease that it does not remember and that nobody releases. The
operations of the log are shown to leave a capture's head (tab, document, active, lease)
alone. All steps but two are instances of one lemma, `SettlesKeeps`: some captures end and
give up their leases, the others only log, and a tab loses only a capture that ends or had
ended. The two are the start of a capture and the arrival of its lease.

`LogInv` is about what the captures have logged (`LogsInv`) and what the commands have
found there (`CommandsInv`); TLC checked it on the instance of the run before it was proved.

* `Shape`: the log is the newest records without a gap, so that entries, the sum of their
  bytes and the pages of a read are intervals of sequence numbers; each index names entries
  under their own request. `Evict` is shown to keep this for every number of entries it
  drops and `UpdateRecord` never to drop the newest one, which is where the proof needs
  that an entry fits the buffer (`MAX_ENTRY_BYTES <= MAX_BUFFER_BYTES`).
* `Fits` and `Follows` relate the log to Chrome: a record is of a hop that was sent, one
  that has loaded is of its request's last hop, and the current record of a request, if it
  has one, is of the hop that the request has reached. The second would fail for a capture
  that misses events; a capture hears from the lease on, and one that does not hear again
  has lost its indexes.
* `Full`, for a request of which the capture has everything: there is a record of each hop
  that was reached, in order; a record lacks extra headers exactly when Chrome has not sent
  them; and those of the next hop, at most one of each kind, are pending. From this
  `NextExtraRecord` is shown to be the record of the event's hop, and `DrainPendingExtra`
  to find in the queue the one event of the new hop.

Every step but an event of Chrome is `Quiet`: it keeps the log, creates one, takes its
indexes from a capture that no longer hears, or clears it and makes every request that was
begun `partial`. One lemma, `QuietKeeps`, is then the whole argument for `LogsInv`. For
`CommandsInv`, `Carries` says that records keep their request and hop and that what has
loaded stays loaded: so the body that Chrome returns after two awaits is that of the hop
that `GetBody` chose, although the log may have moved on or been cleared.

`JobsProofs`: the three invariants of the run. The proof of the first, `ResultsAreOfPinned`,
knows the handlers only by `ProgramsAssumption`: a handler pins one document, reads after that, and after each read
comes a comparison (`stay`) that follows a look at the site. TLC evaluates the assumption for the
program of every handler, so a handler whose last comparison were dropped would falsify it. `JobsInv`
says of a request (`Pinned`) that documents read and shown since the pin are the pinned one or later,
that after the look at the site the pinned document is accessible or no longer shown, and that the
reads are of the pinned document unless a comparison is still to come. A navigation only ever leads to a later
document, so a comparison that succeeds shows that the tab has not left the pinned one at any await
in between. `WireFits` says that each command that somebody waits for is of another request: without
it an answer could resume a request that is elsewhere in its program, in particular one that gave
the command up.

What the handlers restore (`BrowserIsRestored`) rests on `FinallyAssumption` instead, also evaluated by TLC: a handler
turns off what it turned on, the last first, before its release; it activates a tab in its turn in
the window's queue, after it asked which one is active. `RestInv` makes of this:

* `Tidy`: the `undo` list of a request holds what its program has opened and not closed, in the
  order of their nesting, and a tab to activate back only while it is first in the window's queue.
* `Sent`: a command that somebody waits for is that request's present step, or the head of its
  `undo` list, and a lease stands behind it.
* `Listing`: what is `on` in the session and not `lost` is in the list of a request that holds a
  lease; so when all lists are empty, `on` is a subset of `lost`.
* `Activity`: another tab than the user's is active only while the first in the window's queue has it
  to activate back. Without this a second capture could remember the first one's tab as the user's.

The list is only ever taken from at its head (`Without`), as nested blocks are. `Released` adds that
a request that has ended has no lease: only a running one takes one, and its end gives it up. So
`BrowserIsRestored` says of the state in which all requests have ended that none holds the session,
that what is `on` in it is in `lost` (enabled by a command that nobody waited for any more, or a
button left pressed) and that the user's tab is active. Streams of traces are not part of it.

`EmulationIsTruthful` adds `EmulationAssumption`, evaluated by TLC too: a handler of emulation.js
changes overrides only in its turn for the tab and after it took or gave up the tab's state; it
resets every group, each before it sets it; and what it commits at the end is what it has set.
From that moment until it has committed or dropped the state, its `undo` list has a `drop` at
the end and, for a replacement, the resets before it. `TruthInv`, checked by TLC on the instance
of the run before it was proved, says of the tab (there is a single one in Jobs):

* `Recorded`: the shape of that list, and that only the first in the tab's queue has one.
* `Working`: while such a request is at work, each group it has reset (in its program, or
  later in its finally block) has what it has set there since; and once there is such a group, no command of an
  abandoned operation is left that could still change it. If the session was lost meanwhile, there
  are no overrides, and nothing under way that would set one.
* `Ordered`: a command that somebody waits for is that request's, and Chrome executes it after
  the abandoned ones. So the first reset that is answered shows that they are all gone.
* `Calm`: while no request is at work the overrides are the committed ones and no command is under
  way that changes them; or an aborted reset has left its mark (`spoiled`).

Without `Ordered` a late `set` of a cancelled replacement could follow the resets of its
own finally block, or of the next operation.

`TransportProofs.SnapshotsAgree` proves the registry's own specification, where
times advance and names change, from the fields each method assigns.

Only model-checked: all liveness (temporal properties under fairness are beyond TLAPS);
ServiceWorker, most of which is liveness, with `NoLeakedTimer` and `RevocationIsConfirmed`; and the tables of
CommandSchemas and ToolCalls, which have no parameters to generalise over.

## Plan

1. Proofs: the timers of ServiceWorker, and that revocations are confirmed.
2. `Broker`, an abstract specification of request handling (a request is accepted,
   answered at most once by its browser, or failed), implemented by Transport.
3. Client side of the server: sessions, selection and rate limits under concurrent
   tool calls and Terminate; the batch tool.
4. `console.js`, the console hook and the network-idle counter; the child-session
   index of CDPSessions.

## Not modelled

Configuration and documentation output, the access token, artifact resources, Host
and Origin checks: parsing and I/O without state of their own. Redaction, DOM
location and reading in content scripts, image and PDF checks: text and layout work
whose control is trivial. The UI pages send messages that `ServiceWorker` takes as
inputs. Sessions, selection, rate limits, the batch tool, console capture and the
network-idle counter are left for the plan above.
