# Formal model of aiMCPGate

aiMCPGate is an MCP gateway: AI clients speak to it over stdio or HTTP, it
launches or dials a set of upstream MCP servers, merges their catalogs into one
and routes calls to whoever owns a name. This directory holds TLA+ models of the
parts of the gateway whose correctness depends on the order in which goroutines,
timers, child processes and client messages happen to run, the TLC
configurations that check them on small instances, and theorems proved with
TLAPS for every instance.

Paths below are relative to `src/`. Every definition that stands for code is
listed with its file and lines in `PROJECT.json` under `map`.

## 1. Inventory

| Component | Code | State | Operations | Modelled in |
|---|---|---|---|---|
| Server-to-client request pipeline | `internal/registry/serverreq.go` | `pendingServerReqs`, timers, `serverReqSub`, `clientCaps`, id counter (`serverReqMu`) | `onUpstreamRequest`, `publishServerReq`, `takePendingServerReq`, `RouteUpstreamResponse`, `RefusePendingServerReq`, `dropPendingServerReqs`, `closeServerReqs` | `ServerRequests`, `RequestReply` |
| roots/list single-flight and cache | same file | `rootsCache`, `rootsWaiters`, `rootsFetchID`, `rootsStale` (`rootsMu`) | `onUpstreamRootsList`, `rootsDeliver`, `rootsExpire`, `InvalidateRootsCache`, `dropRootsWaiters` | `RootsFlight` |
| Catalog refresh | `internal/registry/registry.go` | `relistTimers`, `relistStates`, `relistClosed` (`relistMu`), the coalescing signal | `onUpstreamNotification`, `runRelist`, `relistUpstream`, `replaceUpstreamIfCurrent`, `notifyCatalogChanged` | `Relist` |
| Upstream lifecycle | `internal/registry/registry.go` | `conns`, supervisors and their contexts, `phase`, `cfg` (`mu`, `lifecycleMu`) | `Start`, `launch`, `supervise`, `restart`, `Reload`, `retireAndClose`, `Close` | `Lifecycle`; one name's share of it in `ServerRequests` and `Relist` |
| Catalog projection and routing | `internal/registry/registry.go` | `tools`, `resources`, `resourceTemplates`, raw lists, reported defects, the cached slice (`mu`) | `mergeLocked`, `dropLocked`, `installLocked`, `remergeUpstream`, `Tools`, `resolveResourceOwner` | `Catalog` |
| Call path and retry | `registry.go`, `limits.go`, `client.go` | limiter, semaphores (`limitMu`) | `CallTool`, `callWithConnRetry`, `semFor` | `Calls`, `AtMostOnce` |
| MRTR bridge | `internal/registry/mrtr.go` | waiter stacks, parked calls (`serverReqMu`), each waiter's open questions (`waiter.mu`) | `CallToolModern`, `ResumeToolModern`, `deliverMRTRQuestion`, sweep, teardown | `Mrtr`, `RequestReply` |
| Operator events | `internal/registry/events.go` | throttle windows (`eventMu`) | `noteThrottled`, `flushEvents` | `Journal` |
| stdio upstream connection | `internal/upstream/stdio.go` | `waiters`, `closed`, the child | `call`, `deliver`, `respond`, `readLoop`, `failAll`, `closeAndWait` | `Calls` (waiter table), `ServerRequests`, `Relist` (reader, exit, respond) |
| HTTP upstream connection | `internal/upstream/http.go` | session id, GET stream, last event id | `call`, `respond`, `runSSEStream`, `streamSSEOnce`, `scanSSEEvents`, `Close` | `HttpUpstream` |
| MCP protocol over a connection | `internal/upstream/protocol.go` | none of its own | handshake, `CallTool`'s re-initialize, paginated lists | `HttpUpstream` (the first two) |
| HTTP client transport, sessions | `internal/transport/http.go`, `session.go`, `http_serverreq.go` | session store, ownership of delivered requests, orphans | `create`, `touch`, `reinit`, `terminate`, `deliverServerReq`, `takeServerReq`, `handleSSE`, `routeServerRequests` | `Sessions`, `Unicast` |
| stdio client transport | `internal/transport/stdio.go` | handshake gate, the loop's channels | `Serve`, `writeOrBail` | `StdioServe` |
| Dispatcher | `internal/transport/dispatch*.go`, `lazy.go` | `cancels` (`cancelMu`) | `dispatch`, `dispatchToolsCall`, `handleCancelled`, `paginatedToolsList` | `Calls` (cancellation), `Catalog` (paging), `StdioServe` (gates) |
| Configuration reload | `internal/cli/serve.go`, `internal/config/config.go` | the change detector, the signal channel | `runServe`, `pollConfig`, `watchReload`, `applyReload` | `ConfigReload` |
| Journal | `internal/logging/logging.go`, `internal/cli/logs.go` | the log file, `--follow`'s offset and partial line | `writeLine`, `ReadEntries`, `runLogsFollow`, `followLog` | `Journal` |
| Messages, redaction, one-shot commands, demo | `internal/mcp`, `internal/logging/scrub.go`, the rest of `internal/cli`, `cmd`, `internal/demo` | files, flags | parsing, validation, output | not modelled (section 5) |

### How they interact

* A child's `readLoop` goroutine calls into the registry: `onUpstreamRequest` for
  a request, `onUpstreamNotification` for a notification, and hands responses to
  the waiters of `call`. It is started inside `launch`, long before the
  connection is installed under its name.
* The registry publishes requests to the client transport through a bounded
  channel; the transport answers through `RouteUpstreamResponse` or gives the
  request back through `RefusePendingServerReq`.
* Answers, deadlines and refusals take a request off the pending map first and
  look the connection up by its *name* afterwards, under another lock.
* Supervisors, reloads and Close change what a name denotes; each of them drops
  what was parked under the name, in a step of its own after the change.
* Catalog writes are made under `mu` and announced after the unlock, on a channel
  of capacity one that coalesces.
* Start, Reload and Close exclude each other under `lifecycleMu`; supervisors do
  not take it and meet them under `mu` alone, which is why Close may wait for them.
* The dispatcher runs each `tools/call` on a goroutine, under a context that a
  later message of the client may cancel; over HTTP one dispatcher serves all
  sessions.
* A question an upstream asks is put to one stream of one HTTP session. The
  session store hands what a removed session owned to `drainOrphaned`, which calls
  the registry with no lock held.
* The poller and the SIGHUP watcher both end in `Registry.Reload`, and both may
  come before the registry has started.

### What is hard, and what makes each part correct

| Part | Hard behaviour | Property |
|---|---|---|
| request pipeline | answer, deadline, give-up and drop race | one response per request (`AtMostOneResponse`), a deadline that is never lost (`DeadlineCovers`), settled exactly once and eventually (`RefinesRequestReply`) |
| ... with the lifecycle | a name changes hands in the middle | nothing parked for the departed (`NoStaleParked`), no live stranger answered (`NoSplitDelivery`), the asker does get its response (`OwedReachesAsker`) |
| roots | one question for many askers, answers that cross announcements | `FlightIsSound` (one question, nobody wedged, nobody answered twice), `CacheIsFresh`, `WaitersAreServed` |
| MRTR bridge | delivery, retry, sweep and the call's own end race for a question that has no timer | one response per question (`AnsweredOnce`, `ImplementsRequestReply`), none without somebody to respond (`NoOrphan`), both settled in time (`CallsAndQuestionsEnd`) |
| catalog refresh | an `AfterFunc` reset while its callback runs, connections replaced during an RPC, coalescing | `SingleFlight`, `NeverOlder`, `WritesAreCurrent`, `NoSilentChange`, `HeardGetsListed` |
| sessions | a session goes away under a delivery, an answer, a write or a re-initialize | `NoneStranded`, `NoResurrection`, `ImplementsUnicast`, `SettledOrAwaited` |
| calls | cancellation, two semaphores, a crash between registration and write, the one retry | `NoLostWakeup`, `ImplementsAtMostOnce`, `EveryCallEnds` |
| HTTP upstream | sessions expire between any two requests, the stream breaks in the middle of an event, Close races the start of the stream | `ConnectionIsFaithful` |
| lifecycle | crash, restart, reload and Close overlap | `ChildrenAreAccounted`, `CloseReturns` |
| catalog | keep-first merges in an order of their own, re-projection after the swap, paging across changes | `CatalogIsHonest` |
| config reload | edits at boot, half-written files, a registry that has not started | `EditIsJudged` |
| journal | throttling, the flush of Close, a file read while it grows or is truncated | `JournalIsFaithful` |
| stdio transport | lazy start, pushes before the handshake, a client that stops reading | `HandshakeFirst`, `Serves` |

The full list of hazards, each at its line and with the properties that cover it
or the reason why none does yet, is `hazards` in `PROJECT.json`.

## 2. Modules

| Module | Role |
|---|---|
| `RequestReply` | abstract: every request is decided or dropped, once, and eventually |
| `ServerRequests` | the pipeline and the lifecycle around it; implements `RequestReply` |
| `ServerRequestsProofs` | its theorems |
| `Relist` | catalog refresh of one upstream |
| `RelistProofs` | its theorems |
| `RootsFlight` | roots/list single-flight |
| `RootsFlightProofs` | its theorems |
| `Mrtr` | the MRTR bridge of one upstream; implements `RequestReply` |
| `MrtrProofs` | its theorems |
| `Unicast` | abstract: a question is put to one session and settled once, by it or by nobody |
| `Sessions` | HTTP client transport and session store; implements `Unicast` |
| `SessionsProofs` | its theorems |
| `AtMostOnce` | abstract: a call runs once at most, is answered only if it ran, and never runs if refused |
| `Calls` | dispatcher, guards, retry and stdio connection; implements `AtMostOnce` |
| `CallsProofs` | its theorems |
| `HttpUpstream` | the connection to an HTTP upstream |
| `Lifecycle` | Start, supervisors, Reload, Close, over child processes |
| `LifecycleProofs` | its theorems |
| `Catalog` | the merged catalog and a client that pages through it |
| `ConfigReload` | poller, SIGHUP watcher and the file they read |
| `Journal` | event throttle, call log, `logs --follow` |
| `StdioServe` | the stdio client transport |
| `Parts` | `HttpUpstream`, `Lifecycle`, `ConfigReload`, `Catalog`, `Journal` and `StdioServe` side by side |
| `PartsProofs` | theorems about its components, side by side |
| `MCServerRequests`, `MCRelist`, `MCRootsFlight`, `MCMrtr`, `MCSessions`, `MCCalls`, `MCHttpUpstream`, `MCParts` | instances for TLC |

Definitions marked `MUTANT of X` stand beside the definition they damage. They
are not part of any specification: each one is a plausible slip in the code, and
the property it is paired with in `PROJECT.json` is violated when it takes X's
place.

### ServerRequests

A request is a pair of the connection that asked and that connection's own id; a
gateway id is a position in `minted`, so ids are unique as `mintServerReqID`'s
counter makes them. `pending`, `armed` and `fired` are the pending map and the
two halves of a deadline: the runtime timer, and the callback's goroutine, which
`Stop` no longer reaches. `Take` is `takePendingServerReq`, the arbiter.
`Lookup` and `Write` are the two later steps in which the response finds its
connection by name and is written by a goroutine of its own.

The environment is the lifecycle as the code orders it: `Launch` (reader live,
not installed), `Merge` (Start, Reload), `Replace` (restart), `Discard` (failed
or overtaken launch), `Retire` then `DropUpstream` (reload),
`DropUpstreamIfCurrent` (supervisor gives up), `DropPending` (the drop by name,
after the unlock), `Exit`, and Close in three steps. `strays` are connections a
supervisor is still launching after a reload retired it.

Simplifications: one transport is subscribed, as in the program (one transport
per process). All connections are stdio children. `retireAndClose`'s
retirement and close are one action, since what may happen between the two
commutes with the close. A supervisor that was retired before its launch began
is the same as one retired just after. `DropUpstreamIfCurrent` may happen while
the retired supervisor's launch is still in flight, which is slightly more than
the code allows. The MRTR interception that precedes `publishServerReq` for
modern calls is the module `Mrtr`; here it claims no request.

### Relist

`entry` is `relistTimers[name]`; a callback that has started is a runner in
`expired`, and `Forget` deletes whatever the map then holds, so a timer re-armed
in between becomes one of `orphans`. `running` and `dirty` are
`relistStates[name]`. `stdout` is one FIFO per connection: notifications and
`tools/list` replies keep their order. A tool list is its version. The history
variable `heard` records what a connection announced while installed, `missed`
that a re-list RPC failed, `unseen` that the catalog changed since the client
last drained a signal.

`serving` says that `Start` has returned: clients, reloads and `Close` wait for
that. `Start`'s own merge is announced to nobody (`Install`), since nobody can have
listed before, whereas a supervisor that restarts during `Start` does announce.

Simplifications: otherwise every catalog write owes one signal (Reload sends one
for all its writes; the extra ones only coalesce). The reply to a call that
has failed stays in the stream as one to nobody (`Late`) and is dropped when it is
read, since its id is no longer in the waiter table.
Reload's filter-only re-projection leaves the version alone and is left out.

### RootsFlight

`publishing`, `pending`, `delivering` and `expiring` say who holds the one
question: the first asker's reader, the map, or the party that took it and is
about to unwind the flight under the other lock. The client's messages arrive in
any order, as over HTTP. How each response travels to its upstream is in
`ServerRequests`; that the channel may be full is there too, and here
`PublishFails` is always possible. Forwarding `list_changed` to the upstreams has
no effect on this state and is left out.

### Mrtr

`stack` is the upstream's LIFO of waiters, `channel`, `open` and `closed` are one
waiter's, `run` is its detached call, and `pc` says who owns the call and how far
its owner has come: the collector of the first request or of a retry, or the
sweep. The park record is `pc = "parked"` with its questions in `reply`; taking it
is leaving that place, so a retry and a sweep exclude each other as
`takeMRTRParked` makes them. `window` is `parkDeadline`: unset until the first
park, then the one deadline of every later one. A question goes through
`Intercept` (pending entry), `TrackOpen` and `Send`; the two refusing arms are
`RollBack` (the waiter was closed meanwhile) and `SendFails` with `RefuseUnsent`
(its buffer was full).

Simplifications: all questions are of one method with a plain spec entry;
`roots/list` through a modern call (`deliverMRTRRoots`) shares `RootsFlight`'s
state and is left out, and so are calls whose owner is unknown, which have no
waiter. Tokens are random, so one that is not current finds nothing and changes
nothing; the peek and the take of a retry are one action, and so are `forgetOpen`
and the routing of one answer. A client answers only what it was asked. The
limiter and semaphore a call may wait for are part of `run`. A drop by name and
Close's drain leave waiters and open sets alone, as in the code.

### Sessions

A session is an id that is `live` or `gone`; ids are random, so none returns.
`owner` and `pendingReqs` are `reqOwners` and each session's own record, `orphaned`
what removed sessions left, `refusing` what a drain has lifted out and not refused
yet. A POST is one handler: it finds its session (`Touch`) and reads its body
later, which is where `terminate` or expiry may overtake `Reinit`, `TakeServerReq`
and `RouteAnswer`. A GET goes from `OpenStream` through the cap and the
registration of its channel to the loop (`TakeEvent`, `WriteEvent`, `WriteFails`)
and through its deferred calls in their order (`RemoveReqStream`, `RefuseQueued`,
`StreamEnded`). The router takes a published question, sweeps records the registry
no longer knows, and puts it to one stream with its record in one step
(`DeliverServerReq`). `EnsureRegistry` and `ModernPost` are the two ways the
registry is started and the capability pinned.

Simplifications: one capability for all; which of several streams is preferred is
left open; idle time is left out, so a session without streams may be found
expired at any time; a failed write may have reached the client or not; broadcast
notifications and the checks of headers and tokens are left out.

### Calls

A call moves `issued` (its frame was read), `dispatched` (registered in `cancels`),
`limiting`, `queued`, `sending`, `writing`, `waiting`, `returned`, `done`. `permit`
and `queuedOn` name a generation of the semaphore: `semFor` makes a new one
whenever `max_concurrent` changes, and a call keeps the one it took. The
connection is one of a succession; `writing` is the goroutine of `call` that may
outlive its call, because nobody can call a pipe write back, and `inbox` is the
waiter's channel, which holds a response or was closed by `FailAll`. `RetryOrFail`
is `callWithConnRetry`: only what was refused by a closed connection before it was
sent is tried again, on a connection resolved anew and past the guards. "refused"
is any error that tells the client that the call was not sent.

Simplifications: the rate limiter may pass or refuse at will; a result is
"answered" whatever it contains; audit records are `Journal`'s; the upstream may
answer only what it has been given. `Reply` forgets what the call kept, to keep
finished calls alike.

### HttpUpstream

`session` is `c.sessionID`, 0 the empty header. A request carries the id of the
moment it was made and may be answered after another goroutine has cleared or
replaced it; `Receive` clears whatever id the connection has by then, as the code
does, and re-initializes for `CallTool` alone and once. The stream's goroutine
connects, reads an event's id line and its data in two steps, and backs off after
anything but an explicit refusal; Close cancels, reads `streamDone` and waits.

Simplifications: the server answers 404 to a session it has forgotten and 400 to
a request without one; the GET of a connection without a session is answered 400,
which the code treats as a failure to back off from; a transient failure of a POST
may have run the call or not; redirects, headers and size limits are left out.

### Lifecycle

A child is the number it was started under and a supervisor has the number of the
child it was started for. `batch` is what Start or Reload has still to do for each
name, with the order the code gives it: removed upstreams one after the other,
then one goroutine for each changed or added one, then the merge by kind and
configuration order. A supervisor waits, reaps, decides by the policy in force,
backs off, launches under the process context and installs, the check of its
retirement and the write in one step. Close is called at any time and then waits
for `lifecycleMu`, for the supervisors, and closes what is installed.

Simplifications: a launch setting stands for everything `SameLaunch` compares; the
handshake succeeds or fails at will; Start aborts early only when nothing came up;
a child is reaped by the close that kills it. HTTP upstreams, which have
neither a process nor a supervisor, are left out.

### Catalog

Every action is one hold of `mu`. A client-facing name is a number, in the order
the names sort; `Facing` says what the filter of each configuration makes of a
tool. `Merge` is `mergeLocked` onto a base that the callers cut with `dropLocked`;
`Remerge` is the reload's re-projection of the stored raw list, which runs after
the configuration has been swapped and meets upstreams dropped meanwhile. `defects`
is what was reported as hidden, `cached` the slice `Tools` hands out. A page is the
first `PageSize` names after the last name the client got.

Of two tools that come to one name the first keeps it, whether they are of two
upstreams or of one: `Keeps` are the ways to choose, among an upstream's own
tools, one for each name that is free, since which of them stands first in its
list is not modelled.

Simplifications: an upstream lists and matches a fixed set of uris, and its
templates stay together in the list, so a template is its upstream; a raw list
that repeats a name and a template that does not compile are left out; prompts
are merged like resources and left out, as are descriptions and their truncation.

### ConfigReload

The k-th save of the file has the stamp k and says `good`, `empty` or `broken`.
`Observe` is the change detector; the poller's reload and the SIGHUP watcher's are
two steps each, the read of the file and `Registry.Reload`, so that saves, the
start of the registry and the other watcher come in between. `judged` are the
saves that got a final verdict, accepted or refused.

Simplifications: every save changes the stamp (`configStamp`'s comment owns up to
the exception); the wait between retries is not counted; a save while the file is
read is a save before or after; only a save makes a file that was moved away
present again. A file moved away and back unchanged is outside `EditIsJudged`: were
it away exactly at the poller's load, that attempt would be final, its stamp
settled, and the file not looked at again until it is saved once more.

### Journal

`held`, `fresh` and `emitting` are the throttle's counters, windows and the line a
goroutine carries out of `eventMu`. The occurrences of an event are numbered
(`noted`), and where the code has a count (`suppressed`, a line's `count`) the model
has the set of the occurrences it counts, whose size the count is: that nothing is
counted twice or lost is then said of each occurrence by itself. `Bearers` are the
places where one is counted. A line is two bytes, its text and its newline,
so that a reader may see the one without the other. `follow` has `--follow`'s
offset, the size it found, its partial line and, as history, how many lines were
complete when it began. A read that fails (`ReadFails`) leaves the offset where
`Poll` has put it. A line that does not decode
(after a truncation in its middle) makes `ReadEntries` drop it, with or without
what follows in the same read: its resynchronization depends on the bytes.

Simplifications: a file is truncated in place or not at all, rotation by renaming
is left out, and so are payload records.

### StdioServe

A frame is what the loop can tell about it. The loop is at its select, in the
start of the registry, in a write, or over; a write holds the loop until the
client reads or the context ends (`writeOrBail`). `signal`, `notifs` and `asking`
are the three channels the registry fills without blocking. Calls run on
goroutines and write through the same writer.

Simplifications: the reader goroutine's channel is the client's stream; what the
registry does with a request is the other modules' matter; a start succeeds or
fails without an upstream. Every call is replied to: that a call the client has
cancelled gets no reply is left out.

## 3. Runs

| Run | Instance | States | Shows |
|---|---|---|---|
| `ServerRequests_pipeline` | one name, two connections in succession, one id each, channel of 1, Close | 482 000 | the five safety properties through restarts, reloads and launches that overtake each other, `OwedReachesAsker`, and that the pipeline implements `RequestReply`, liveness included |
| `Relist_follow` | two connections, two runners, one change | 361 000 | single flight, no stale or older write, no unannounced change, and what an installed connection announced gets listed |
| `RootsFlight_roots` | three upstreams, one change | 322 000 | one question, no wedge, nobody answered twice, no stale cache, and nobody waits for ever although the client never answers |
| `Mrtr_bridge` | two calls, two questions, a buffer of one | 290 000 | each question settled once and by somebody, every call ends, the bridge implements `RequestReply` |
| `Sessions_http` | two sessions, two streams, one POST, one question, one stream per session | 520 000 | the question is put to one session and answered by it alone, no session comes back, nothing is left for the registry's deadline to find |
| `Calls_path` | two calls of one client, two connections, `max_concurrent` 1 and then unlimited | 587 000 | no caller waits without a waker, a call runs once at most, every call ends |
| `Parts_each` | see below | 279 000 | the properties of six components, each on its own instance |
| `ServerRequests_misdelivered` | as the pipeline's | | counterexample: a response reaches the asker's successor |
| `Relist_quiet` | one connection, two changes | | counterexample: an announcement before the install is lost |
| `Mrtr_twice` | one call, two questions, a buffer of two | | counterexample: a park hands out a question already answered |
| `Calls_silenced` | two clients, one id | | counterexample: a client's cancellation silences another client's call |
| `HttpUpstream_bricked` | one caller of tools and lists, three sessions, no failures | | counterexample: a session lost on a list is never replaced |

`Parts` puts six components that share no modelled state side by side. `turn`
is chosen in the initial state and picks the one that runs, so that the state
space is the sum of theirs, and each one's fairness is stated for the
behaviours in which it has the turn. The instances: `HttpUpstream` with one
caller, two sessions, one transient failure, two events (33 000 states);
`Lifecycle` with two names, three configurations of which the first changes an
upstream and the second replaces it by another, four children, one restart
attempt (55 000); `ConfigReload` with three saves of any contents, one signal, two
retries (29 000); `Catalog` with two upstreams, two tools and two uris each, two
filters under which tools of both, and of one, collide and part, pages of one
(47 000); `Journal` with one throttled event and the call records, three
occurrences, one truncation, `--tail 1` (68 000); `StdioServe` with seven kinds of
frames, two of them sent, one push of each kind, a buffer of one (45 000).

### Bounds

Two requests are enough for one to overtake, fill the channel for, or be dropped
with another; two connections are one installed and one replacing it, or one that
a reload launches while the other is still in flight (the safety properties that
a third would matter for are proved, section 4). A channel of one message is full as soon as it
is used. Two debounce expiries can be in flight at once; a third would only find
the same marks. Three upstreams make a first asker, one that rides along and one
that starts the next flight while the first flight's answer is still under way.
Two modern calls are one on top of the stack and one that is taken over when the
first ends or lacks the capability. Two sessions are the owner of a question and
one that should not answer it, or the one removed and the one that takes its
place; two streams on a limit of one make the second refused on the same session
and a choice over two. Two calls compete for one permit or one id; the second
limit leaves one queued on an old semaphore. Three saves are the file at boot, a
bad one and its repair. Two names in three configurations make each of removed,
changed and added meet a restart of the other.

`OrderedSpec` in an MC module keeps, of behaviours that differ only in which of
several like elements goes first, the one in which the first does (in
`MCCalls` also: the tools/call, if only one of the two is; a call sent early and
taken up late stands for one sent late). The bounds are the
`Max...` constants, `Ids`, `Buf`, `SubBuf` and `LastConn`; calls, requests, questions and
connections happen once each.
`CHECK_DEADLOCK FALSE` stands where the system may stop: after Close, or with
every request, version or save spent.

### Fairness

Weak fairness is assumed of goroutines that hold no wait (a callback that has
started, the taker of a request, a drop that is owed, a handler between two
blocking calls), of timers, of readers with input, and of whatever a timeout ends:
RPCs and modern calls by the call timeout (30 s unless configured), a launch by
the same, a close by the kill after the grace period, a write to an HTTP stream
by its deadline. In `Calls` each queued call is admitted when its semaphore has
room for it for good, which the FIFO of `semaphore.Weighted` gives. Strong
fairness stands in two places: for the branches of `StdioServe`'s select, since a
select that is ready again and again takes every ready branch in the end; and in
`HttpUpstream` for a client that goes on calling tools, without which
`LostSessionIsReplaced` would be refuted by a client that goes quiet.

Nothing is assumed of clients, of upstreams, of a child process, of an operator,
of the registry's deadline in `Sessions`, or of a pipe write, which a stuck child
can block for ever: the liveness properties end at "handed to a writer", at "lies
before the client of a live session", or at the child's exit. `EditIsJudged` needs
no retry limit to be generous: the poller never gives up; the SIGHUP watcher does.

### Where the code and its comments disagree

1. `registry.go:1744` says a dead predecessor's requests "can never be answered
   through the fresh connection"; the entry changes hands before the drop, and
   the lookup by name in between writes the predecessor's response, under the
   predecessor's id, to the fresh connection (`ServerRequests_misdelivered`).
2. `registry.go:853` says a `list_changed` arriving immediately "is not missed";
   one that arrives between the launch's `tools/list` and the install, and whose
   debounce expires before the install, is (`Relist_quiet`).
3. `mrtr.go:78` calls what a park hands out "a batch of questions the client must
   answer". A question delivered while its call is parked is in the open set and
   in the channel: a partial retry's re-park surfaces it from the first, the
   client answers it, and the next collection surfaces it again from the second
   (`Mrtr_twice`). The second answer is ignored, but the call does not go on until
   the client has retried once more.
4. `dispatch.go:515` says a cancellation is of the call "the client is abandoning
   (by its OWN request id"; over HTTP the table is shared by every session and
   keyed by that id alone, so it may be another client's call (`Calls_silenced`).
5. `upstream/http.go:63` says of an expired session that the client "MUST start a
   new one"; only `CallTool` does, and only if it is the one that meets the 404
   (`HttpUpstream_bricked`).

Met on the way, in the models and without a run of their own:

* `serverreq.go:226` says a refusal goes back "immediately"; before the connection
  is installed it finds no connection under the name and goes nowhere.
* `cli/serve.go:138` rests the safety of two watchers on both applying the same
  edit; with two edits the older load may be applied last, until the next one.
* An SSE event's id counts as received when its line is read: a stream that
  breaks before the event's end resumes after it, and the event is lost.
* After `max_concurrent` changes, calls that hold permits of the old semaphore and
  calls that hold permits of the new one together may exceed the limit.
* A re-list or a re-projection moves an upstream's templates to the end of the
  list, so a uri that two upstreams' templates match may change its owner.
* A line of the journal torn by a crash may take lines after it with it when it is
  read back.

## 4. Proofs

`tlapm` checks the following theorems for every value of the constants. Each
invariant was checked by TLC on the run's instance first.

* `ServerRequests`: `Typing`, `ExactlyOneDecides`, `DeadlineNeverLost`,
  `RetiredLeaveNothingParked`, `NeverSplit`, `NothingOwedIsDiverted`, and
  `ImplementsRequestReply` (the safety part of the refinement). The inductive invariants are built up in
  layers. That a request is decided once needs: gateway ids are unique per
  request, an unread request has no answer, and a parked one has none. That
  nothing stale stays parked needs to know where a connection is in its life
  (launching, installed, retiring, stray, gone), that these exclude each other,
  and that a reader which may still park is followed by a drop that is still to
  come: the bare `NoStaleParked` is not inductive because it says nothing about
  the drop a live, retired reader still owes. `NothingOwedIsDiverted` is an action
  property: a request owed to the connection that asked it stays owed until it is
  taken, and a taken one finds that connection at the lookup, unless the connection
  dies or `Close` begins first.
* `Relist`: `RelistTyping`, `RelistIsSingleFlight`, `StaleRelistsWriteNothing`,
  `EveryChangeIsAnnounced`, `ListedNeverOlder`. `SingleFlight` is inductive once
  the running mark is tied to the runners' positions. `NeverOlder` relates a
  write to the one before it; `ListInv` bounds every version under way: a reply in
  a connection's stream, or in the hands of a runner, is no older than what is
  listed of that connection and no newer than the upstream's own list, each
  runner has one reply to come at most, and nothing at all is known of a
  connection before it is launched. `WhatIsHeardIsPursued` says that no
  `list_changed` of an installed connection is lost: what it announced is listed, or a
  timer, a runner with a round to go or a reply to come, recent enough, is on its
  way. `PursuitInv` follows who that is through debounce, the `again` mark, a failed
  list and a write that another one overtakes; it rests on `ListInv`.
* `RootsFlight`: `RootsTyping`, `RootsFlightSound`, from `RootsOneQuestion`,
  `RootsNoWedge` and `RootsAnsweredOnce`, and `RootsCacheFresh`. `CacheIsFresh`
  needs that an answer under way which is older than the client's roots finds
  either the stale mark set or the announcement still to come.
* `Mrtr`: `MrtrTyping`, `QuestionsAnsweredOnce`, `NoQuestionOrphaned` and
  `BridgeImplementsRequestReply`. The last three need that a question not yet
  delivered has no response, that whoever refuses or has finished has closed the
  waiter first, and that only delivered questions are in open sets, batches,
  replies and retries.
* `Calls`: `CallsTyping`, `CallersAreWoken`, `CallsRefine`, `SemaphoreAdmits`. One
  invariant carries all: how far a call has come determines its permit, its entry
  in `cancels`, its place in a waiter table, what its channel may hold, and
  whether the upstream has received it: not before its write ends, once if it was
  answered, never if it is refused. The last is what the refinement of
  `AtMostOnce` rests on: a write that outlives its call may still have it run, and
  the call's verdict is then never "refused".
  `QueuesMove` adds that nobody queues in vain: whoever waits for a permit, of a
  semaphore that a reload has replaced perhaps, can take one or waits for another
  call in its attempt.
* `Sessions`: `SessionsTyping`, `QuestionsAreAccounted`, `RemovedForGood`,
  `SessionsRefine`, `StreamsAreTallied`. The invariant says that `reqOwners` and the sessions'
  `pendingReqs` mirror each other, that a handler keeps the session it found
  although it may be removed meanwhile, that removed sessions are not in the map,
  that a question has been put to nobody while it is published or routed, and that a
  session's count of its streams is the number of those that have started and not
  ended, which a bound on the count alone would not show.
* `Lifecycle`: `LifecycleTyping`, `ChildrenAccounted`, `WatchersAreAlone`. The
  invariant says who holds a child at each place of a row of Start or Reload and
  of a supervisor: a supervisor that is not retired watches what is installed
  under its name and is the one `supCancel` points to; a row that has retired it
  has the name to itself; no child is in two hands, and one that is in nobody's
  has been reaped. `CloseIsNeverStuck`, from the same invariant: no row of Start or
  Reload waits for another in a circle, the merge always has a next result, and
  Close waits only for supervisors that were told to leave.
* `HttpUpstream`, in `Parts`: `HttpIsFaithful`. A call that may yet run has not
  run; what has been handed in comes before what is being read, which is what the
  last event id names; and once Close has cancelled, no stream starts.
* `StdioServe`, in `Parts`: `ServeHandshakeFirst`. A registry that is started was
  started by the first frame that needed it, and told what that frame says; a
  reply has one writer, a call's goroutine or the loop. `ServingForgetsNothing`: each
  request, question and change still owed to the client is in a place from which a
  step delivers it.
* `Catalog`, in `Parts`: `CatalogNeverLies`. What is in the catalog is of an
  installed upstream, and what is not was reported in `defects`, for all but the
  upstreams a reload has yet to re-project; a cache that is valid is the catalog;
  and up to its cursor a client that pages has seen all that stayed and nothing
  beyond. What a page leaves for the next one follows from lemmas on finite sets
  of naturals and on the cardinality of their initial segments.
* `Journal`, in `Parts`: `JournalAddsUp`. Its invariant `LogInv` has three layers.
  `ReportInv`: each noted occurrence has one bearer, what is counted was noted, who
  is in the middle of an append has its line in the journal, and nothing is flushing
  before Close or lost before the log is closed; every step then moves the bearers
  of an occurrence from one place to another (`OneMoves`). `ReadInv`: what was shown,
  what is pending and what the reader has yet to read of the file stand in this order,
  each in the order in which it was written; a file that shrank below the offset is
  read anew, and all of it was written later. `WholeOK`: while nobody truncates it, the
  file is each line's two bytes in turn, the reader has read a prefix of it, and
  what it showed is the tail it began with and the wanted lines since. What a
  selection from a sequence is follows from lemmas on finite sets of naturals and
  their one increasing enumeration (`Ordering`, `IncreasingIsOne`, `Selected`,
  `OrderedUnion`).
* All six components of `Parts`: `PartsTyping`. Most of `Typed` follows from the
  invariants above, two parts of it only so: no upstream's templates stand in the
  list twice, so the list is no longer than there are upstreams (`TemplatesAreFew`),
  and what `--follow` shows and keeps was written. `ConfigReload` and `StdioServe` add the
  rest: no stamp under way is of a save yet to be made, retries, pushes and questions
  keep to their bounds.
* `ConfigReload`, in `Parts`: `EditsAreRemembered`. While the gateway serves, the change
  detector never takes a save for applied that nobody has read, so the next tick sees
  it; and what is in force was read and parsed. It needs that what the poller has
  loaded is no older than the stamp it fired for.
* `PartsRun`: a behaviour of `Parts` is one of each component's own `Safety`. The
  theorems about these components are proved of the component by itself
  (`ConnectionAlone`, `ServingAlone`, `CatalogAlone`, `JournalAlone`,
  `EditsAreRemembered`, `ServingForgetsNothing`); the first four are carried over to `Parts`,
  and `LifecycleInParts` carries over the lifecycle's.

Assumptions are those declared in the modules: connections, calls, streams,
upstreams and client-facing names are finitely many where something counts them; limits,
buffers and bounds are natural numbers, positive where the code makes them so;
the values that stand for "none" are not members of the sets they complement
(`NoneAssumption`, `NobodyAssumption`, `GivenUpAssumption`, `NoConnAssumption`,
`JournalAssumption` and their like); a frame declares that the client can be asked or that it cannot (`StdioAssumption`); a
configuration gives each upstream a launch setting or nothing
(`ConfigsAssumption`), all of them list the upstreams in one order
(`OrderAssumption`), and each gives a tool a name or nothing (`CatalogAssumption`).

Only model-checked:

* All liveness: `OwedReachesAsker`, `HeardGetsListed`, `WaitersAreServed`,
  `CallsAndQuestionsEnd`, `SettledOrAwaited`, `EveryCallEnds`, `CloseReturns`,
  `EditIsJudged`, `Serves`, and the liveness half of `RefinesRequestReply`. It
  rests on fairness, hence on ENABLED, which the provers do not reason about. What
  can be proved of it is its safety half, that what is owed is always in somebody's
  hands: `NothingOwedIsDiverted` for `OwedReachesAsker`, `WhatIsHeardIsPursued` for
  `HeardGetsListed`, `RootsNoWedge` for `WaitersAreServed`,
  `NoQuestionOrphaned` for `CallsAndQuestionsEnd`, `QuestionsAreAccounted` for
  `SettledOrAwaited`, `CallersAreWoken` and `QueuesMove` for `EveryCallEnds`,
  `CloseIsNeverStuck` for `CloseReturns`, `EditsAreRemembered` for `EditIsJudged` and
  `ServingForgetsNothing` for `Serves`. TLC checked each of these first.

## 5. Not modelled

* Wire formats and message types (`internal/mcp`), redaction
  (`internal/logging/scrub.go`), the parsing and validation of the configuration
  beyond whether a file loads and whether two upstreams launch alike, and the
  demo server are pure functions or plain input and output.
* `doctor`, `catalog`, `call`, `client-config` and `logs --stats` run from start
  to end in one goroutine and keep nothing.
* The truncation of descriptions and results (`registry.go`), the lazy catalog's
  search (`lazy.go`), completion and `logging/setLevel` are functions of one
  request, or fan out without state.
* `roots/list` through a modern call (`deliverMRTRRoots`) and calls whose owner
  is unknown; the roots cache and the bridge are modelled apart.
* Prompts in the catalog, which take the same path as resources.
* Broadcast notifications on HTTP streams, and the checks of headers, origins and
  tokens on every request.
* Redirects, body size limits and header handling of the HTTP upstream; the
  collection of a child's stderr.

## 6. Plan

Every invariant, action property and safety refinement that a run checks is proved.
What is worth adding is the catalog's prompts, and its list of templates as the code
keeps it, one entry per template.
