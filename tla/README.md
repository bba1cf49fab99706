# A verification of Fomalhaut.jl

Fomalhaut is a web framework in two halves: a Rust library (`src/fomalhaut_rs`)
that owns the sockets, and a Julia package (`src/Fomalhaut`) that owns the
handlers. They live in one process and talk over a C interface. This directory
holds TLA+ models of that system, the TLC runs that check them and the proofs
that TLAPS checks.

## 1. The system

| part | where | state it keeps | operations |
|------|-------|----------------|------------|
| server state | `runtime/state.rs` | one `RwLock<ServerState>` (routes, allowed origins, database, shutdown and task senders); the task receiver in a `Mutex`; the notifier in two atomics | `set_http_task_rx`, `try_recv_http_task`, `set_http_notifier`, `clear_http_notifier`, `notify_julia` |
| HTTP transport | `transport/http_server.rs` | one Tokio task for each connection, all on one thread | accept, peek, read, resolve a route, call Julia or the database, write |
| WebSocket transport | `transport/websocket.rs` | one subscription for each client | upgrade, subscribe, forward frames |
| control interface | `ffi/server.rs` | none of its own | start, stop, poll and complete a task, broadcast, origins, connect a database |
| registration interface | `ffi/routes.rs` | a thread for each axis stream | register HTTP, native, WebSocket and axis routes |
| envelope | `protocol/envelope.rs`, `_build_envelope_v1` | none | build, parse and validate a frame header |
| native routes | `database/` | none | CRUD over SeaORM |
| server (Julia) | `Server.jl` | `_server_running[]`, `_active_app[]`, the condition, the counter of handlers | `serve`, `stop_server!`, the poll loop, the handlers, the WebSocket tasks |
| routing (Julia) | `Routing.jl`, `FFI.jl` | the `App`: routes, parameter types | registration, matching, coercion of parameters |

How a request travels: a connection task reads it, looks its route up in the
server state, puts an `HttpTask` with a one-shot reply sender in the task
channel (64 places) and signals Julia's `AsyncCondition` with `uv_async_send`.
The loop of `serve()` wakes up, polls until the channel is empty, and spawns a
Julia task for each request; the handler's result goes back through
`fmh_complete_http_task`, which frees the task and fires the one-shot. A native
route does not leave Rust. A WebSocket client subscribes to a `watch` channel
that Julia tasks (`@async`, one for each route) or an axis thread write to.

What is hard in each part, and what has to hold:

| part | hard because | correct when |
|------|--------------|--------------|
| HTTP bridge | a Rust thread, Julia tasks and the callers of `stop_server!` share a channel, a counter and a condition without one lock over all of them | no wakeup is lost, each task has one owner and one completion, the counter is exact, stop leaves nothing behind and returns |
| lifecycle | the flag, the condition and the app are globals that the next run reuses; `stop_server!` yields between clearing one and the next | a loop uses only what belongs to its run, a stop ends the run it stops and no other, the address is given back |
| streams | two writers, a channel that keeps one frame, connections that outlive the route they looked up | frames in order, the last one not lost, nothing from an earlier run, clients end with their server |
| route tables | each route is looked up twice, by two rules, and the tables are locked once per look | what Rust forwards Julia finds; what Rust refuses no route is for |
| HTTP connection | a stream cut anywhere, limits, nested timeouts | each request is read whole or not at all; buffers stay within their limits; who gets no answer is known |
| envelope | lengths of 32 bits over lengths of 64, written twice and checked once | a client is never sent a frame whose header is wrong about it |
| native routes, CORS | route, database and origins are looked up one after the other, while all three may be replaced | the answer tells what happened to the rows; table and origins are those of the app |

Concurrency there is: connection tasks share the one thread of their Rust
runtime; the WebSocket tasks of `serve()` are made with `@async`, on its thread,
its HTTP handlers with `Threads.@spawn` (`Server.jl:211`), on any thread Julia
has, and the user may start calls of `serve()` and `stop_server!` on others;
every axis stream has a Rust thread of its own. Handlers interleave with the
loop at every step in each run of `HttpBridge`.

## 2. The models

| module | models | checked by |
|--------|--------|------------|
| `RequestService` | what one run promises about each request, in six actions | refined by `HttpBridge` |
| `HttpBridge` | one run: connections, channel, loop, handlers, `stop_server!` | `MCHttpBridge` with `bridge_*.cfg`; `HttpBridgeProofs`, `HttpBridgeStopProofs`, `HttpBridgeRefinementProofs` |
| `OneServer` | what a program whose calls of `serve()` never overlap may rely on, in seven actions | refined by `ServerLifecycle`; `RouteTable` and `WsStream` implement its safety part |
| `ServerLifecycle` | calls of `serve()` and `stop_server!` by several tasks, run after run | `MCServerLifecycle` with `life_*.cfg`; `ServerLifecycleProofs` |
| `FrameFeed` | what a stream promises its clients, in five actions | refined by `WsStream` |
| `WsStream` | WebSocket and axis streams over several runs | `MCWsStream` with `ws*.cfg`; `WsStreamProofs` |
| `Envelope` | the header of a frame, built twice and checked once | extended by `WsStream` |
| `RouteTable` | registration and the two lookups | `MCRouteTable` with `routes.cfg`; `RouteTableProofs` |
| `RequestFraming` | what a connection promises about the bytes its client sends, in two actions | refined by `HttpConn` |
| `HttpConn` | one connection from `accept()` to its end | `MCHttpConn` with `conn.cfg`; `HttpConnProofs` |
| `RowService` | what a request for rows is promised, in five actions | refined by `NativeRoutes` |
| `NativeRoutes` | database requests and CORS while servers and databases change | `MCNativeRoutes` with `native.cfg`; `NativeRoutesProofs` |

**State and code.** The variables carry the names of the globals and fields
they stand for (`running` is `_server_running[]`, `condRef`
`_http_notifier_cond[]`, `shutdownTx` and `httpRoutes` the fields of
`ServerState`); program counters (`conn`, `loop`, `handler`, `stop`, `pc`) stand
for where a task or thread is between two steps that others can see. What a
function does under one lock, or between two awaits on data nobody else
touches, is one action; a value read by one step and used by a later one
(the notifier's handle, `stopApp`, a resolved sender) is kept in the state.
`PROJECT.json` maps each definition to its lines.

**HttpBridge.** `Capacity` is the 64 of the channel. A task is `queued`,
`polled` or `freed`; its handler goes through `polled`, `counted`, `start`,
`run` and `failed`, its end included. `Parallel` says whether `stop_server!`
runs on another thread than `serve()`; when it does not, tasks change only at
yields (`AtYield`, which allows for more yields than there are: the drain is one
even when the counter is 0 already). The run begins when `serve()` has entered
its loop. Each caller calls `stop_server!` once, the app has HTTP routes only,
and a second Ctrl-C inside the `finally` block is left out. `SelfStop` are
the handlers that call `stop_server!`.

**ServerLifecycle.** A run's number stands for everything created for it: the
senders, the channel, the condition, the thread. `schedule` is `sequential` (no
`serve()` before all earlier calls have returned), `cooperative` (one thread) or
`parallel`, and never changes. All runs use one address. A WebSocket handler that itself calls
`stop_server!` is left out: its `wait` on the current task is an error. A start
fails in two ways: the thread reports an error (`StartFailed`, which drops the
shutdown sender), or it cannot be spawned or dies before it has reported
(`StartDied`, which leaves the senders where they are; the thread is `died`). A
server is up (`ServerUp`) when Rust has the sender of a thread that listens.

**OneServer** stands between the lifecycle and the modules that have a simpler
one built in. It has a phase, the routes of the app, the tables, and whether
work is left for Julia. `ServerLifecycle` maps its program counters to it
(`Phase`, `Quiet`): it is up as long as it listens and Rust has its sender, so that
the sender of a dead thread is no server. A `serve()` that throws while it registers,
with some of the routes inserted or with all of them, is `Abort`; one that
`fmh_server_start` refuses, for whatever reason, is `Fail`. `RouteTable` maps its tables of Julia routes, `WsStream`
its two routes and its WebSocket task. So what these two take for granted about
`serve()` and `stop_server!` follows the same abstract server that sequential calls
were shown to implement. `NativeRoutes` is not mapped: native routes and the
database outlive the stop, and the origins are replaced and not added to.

**WsStream, Envelope.** A frame is its version in the watch channel and its
envelope. `Publish` stores nothing without a receiver, and `Changed` and `Borrow`
are two steps, as in Tokio. `LenLimit` is 2^32. The sequential lifecycle is
built in; `ServerLifecycle` shows what overlapping calls do. The 30 seconds of
`handle_connection` hold for an upgraded connection too (`GiveUp`, and
`ConnectionTimeout` in `HttpConn`). A client of `FrameFeed` is a connection that
has subscribed, at the frame it was sent last; marking, waking and the frame that
is being sent are steps the feed does not see.

**RouteTable.** A path is its segments and its last slash. The order of the two
hash tables is a choice. `dirty` is a history variable: a `serve()` has failed
since the last stop. Native routes outlive the stop (`nativeRoutes`).

**HttpConn.** A stream is its length, where its blank lines end and what its
first head says; the network cuts it anywhere, ends it or resets it. The head is
peeked at once, whatever has arrived by then: a head in two segments is answered
with 400, which the model has and no property denies. After the peek
`read_http_request` reads it again; its errors about size, end and parsing
cannot happen there unless the client resets (`SilentDrop` says what is left),
and all of them, the 408 of the inner timer among them, are printed and never
sent. The framing spec is open to all of this and asks one thing: the request
handed on is the first of the stream, whole.

**NativeRoutes.** A native route is its method; a request is its method, the row
its path names (0 for none), whether its body can be used, and its origin. The
database is external: a statement is carried out, finds no row, or fails, and it
may do so after its connection was dropped. A statement that failed stands for
one whose outcome the client is told nothing good about; an error after the
commit is in that case. `TakeDb` stands for all from the database handle to the
statement, the wait for a connection of the pool included. `Scope` says which
rows a statement is about: the number is taken from the raw path (`GET /users/5/`
matches the route with `5`, ends in no number, and lists the table); a write
without one is refused before it reaches the database (`Refused`). An `UPDATE` or
`DELETE` of an absent row is a success, and "Resource Not Found" is a 500. For
`RowService` a request is open from `Ask` on, whichever of the looks come first, and
its statement is what the database makes of it, the answer given or not.

## 3. The runs

Passing runs:

| run | bounds | shows |
|-----|--------|-------|
| `bridge_coop` | 3 requests, one of which stops the server; channel of 2, one thread | `TypeOK`, `NoLostWakeup`, `InflightCounts`, `NoStraggler`, `SelfStopNeverReturns`: the coalesced signal loses no task, no handler runs without its app, and a handler that stops the server hangs |
| `bridge_parallel` | 2 requests, channel of 1, two threads | `HandleOwnership`, `AtMostOneStraggler`: a stop on another thread may leave one handler without an app, never two; `QueuedEventuallyPolled`, `StopReturns`; `ImplementsService`, with its fairness |
| `life_sequential` | 2 runs, 2 apps, 2 tasks | `TypeOK`, `LoopOwnsServer`, `NoStaleWsTask`, `NotifierRooted`: what a run uses is its own; `StopEnds`; `ImplementsOneServer`, with its fairness |
| `life_overlap` | 2 runs, 1 app, 2 tasks on one thread or on several | on one thread `FlagsAgree`, whether a start fails with a report or without, and with `fps <= 0`; in any case `ChannelPaired` |
| `ws` | 1 client, 2 runs, 2 frames for a channel, small and oversized payloads | `TypeOK`, `FramesInOrder`, `AtMostTwice`, `NoStaleBroadcast`, `EnvelopesValid`; `ImplementsFeed`, with its fairness: frames are skipped and repeated, but a client that stays is not left behind; `StrandedClientsEnd` |
| `routes` | GET, POST and OPTIONS, 3 paths with and without a slash, 2 routes of one or two apps, 2 runs | `TypeOK`, `HandlerFound`, `RoutesReachable`, `AllowHonest` |
| `conn` | 13 streams of up to 13 bytes; a head of up to 8 bytes read by up to 5, a body of up to 3 by up to 2; 2 ticks | `TypeOK`, `BlankLineFound`, `BufferBounded`, `SilentDrop`, `CleanClose`; `ImplementsFraming`, with its fairness |
| `native` | 1 client, 3 apps, 5 requests, 2 databases, 2 runs | `TypeOK`, `AnswerHonest`, `OwnTable`, `GrantHonest`; `ImplementsRows`, with its fairness |

Runs that TLC refutes; each is what a comment, doc or test says and the code
does not do (`findings` in `PROJECT.json` has the lines):

| run | property | what happens |
|-----|----------|--------------|
| `bridge_notify` | `NotifyTargetAlive` | `uv_async_send` on a condition that was finalized since its handle was read |
| `life_restart` | `StopEndsLoop` | stop and serve again before the first loop has looked: it sees the flag of the second run, and its `serve()` never returns |
| `life_refused` | `AlreadyRunning` | a start whose thread died before it reported leaves its sender: the next `serve()` is told "server already running" |
| `ws_generators` | `OneGenerator` | axis threads never end: after a stop and another `serve()`, with the first server gone, two call the same callback |

What `life_overlap` does not say: when a `serve()` begins while
`stop_server!` waits for a handler (it yields there, with the flag down already),
the stop goes on to clear the condition and the app of the new run.
`NotifierRooted`, `NoStaleWsTask` and `LoopOwnsServer` hold for sequential calls
only. On several
threads two calls of `serve()` may both pass the check of the flag, a stop may come
between the flag and `fmh_server_start`, and a start that failed may drop the sender
of another: the flag and the Rust server may then disagree, which nothing in the
repository denies and no property covers. `ChannelPaired` says only that the
ends of the task channel are a pair even then.

**Why the bounds are enough.** Three requests allow one in the channel, one
between poll and spawn and one in a handler at once; two exceed a channel of
one. Two tasks and two runs are what every overlap of an old and a new run
needs; where they overlap one app is enough, since neither property of that run
speaks of apps. Two frames let one be stored while the other is being sent; clients of a
stream and of the database do not write what others read, so that one is enough
(and the proofs are for any number). A second lookup can only differ from the first
when an exact route and a pattern, or two spellings of one path, compete: two
routes and one segment. A blank line of four bytes read by five may be cut in
each place, and the heads end below, at and above the limit. Two databases and
two runs let each of the three looks of a database request see another state than the
one before. `CHECK_DEADLOCK` is off because a server that was
stopped stops, and the counters of runs and frames end.

**Fairness.** Weak fairness of a connection, a loop, a handler or a caller of
`stop_server!` says that a runnable task is run: Tokio and Julia both take
their tasks from a queue, first in, first out. Handlers are assumed to end, and
timers to fire. In `ServerLifecycle` and for the exit of a server thread in
`WsStream` it is strong, since a task that waits for others to yield is enabled
and disabled by their turns, and the same queue gives it its turn. Nobody is
obliged to connect, to serve, to stop, to interrupt or to collect garbage.
`HttpConn` needs time to pass and timers to fire, nothing of the client;
`NativeRoutes` needs a connection that can go on to be polled, and the database
to answer, which the timeout would otherwise cut short (`Drop` is never obliged).
`StopReturns` excepts an interrupt between
`atomic_add!` and `@async`, after which the counter stays up.

## 4. The proofs

- `HttpBridgeProofs`, for any finite set of requests, any callers and any capacity, like
  the next two: `TypeCorrect`, `OwnershipHolds`, `CounterExact`. `Inv` adds
  to the three properties the links between the program counters (a handler that
  is active has a polled task, a connection that waits has one that was sent).
  Without them a step may free a task a handler still uses. That `inflight` is a natural
  number needs the counter to be exact: it is decremented.
- `HttpBridgeStopProofs`: `WakeupsKept`, `NoStragglerHolds`,
  `AtMostOneStragglerHolds`, `SelfStopHangs`, `TargetAliveHolds`. `StopInv`
  relates every caller of `stop_server!` to the loop: what was signalled stays signalled until the loop
  has woken, on one thread nothing is polled once a stop has begun, and in parallel at
  most one request is between the poll and the spawn.
- `HttpBridgeRefinementProofs`: `RefinesService`, the safety half of
  `ImplementsService`, from `Inv` and `ExitInv` (a runtime that is gone has no
  connections).
- `ServerLifecycleProofs`, for any tasks, apps and runs. In every schedule,
  several threads included: `TypeCorrect`, from `Inv`, which adds that a call of
  `serve()` has an app (without it what is registered need not be one), and
  `ChannelPairedHolds`, which is inductive as it stands. When the tasks share a
  thread: `FlagsAgreeHolds`, from `CoopInv`. One task runs until it yields, and
  what it may rely on depends on where it is (`Holds`): the flag and the Rust
  server disagree between the flag and `fmh_server_start` and between the flag and
  `fmh_server_stop`, where nobody else can look; a sender left behind by a dead thread
  is the only other one (`Settled`). From it `OnlyDeadRefuse` too. When the calls of `serve()` do
  not overlap: `LoopOwnsServerHolds`, `NoStaleWsTaskHolds` and
  `NotifierRootedHolds`, from `SeqOK`. Its first part says who may be where (one call
  of `serve()`, alone before its loop), its second what is put in place point by
  point (`Owned`), its third that a handler or a WebSocket task that is left has
  somebody that waits for it (`Waited`). The last is what the others need: the next
  call of `serve()` begins when every call has returned, so that nothing is left.
  From the same invariant `OneServerAtATime`, the safety half of
  `ImplementsOneServer`, with one lemma for each part of the program (a call of
  `serve()`, its loop, what runs besides), and `StopEndsLoopHolds`.
- `WsStreamProofs`, for any clients, payloads, runs and frames: `TypeCorrect`,
  `FramesInOrderHolds`, `AtMostTwiceHolds`, `NoStaleBroadcastHolds` and
  `EnvelopesValidHolds`. What a client is being sent is not what the channel
  holds by then, so that the invariant relates the two by version, and says of
  every channel what its envelopes are. `RefinesFeed`, the safety half of
  `ImplementsFeed`, has one lemma for each kind of step: a frame is stored
  (`Publish`, for nobody when there is no receiver), a client subscribes, is sent a
  frame (a later one, or the last for the second time: here the order of the
  versions a connection knows is needed), or goes. `StreamsOfOneServer`.
- `RouteTableProofs`, for any methods and segments: `TypeCorrect`,
  `HandlerFoundHolds`, `RoutesReachableHolds`, `AllowHonestHolds`,
  `ExactWinsHolds`, `TablesOfOneServer`. `TablesOK`
  relates Rust's tables to the routes that were served (equal for Julia's, if no
  `serve()` has failed; a superset for the native ones), `RequestOK` what was
  found to what the tables say.
- `HttpConnProofs`, for any streams and limits: `TypeCorrect`, `BlankLineFoundHolds`,
  `BufferBoundedHolds`, `SilentDropHolds`, `CleanCloseHolds`, and
  `TakesWholeRequests`, the safety half of `ImplementsFraming`. The heart is that
  the search, which starts three bytes before the new ones, misses no blank line:
  those that end earlier would have been found before.
- `NativeRoutesProofs`, for any clients, apps, requests and databases: `TypeCorrect`,
  `AnswerHonestHolds`, `OwnTableHolds`, `GrantHonestHolds` and `RefinesRows`, the
  safety half of `ImplementsRows`, from one invariant in two parts: `ServerOK`
  (what the tables and origins have to do with the apps of the runs) and `ConnsOK`
  (what a connection has to do with both, place by place).

Three of these theorems say how far the refuted properties of §3 reach. The condition
that `uv_async_send` is called on is alive until a stop has let it go
(`TargetAliveHolds`); a stop ends its loop when calls do not overlap
(`StopEndsLoopHolds`); a `serve()` that Julia's flag did not refuse is refused by Rust
only because of a thread that died (`OnlyDeadRefuse`, for tasks of one thread).

The assumptions are those named in the modules: the requests of the bridge are
finitely many, the callers are told apart from them, the capacity is positive;
no app is "nothing", the bounds are natural numbers, read sizes and the timeout
positive, streams and requests have their types, no literal segment is a parameter.
Only model-checked are the liveness properties and the fairness half of the five
refinements (both out of the prover's reach): every invariant the passing runs
check is also proved.

## 5. Not modelled

`ServerLifecycle` takes it that what the code prints can be written (`println!` panics
when the stream is closed) and that no lock is poisoned. Not modelled are the macros of `Routing.jl` (syntax: what they call is in
`RouteTable`), library loading and error messages (no state), and the ASCII art.
Of streams, a path of both kinds (the
Julia route then shadows the axis route) and the pacing of frames. Of routes,
paths with empty segments inside (`/a//b`), and the conversion of parameters and query strings: `_coerce` works on strings, and
whether a value converts does not change which route is chosen, but for the
status of a request no route converts for. `id::Int` in the path of a native route is never checked.
Of the connection, how a handler is asked (that is `HttpBridge`); `reason_phrase`
has no words for 503 and 408 and writes "OK".

Two things `RouteTable` shows have no property, as nothing in the repository denies
them. Rust drops the slash at the end of a request's path before it looks for an
exact route, and of a route's path when it is registered; Julia compares both as they
were written. So a request that differs from its route in that slash alone may be
given to a pattern (`ExactWinsHolds` says that no other request is). And the tables are locked
twice for a 405: a stop between the looks, or a stop and the next registration, may
leave the list without a method of the path, or with the refused one
(`AllowHonest` speaks of a server that is up).

What disagrees with the code without a run of its own: a test in `lib.rs`
expects `FFI_ERR_NOT_RUNNING` of a stop without a server, which returns `FFI_OK`.
An app that lacks a native route of the last one still serves the
old app's table (`server.rs:219`); nothing in the repository says it should not, and
`OwnTable` says what does hold.

## 6. Plan

Done: the request path, the lifecycle, streams with their envelopes, route
tables, the connection, database requests with CORS, the abstract
specifications, and the proofs of §4. What is left:

1. The conversion of parameters and query strings in `RouteTable`: which pattern
   wins when a value does not convert.
2. Two paths of both kinds in `WsStream`.
