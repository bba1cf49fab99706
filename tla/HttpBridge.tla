----------------------------- MODULE HttpBridge -----------------------------
(***************************************************************************)
(* The path of an HTTP request through one run of the server: from the     *)
(* connection task in the Rust runtime, over the bounded task channel and  *)
(* the notifier, to Julia's poll loop and the handler it spawns, and back  *)
(* over the one-shot reply; together with stop_server!, which takes all of *)
(* this down while requests are in flight.                                 *)
(*                                                                         *)
(* Four kinds of process interleave: the connection tasks, which share one *)
(* thread (a current-thread runtime), the serve loop, the spawned handlers *)
(* and the callers of stop_server!.                                        *)
(*                                                                         *)
(* The model starts where serve() enters its poll loop, with an app whose  *)
(* routes are HTTP handlers; a request stands for one connection, which    *)
(* carries one request (the server answers "Connection: close").           *)
(***************************************************************************)
EXTENDS Naturals, Sequences, FiniteSets

CONSTANTS
    Requests,   \* the connections of the run, one request each
    External,   \* Julia tasks, other than the one in serve(), that may call stop_server!
    LoopTask,   \* the Julia task in serve(); it stops the server when interrupted
    SelfStop,   \* the requests whose handler may call stop_server! itself
    Capacity,   \* bound of the task channel (64 in fmh_server_start)
    Parallel    \* FALSE: serve() and External share one thread (@async tasks)

ASSUME RequestsAssumption ==
    /\ IsFiniteSet(Requests)
    /\ SelfStop \subseteq Requests
ASSUME TasksAssumption ==
    /\ External \cap Requests = {}
    /\ LoopTask \notin External \cup Requests
ASSUME CapacityAssumption == Capacity \in Nat \ {0}
ASSUME ParallelAssumption == Parallel \in BOOLEAN

MainTasks == External \cup {LoopTask}
Callers == MainTasks \cup SelfStop

VARIABLES
    conn,       \* conn[r]: where the connection task of r is
    queue,      \* the task channel: requests sent and not yet polled
    handle,     \* handle[r]: where the task (and its reply sender) of r is
    handler,    \* handler[r]: where the Julia task that serves r is
    rustUp,     \* shutdown_tx, http_task_tx and the routes are there
    listening,  \* the Rust runtime is alive
    notifier,   \* HTTP_NOTIFIER_CB and HTTP_NOTIFIER_HANDLE are set
    running,    \* _server_running[]
    activeApp,  \* _active_app[] is an App
    condSet,    \* the AsyncCondition was signalled since the last wait
    condRef,    \* _http_notifier_cond[] holds the AsyncCondition
    condAlive,  \* the AsyncCondition was not finalized
    loop,       \* where serve()'s loop is
    inflight,   \* _http_inflight[]
    stop        \* stop[c]: where caller c of stop_server! is

connVars == <<conn, queue>>
taskVars == <<handle, handler, inflight>>
rustVars == <<rustUp, listening, notifier>>
juliaVars == <<running, activeApp, loop, stop>>
condVars == <<condSet, condRef, condAlive>>
vars == <<connVars, taskVars, rustVars, juliaVars, condVars>>

\* A connection task between two awaits: the runtime's only thread is in it.
SyncPoints == {"resolved", "pushed", "notifying"}
\* A connection task in an await, where the timeout or the runtime can end it.
AwaitPoints == {"open", "sending", "waiting", "writing"}
ConnEnds == {"answered", "notfound", "dropped"}
ConnState == {"idle"} \cup SyncPoints \cup AwaitPoints \cup ConnEnds

HandleState == {"none", "queued", "polled", "freed"}
\* The handlers _http_inflight counts.
ActiveHandler == {"counted", "start", "run", "failed", "finally"}
HandlerState == {"none", "polled", "done"} \cup ActiveHandler
LoopState == {"check", "poll", "spawn", "recheck", "wait", "finally", "stopping", "ended"}
StopState == {"idle", "rust", "signal", "drain", "release", "clear", "done"}

-----------------------------------------------------------------------------
Init ==
    /\ conn = [r \in Requests |-> "idle"]
    /\ queue = <<>>
    /\ handle = [r \in Requests |-> "none"]
    /\ handler = [r \in Requests |-> "none"]
    /\ rustUp = TRUE
    /\ listening = TRUE
    /\ notifier = TRUE
    /\ running = TRUE
    /\ activeApp = TRUE
    /\ condSet = FALSE
    /\ condRef = TRUE
    /\ condAlive = TRUE
    /\ loop = "check"
    /\ inflight = 0
    /\ stop = [c \in Callers |-> "idle"]

(***************************************************************************)
(* The connection task (transport/http_server.rs).                         *)
(***************************************************************************)
\* The thread of the runtime is at an await, or in r's task.
RustThreadFree(r) == \A s \in Requests \ {r} : conn[s] \notin SyncPoints

\* The accept loop spawns the task of a new connection.
Connect(r) ==
    /\ listening
    /\ conn[r] = "idle"
    /\ conn' = [conn EXCEPT ![r] = "open"]
    /\ UNCHANGED <<queue, taskVars, rustVars, juliaVars, condVars>>

\* The request was read; its route is looked up. The routes go with stop_server!.
Resolve(r) ==
    /\ RustThreadFree(r)
    /\ conn[r] = "open"
    /\ conn' = [conn EXCEPT ![r] = IF rustUp THEN "resolved" ELSE "writing"]
    /\ UNCHANGED <<queue, taskVars, rustVars, juliaVars, condVars>>

\* The state lock was released after the look-up and is taken again here.
AcquireSender(r) ==
    /\ conn[r] = "resolved"
    /\ conn' = [conn EXCEPT ![r] = IF rustUp THEN "sending" ELSE "dropped"]
    /\ UNCHANGED <<queue, taskVars, rustVars, juliaVars, condVars>>

\* Mutant of Send: the channel has no bound.
SendUnbounded(r) ==
    /\ RustThreadFree(r)
    /\ conn[r] = "sending"
    /\ queue' = Append(queue, r)
    /\ conn' = [conn EXCEPT ![r] = "pushed"]
    /\ handle' = [handle EXCEPT ![r] = "queued"]
    /\ UNCHANGED <<handler, inflight, rustVars, juliaVars, condVars>>

\* Mutant of Send: the notification is forgotten.
SendSilently(r) ==
    /\ RustThreadFree(r)
    /\ conn[r] = "sending"
    /\ Len(queue) < Capacity
    /\ queue' = Append(queue, r)
    /\ conn' = [conn EXCEPT ![r] = "waiting"]
    /\ handle' = [handle EXCEPT ![r] = "queued"]
    /\ UNCHANGED <<handler, inflight, rustVars, juliaVars, condVars>>

\* tx.send(task).await: waits for room in the channel.
Send(r) ==
    /\ RustThreadFree(r)
    /\ conn[r] = "sending"
    /\ Len(queue) < Capacity
    /\ queue' = Append(queue, r)
    /\ conn' = [conn EXCEPT ![r] = "pushed"]
    /\ handle' = [handle EXCEPT ![r] = "queued"]
    /\ UNCHANGED <<handler, inflight, rustVars, juliaVars, condVars>>

\* notify_julia reads the callback and the handle ...
LoadNotifier(r) ==
    /\ conn[r] = "pushed"
    /\ conn' = [conn EXCEPT ![r] = IF notifier THEN "notifying" ELSE "waiting"]
    /\ UNCHANGED <<queue, taskVars, rustVars, juliaVars, condVars>>

\* ... and calls uv_async_send on what it read.
CallNotifier(r) ==
    /\ conn[r] = "notifying"
    /\ conn' = [conn EXCEPT ![r] = "waiting"]
    /\ condSet' = TRUE
    /\ UNCHANGED <<queue, taskVars, rustVars, juliaVars, condRef, condAlive>>

\* Mutant of Receive: the connection does not wait for the reply.
ReceiveEarly(r) ==
    /\ RustThreadFree(r)
    /\ conn[r] = "waiting"
    /\ conn' = [conn EXCEPT ![r] = "writing"]
    /\ UNCHANGED <<queue, taskVars, rustVars, juliaVars, condVars>>

\* response_rx.await: the sender is used, then freed, by fmh_complete_http_task.
Receive(r) ==
    /\ RustThreadFree(r)
    /\ conn[r] = "waiting"
    /\ handle[r] = "freed"
    /\ conn' = [conn EXCEPT ![r] = "writing"]
    /\ UNCHANGED <<queue, taskVars, rustVars, juliaVars, condVars>>

\* The response is written: the handler's, or the 404 of Resolve.
WriteResponse(r) ==
    /\ RustThreadFree(r)
    /\ conn[r] = "writing"
    /\ conn' = [conn EXCEPT ![r] = IF handle[r] = "none" THEN "notfound" ELSE "answered"]
    /\ UNCHANGED <<queue, taskVars, rustVars, juliaVars, condVars>>

\* The 30 s of handle_connection are over, or the socket failed. A task that
\* was sent stays in the channel, or with Julia.
GiveUp(r) ==
    /\ RustThreadFree(r)
    /\ conn[r] \in AwaitPoints
    /\ conn' = [conn EXCEPT ![r] = "dropped"]
    /\ UNCHANGED <<queue, taskVars, rustVars, juliaVars, condVars>>

\* The accept loop takes the shutdown signal; block_on returns and the runtime
\* is dropped with every connection task still in it.
ServerExit ==
    /\ listening
    /\ ~rustUp
    /\ \A r \in Requests : conn[r] \notin SyncPoints
    /\ listening' = FALSE
    /\ conn' = [r \in Requests |-> IF conn[r] \in AwaitPoints THEN "dropped" ELSE conn[r]]
    /\ UNCHANGED <<queue, taskVars, rustUp, notifier, juliaVars, condVars>>

(***************************************************************************)
(* The tasks of serve() and of External run in parallel when Parallel; if  *)
(* not they share a thread, and one runs only while the others are where   *)
(* the code yields: in wait(cond), in the yield() of _wait_http_handlers!, *)
(* outside of serve() and stop_server!.                                    *)
(***************************************************************************)
AtYield(t) ==
    IF t = LoopTask
    THEN loop \in {"wait", "ended"} \/ (loop = "stopping" /\ stop[t] = "drain")
    ELSE stop[t] \in {"idle", "drain", "done"}

MayRun(t) == Parallel \/ \A u \in MainTasks \ {t} : AtYield(u)

(***************************************************************************)
(* The poll loop of serve() (Server.jl).                                   *)
(***************************************************************************)
\* Mutant of LoopCheck: the drain loop does not look at _server_running[].
LoopCheckNever ==
    /\ MayRun(LoopTask)
    /\ loop = "check"
    /\ loop' = "poll"
    /\ UNCHANGED <<connVars, taskVars, rustVars, running, activeApp, stop, condVars>>

\* _server_running[] is read before every poll (lines 350 and 356).
LoopCheck ==
    /\ MayRun(LoopTask)
    /\ loop = "check"
    /\ loop' = IF running THEN "poll" ELSE "finally"
    /\ UNCHANGED <<connVars, taskVars, rustVars, running, activeApp, stop, condVars>>

\* fmh_poll_http_task takes the first task and hands Julia its ownership.
PollTask ==
    /\ MayRun(LoopTask)
    /\ loop = "poll"
    /\ queue # <<>>
    /\ LET r == Head(queue) IN
        /\ handle' = [handle EXCEPT ![r] = "polled"]
        /\ handler' = [handler EXCEPT ![r] = "polled"]
    /\ queue' = Tail(queue)
    /\ loop' = "spawn"
    /\ UNCHANGED <<conn, inflight, rustVars, running, activeApp, stop, condVars>>

PollEmpty ==
    /\ MayRun(LoopTask)
    /\ loop = "poll"
    /\ queue = <<>>
    /\ loop' = "recheck"
    /\ UNCHANGED <<connVars, taskVars, rustVars, running, activeApp, stop, condVars>>

\* _spawn_http_handler! counts the handler ...
CountHandler(r) ==
    /\ MayRun(LoopTask)
    /\ loop = "spawn"
    /\ handler[r] = "polled"
    /\ handler' = [handler EXCEPT ![r] = "counted"]
    /\ inflight' = inflight + 1
    /\ UNCHANGED <<connVars, handle, rustVars, juliaVars, condVars>>

\* Mutant of SpawnHandler: one poll for each wakeup, instead of draining.
SpawnHandlerNoDrain(r) ==
    /\ MayRun(LoopTask)
    /\ loop = "spawn"
    /\ handler[r] = "counted"
    /\ handler' = [handler EXCEPT ![r] = "start"]
    /\ loop' = "recheck"
    /\ UNCHANGED <<connVars, handle, inflight, rustVars, running, activeApp, stop, condVars>>

\* ... and then spawns it.
SpawnHandler(r) ==
    /\ MayRun(LoopTask)
    /\ loop = "spawn"
    /\ handler[r] = "counted"
    /\ handler' = [handler EXCEPT ![r] = "start"]
    /\ loop' = "check"
    /\ UNCHANGED <<connVars, handle, inflight, rustVars, running, activeApp, stop, condVars>>

\* The channel was empty: read _server_running[] once more, then wait.
LoopRecheck ==
    /\ MayRun(LoopTask)
    /\ loop = "recheck"
    /\ loop' = IF running THEN "wait" ELSE "finally"
    /\ UNCHANGED <<connVars, taskVars, rustVars, running, activeApp, stop, condVars>>

\* wait(cond) returns at once when the condition is set, and resets it.
Wake ==
    /\ MayRun(LoopTask)
    /\ loop = "wait"
    /\ condSet
    /\ condSet' = FALSE
    /\ loop' = "check"
    /\ UNCHANGED <<connVars, taskVars, rustVars, running, activeApp, stop, condRef, condAlive>>

\* Ctrl-C anywhere in the try block.
Interrupt ==
    /\ MayRun(LoopTask)
    /\ loop \in {"check", "poll", "spawn", "recheck", "wait"}
    /\ loop' = "finally"
    /\ UNCHANGED <<connVars, taskVars, rustVars, running, activeApp, stop, condVars>>

\* The finally block stops the server unless someone else did.
LoopFinally ==
    /\ MayRun(LoopTask)
    /\ loop = "finally"
    /\ loop' = IF running THEN "stopping" ELSE "ended"
    /\ UNCHANGED <<connVars, taskVars, rustVars, running, activeApp, stop, condVars>>

\* stop_server!() returned: serve() does.
ServeReturn ==
    /\ MayRun(LoopTask)
    /\ loop = "stopping"
    /\ stop[LoopTask] = "done"
    /\ loop' = "ended"
    /\ UNCHANGED <<connVars, taskVars, rustVars, running, activeApp, stop, condVars>>

(***************************************************************************)
(* The handler task of one request (_handle_http_task). The user's handler *)
(* is any code that returns or throws; it may last for any time.           *)
(***************************************************************************)
\* The handler task is not inside a call of stop_server!.
NotInStop(r) == r \in SelfStop => stop[r] \in {"idle", "done"}

HandlerStart(r) ==
    /\ handler[r] = "start"
    /\ handler' = [handler EXCEPT ![r] = IF activeApp THEN "run" ELSE "failed"]
    /\ UNCHANGED <<connVars, handle, inflight, rustVars, juliaVars, condVars>>

\* The handler, its parameters or the encoding of its result throws.
HandlerThrow(r) ==
    /\ handler[r] = "run"
    /\ NotInStop(r)
    /\ handler' = [handler EXCEPT ![r] = "failed"]
    /\ UNCHANGED <<connVars, handle, inflight, rustVars, juliaVars, condVars>>

\* fmh_complete_http_task: the reply is sent, which fails when the connection
\* is gone, and the task is freed.
Complete(r) ==
    /\ handle' = [handle EXCEPT ![r] = "freed"]
    /\ handler' = [handler EXCEPT ![r] = "finally"]

\* Mutant of HandlerComplete: an exception after the completion reaches the
\* catch block, which completes once more.
HandlerCompleteThrows(r) ==
    /\ handler[r] = "run"
    /\ NotInStop(r)
    /\ handle' = [handle EXCEPT ![r] = "freed"]
    /\ handler' = [handler EXCEPT ![r] = "failed"]
    /\ UNCHANGED <<connVars, inflight, rustVars, juliaVars, condVars>>

HandlerComplete(r) ==
    /\ handler[r] = "run"
    /\ NotInStop(r)
    /\ Complete(r)
    /\ UNCHANGED <<connVars, inflight, rustVars, juliaVars, condVars>>

\* The catch block answers 400 or 500.
HandlerFail(r) ==
    /\ handler[r] = "failed"
    /\ Complete(r)
    /\ UNCHANGED <<connVars, inflight, rustVars, juliaVars, condVars>>

\* Mutant of HandlerLost: no finally block around the handler.
HandlerLostCounted(r) ==
    /\ handler[r] = "failed"
    /\ handler' = [handler EXCEPT ![r] = "done"]
    /\ UNCHANGED <<connVars, handle, inflight, rustVars, juliaVars, condVars>>

\* The catch block throws (malloc failed): the task is never completed.
HandlerLost(r) ==
    /\ handler[r] = "failed"
    /\ handler' = [handler EXCEPT ![r] = "finally"]
    /\ UNCHANGED <<connVars, handle, inflight, rustVars, juliaVars, condVars>>

HandlerFinally(r) ==
    /\ handler[r] = "finally"
    /\ handler' = [handler EXCEPT ![r] = "done"]
    /\ inflight' = inflight - 1
    /\ UNCHANGED <<connVars, handle, rustVars, juliaVars, condVars>>

(***************************************************************************)
(* stop_server!(), called by a task of External, by serve()'s finally      *)
(* block or by a handler.                                                  *)
(***************************************************************************)
MayStep(c) == c \in MainTasks => MayRun(c)

StopBegin(c) ==
    /\ MayStep(c)
    /\ stop[c] = "idle"
    /\ c = LoopTask => loop = "stopping"
    /\ c \in SelfStop => handler[c] = "run"
    /\ stop' = [stop EXCEPT ![c] = "rust"]
    /\ running' = FALSE
    /\ UNCHANGED <<connVars, taskVars, rustVars, activeApp, loop, condVars>>

\* fmh_server_stop, under the write lock: it succeeds whether or not the
\* server still ran.
StopRust(c) ==
    /\ MayStep(c)
    /\ stop[c] = "rust"
    /\ stop' = [stop EXCEPT ![c] = "signal"]
    /\ rustUp' = FALSE
    /\ notifier' = FALSE
    /\ UNCHANGED <<connVars, taskVars, listening, running, activeApp, loop, condVars>>

\* Mutant of StopSignal: the loop is not woken.
StopSignalNobody(c) ==
    /\ MayStep(c)
    /\ stop[c] = "signal"
    /\ stop' = [stop EXCEPT ![c] = "drain"]
    /\ UNCHANGED <<connVars, taskVars, rustVars, running, activeApp, loop, condVars>>

\* Wakes the loop, if the condition was not yet released by another caller.
StopSignal(c) ==
    /\ MayStep(c)
    /\ stop[c] = "signal"
    /\ stop' = [stop EXCEPT ![c] = "drain"]
    /\ condSet' = (condSet \/ condRef)
    /\ UNCHANGED <<connVars, taskVars, rustVars, running, activeApp, loop, condRef, condAlive>>

\* Mutant of StopDrained: the handlers in flight are not waited for.
StopNotDrained(c) ==
    /\ MayStep(c)
    /\ stop[c] = "drain"
    /\ stop' = [stop EXCEPT ![c] = "release"]
    /\ UNCHANGED <<connVars, taskVars, rustVars, running, activeApp, loop, condVars>>

\* Mutant of StopDrained: one handler too few is waited for.
StopAlmostDrained(c) ==
    /\ MayStep(c)
    /\ stop[c] = "drain"
    /\ inflight <= 1
    /\ stop' = [stop EXCEPT ![c] = "release"]
    /\ UNCHANGED <<connVars, taskVars, rustVars, running, activeApp, loop, condVars>>

\* _wait_http_handlers! yields until it reads 0.
StopDrained(c) ==
    /\ MayStep(c)
    /\ stop[c] = "drain"
    /\ inflight = 0
    /\ stop' = [stop EXCEPT ![c] = "release"]
    /\ UNCHANGED <<connVars, taskVars, rustVars, running, activeApp, loop, condVars>>

StopRelease(c) ==
    /\ MayStep(c)
    /\ stop[c] = "release"
    /\ stop' = [stop EXCEPT ![c] = "clear"]
    /\ condRef' = FALSE
    /\ UNCHANGED <<connVars, taskVars, rustVars, running, activeApp, loop, condSet, condAlive>>

StopClear(c) ==
    /\ MayStep(c)
    /\ stop[c] = "clear"
    /\ stop' = [stop EXCEPT ![c] = "done"]
    /\ activeApp' = FALSE
    /\ UNCHANGED <<connVars, taskVars, rustVars, running, loop, condVars>>

\* The collector finalizes the AsyncCondition once neither the global nor the
\* frame of serve() refers to it.
FinalizeCond ==
    /\ condAlive
    /\ ~condRef
    /\ loop = "ended"
    /\ condAlive' = FALSE
    /\ UNCHANGED <<connVars, taskVars, rustVars, juliaVars, condSet, condRef>>

-----------------------------------------------------------------------------
ConnStep(r) ==
    \/ Resolve(r) \/ AcquireSender(r) \/ Send(r) \/ LoadNotifier(r)
    \/ CallNotifier(r) \/ Receive(r) \/ WriteResponse(r)

LoopStep ==
    \/ LoopCheck \/ PollTask \/ PollEmpty \/ LoopRecheck \/ Wake
    \/ LoopFinally \/ ServeReturn
    \/ \E r \in Requests : CountHandler(r) \/ SpawnHandler(r)

HandlerStep(r) ==
    \/ HandlerStart(r) \/ HandlerThrow(r) \/ HandlerComplete(r)
    \/ HandlerFail(r) \/ HandlerLost(r) \/ HandlerFinally(r)

\* What a call of stop_server! does once it was made.
StopStep(c) ==
    \/ StopRust(c) \/ StopSignal(c) \/ StopDrained(c)
    \/ StopRelease(c) \/ StopClear(c)

Next ==
    \/ \E r \in Requests : Connect(r) \/ ConnStep(r) \/ GiveUp(r) \/ HandlerStep(r)
    \/ ServerExit
    \/ LoopStep
    \/ Interrupt
    \/ \E c \in Callers : StopBegin(c) \/ StopStep(c)
    \/ FinalizeCond

(***************************************************************************)
(* Threads and tasks that can run do run, timers fire, and the user's      *)
(* handlers end. Nobody has to connect, to interrupt the server or to stop *)
(* it, and the collector may never come; serve()'s own call of             *)
(* stop_server! is a step of the loop.                                     *)
(***************************************************************************)
Fairness ==
    /\ \A r \in Requests :
        /\ WF_vars(ConnStep(r))
        /\ WF_vars(GiveUp(r))
        /\ WF_vars(HandlerStep(r))
    /\ WF_vars(ServerExit)
    /\ WF_vars(LoopStep)
    /\ WF_vars(StopBegin(LoopTask))
    /\ \A c \in Callers : WF_vars(StopStep(c))

SafeSpec == Init /\ [][Next]_vars
Spec == SafeSpec /\ Fairness

-----------------------------------------------------------------------------
(***************************************************************************)
(* Properties.                                                             *)
(***************************************************************************)
\* Types; the channel never holds more than its bound.
TypeOK ==
    /\ conn \in [Requests -> ConnState]
    /\ queue \in Seq(Requests)
    /\ Len(queue) <= Capacity
    /\ handle \in [Requests -> HandleState]
    /\ handler \in [Requests -> HandlerState]
    /\ rustUp \in BOOLEAN /\ listening \in BOOLEAN /\ notifier \in BOOLEAN
    /\ running \in BOOLEAN /\ activeApp \in BOOLEAN
    /\ condSet \in BOOLEAN /\ condRef \in BOOLEAN /\ condAlive \in BOOLEAN
    /\ loop \in LoopState
    /\ inflight \in Nat
    /\ stop \in [Callers -> StopState]

\* A task is owned by one side at a time: it is in the channel exactly once
\* while Rust owns it, and as long as a handler reads its buffers or may still
\* complete it (FFIHttpTaskData holds raw pointers), it has not been freed.
HandleOwnership ==
    /\ \A r \in Requests :
        (handle[r] = "queued") <=> (\E i \in 1..Len(queue) : queue[i] = r)
    /\ \A i, j \in 1..Len(queue) : queue[i] = queue[j] => i = j
    /\ \A r \in Requests :
        handler[r] \in {"polled", "counted", "start", "run", "failed"} => handle[r] = "polled"

\* No lost wakeup, although uv_async_send coalesces signals: when the loop has
\* found the channel empty and is about to wait, or waits, a task sent since
\* then has its notification pending or still to come; and a loop that waits
\* after the server was stopped is woken by the stop.
NoLostWakeup ==
    /\ loop \in {"recheck", "wait"} /\ running /\ queue # <<>> =>
        condSet \/ \E r \in Requests : conn[r] \in {"pushed", "notifying"}
    /\ loop = "wait" /\ ~running =>
        condSet \/ \E c \in Callers : stop[c] \in {"rust", "signal"}

\* The counter stop_server! waits on is the number of handlers counted and not
\* yet finished.
InflightCounts ==
    inflight = Cardinality({r \in Requests : handler[r] \in ActiveHandler})

\* The requests Julia has taken over and not answered yet.
Taken == {r \in Requests : handler[r] \in {"polled", "counted", "start", "run", "failed"}}

\* With serve() and stop_server! on one thread, every handler that runs finds
\* its app: stop_server! clears it only when no handler is left and none can
\* be spawned any more.
NoStraggler ==
    ~Parallel /\ ~activeApp =>
        \A r \in Requests : handler[r] \notin ActiveHandler

\* In parallel the loop may have read _server_running[] before the stop and
\* poll after it: that makes one handler at most that loses its app.
AtMostOneStraggler ==
    ~activeApp => Cardinality(Taken) <= 1

\* A handler that calls stop_server! waits for itself: the call never gets
\* past _wait_http_handlers!.
SelfStopNeverReturns ==
    \A r \in SelfStop : stop[r] \notin {"release", "clear", "done"}

\* What Rust is about to call uv_async_send on was not finalized.
NotifyTargetAlive ==
    \A r \in Requests : conn[r] = "notifying" => condAlive

\* The loop polls the channel empty, unless the server is stopped: each request
\* is sent once, so that all of them get out.
QueuedEventuallyPolled ==
    queue # <<>> ~> queue = <<>> \/ ~running

\* The loop was interrupted between counting a handler and spawning it.
SpawnInterrupted ==
    loop \in {"finally", "stopping", "ended"} /\ \E r \in Requests : handler[r] = "counted"

\* All calls of stop_server! return, and serve() returns, whatever is in flight
\* and whoever stops the server, except when a handler was counted and never
\* spawned.
StopReturns ==
    (\E c \in Callers : stop[c] # "idle") ~>
        \/ loop = "ended" /\ \A c \in Callers : stop[c] \in {"idle", "done"}
        \/ SpawnInterrupted

(***************************************************************************)
(* The bridge implements the service.                                      *)
(***************************************************************************)
Client(r) ==
    CASE conn[r] = "idle" -> "idle"
      [] conn[r] = "answered" -> "answered"
      [] conn[r] = "notfound" -> "refused"
      [] conn[r] = "dropped" -> "dropped"
      [] OTHER -> "open"

WorkOfHandle ==
    [none |-> "none", queued |-> "queued", polled |-> "running", freed |-> "finished"]

Service == INSTANCE RequestService WITH
    client <- [r \in Requests |-> Client(r)],
    work <- [r \in Requests |-> WorkOfHandle[handle[r]]],
    service <- IF rustUp THEN "up" ELSE IF listening THEN "closing" ELSE "down"

\* Each request is answered at most once, and only with the outcome of its own
\* work, done at most once; a 404 only while the server closes; and each
\* connection ends, if only by its timeout.
ImplementsService == Service!Spec
=============================================================================
