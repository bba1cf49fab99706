--------------------------- MODULE ServerLifecycle ---------------------------
(***************************************************************************)
(* The server over several runs: serve() and stop_server!() called again   *)
(* and again by Julia tasks, what they change in the globals of the Julia  *)
(* module and in the Rust server state, and the threads of the Rust        *)
(* servers they start and stop. What happens to a request in between is    *)
(* the subject of HttpBridge; here it only matters that a handler may be   *)
(* in flight.                                                              *)
(*                                                                         *)
(* A call of serve() that gets past its check begins a run, 1, 2, ...; the *)
(* condition, the senders, the task channel and the Rust thread it creates *)
(* carry its number, and 0 stands for None or nothing. All runs use one    *)
(* address. What is printed can be written.                                *)
(***************************************************************************)
EXTENDS Naturals, FiniteSets

CONSTANTS
    Tasks,     \* the Julia tasks that call serve() and stop_server!()
    Apps,      \* the apps they serve, each with one HTTP and one WebSocket route
    NoApp,     \* nothing
    MaxRuns,   \* bound on the runs (the program has none)
    BadFps,    \* TRUE: serve() may be called with fps <= 0
    Schedules  \* some of "sequential", "cooperative" and "parallel", see MayRun

ASSUME LifecycleAssumption ==
    /\ NoApp \notin Apps
    /\ MaxRuns \in Nat
    /\ BadFps \in BOOLEAN
    /\ Schedules \subseteq {"sequential", "cooperative", "parallel"}

Runs == 1..MaxRuns
RunOrNone == 0..MaxRuns

VARIABLES
    shutdownTx,  \* the run whose sender ServerState.shutdown_tx holds
    taskTx,      \* the run whose sender ServerState.http_task_tx holds
    taskRx,      \* the run whose receiver HTTP_TASK_RX holds
    notifier,    \* the run whose condition HTTP_NOTIFIER_HANDLE points to
    routes,      \* the apps whose HTTP and WebSocket routes are registered
    native,      \* the apps whose native routes are registered
    thread,      \* thread[r]: the Rust thread of run r
    running,     \* _server_running[]
    activeApp,   \* _active_app[]
    condRef,     \* _http_notifier_cond[]
    condSet,     \* the conditions that are signalled
    inflight,    \* _http_inflight[]
    wsTask,      \* wsTask[r]: the app for which the WebSocket task of run r runs
    wsList,      \* wsList[a]: the run whose task is in a.ws_tasks
    runs,        \* the runs begun so far
    pc,          \* pc[t]: where task t is
    frame,       \* frame[t]: the local variables of its call
    schedule     \* how the tasks are scheduled, which never changes

rustVars == <<shutdownTx, taskTx, taskRx, notifier, routes, native, thread>>
juliaVars == <<running, activeApp, condRef, condSet, inflight, runs>>
wsVars == <<wsTask, wsList>>
vars == <<rustVars, juliaVars, wsVars, pc, frame>>

ServePoints == {"banner", "register", "notify", "flag", "start", "binding", "refused", "ws", "enter"}
LoopPoints == {"check", "poll", "recheck", "wait"}
StopPoints ==
    {"stopping", "rust", "signal", "drain", "draining", "release", "join", "joining", "clear"}
Points == {"idle", "finally"} \cup ServePoints \cup LoopPoints \cup StopPoints

\* app, run and cond belong to serve(), stopApp and join to stop_server!().
FrameType ==
    [app : Apps \cup {NoApp}, run : RunOrNone, cond : RunOrNone,
     stopApp : Apps \cup {NoApp}, join : RunOrNone]
NoFrame == [app |-> NoApp, run |-> 0, cond |-> 0, stopApp |-> NoApp, join |-> 0]

Init ==
    /\ shutdownTx = 0 /\ taskTx = 0 /\ taskRx = 0 /\ notifier = 0
    /\ routes = {} /\ native = {}
    /\ thread = [r \in Runs |-> "none"]
    /\ running = FALSE
    /\ activeApp = NoApp
    /\ condRef = 0
    /\ condSet = {}
    /\ inflight = 0
    /\ wsTask = [r \in Runs |-> NoApp]
    /\ wsList = [a \in Apps |-> 0]
    /\ runs = 0
    /\ pc = [t \in Tasks |-> "idle"]
    /\ frame = [t \in Tasks |-> NoFrame]
    /\ schedule \in Schedules

(***************************************************************************)
(* Scheduling. "parallel": the tasks run on threads of their own.          *)
(* "cooperative": they share a thread and run until they yield, as tasks   *)
(* made with @async do. "sequential": cooperative, and nobody calls        *)
(* serve() before every earlier call of serve() and stop_server!() has     *)
(* returned.                                                               *)
(***************************************************************************)
\* print() to a terminal, wait(cond), yield() and wait(task) yield; the call of
\* fmh_server_start blocks the thread.
AtYield(t) == pc[t] \in {"idle", "banner", "wait", "draining", "joining"}

MayRun(t) == schedule = "parallel" \/ \A u \in Tasks \ {t} : AtYield(u)

MayServe == schedule = "sequential" => \A t \in Tasks : pc[t] = "idle"

Goto(t, point) == pc' = [pc EXCEPT ![t] = point]

\* A step of t from one point to another that leaves its local variables alone.
Step(t, from, to) ==
    /\ MayRun(t)
    /\ pc[t] = from
    /\ Goto(t, to)
    /\ UNCHANGED frame

\* The call of t ends.
Return(t, from) ==
    /\ MayRun(t)
    /\ pc[t] = from
    /\ Goto(t, "idle")
    /\ frame' = [frame EXCEPT ![t] = NoFrame]

(***************************************************************************)
(* serve(app).                                                             *)
(***************************************************************************)
ServeCall(t) ==
    /\ MayRun(t)
    /\ pc[t] = "idle"
    /\ MayServe
    /\ \E a \in Apps : frame' = [frame EXCEPT ![t] = [NoFrame EXCEPT !.app = a]]
    /\ Goto(t, "banner")
    /\ UNCHANGED <<rustVars, juliaVars, wsVars>>

\* "A Fomalhaut server is already running".
ServeRefused(t) ==
    /\ Return(t, "banner")
    /\ running
    /\ UNCHANGED <<rustVars, juliaVars, wsVars>>

ServeBegin(t) ==
    /\ MayRun(t)
    /\ pc[t] = "banner"
    /\ ~running
    /\ runs < MaxRuns
    /\ runs' = runs + 1
    /\ activeApp' = frame[t].app
    /\ frame' = [frame EXCEPT ![t].run = runs + 1]
    /\ Goto(t, "register")
    /\ UNCHANGED <<rustVars, running, condRef, condSet, inflight, wsVars>>

\* The routes are registered one after the other; one that Rust refuses (an
\* axis stream of more than 10000 fps) makes serve() throw where it is.
ServeRegister(t) ==
    /\ routes' = routes \cup {frame[t].app}
    /\ native' = native \cup {frame[t].app}
    /\ Step(t, "register", "notify") \/ Return(t, "register")
    /\ UNCHANGED <<shutdownTx, taskTx, taskRx, notifier, thread, juliaVars, wsVars>>

\* Mutant of ServeNotify: a condition that is there is kept.
ServeNotifyOnce(t) ==
    /\ Step(t, "notify", "flag")
    /\ condRef' = IF condRef = 0 THEN frame[t].run ELSE condRef
    /\ notifier' = frame[t].run
    /\ UNCHANGED <<shutdownTx, taskTx, taskRx, routes, native, thread>>
    /\ UNCHANGED <<running, activeApp, condSet, inflight, runs, wsVars>>

\* A new AsyncCondition, kept in the global and given to Rust.
ServeNotify(t) ==
    /\ Step(t, "notify", "flag")
    /\ condRef' = frame[t].run
    /\ notifier' = frame[t].run
    /\ UNCHANGED <<shutdownTx, taskTx, taskRx, routes, native, thread>>
    /\ UNCHANGED <<running, activeApp, condSet, inflight, runs, wsVars>>

ServeFlag(t) ==
    /\ Step(t, "flag", "start")
    /\ running' = TRUE
    /\ UNCHANGED <<rustVars, activeApp, condRef, condSet, inflight, runs, wsVars>>

(***************************************************************************)
(* fmh_server_start, and the thread it spawns.                             *)
(***************************************************************************)
StartAlready(t) ==
    /\ Step(t, "start", "refused")
    /\ shutdownTx # 0
    /\ UNCHANGED <<rustVars, juliaVars, wsVars>>

\* Mutant of Start: no FFI_ERR_ALREADY_RUNNING before the senders are stored.
StartAgain(t) ==
    /\ Step(t, "start", "binding")
    /\ shutdownTx' = frame[t].run
    /\ taskTx' = IF taskTx = 0 THEN frame[t].run ELSE taskTx
    /\ taskRx' = frame[t].run
    /\ thread' = [thread EXCEPT ![frame[t].run] = "binding"]
    /\ UNCHANGED <<notifier, routes, native, juliaVars, wsVars>>

\* Under the write lock: the senders and the receiver are stored, and a thread
\* is spawned to bind the address.
Start(t) ==
    /\ Step(t, "start", "binding")
    /\ shutdownTx = 0
    /\ shutdownTx' = frame[t].run
    /\ taskTx' = frame[t].run
    /\ taskRx' = frame[t].run
    /\ thread' = [thread EXCEPT ![frame[t].run] = "binding"]
    /\ UNCHANGED <<notifier, routes, native, juliaVars, wsVars>>

\* The address is taken while a thread listens, and may be taken by others. A
\* thread that could not be spawned, or panics before it has reported, has died.
Bind(r) ==
    /\ thread[r] = "binding"
    /\ \E result \in {"listening", "failed", "died"} :
        /\ result = "listening" => \A s \in Runs : thread[s] # "listening"
        /\ thread' = [thread EXCEPT ![r] = result]
    /\ UNCHANGED <<shutdownTx, taskTx, taskRx, notifier, routes, native>>
    /\ UNCHANGED <<juliaVars, wsVars, pc, frame>>

\* The thread ends once its shutdown sender was used or dropped.
ThreadExit(r) ==
    /\ thread[r] = "listening"
    /\ shutdownTx # r
    /\ thread' = [thread EXCEPT ![r] = "gone"]
    /\ UNCHANGED <<shutdownTx, taskTx, taskRx, notifier, routes, native>>
    /\ UNCHANGED <<juliaVars, wsVars, pc, frame>>

StartOk(t) ==
    /\ Step(t, "binding", "ws")
    /\ thread[frame[t].run] \in {"listening", "gone"}
    /\ UNCHANGED <<rustVars, juliaVars, wsVars>>

\* Mutant of StartFailed: the shutdown sender is left in the state.
StartFailedDirty(t) ==
    /\ Step(t, "binding", "refused")
    /\ thread[frame[t].run] = "failed"
    /\ UNCHANGED <<rustVars, juliaVars, wsVars>>

\* The thread has reported a failure: whatever shutdown sender is in the state is dropped.
StartFailed(t) ==
    /\ Step(t, "binding", "refused")
    /\ thread[frame[t].run] = "failed"
    /\ shutdownTx' = 0
    /\ UNCHANGED <<taskTx, taskRx, notifier, routes, native, thread, juliaVars, wsVars>>

\* Nothing will be reported, or the spawn has panicked: the senders stay.
StartDied(t) ==
    /\ Step(t, "binding", "refused")
    /\ thread[frame[t].run] = "died"
    /\ UNCHANGED <<rustVars, juliaVars, wsVars>>

\* A status other than 0: serve() resets the flag, and nothing else, and throws.
ServeFail(t) ==
    /\ Return(t, "refused")
    /\ running' = FALSE
    /\ UNCHANGED <<rustVars, activeApp, condRef, condSet, inflight, runs, wsVars>>

(***************************************************************************)
(* The rest of serve(): the WebSocket task, the poll loop, the finally.    *)
(***************************************************************************)
\* _start_ws_tasks! throws when fps <= 0, outside of the try block.
ServeBadFps(t) ==
    /\ BadFps
    /\ Return(t, "ws")
    /\ UNCHANGED <<rustVars, juliaVars, wsVars>>

ServeWs(t) ==
    /\ Step(t, "ws", "enter")
    /\ wsTask' = [wsTask EXCEPT ![frame[t].run] = frame[t].app]
    /\ wsList' = [wsList EXCEPT ![frame[t].app] = frame[t].run]
    /\ UNCHANGED <<rustVars, juliaVars>>

\* The loop waits on the condition it finds in the global.
LoopEnter(t) ==
    /\ MayRun(t)
    /\ pc[t] = "enter"
    /\ frame' = [frame EXCEPT ![t].cond = condRef]
    /\ Goto(t, "check")
    /\ UNCHANGED <<rustVars, juliaVars, wsVars>>

LoopCheck(t) ==
    /\ Step(t, "check", IF running THEN "poll" ELSE "finally")
    /\ UNCHANGED <<rustVars, juliaVars, wsVars>>

\* A task was in the channel; its handler is spawned. (One in flight is enough.)
PollTask(t) ==
    /\ Step(t, "poll", "check")
    /\ taskRx # 0
    /\ inflight = 0
    /\ inflight' = 1
    /\ UNCHANGED <<rustVars, running, activeApp, condRef, condSet, runs, wsVars>>

PollEmpty(t) ==
    /\ Step(t, "poll", "recheck")
    /\ UNCHANGED <<rustVars, juliaVars, wsVars>>

LoopRecheck(t) ==
    /\ Step(t, "recheck", IF running THEN "wait" ELSE "finally")
    /\ UNCHANGED <<rustVars, juliaVars, wsVars>>

Wake(t) ==
    /\ Step(t, "wait", "check")
    /\ frame[t].cond \in condSet
    /\ condSet' = condSet \ {frame[t].cond}
    /\ UNCHANGED <<rustVars, running, activeApp, condRef, inflight, runs, wsVars>>

\* Ctrl-C, or wait(nothing) after another task has cleared the global.
LoopBreak(t) ==
    /\ Step(t, "wait", "finally")
    /\ UNCHANGED <<rustVars, juliaVars, wsVars>>

ServeReturn(t) ==
    /\ Return(t, "finally")
    /\ ~running
    /\ UNCHANGED <<rustVars, juliaVars, wsVars>>

(***************************************************************************)
(* stop_server!(), called by a task or by the finally block of serve().    *)
(***************************************************************************)
StopCall(t) ==
    /\ \/ Step(t, "idle", "stopping")
       \/ Step(t, "finally", "stopping") /\ running
    /\ UNCHANGED <<rustVars, juliaVars, wsVars>>

StopBegin(t) ==
    /\ MayRun(t)
    /\ pc[t] = "stopping"
    /\ frame' = [frame EXCEPT ![t].stopApp = activeApp]
    /\ running' = FALSE
    /\ Goto(t, "rust")
    /\ UNCHANGED <<rustVars, activeApp, condRef, condSet, inflight, runs, wsVars>>

\* fmh_server_stop. The native routes stay.
StopRust(t) ==
    /\ Step(t, "rust", "signal")
    /\ shutdownTx' = 0
    /\ taskTx' = 0
    /\ notifier' = 0
    /\ routes' = {}
    /\ UNCHANGED <<taskRx, native, thread, juliaVars, wsVars>>

\* Mutant of StopSignal: the loop is not woken.
StopSignalNobody(t) ==
    /\ Step(t, "signal", "drain")
    /\ UNCHANGED <<rustVars, juliaVars, wsVars>>

StopSignal(t) ==
    /\ Step(t, "signal", "drain")
    /\ condSet' = condSet \cup ({condRef} \ {0})
    /\ UNCHANGED <<rustVars, running, activeApp, condRef, inflight, runs, wsVars>>

\* _wait_http_handlers! yields while it reads more than 0.
StopYield(t) ==
    /\ Step(t, "drain", "draining")
    /\ inflight > 0
    /\ UNCHANGED <<rustVars, juliaVars, wsVars>>

StopDrained(t) ==
    /\ \E point \in {"drain", "draining"} : Step(t, point, "release")
    /\ inflight = 0
    /\ UNCHANGED <<rustVars, juliaVars, wsVars>>

\* Releases the condition and looks up the task to wait for.
StopRelease(t) ==
    /\ MayRun(t)
    /\ pc[t] = "release"
    /\ condRef' = 0
    /\ frame' = [frame EXCEPT ![t].join =
            IF frame[t].stopApp = NoApp THEN 0 ELSE wsList[frame[t].stopApp]]
    /\ Goto(t, "join")
    /\ UNCHANGED <<rustVars, running, activeApp, condSet, inflight, runs, wsVars>>

\* Mutant of StopJoin: the tasks are forgotten instead of waited for.
StopJoinNobody(t) ==
    /\ \E point \in {"join", "joining"} : Step(t, point, "clear")
    /\ wsList' = [a \in Apps |-> IF a = frame[t].stopApp THEN 0 ELSE wsList[a]]
    /\ UNCHANGED <<rustVars, juliaVars, wsTask>>

StopWait(t) ==
    /\ Step(t, "join", "joining")
    /\ frame[t].join # 0 /\ wsTask[frame[t].join] # NoApp
    /\ UNCHANGED <<rustVars, juliaVars, wsVars>>

\* After wait(task), unless the task was done already, empty!(app.ws_tasks).
StopJoin(t) ==
    /\ \E point \in {"join", "joining"} : Step(t, point, "clear")
    /\ frame[t].join # 0 => wsTask[frame[t].join] = NoApp
    /\ wsList' = [a \in Apps |-> IF a = frame[t].stopApp THEN 0 ELSE wsList[a]]
    /\ UNCHANGED <<rustVars, juliaVars, wsTask>>

StopClear(t) ==
    /\ Return(t, "clear")
    /\ activeApp' = NoApp
    /\ UNCHANGED <<rustVars, running, condRef, condSet, inflight, runs, wsVars>>

(***************************************************************************)
(* What runs besides: notifications, handlers, WebSocket tasks.            *)
(***************************************************************************)
\* A connection of a server that listens has sent a task.
Notify ==
    /\ notifier # 0
    /\ \E r \in Runs : thread[r] = "listening"
    /\ condSet' = condSet \cup {notifier}
    /\ UNCHANGED <<rustVars, running, activeApp, condRef, inflight, runs, wsVars, pc, frame>>

\* Mutant of HandlerEnd: the handler is counted off by its catch and its finally.
HandlerEndTwice ==
    /\ inflight = 1
    /\ inflight' = inflight - 2
    /\ UNCHANGED <<rustVars, running, activeApp, condRef, condSet, runs, wsVars, pc, frame>>

HandlerEnd ==
    /\ inflight = 1
    /\ inflight' = 0
    /\ UNCHANGED <<rustVars, running, activeApp, condRef, condSet, runs, wsVars, pc, frame>>

\* Mutant of WsStop: the task looks at the app only.
WsStopOnApp(r) ==
    /\ schedule # "parallel" => \A t \in Tasks : AtYield(t)
    /\ wsTask[r] # NoApp
    /\ activeApp # wsTask[r]
    /\ wsTask' = [wsTask EXCEPT ![r] = NoApp]
    /\ UNCHANGED <<rustVars, juliaVars, wsList, pc, frame>>

\* A WebSocket task checks _server_running[] and the app between two frames.
WsStop(r) ==
    /\ schedule # "parallel" => \A t \in Tasks : AtYield(t)
    /\ wsTask[r] # NoApp
    /\ ~(running /\ activeApp = wsTask[r])
    /\ wsTask' = [wsTask EXCEPT ![r] = NoApp]
    /\ UNCHANGED <<rustVars, juliaVars, wsList, pc, frame>>

\* The handler or the broadcast of its frame throws: the task ends.
WsThrow(r) ==
    /\ schedule # "parallel" => \A t \in Tasks : AtYield(t)
    /\ wsTask[r] # NoApp
    /\ wsTask' = [wsTask EXCEPT ![r] = NoApp]
    /\ UNCHANGED <<rustVars, juliaVars, wsList, pc, frame>>

-----------------------------------------------------------------------------
ServeStep(t) ==
    \/ ServeRefused(t) \/ ServeBegin(t) \/ ServeRegister(t) \/ ServeNotify(t)
    \/ ServeFlag(t) \/ StartAlready(t) \/ Start(t) \/ StartOk(t)
    \/ StartFailed(t) \/ StartDied(t) \/ ServeFail(t) \/ ServeBadFps(t) \/ ServeWs(t)

LoopStep(t) ==
    \/ LoopEnter(t) \/ LoopCheck(t) \/ PollTask(t) \/ PollEmpty(t)
    \/ LoopRecheck(t) \/ Wake(t) \/ ServeReturn(t)

StopStep(t) ==
    \/ StopBegin(t) \/ StopRust(t) \/ StopSignal(t) \/ StopYield(t) \/ StopDrained(t)
    \/ StopRelease(t) \/ StopWait(t) \/ StopJoin(t) \/ StopClear(t)

AnyStep ==
    \/ \E t \in Tasks :
        \/ ServeCall(t) \/ ServeStep(t) \/ LoopStep(t) \/ LoopBreak(t)
        \/ StopCall(t) \/ StopStep(t)
    \/ \E r \in Runs : Bind(r) \/ ThreadExit(r) \/ WsStop(r) \/ WsThrow(r)
    \/ Notify
    \/ HandlerEnd

Next == AnyStep /\ UNCHANGED schedule

(***************************************************************************)
(* What was begun goes on: tasks and threads that can run do, handlers and *)
(* WebSocket tasks come to their checks. Fairness is strong for the tasks  *)
(* that share a thread: the queue of tasks is first in, first out, so that *)
(* a task made runnable again and again by the yields of others gets its   *)
(* turn. Nobody has to call serve() or stop_server!(), except the finally  *)
(* block of serve().                                                       *)
(***************************************************************************)
Fairness ==
    /\ \A t \in Tasks :
        /\ SF_vars(ServeStep(t) \/ LoopStep(t) \/ StopStep(t))
        /\ SF_vars(pc[t] = "finally" /\ StopCall(t))
    /\ \A r \in Runs : WF_vars(Bind(r)) /\ WF_vars(ThreadExit(r)) /\ SF_vars(WsStop(r))
    /\ WF_vars(HandlerEnd)

SafeSpec == Init /\ [][Next]_<<vars, schedule>>
Spec == SafeSpec /\ Fairness

-----------------------------------------------------------------------------
(***************************************************************************)
(* Properties.                                                             *)
(***************************************************************************)
TypeOK ==
    /\ shutdownTx \in RunOrNone /\ taskTx \in RunOrNone /\ taskRx \in RunOrNone
    /\ notifier \in RunOrNone /\ condRef \in RunOrNone /\ condSet \subseteq Runs
    /\ routes \subseteq Apps /\ native \subseteq Apps
    /\ thread \in [Runs -> {"none", "binding", "listening", "failed", "died", "gone"}]
    /\ running \in BOOLEAN
    /\ activeApp \in Apps \cup {NoApp}
    /\ inflight \in {0, 1}
    /\ wsTask \in [Runs -> Apps \cup {NoApp}]
    /\ wsList \in [Apps -> RunOrNone]
    /\ runs \in RunOrNone
    /\ pc \in [Tasks -> Points]
    /\ frame \in [Tasks -> FrameType]
    /\ schedule \in Schedules

\* Whatever calls overlap, a Rust server that was not shut down puts its tasks
\* in the channel Julia polls.
ChannelPaired ==
    shutdownTx # 0 => taskTx = shutdownTx /\ taskRx = shutdownTx

\* A Rust server is up: Rust has the shutdown sender of a thread that listens.
ServerUp == shutdownTx # 0 /\ thread[shutdownTx] = "listening"

\* With all tasks on one thread, Julia's flag tells the truth about Rust at
\* every point where another task can run: it is set exactly when a server is
\* up. A sender Rust has while the flag is down is that of a thread that died
\* before it could report, and of no other start that failed.
FlagsAgree ==
    schedule # "parallel" /\ (\A t \in Tasks : AtYield(t)) =>
        /\ running <=> ServerUp
        /\ shutdownTx # 0 => running \/ thread[shutdownTx] = "died"

\* A loop that was not told to stop has the server to itself: the senders, the
\* notifier, the condition it waits on, the global that keeps it, the app and
\* its routes all belong to its own run.
LoopOwnsServer ==
    \A t \in Tasks : pc[t] \in LoopPoints /\ running =>
        /\ {shutdownTx, taskTx, taskRx, notifier, condRef, frame[t].cond} = {frame[t].run}
        /\ activeApp = frame[t].app
        /\ activeApp \in routes

\* No WebSocket task of an earlier run writes frames into the present one.
NoStaleWsTask ==
    running => \A r \in Runs : wsTask[r] # NoApp => r = shutdownTx

\* Each call of stop_server!() returns.
StopEnds ==
    \A t \in Tasks : pc[t] \in StopPoints ~> pc[t] = "idle"

\* A loop polls only while its own server is up: a stop_server!() that has
\* woken it ends it.
StopEndsLoop ==
    \A t \in Tasks : pc[t] = "poll" => frame[t].run = shutdownTx

\* fmh_server_start says "server already running" of a server that runs, or is
\* about to.
AlreadyRunning ==
    \A t \in Tasks : pc[t] = "start" /\ shutdownTx # 0 =>
        thread[shutdownTx] \in {"binding", "listening"}

\* The global keeps the condition Rust was given.
NotifierRooted == notifier # 0 => condRef = notifier

(***************************************************************************)
(* The one server of OneServer. A call of serve() is starting it from the  *)
(* end of its registration until fmh_server_start has come to an end; from *)
(* then on it is up as long as it listens and Rust has its sender. A       *)
(* sender that a thread which died has left behind is no server.           *)
(***************************************************************************)
StartPoints == {"notify", "flag", "start", "binding", "refused"}

Starting == \E t \in Tasks : pc[t] \in StartPoints

Phase == IF Starting THEN "starting" ELSE IF ServerUp THEN "up" ELSE "down"

\* No handler and no WebSocket task is left.
Quiet == inflight = 0 /\ \A r \in Runs : wsTask[r] = NoApp

Server == INSTANCE OneServer WITH
    Routes <- Apps, phase <- Phase, tables <- routes, busy <- ~Quiet,
    app <- IF Phase = "down" THEN {} ELSE {activeApp}

\* Calls of serve() that do not overlap use one server after the other, however
\* many tasks call stop_server!() meanwhile: each serves the app it was given
\* until it is stopped, and begins when nothing of the one before is left.
ImplementsOneServer == Server!Spec
=============================================================================
