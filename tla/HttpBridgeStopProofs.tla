------------------------- MODULE HttpBridgeStopProofs -------------------------
(***************************************************************************)
(* Theorems about HttpBridge that relate the poll loop, the notifications  *)
(* and stop_server!: wakeups are not lost, and what a stop leaves behind.  *)
(***************************************************************************)
EXTENDS HttpBridgeProofs

\* _server_running[] is TRUE until the first call of stop_server!, and the
\* notifier stays registered until then.
RunningInv ==
    /\ running <=> \A c \in Callers : stop[c] = "idle"
    /\ ~notifier => ~running

\* A caller of stop_server! that has signalled the condition.
Signalled(c) == stop[c] \in {"drain", "release", "clear", "done"}

\* The wakeups: NoLostWakeup, strengthened by what a stop has done before it
\* lets the condition go.
WakeInv ==
    /\ loop \in {"recheck", "wait"} /\ running /\ queue # <<>> =>
        condSet \/ \E r \in Requests : conn[r] \in {"pushed", "notifying"}
    /\ loop = "wait" => \A c \in Callers : Signalled(c) => condSet
    /\ ~condRef => \E c \in Callers : stop[c] \in {"clear", "done"}

\* A caller of stop_server! that has seen the counter of handlers at zero.
PastDrain(c) == stop[c] \in {"release", "clear", "done"}

\* A handler inside stop_server! is counted, so that it never gets past the wait.
SelfStopInv == \A r \in SelfStop :
    stop[r] # "idle" => handler[r] = "run" /\ stop[r] \in {"rust", "signal", "drain"}

\* At most one request is between the poll and the spawn.
HandOverInv ==
    /\ \A r \in Requests :
        handler[r] \in {"polled", "counted"} => loop \in {"spawn", "finally", "stopping", "ended"}
    /\ \A r, s \in Requests :
        handler[r] \in {"polled", "counted"} /\ handler[s] \in {"polled", "counted"} => r = s

\* On one thread the loop never polls again once serve() or External stops, and
\* when the counter was zero once it stays zero.
CooperativeInv == ~Parallel =>
    /\ (\E c \in MainTasks : stop[c] # "idle") => loop \notin {"poll", "spawn", "recheck"}
    /\ (\E c \in Callers : PastDrain(c)) => \A r \in Requests : handler[r] \notin ActiveHandler

\* In parallel the loop polls at most once more.
StragglerInv == (\E c \in Callers : PastDrain(c)) =>
    /\ loop = "poll" => Taken = {}
    /\ \A r, s \in Taken : r = s

ClearedInv == ~activeApp => \E c \in Callers : stop[c] = "done"

StopInv ==
    /\ RunningInv /\ WakeInv /\ SelfStopInv /\ HandOverInv
    /\ CooperativeInv /\ StragglerInv /\ ClearedInv

-----------------------------------------------------------------------------
\* Nobody has called stop_server! when the loop is entered.
LEMMA StopInvInit == Init => StopInv
<1> SUFFICES ASSUME Init PROVE StopInv
  OBVIOUS
<1>1. RunningInv
  BY DEF Init, RunningInv
<1>2. WakeInv
  BY DEF Init, WakeInv
<1>3. SelfStopInv /\ HandOverInv
  BY DEF Init, SelfStopInv, HandOverInv, Callers
<1>4. CooperativeInv /\ StragglerInv
  <2>1. \A c \in Callers : ~PastDrain(c)
    BY DEF Init, PastDrain
  <2>2. \A c \in MainTasks : stop[c] = "idle"
    BY DEF Init, Callers
  <2> QED BY <2>1, <2>2 DEF CooperativeInv, StragglerInv
<1>5. ClearedInv
  BY DEF Init, ClearedInv
<1> QED BY <1>1, <1>2, <1>3, <1>4, <1>5 DEF StopInv

\* What every step of stop_server! does to its callers: one caller moves on.
LEMMA StopMoves ==
    ASSUME Inv, NEW c \in Callers, StopBegin(c) \/ StopStep(c)
    PROVE  /\ UNCHANGED <<loop, conn, queue, handle, handler, inflight>>
           /\ stop[c] # "done" /\ stop'[c] # "idle"
           /\ \A d \in Callers : d # c => stop'[d] = stop[d]
           /\ PastDrain(c) => PastDrain(c)'
           /\ Signalled(c) => Signalled(c)'
<1> USE DEF PastDrain, Signalled, connVars, taskVars
<1>1. stop \in [Callers -> StopState]
  BY DEF Inv, TypeOK
<1>2. CASE StopBegin(c)
  BY <1>1, <1>2 DEF StopBegin
<1>3. CASE StopStep(c)
  BY <1>1, <1>3 DEF StopStep, StopRust, StopSignal, StopDrained, StopRelease, StopClear
<1> QED BY <1>2, <1>3

\* _server_running[] falls with the first call of stop_server! and not before.
LEMMA RunningStep == Inv /\ RunningInv /\ [Next]_vars => RunningInv'
<1> SUFFICES ASSUME Inv, RunningInv, [Next]_vars PROVE RunningInv'
  OBVIOUS
<1> USE DEF RunningInv
<1>1. stop \in [Callers -> StopState]
  BY DEF Inv, TypeOK
<1>2. CASE UNCHANGED <<running, activeApp, loop, stop, condRef, condAlive, rustUp, notifier>>
  BY <1>2
<1>3. ASSUME LoopStep \/ Interrupt \/ FinalizeCond
      PROVE  UNCHANGED <<running, stop, notifier>>
  BY <1>3 DEF LoopStep, LoopCheck, PollTask, PollEmpty, CountHandler, SpawnHandler,
     LoopRecheck, Wake, LoopFinally, ServeReturn, Interrupt, FinalizeCond, juliaVars, rustVars
<1>4. ASSUME NEW c \in Callers, StopBegin(c) PROVE RunningInv'
  <2>1. stop'[c] = "rust" /\ ~running'
    BY <1>1, <1>4 DEF StopBegin
  <2> QED BY <2>1
<1>5. ASSUME NEW c \in Callers, StopStep(c) PROVE RunningInv'
  <2>1. stop[c] # "idle" /\ stop'[c] # "idle" /\ running' = running
    BY <1>1, <1>5 DEF StopStep, StopRust, StopSignal, StopDrained, StopRelease, StopClear
  <2>2. ~running /\ ~running'
    BY <2>1
  <2> QED BY <2>1, <2>2
<1> QED BY <1>2, <1>3, <1>4, <1>5, JuliaFrame

\* The first part of WakeInv: a task sent since the channel was found empty.
LEMMA WakePending ==
    ASSUME Inv, RunningInv, WakeInv, [Next]_vars,
           loop' \in {"recheck", "wait"}, running', queue' # <<>>
    PROVE  condSet' \/ \E r \in Requests : conn'[r] \in {"pushed", "notifying"}
<1> DEFINE Pending == condSet \/ \E r \in Requests : conn[r] \in {"pushed", "notifying"}
<1>0. conn \in [Requests -> ConnState]
  BY DEF Inv, TypeOK
<1> USE DEF vars, connVars, taskVars, rustVars, juliaVars, condVars
<1>1. ASSUME NEW r \in Requests, Send(r) PROVE Pending'
  BY <1>0, <1>1 DEF Send
<1>2. ASSUME NEW r \in Requests, LoadNotifier(r) PROVE Pending'
  <2>1. running
    BY <1>2 DEF LoadNotifier
  <2>2. conn'[r] = "notifying"
    BY <1>0, <1>2, <2>1 DEF LoadNotifier, RunningInv
  <2> QED BY <2>2
<1>3. ASSUME NEW r \in Requests, CallNotifier(r) PROVE Pending'
  BY <1>3 DEF CallNotifier
<1>4. ASSUME NEW r \in Requests,
             \/ Connect(r) \/ Resolve(r) \/ AcquireSender(r) \/ Receive(r)
             \/ WriteResponse(r) \/ GiveUp(r)
      PROVE  Pending'
  <2>1. /\ UNCHANGED <<loop, running, queue, condSet>>
        /\ \A s \in Requests : conn[s] \in {"pushed", "notifying"} => conn'[s] = conn[s]
    BY <1>0, <1>4 DEF Connect, Resolve, AcquireSender, Receive, WriteResponse, GiveUp, AwaitPoints
  <2>2. Pending
    BY <2>1 DEF WakeInv
  <2> QED BY <2>1, <2>2
<1>5. CASE ServerExit
  <2>1. /\ UNCHANGED <<loop, running, queue, condSet>>
        /\ \A s \in Requests : conn[s] \notin {"pushed", "notifying"}
    BY <1>5 DEF ServerExit, SyncPoints
  <2>2. condSet
    BY <2>1 DEF WakeInv
  <2> QED BY <2>1, <2>2
<1>6. ASSUME NEW r \in Requests, HandlerStep(r) PROVE Pending'
  <2>1. UNCHANGED <<loop, running, queue, condSet, conn>>
    BY <1>6 DEF HandlerStep, HandlerStart, HandlerThrow, HandlerComplete, HandlerFail,
       HandlerLost, HandlerFinally
  <2> QED BY <2>1 DEF WakeInv
<1>7. ASSUME LoopStep \/ Interrupt PROVE Pending'
  <2>1. LoopRecheck
    BY <1>7 DEF LoopStep, LoopCheck, PollTask, PollEmpty, CountHandler, SpawnHandler,
       LoopRecheck, Wake, LoopFinally, ServeReturn, Interrupt
  <2> QED BY <2>1 DEF LoopRecheck, WakeInv
<1>8. ASSUME NEW c \in Callers, StopBegin(c) \/ StopStep(c) PROVE Pending'
  <2>1. ~running'
    BY <1>8, RunningStep, StopMoves DEF RunningInv
  <2> QED BY <2>1
<1>9. CASE FinalizeCond \/ UNCHANGED vars
  <2>1. UNCHANGED <<loop, running, queue, condSet, conn>>
    BY <1>9 DEF FinalizeCond
  <2> QED BY <2>1 DEF WakeInv
<1> QED
  BY <1>1, <1>2, <1>3, <1>4, <1>5, <1>6, <1>7, <1>8, <1>9 DEF Next, ConnStep

\* The second and third part: what a stop did before it let the condition go.
LEMMA WakeSignalled ==
    ASSUME Inv, RunningInv, WakeInv, [Next]_vars
    PROVE  /\ loop' = "wait" => \A c \in Callers : Signalled(c)' => condSet'
           /\ ~condRef' => \E c \in Callers : stop'[c] \in {"clear", "done"}
<1> DEFINE Goal ==
      /\ loop' = "wait" => \A c \in Callers : Signalled(c)' => condSet'
      /\ ~condRef' => \E c \in Callers : stop'[c] \in {"clear", "done"}
<1>0. stop \in [Callers -> StopState]
  BY DEF Inv, TypeOK
<1> USE DEF vars, connVars, taskVars, rustVars, juliaVars, condVars, Signalled
<1>1. ASSUME UNCHANGED <<loop, stop, condRef>>, condSet => condSet' PROVE Goal
  BY <1>1 DEF WakeInv
<1>2. ASSUME NEW r \in Requests, Connect(r) \/ ConnStep(r) \/ GiveUp(r)
      PROVE  UNCHANGED <<loop, stop, condRef>> /\ (condSet => condSet')
  BY <1>2 DEF ConnStep, Connect, Resolve, AcquireSender, Send, LoadNotifier, CallNotifier,
     Receive, WriteResponse, GiveUp
<1>3. ASSUME NEW r \in Requests, HandlerStep(r)
      PROVE  UNCHANGED <<loop, stop, condRef, condSet>>
  BY <1>3 DEF HandlerStep, HandlerStart, HandlerThrow, HandlerComplete, HandlerFail,
     HandlerLost, HandlerFinally
<1>4. ASSUME ServerExit \/ FinalizeCond PROVE UNCHANGED <<loop, stop, condRef, condSet>>
  BY <1>4 DEF ServerExit, FinalizeCond
<1>5. ASSUME LoopStep \/ Interrupt PROVE Goal
  <2>1. UNCHANGED <<stop, condRef>>
    BY <1>5 DEF LoopStep, LoopCheck, PollTask, PollEmpty, CountHandler, SpawnHandler,
       LoopRecheck, Wake, LoopFinally, ServeReturn, Interrupt
  <2>2. loop' = "wait" => running
    BY <1>5 DEF LoopStep, LoopCheck, PollTask, PollEmpty, CountHandler, SpawnHandler,
       LoopRecheck, Wake, LoopFinally, ServeReturn, Interrupt
  <2>3. loop' = "wait" => \A c \in Callers : stop'[c] = "idle"
    BY <2>1, <2>2 DEF RunningInv
  <2> QED BY <2>1, <2>3 DEF WakeInv
<1>6. ASSUME NEW c \in Callers, StopSignal(c) PROVE Goal
  <2>1. /\ stop[c] = "signal" /\ stop' = [stop EXCEPT ![c] = "drain"]
        /\ UNCHANGED <<loop, condRef>>
        /\ condSet' <=> condSet \/ condRef
    BY <1>6 DEF StopSignal
  <2>2. \A d \in Callers : stop[d] \in {"clear", "done"} => stop'[d] = stop[d]
    BY <1>0, <2>1
  <2>3. loop = "wait" /\ ~condRef => condSet
    BY DEF WakeInv
  <2> QED BY <2>1, <2>2, <2>3 DEF WakeInv
<1>7. ASSUME NEW c \in Callers, StopRelease(c) PROVE Goal
  <2>1. stop'[c] = "clear"
    BY <1>0, <1>7 DEF StopRelease
  <2>2. UNCHANGED <<loop, condSet>> /\ Signalled(c)
    BY <1>7 DEF StopRelease
  <2>3. loop' = "wait" => condSet'
    BY <2>2 DEF WakeInv
  <2> QED BY <2>1, <2>3
<1>8. ASSUME NEW c \in Callers, StopBegin(c) \/ StopRust(c) \/ StopDrained(c) \/ StopClear(c)
      PROVE  Goal
  <2>1. UNCHANGED <<loop, condSet, condRef>>
    BY <1>8 DEF StopBegin, StopRust, StopDrained, StopClear
  <2>2. \A d \in Callers : Signalled(d)' => Signalled(d)
    BY <1>0, <1>8 DEF StopBegin, StopRust, StopDrained, StopClear
  <2>3. \A d \in Callers : stop[d] \in {"clear", "done"} => stop'[d] \in {"clear", "done"}
    BY <1>0, <1>8 DEF StopBegin, StopRust, StopDrained, StopClear
  <2> QED BY <2>1, <2>2, <2>3 DEF WakeInv
<1> QED
  BY <1>1, <1>2, <1>3, <1>4, <1>5, <1>6, <1>7, <1>8 DEF Next, StopStep

\* A handler inside stop_server! keeps the counter above zero.
LEMMA SelfStopStep == Inv /\ SelfStopInv /\ [Next]_vars => SelfStopInv'
<1> SUFFICES ASSUME Inv, SelfStopInv, [Next]_vars, NEW q \in SelfStop, stop'[q] # "idle"
             PROVE  handler'[q] = "run" /\ stop'[q] \in {"rust", "signal", "drain"}
  BY DEF SelfStopInv
<1>0. /\ stop \in [Callers -> StopState]
      /\ handler \in [Requests -> HandlerState]
      /\ q \in Callers /\ q \in Requests
  BY RequestsAssumption DEF Inv, TypeOK, Callers
<1>1. ASSUME stop'[q] = stop[q] PROVE handler[q] = "run" /\ stop'[q] \in {"rust", "signal", "drain"}
  BY <1>1 DEF SelfStopInv
<1>2. ASSUME NEW c \in Callers, StopBegin(c) \/ StopStep(c)
      PROVE  handler'[q] = "run" /\ stop'[q] \in {"rust", "signal", "drain"}
  <2>1. handler' = handler /\ (c # q => stop'[q] = stop[q])
    BY <1>0, <1>2, StopMoves
  <2>2. CASE c # q
    BY <1>1, <2>1, <2>2
  <2>3. CASE c = q /\ StopBegin(c)
    BY <1>0, <2>1, <2>3 DEF StopBegin
  <2>4. CASE c = q /\ StopStep(c)
    <3>1. handler[q] = "run" /\ stop[q] \in {"rust", "signal", "drain"}
      BY <1>0, <2>4 DEF SelfStopInv, StopStep, StopRust, StopSignal, StopDrained, StopRelease, StopClear
    <3>2. inflight # 0
      BY <1>0, <3>1, ActiveCount DEF Inv, CountOK, ActiveHandler
    <3> QED
      BY <1>0, <2>1, <2>4, <3>1, <3>2 DEF StopStep, StopRust, StopSignal, StopDrained,
         StopRelease, StopClear
  <2> QED BY <1>2, <2>2, <2>3, <2>4
<1>3. ASSUME UNCHANGED stop
      PROVE  handler'[q] = "run"
  <2>1. handler[q] = "run" /\ stop[q] \notin {"idle", "done"}
    BY <1>1, <1>3
  <2>2. ASSUME NEW r \in Requests, HandlerStep(r) PROVE handler'[q] = "run"
    BY <1>0, <2>1, <2>2 DEF HandlerStep, HandlerStart, HandlerThrow, HandlerComplete,
       HandlerFail, HandlerLost, HandlerFinally, Complete, NotInStop
  <2>3. ASSUME NEW r \in Requests, CountHandler(r) \/ SpawnHandler(r) PROVE handler'[q] = "run"
    BY <1>0, <2>1, <2>3 DEF CountHandler, SpawnHandler
  <2>4. CASE PollTask
    <3>1. handler[Head(queue)] = "none" /\ Head(queue) \in Requests
      BY <2>4, HeadTailProperties, EmptySeq, LenProperties
         DEF PollTask, Inv, TypeOK, QueueOwned, HandlerLinks
    <3> QED BY <1>0, <2>1, <2>4, <3>1 DEF PollTask
  <2>5. ASSUME NEW r \in Requests, Send(r) PROVE handler'[q] = "run"
    BY <2>1, <2>5 DEF Send
  <2> QED BY <2>1, <2>2, <2>3, <2>4, <2>5, TaskFrame
<1>4. ASSUME LoopStep \/ Interrupt \/ FinalizeCond PROVE UNCHANGED stop
  BY <1>4 DEF LoopStep, LoopCheck, PollTask, PollEmpty, CountHandler, SpawnHandler,
     LoopRecheck, Wake, LoopFinally, ServeReturn, Interrupt, FinalizeCond, juliaVars
<1> QED BY <1>1, <1>2, <1>3, <1>4, JuliaFrame

\* A handler's own steps never make it wait to be spawned, or active again.
LEMMA HandlerMoves ==
    ASSUME Inv, NEW r \in Requests, HandlerStep(r)
    PROVE  /\ UNCHANGED <<loop, stop, running, activeApp>>
           /\ \A s \in Requests : s # r => handler'[s] = handler[s]
           /\ handler[r] \in {"start", "run", "failed", "finally"}
           /\ handler'[r] \in {"run", "failed", "finally", "done"}
           /\ handler'[r] \in {"run", "failed"} => handler[r] \in {"start", "run"}
<1>1. handler \in [Requests -> HandlerState]
  BY DEF Inv, TypeOK
<1> QED
  BY <1>1 DEF HandlerStep, HandlerStart, HandlerThrow, HandlerComplete, HandlerFail,
     HandlerLost, HandlerFinally, Complete, juliaVars

\* The request PollTask takes had no handler.
LEMMA PollMoves ==
    ASSUME Inv, PollTask
    PROVE  \E r \in Requests :
             /\ handler[r] = "none"
             /\ handler' = [handler EXCEPT ![r] = "polled"]
             /\ loop = "poll" /\ loop' = "spawn" /\ stop' = stop
<1>1. handler[Head(queue)] = "none" /\ Head(queue) \in Requests
  BY HeadTailProperties, EmptySeq, LenProperties
     DEF PollTask, Inv, TypeOK, QueueOwned, HandlerLinks
<1> QED BY <1>1 DEF PollTask

\* The other steps of the loop leave the handlers alone.
LEMMA LoopMoves ==
    ASSUME LoopStep \/ Interrupt
    PROVE  /\ UNCHANGED <<stop, running, activeApp>>
           /\ \/ PollTask
              \/ \E r \in Requests : CountHandler(r) \/ SpawnHandler(r)
              \/ /\ UNCHANGED handler
                 /\ loop' \notin {"spawn"}
                 /\ loop' \in {"poll", "wait"} => running
                 /\ loop' = "recheck" => loop = "poll"
                 /\ loop = "spawn" => loop' = "finally"
                 /\ loop \in {"finally", "stopping", "ended"} => loop' \in {"stopping", "ended"}
<1>1. CASE LoopStep
  BY <1>1 DEF LoopStep, LoopCheck, PollTask, PollEmpty, CountHandler, SpawnHandler,
     LoopRecheck, Wake, LoopFinally, ServeReturn, juliaVars, taskVars
<1>2. CASE Interrupt
  BY <1>2 DEF Interrupt, taskVars
<1> QED BY <1>1, <1>2

\* A task polled is in the hands of the loop until its handler is spawned.
LEMMA HandOverStep == Inv /\ HandOverInv /\ [Next]_vars => HandOverInv'
<1> SUFFICES ASSUME Inv, HandOverInv, [Next]_vars PROVE HandOverInv'
  OBVIOUS
<1> USE DEF HandOverInv
<1>0. handler \in [Requests -> HandlerState]
  BY DEF Inv, TypeOK
<1>1. ASSUME NEW r \in Requests, HandlerStep(r) PROVE HandOverInv'
  BY <1>1, HandlerMoves
<1>2. CASE PollTask
  BY <1>0, <1>2, PollMoves
<1>3. ASSUME NEW r \in Requests, CountHandler(r) \/ SpawnHandler(r) PROVE HandOverInv'
  BY <1>0, <1>3 DEF CountHandler, SpawnHandler, juliaVars
<1>4. ASSUME LoopStep \/ Interrupt, UNCHANGED handler PROVE HandOverInv'
  <2>1. CASE PollTask
    BY <2>1, <1>2
  <2>2. ASSUME NEW r \in Requests, CountHandler(r) \/ SpawnHandler(r) PROVE HandOverInv'
    BY <2>2, <1>3
  <2>3. ASSUME loop = "spawn" => loop' = "finally",
               loop \in {"finally", "stopping", "ended"} => loop' \in {"stopping", "ended"}
        PROVE  HandOverInv'
    BY <1>4, <2>3
  <2> QED BY <1>4, <2>1, <2>2, <2>3, LoopMoves
<1>5. ASSUME NEW c \in Callers, StopBegin(c) \/ StopStep(c) PROVE HandOverInv'
  BY <1>5, StopMoves
<1>6. ASSUME FinalizeCond PROVE UNCHANGED <<loop, handler>>
  BY <1>6 DEF FinalizeCond, juliaVars, taskVars
<1>7. ASSUME NEW r \in Requests, Send(r) PROVE UNCHANGED <<loop, handler>>
  BY <1>7 DEF Send, juliaVars
<1>8. ASSUME UNCHANGED <<loop, handler>> PROVE HandOverInv'
  BY <1>8
<1>9. CASE UNCHANGED handler
  BY <1>4, <1>5, <1>6, <1>8, <1>9, JuliaFrame
<1> QED BY <1>1, <1>2, <1>3, <1>7, <1>8, <1>9, TaskFrame

\* On one thread stop_server! and the loop never overlap outside of their yields.
LEMMA CooperativeStep ==
    Inv /\ RunningInv /\ SelfStopInv /\ CooperativeInv /\ [Next]_vars => CooperativeInv'
<1> SUFFICES ASSUME Inv, RunningInv, SelfStopInv, CooperativeInv, [Next]_vars, ~Parallel
             PROVE  /\ (\E c \in MainTasks : stop'[c] # "idle") => loop' \notin {"poll", "spawn", "recheck"}
                    /\ (\E c \in Callers : PastDrain(c)') => \A r \in Requests : handler'[r] \notin ActiveHandler
  BY DEF CooperativeInv
<1> DEFINE Quiet == (\E c \in MainTasks : stop[c] # "idle") => loop \notin {"poll", "spawn", "recheck"}
           Calm == (\E c \in Callers : PastDrain(c)) => \A r \in Requests : handler[r] \notin ActiveHandler
<1>0. /\ handler \in [Requests -> HandlerState]
      /\ stop \in [Callers -> StopState]
      /\ Quiet /\ Calm
      /\ MainTasks \subseteq Callers
  BY DEF Inv, TypeOK, CooperativeInv, Callers
<1>m. \A c \in Callers : PastDrain(c) => c \in MainTasks /\ stop[c] # "idle"
  BY DEF PastDrain, SelfStopInv, Callers
<1>1. ASSUME NEW r \in Requests, HandlerStep(r) PROVE Quiet' /\ Calm'
  <2>1. UNCHANGED <<loop, stop>>
    BY <1>1, HandlerMoves
  <2>2. \A s \in Requests : handler[s] \notin ActiveHandler => handler'[s] \notin ActiveHandler
    BY <1>1, HandlerMoves DEF ActiveHandler
  <2> QED BY <1>0, <2>1, <2>2 DEF PastDrain
<1>2. ASSUME LoopStep \/ Interrupt PROVE Quiet' /\ Calm'
  <2>1. UNCHANGED stop
    BY <1>2, LoopMoves
  <2>2. CASE \E c \in MainTasks : stop[c] # "idle"
    <3>1. ~running /\ loop \notin {"poll", "spawn", "recheck"}
      BY <1>0, <2>2 DEF RunningInv
    <3>2. ~PollTask /\ \A r \in Requests : ~CountHandler(r) /\ ~SpawnHandler(r)
      BY <3>1 DEF PollTask, CountHandler, SpawnHandler
    <3>3. UNCHANGED handler /\ loop' \notin {"poll", "spawn", "recheck"}
      BY <1>2, <3>1, <3>2, LoopMoves
    <3> QED BY <1>0, <2>1, <3>3 DEF PastDrain
  <2>3. CASE \A c \in MainTasks : stop[c] = "idle"
    BY <1>m, <2>1, <2>3 DEF PastDrain
  <2> QED BY <2>2, <2>3
<1>3. ASSUME NEW c \in Callers, StopBegin(c) \/ StopStep(c) PROVE Quiet'
  <2>1. loop' = loop /\ \A d \in Callers : d # c => stop'[d] = stop[d]
    BY <1>3, StopMoves
  <2>2. CASE c \notin MainTasks
    BY <1>0, <2>1, <2>2
  <2>3. CASE c \in MainTasks /\ StopStep(c)
    <3>1. stop[c] # "idle"
      BY <2>3 DEF StopStep, StopRust, StopSignal, StopDrained, StopRelease, StopClear
    <3> QED BY <1>0, <2>1, <2>3, <3>1
  <2>4. CASE c \in External /\ StopBegin(c)
    <3>1. LoopTask \in MainTasks \ {c}
      BY <2>4, TasksAssumption DEF MainTasks
    <3>2. AtYield(LoopTask)
      BY <2>4, <3>1 DEF StopBegin, MayStep, MayRun, MainTasks
    <3> QED BY <2>1, <3>2 DEF AtYield
  <2>5. CASE c = LoopTask /\ StopBegin(c)
    BY <2>1, <2>5 DEF StopBegin
  <2> QED BY <1>3, <2>2, <2>3, <2>4, <2>5 DEF MainTasks
<1>4. ASSUME NEW c \in Callers, StopBegin(c) \/ StopStep(c) PROVE Calm'
  <2>1. handler' = handler /\ \A d \in Callers : d # c => stop'[d] = stop[d]
    BY <1>4, StopMoves
  <2>2. CASE StopDrained(c)
    <3>1. inflight = 0
      BY <2>2 DEF StopDrained
    <3>2. \A r \in Requests : handler[r] \notin ActiveHandler
      BY <1>0, <3>1, ActiveCount DEF Inv, CountOK
    <3> QED BY <2>1, <3>2
  <2>3. CASE ~StopDrained(c)
    <3>1. PastDrain(c)' => PastDrain(c)
      BY <1>0, <1>4, <2>3 DEF PastDrain, StopBegin, StopStep, StopRust, StopSignal,
         StopRelease, StopClear
    <3> QED BY <1>0, <2>1, <3>1 DEF PastDrain
  <2> QED BY <2>2, <2>3
<1>5. ASSUME UNCHANGED <<loop, stop, handler>> PROVE Quiet' /\ Calm'
  BY <1>0, <1>5 DEF PastDrain
<1>6. ASSUME FinalizeCond PROVE UNCHANGED <<loop, stop, handler>>
  BY <1>6 DEF FinalizeCond, juliaVars, taskVars
<1>7. ASSUME NEW r \in Requests, Connect(r) \/ ConnStep(r) \/ GiveUp(r)
      PROVE  UNCHANGED <<loop, stop, handler>>
  BY <1>7 DEF ConnStep, Connect, Resolve, AcquireSender, Send, LoadNotifier, CallNotifier,
     Receive, WriteResponse, GiveUp, juliaVars, taskVars
<1>8. ASSUME ServerExit \/ UNCHANGED vars PROVE UNCHANGED <<loop, stop, handler>>
  BY <1>8 DEF ServerExit, vars, juliaVars, taskVars
<1>9. Quiet' /\ Calm'
  BY <1>1, <1>2, <1>3, <1>4, <1>5, <1>6, <1>7, <1>8 DEF Next
<1> QED BY <1>9

\* The straggler: once the counter was zero, the loop polls at most once more.
LEMMA StragglerStep ==
    Inv /\ RunningInv /\ HandOverInv /\ StragglerInv /\ [Next]_vars => StragglerInv'
<1> SUFFICES ASSUME Inv, RunningInv, HandOverInv, StragglerInv, [Next]_vars PROVE StragglerInv'
  OBVIOUS
<1> DEFINE One == \A r, s \in Taken : r = s
           Past == \E c \in Callers : PastDrain(c)
<1>0. /\ handler \in [Requests -> HandlerState]
      /\ stop \in [Callers -> StopState]
      /\ Past => ~running
      /\ Past => (loop = "poll" => Taken = {}) /\ One
  BY DEF Inv, TypeOK, RunningInv, StragglerInv, PastDrain
<1>1. ASSUME UNCHANGED stop,
             loop' = "poll" => (loop = "poll" \/ running),
             Taken' \subseteq Taken
      PROVE  StragglerInv'
  <2> SUFFICES ASSUME Past' PROVE (loop' = "poll" => Taken' = {}) /\ One'
    BY DEF StragglerInv
  <2>1. Past
    BY <1>1 DEF PastDrain
  <2> QED BY <1>0, <1>1, <2>1
<1>2. ASSUME NEW r \in Requests, HandlerStep(r) PROVE StragglerInv'
  <2>1. UNCHANGED <<loop, stop>>
    BY <1>2, HandlerMoves
  <2>2. Taken' \subseteq Taken
    BY <1>2, HandlerMoves DEF Taken
  <2> QED BY <1>1, <2>1, <2>2
<1>3. CASE PollTask
  <2> SUFFICES ASSUME Past' PROVE (loop' = "poll" => Taken' = {}) /\ One'
    BY DEF StragglerInv
  <2>1. PICK r \in Requests :
          /\ handler' = [handler EXCEPT ![r] = "polled"]
          /\ loop = "poll" /\ loop' = "spawn" /\ stop' = stop
    BY <1>3, PollMoves
  <2>2. Taken = {}
    BY <1>0, <2>1 DEF PastDrain
  <2>3. Taken' \subseteq {r}
    BY <1>0, <2>1, <2>2 DEF Taken
  <2> QED BY <2>1, <2>3
<1>4. ASSUME NEW r \in Requests, CountHandler(r) \/ SpawnHandler(r) PROVE StragglerInv'
  <2>1. UNCHANGED stop /\ loop' # "poll"
    BY <1>4 DEF CountHandler, SpawnHandler, juliaVars
  <2>2. Taken' \subseteq Taken
    BY <1>0, <1>4 DEF CountHandler, SpawnHandler, Taken
  <2> QED BY <1>1, <2>1, <2>2
<1>5. ASSUME LoopStep \/ Interrupt, UNCHANGED handler PROVE StragglerInv'
  <2>1. Taken' = Taken
    BY <1>5 DEF Taken
  <2> QED BY <1>1, <1>3, <1>4, <1>5, <2>1, LoopMoves
<1>6. ASSUME NEW c \in Callers, StopBegin(c) \/ StopStep(c) PROVE StragglerInv'
  <2>1. /\ UNCHANGED <<loop, handler>>
        /\ \A d \in Callers : d # c => stop'[d] = stop[d]
    BY <1>6, StopMoves
  <2>2. Taken' = Taken
    BY <2>1 DEF Taken
  <2>3. CASE StopDrained(c)
    <3>1. \A r \in Requests : handler[r] \notin ActiveHandler
      BY <1>0, <2>3, ActiveCount DEF StopDrained, Inv, CountOK
    <3>2. \A r \in Taken : handler[r] = "polled"
      BY <3>1 DEF Taken, ActiveHandler
    <3>3. One /\ (loop = "poll" => Taken = {})
      BY <3>2 DEF HandOverInv, Taken
    <3> QED BY <2>1, <2>2, <3>3 DEF StragglerInv
  <2>4. CASE ~StopDrained(c)
    <3>1. PastDrain(c)' => PastDrain(c)
      BY <1>0, <1>6, <2>4 DEF PastDrain, StopBegin, StopStep, StopRust, StopSignal,
         StopRelease, StopClear
    <3>2. Past' => Past
      BY <2>1, <3>1 DEF PastDrain
    <3> QED BY <1>0, <2>1, <2>2, <3>2 DEF StragglerInv
  <2> QED BY <2>3, <2>4
<1>7. ASSUME UNCHANGED <<loop, stop, handler>> PROVE StragglerInv'
  BY <1>1, <1>7 DEF Taken
<1>8. ASSUME NEW r \in Requests, Connect(r) \/ ConnStep(r) \/ GiveUp(r)
      PROVE  UNCHANGED <<loop, stop, handler>>
  BY <1>8 DEF ConnStep, Connect, Resolve, AcquireSender, Send, LoadNotifier, CallNotifier,
     Receive, WriteResponse, GiveUp, juliaVars, taskVars
<1>9. ASSUME ServerExit \/ FinalizeCond \/ UNCHANGED vars PROVE UNCHANGED <<loop, stop, handler>>
  BY <1>9 DEF ServerExit, FinalizeCond, vars, juliaVars, taskVars
<1>10. ASSUME LoopStep \/ Interrupt PROVE StragglerInv'
  BY <1>3, <1>4, <1>5, <1>10, LoopMoves
<1> QED BY <1>2, <1>6, <1>7, <1>8, <1>9, <1>10 DEF Next

\* Only a call of stop_server! that ran to its end has cleared the app.
LEMMA ClearedStep == Inv /\ ClearedInv /\ [Next]_vars => ClearedInv'
<1> SUFFICES ASSUME Inv, ClearedInv, [Next]_vars PROVE ClearedInv'
  OBVIOUS
<1> USE DEF ClearedInv
<1>0. stop \in [Callers -> StopState]
  BY DEF Inv, TypeOK
<1>1. ASSUME NEW c \in Callers, StopClear(c) PROVE ClearedInv'
  <2>1. stop'[c] = "done"
    BY <1>0, <1>1 DEF StopClear
  <2> QED BY <2>1
<1>2. ASSUME NEW c \in Callers, StopBegin(c) \/ StopStep(c), ~StopClear(c) PROVE ClearedInv'
  <2>1. UNCHANGED activeApp
    BY <1>2 DEF StopBegin, StopStep, StopRust, StopSignal, StopDrained, StopRelease
  <2>2. \A d \in Callers : stop[d] = "done" => stop'[d] = "done"
    BY <1>2, StopMoves
  <2> QED BY <2>1, <2>2
<1>3. ASSUME LoopStep \/ Interrupt PROVE ClearedInv'
  BY <1>3, LoopMoves
<1>4. ASSUME FinalizeCond PROVE ClearedInv'
  BY <1>4 DEF FinalizeCond, juliaVars
<1> QED BY <1>1, <1>2, <1>3, <1>4, JuliaFrame DEF StopStep

-----------------------------------------------------------------------------
\* The parts together: the strengthening is inductive.
LEMMA StopInvStep == Inv /\ StopInv /\ [Next]_vars => StopInv'
<1> SUFFICES ASSUME Inv, StopInv, [Next]_vars PROVE StopInv'
  OBVIOUS
<1> USE DEF StopInv
<1>1. WakeInv'
  BY WakePending, WakeSignalled DEF WakeInv
<1> QED
  BY <1>1, RunningStep, SelfStopStep, HandOverStep, CooperativeStep, StragglerStep, ClearedStep

\* The strengthening about stop_server! holds in every state.
THEOREM StopInvariance == SafeSpec => []StopInv
  BY InvInit, InvStep, StopInvInit, StopInvStep, PTL DEF SafeSpec

\* No wakeup is lost, for any number of requests, capacity and callers of
\* stop_server!: signals coalesce, but a loop that waits with a task in the
\* channel, or after a stop, has a signal set or on its way.
THEOREM WakeupsKept == SafeSpec => []NoLostWakeup
<1>1. Inv /\ StopInv => NoLostWakeup
  <2>1. ASSUME Inv, StopInv, loop = "wait", ~running
        PROVE  condSet \/ \E c \in Callers : stop[c] \in {"rust", "signal"}
    <3>1. PICK c \in Callers : stop[c] # "idle"
      BY <2>1 DEF StopInv, RunningInv
    <3>2. stop[c] \in {"rust", "signal"} \/ Signalled(c)
      BY <2>1, <3>1 DEF Inv, TypeOK, StopState, Signalled
    <3> QED BY <2>1, <3>2 DEF StopInv, WakeInv
  <2> QED BY <2>1 DEF NoLostWakeup, StopInv, WakeInv
<1> QED BY <1>1, Invariance, StopInvariance, PTL

\* The collector comes for a condition that stop_server! let go.
LEMMA CollectedStep ==
    (~condAlive => ~condRef) /\ [Next]_vars => (~condAlive' => ~condRef')
<1> SUFFICES ASSUME ~condAlive => ~condRef, [Next]_vars PROVE ~condAlive' => ~condRef'
  OBVIOUS
<1>1. ASSUME NEW c \in Callers, StopBegin(c) \/ StopStep(c) PROVE condAlive' = condAlive /\ (condRef' => condRef)
  BY <1>1 DEF StopBegin, StopStep, StopRust, StopSignal, StopDrained, StopRelease, StopClear, condVars
<1>2. ASSUME LoopStep \/ Interrupt PROVE UNCHANGED <<condAlive, condRef>>
  BY <1>2 DEF LoopStep, LoopCheck, PollTask, PollEmpty, CountHandler, SpawnHandler,
     LoopRecheck, Wake, LoopFinally, ServeReturn, Interrupt, condVars
<1>3. CASE FinalizeCond
  BY <1>3 DEF FinalizeCond
<1> QED BY <1>1, <1>2, <1>3, JuliaFrame

\* uv_async_send goes to a condition that is alive until a call of stop_server!
\* has let it go: whatever is in flight, a server that was not stopped is safe.
THEOREM TargetAliveHolds ==
    SafeSpec => []((\A c \in Callers : stop[c] \notin {"clear", "done"}) => NotifyTargetAlive)
<1>1. Init => (~condAlive => ~condRef)
  BY DEF Init
<1>2. StopInv /\ (~condAlive => ~condRef)
        => ((\A c \in Callers : stop[c] \notin {"clear", "done"}) => NotifyTargetAlive)
  BY DEF StopInv, WakeInv, NotifyTargetAlive
<1> QED BY <1>1, <1>2, CollectedStep, StopInvariance, PTL DEF SafeSpec

\* On one thread no handler is left without its app: stop_server! clears it only
\* after the last handler ended, and the loop spawns none after that.
THEOREM NoStragglerHolds == SafeSpec => []NoStraggler
<1>1. StopInv => NoStraggler
  BY DEF StopInv, ClearedInv, CooperativeInv, PastDrain, NoStraggler
<1> QED BY <1>1, StopInvariance, PTL

\* In parallel at most one request taken over by Julia can lose its app.
THEOREM AtMostOneStragglerHolds == SafeSpec => []AtMostOneStraggler
<1>1. Inv /\ StopInv => AtMostOneStraggler
  <2> SUFFICES ASSUME Inv, StopInv, ~activeApp PROVE Cardinality(Taken) <= 1
    BY DEF AtMostOneStraggler
  <2>1. \A r, s \in Taken : r = s
    BY DEF StopInv, ClearedInv, StragglerInv, PastDrain
  <2>2. CASE Taken = {}
    BY <2>2, FS_EmptySet
  <2>3. CASE Taken # {}
    <3>1. PICK r \in Taken : TRUE
      BY <2>3
    <3>2. Taken = {r}
      BY <2>1, <3>1
    <3> QED BY <3>2, FS_Singleton
  <2> QED BY <2>2, <2>3
<1> QED BY <1>1, Invariance, StopInvariance, PTL

\* A handler that calls stop_server! never gets past the wait for the handlers,
\* of which it is one.
THEOREM SelfStopHangs == SafeSpec => []SelfStopNeverReturns
<1>1. StopInv => SelfStopNeverReturns
  BY DEF StopInv, SelfStopInv, SelfStopNeverReturns
<1> QED BY <1>1, StopInvariance, PTL
=============================================================================
