--------------------------- MODULE HttpBridgeProofs ---------------------------
(***************************************************************************)
(* Theorems about HttpBridge, for every number of requests, of callers of  *)
(* stop_server! and every capacity of the task channel.                    *)
(***************************************************************************)
EXTENDS HttpBridge, FiniteSetTheorems, SequenceTheorems, TLAPS

-----------------------------------------------------------------------------
(***************************************************************************)
(* Type correctness, with the counter of handlers: HandlerFinally keeps it *)
(* a natural number only because it counts the handlers that still run.    *)
(***************************************************************************)
Active(h) == {r \in Requests : h[r] \in ActiveHandler}

\* How the set of counted handlers changes with one handler.
LEMMA ActiveSet ==
    ASSUME NEW h \in [Requests -> HandlerState], NEW r \in Requests, NEW v
    PROVE  Active([h EXCEPT ![r] = v]) =
             IF v \in ActiveHandler THEN Active(h) \cup {r} ELSE Active(h) \ {r}
  BY DEF Active

\* The set is finite, and its size follows the step of a handler.
LEMMA ActiveCount ==
    ASSUME NEW h \in [Requests -> HandlerState], NEW r \in Requests, NEW v
    PROVE  /\ IsFiniteSet(Active(h))
           /\ Cardinality(Active(h)) \in Nat
           /\ h[r] \in ActiveHandler => Cardinality(Active(h)) # 0
           /\ Cardinality(Active([h EXCEPT ![r] = v])) =
                IF v \in ActiveHandler
                THEN IF h[r] \in ActiveHandler
                     THEN Cardinality(Active(h)) ELSE Cardinality(Active(h)) + 1
                ELSE IF h[r] \in ActiveHandler
                     THEN Cardinality(Active(h)) - 1 ELSE Cardinality(Active(h))
<1>1. IsFiniteSet(Active(h))
  BY RequestsAssumption, FS_Subset DEF Active
<1>2. r \in Active(h) <=> h[r] \in ActiveHandler
  BY DEF Active
<1>3. Cardinality(Active(h)) \in Nat
  BY <1>1, FS_CardinalityType
<1>4. h[r] \in ActiveHandler => Cardinality(Active(h)) # 0
  BY <1>1, <1>2, FS_EmptySet
<1>5. CASE v \in ActiveHandler
  <2>1. Active([h EXCEPT ![r] = v]) = Active(h) \cup {r}
    BY <1>5, ActiveSet
  <2> QED BY <1>1, <1>2, <1>3, <1>4, <1>5, <2>1, FS_AddElement
<1>6. CASE v \notin ActiveHandler
  <2>1. Active([h EXCEPT ![r] = v]) = Active(h) \ {r}
    BY <1>6, ActiveSet
  <2> QED BY <1>1, <1>2, <1>3, <1>4, <1>6, <2>1, FS_RemoveElement
<1> QED BY <1>5, <1>6

-----------------------------------------------------------------------------
(***************************************************************************)
(* Which steps touch which variables: the cases of the proofs below.       *)
(***************************************************************************)
\* The steps that move a task or its handler.
LEMMA TaskFrame ==
    ASSUME [Next]_vars
    PROVE  \/ UNCHANGED <<queue, handle, handler, inflight>>
           \/ \E r \in Requests : Send(r)
           \/ PollTask
           \/ \E r \in Requests : CountHandler(r) \/ SpawnHandler(r)
           \/ \E r \in Requests : HandlerStep(r)
<1> USE DEF vars, connVars, taskVars, rustVars, juliaVars, condVars
<1>1. ASSUME NEW r \in Requests, Connect(r) \/ ConnStep(r) \/ GiveUp(r)
      PROVE  UNCHANGED <<queue, handle, handler, inflight>> \/ Send(r)
  BY <1>1 DEF ConnStep, Connect, Resolve, AcquireSender, LoadNotifier, CallNotifier,
     Receive, WriteResponse, GiveUp
<1>2. ASSUME ServerExit \/ Interrupt \/ FinalizeCond
      PROVE  UNCHANGED <<queue, handle, handler, inflight>>
  BY <1>2 DEF ServerExit, Interrupt, FinalizeCond
<1>3. ASSUME LoopStep
      PROVE  \/ UNCHANGED <<queue, handle, handler, inflight>>
             \/ PollTask
             \/ \E r \in Requests : CountHandler(r) \/ SpawnHandler(r)
  BY <1>3 DEF LoopStep, LoopCheck, PollEmpty, LoopRecheck, Wake, LoopFinally, ServeReturn
<1>4. ASSUME NEW c \in Callers, StopBegin(c) \/ StopStep(c)
      PROVE  UNCHANGED <<queue, handle, handler, inflight>>
  BY <1>4 DEF StopBegin, StopStep, StopRust, StopSignal, StopDrained, StopRelease, StopClear
<1> QED BY <1>1, <1>2, <1>3, <1>4 DEF Next

\* The steps of a connection task, and the one that ends them all.
LEMMA ConnFrame ==
    ASSUME [Next]_vars
    PROVE  \/ UNCHANGED conn
           \/ \E r \in Requests : Connect(r) \/ ConnStep(r) \/ GiveUp(r)
           \/ ServerExit
<1> USE DEF vars, connVars, taskVars, rustVars, juliaVars, condVars
<1>1. ASSUME NEW r \in Requests, HandlerStep(r)
      PROVE  UNCHANGED conn
  BY <1>1 DEF HandlerStep, HandlerStart, HandlerThrow, HandlerComplete, HandlerFail,
     HandlerLost, HandlerFinally
<1>2. ASSUME Interrupt \/ FinalizeCond
      PROVE  UNCHANGED conn
  BY <1>2 DEF Interrupt, FinalizeCond
<1>3. ASSUME LoopStep
      PROVE  UNCHANGED conn
  BY <1>3 DEF LoopStep, LoopCheck, PollTask, PollEmpty, CountHandler, SpawnHandler,
     LoopRecheck, Wake, LoopFinally, ServeReturn
<1>4. ASSUME NEW c \in Callers, StopBegin(c) \/ StopStep(c)
      PROVE  UNCHANGED conn
  BY <1>4 DEF StopBegin, StopStep, StopRust, StopSignal, StopDrained, StopRelease, StopClear
<1> QED BY <1>1, <1>2, <1>3, <1>4 DEF Next

\* The steps of the serve loop, of stop_server! and of the collector.
LEMMA JuliaFrame ==
    ASSUME [Next]_vars
    PROVE  \/ UNCHANGED <<running, activeApp, loop, stop, condRef, condAlive, rustUp, notifier>>
           \/ LoopStep
           \/ Interrupt
           \/ \E c \in Callers : StopBegin(c) \/ StopStep(c)
           \/ FinalizeCond
<1> USE DEF vars, connVars, taskVars, rustVars, juliaVars, condVars
<1>1. ASSUME NEW r \in Requests, Connect(r) \/ ConnStep(r) \/ GiveUp(r)
      PROVE  UNCHANGED <<running, activeApp, loop, stop, condRef, condAlive, rustUp, notifier>>
  BY <1>1 DEF ConnStep, Connect, Resolve, AcquireSender, Send, LoadNotifier, CallNotifier,
     Receive, WriteResponse, GiveUp
<1>2. ASSUME NEW r \in Requests, HandlerStep(r)
      PROVE  UNCHANGED <<running, activeApp, loop, stop, condRef, condAlive, rustUp, notifier>>
  BY <1>2 DEF HandlerStep, HandlerStart, HandlerThrow, HandlerComplete, HandlerFail,
     HandlerLost, HandlerFinally, Complete
<1>3. ASSUME ServerExit
      PROVE  UNCHANGED <<running, activeApp, loop, stop, condRef, condAlive, rustUp, notifier>>
  BY <1>3 DEF ServerExit
<1> QED BY <1>1, <1>2, <1>3 DEF Next

-----------------------------------------------------------------------------
(***************************************************************************)
(* The ownership of a task. The invariant of the first theorems: types and *)
(* counter, the channel against the handles, and both against the places   *)
(* the handler and the connection of the request are in.                   *)
(***************************************************************************)
CountOK == inflight = Cardinality(Active(handler))

QueueOwned ==
    /\ \A r \in Requests :
        (handle[r] = "queued") <=> (\E i \in 1..Len(queue) : queue[i] = r)
    /\ \A i, j \in 1..Len(queue) : queue[i] = queue[j] => i = j

HandlerLinks == \A r \in Requests :
    /\ handler[r] = "none" <=> handle[r] \in {"none", "queued"}
    /\ handler[r] \in {"polled", "counted", "start", "run", "failed"} => handle[r] = "polled"

ConnLinks == \A r \in Requests :
    /\ conn[r] \in {"idle", "open", "resolved", "sending", "notfound"} => handle[r] = "none"
    /\ conn[r] \in {"pushed", "notifying", "waiting"} => handle[r] # "none"
    /\ conn[r] = "writing" => handle[r] = "freed" \/ (handle[r] = "none" /\ ~rustUp)
    /\ conn[r] = "answered" => handle[r] = "freed"

Inv == TypeOK /\ CountOK /\ QueueOwned /\ HandlerLinks /\ ConnLinks

\* The loop is entered with nothing in flight.
LEMMA InvInit == Init => Inv
<1> SUFFICES ASSUME Init PROVE Inv
  OBVIOUS
<1>1. queue = <<>> /\ queue \in Seq(Requests) /\ Len(queue) = 0
  BY EmptySeq DEF Init
<1>2. TypeOK
  <2>1. /\ rustUp \in BOOLEAN /\ listening \in BOOLEAN /\ notifier \in BOOLEAN
        /\ running \in BOOLEAN /\ activeApp \in BOOLEAN
        /\ condSet \in BOOLEAN /\ condRef \in BOOLEAN /\ condAlive \in BOOLEAN
    BY Zenon DEF Init
  <2>2. /\ conn \in [Requests -> ConnState]
        /\ handle \in [Requests -> HandleState]
        /\ handler \in [Requests -> HandlerState]
        /\ stop \in [Callers -> StopState]
    BY DEF Init, ConnState, HandleState, HandlerState, StopState
  <2>3. Len(queue) <= Capacity /\ inflight \in Nat /\ loop \in LoopState
    BY <1>1, CapacityAssumption DEF Init, LoopState
  <2> QED BY <1>1, <2>1, <2>2, <2>3 DEF TypeOK
<1>3. CountOK
  <2>1. Active(handler) = {}
    BY DEF Init, Active, ActiveHandler
  <2> QED BY <2>1, FS_EmptySet DEF CountOK, Init
<1>4. QueueOwned
  BY <1>1 DEF Init, QueueOwned
<1>5. HandlerLinks /\ ConnLinks
  BY DEF Init, HandlerLinks, ConnLinks
<1> QED BY <1>2, <1>3, <1>4, <1>5 DEF Inv

\* The counter of handlers, from the size lemma above.
LEMMA CountStep == Inv /\ [Next]_vars => CountOK' /\ inflight' \in Nat
<1> SUFFICES ASSUME Inv, [Next]_vars PROVE CountOK' /\ inflight' \in Nat
  OBVIOUS
<1> USE DEF Inv, CountOK
<1>0. /\ handler \in [Requests -> HandlerState]
      /\ inflight \in Nat
  BY DEF TypeOK
<1>1. CASE UNCHANGED <<queue, handle, handler, inflight>>
  BY <1>0, <1>1 DEF Active
<1>2. ASSUME NEW r \in Requests, Send(r) PROVE CountOK' /\ inflight' \in Nat
  BY <1>0, <1>2 DEF Send, Active
<1>3. CASE PollTask
  <2> DEFINE r == Head(queue)
  <2>1. r \in Requests /\ handler[r] = "none"
    BY <1>3, HeadTailProperties, LenProperties DEF PollTask, TypeOK, QueueOwned, HandlerLinks
  <2> HIDE DEF r
  <2>2. handler' = [handler EXCEPT ![r] = "polled"] /\ inflight' = inflight
    BY <1>3 DEF PollTask, r
  <2>3. Cardinality(Active([handler EXCEPT ![r] = "polled"])) = Cardinality(Active(handler))
    BY <1>0, <2>1, ActiveCount DEF ActiveHandler
  <2> QED BY <1>0, <2>2, <2>3
<1>4. ASSUME NEW r \in Requests, CountHandler(r) \/ SpawnHandler(r)
      PROVE  CountOK' /\ inflight' \in Nat
  <2>1. CASE CountHandler(r)
    <3>1. Cardinality(Active([handler EXCEPT ![r] = "counted"])) = Cardinality(Active(handler)) + 1
      BY <1>0, <2>1, ActiveCount DEF CountHandler, ActiveHandler
    <3> QED BY <1>0, <2>1, <3>1 DEF CountHandler
  <2>2. CASE SpawnHandler(r)
    <3>1. Cardinality(Active([handler EXCEPT ![r] = "start"])) = Cardinality(Active(handler))
      BY <1>0, <2>2, ActiveCount DEF SpawnHandler, ActiveHandler
    <3>2. handler' = [handler EXCEPT ![r] = "start"] /\ inflight' = inflight
      BY <2>2 DEF SpawnHandler
    <3>3. inflight' = Cardinality(Active(handler'))
      BY <3>1, <3>2
    <3> QED BY <1>0, <3>2, <3>3
  <2> QED BY <1>4, <2>1, <2>2
<1>5. ASSUME NEW r \in Requests, HandlerStep(r)
      PROVE  CountOK' /\ inflight' \in Nat
  <2>1. CASE HandlerStart(r)
    BY <1>0, <2>1, ActiveCount DEF HandlerStart, ActiveHandler
  <2>2. CASE HandlerThrow(r) \/ HandlerLost(r)
    BY <1>0, <2>2, ActiveCount DEF HandlerThrow, HandlerLost, ActiveHandler
  <2>3. CASE HandlerComplete(r) \/ HandlerFail(r)
    BY <1>0, <2>3, ActiveCount DEF HandlerComplete, HandlerFail, Complete, ActiveHandler
  <2>4. CASE HandlerFinally(r)
    <3>1. /\ Cardinality(Active(handler)) \in Nat \ {0}
          /\ Cardinality(Active([handler EXCEPT ![r] = "done"])) = Cardinality(Active(handler)) - 1
      BY <1>0, <2>4, ActiveCount DEF HandlerFinally, ActiveHandler
    <3> QED BY <1>0, <2>4, <3>1 DEF HandlerFinally
  <2> QED BY <1>5, <2>1, <2>2, <2>3, <2>4 DEF HandlerStep
<1> QED BY <1>1, <1>2, <1>3, <1>4, <1>5, TaskFrame

\* The channel and the handles: a request is sent once, and taken from the head.
LEMMA QueueStep == Inv /\ [Next]_vars => QueueOwned'
<1> SUFFICES ASSUME Inv, [Next]_vars PROVE QueueOwned'
  OBVIOUS
<1> USE DEF Inv, QueueOwned
<1>0. /\ handle \in [Requests -> HandleState]
      /\ queue \in Seq(Requests)
  BY DEF TypeOK
<1>1. CASE UNCHANGED <<queue, handle, handler, inflight>>
  BY <1>1
<1>2. ASSUME NEW r \in Requests, Send(r) PROVE QueueOwned'
  <2>1. /\ queue' = Append(queue, r)
        /\ handle' = [handle EXCEPT ![r] = "queued"]
        /\ handle[r] = "none"
    BY <1>2 DEF Send, ConnLinks
  <2>2. /\ Len(queue) \in Nat
        /\ Len(queue') = Len(queue) + 1
        /\ \A i \in 1..Len(queue) : queue'[i] = queue[i]
        /\ queue'[Len(queue) + 1] = r
    BY <1>0, <2>1, AppendProperties, LenProperties
  <2>3. \A i \in 1..Len(queue) : queue[i] # r
    BY <2>1
  <2>4. \A s \in Requests :
          (handle'[s] = "queued") <=> (\E i \in 1..Len(queue') : queue'[i] = s)
    BY <1>0, <2>1, <2>2, <2>3
  <2>5. \A i, j \in 1..Len(queue') : queue'[i] = queue'[j] => i = j
    BY <2>2, <2>3
  <2> QED BY <2>4, <2>5
<1>3. CASE PollTask
  <2> DEFINE r == Head(queue)
  <2>1. /\ queue # <<>>
        /\ queue' = Tail(queue)
        /\ handle' = [handle EXCEPT ![r] = "polled"]
    BY <1>3 DEF PollTask
  <2>2. /\ Len(queue) \in Nat /\ Len(queue) >= 1
        /\ r = queue[1] /\ r \in Requests
        /\ Len(queue') = Len(queue) - 1
        /\ \A i \in 1..Len(queue') : queue'[i] = queue[i + 1]
    BY <1>0, <2>1, HeadTailProperties, EmptySeq, LenProperties
  <2> HIDE DEF r
  <2>3. \A s \in Requests :
          (handle'[s] = "queued") <=> (\E i \in 1..Len(queue') : queue'[i] = s)
    <3> SUFFICES ASSUME NEW s \in Requests
                 PROVE (handle'[s] = "queued") <=> (\E i \in 1..Len(queue') : queue'[i] = s)
      OBVIOUS
    <3>1. ASSUME NEW i \in 1..Len(queue'), queue'[i] = s PROVE handle'[s] = "queued"
      <4>1. i + 1 \in 1..Len(queue) /\ queue[i + 1] = s /\ s # queue[1]
        BY <2>2, <3>1
      <4> QED BY <1>0, <2>1, <2>2, <4>1
    <3>2. ASSUME handle'[s] = "queued" PROVE \E i \in 1..Len(queue') : queue'[i] = s
      <4>1. s # r /\ handle[s] = "queued"
        BY <1>0, <2>1, <3>2
      <4>2. PICK i \in 1..Len(queue) : queue[i] = s
        BY <4>1
      <4>3. i # 1 /\ i - 1 \in 1..Len(queue') /\ queue'[i - 1] = s
        BY <2>2, <4>1, <4>2
      <4> QED BY <4>3
    <3> QED BY <3>1, <3>2
  <2>4. \A i, j \in 1..Len(queue') : queue'[i] = queue'[j] => i = j
    BY <2>2
  <2> QED BY <2>3, <2>4
<1>4. ASSUME NEW r \in Requests, CountHandler(r) \/ SpawnHandler(r) PROVE QueueOwned'
  BY <1>4 DEF CountHandler, SpawnHandler, connVars
<1>5. ASSUME NEW r \in Requests, HandlerStep(r) PROVE QueueOwned'
  <2>1. handler[r] # "none" /\ queue' = queue
    BY <1>5 DEF HandlerStep, HandlerStart, HandlerThrow, HandlerComplete, HandlerFail,
       HandlerLost, HandlerFinally, connVars
  <2>2. handle[r] # "queued"
    BY <2>1 DEF HandlerLinks
  <2>3. handle' = handle \/ handle' = [handle EXCEPT ![r] = "freed"]
    BY <1>5 DEF HandlerStep, HandlerStart, HandlerThrow, HandlerComplete, HandlerFail,
       HandlerLost, HandlerFinally, Complete
  <2> QED BY <1>0, <2>1, <2>2, <2>3
<1> QED BY <1>1, <1>2, <1>3, <1>4, <1>5, TaskFrame

\* Handlers and handles move together.
LEMMA HandlerLinksStep == Inv /\ [Next]_vars => HandlerLinks'
<1> SUFFICES ASSUME Inv, [Next]_vars PROVE HandlerLinks'
  OBVIOUS
<1> USE DEF Inv, HandlerLinks
<1>0. /\ handle \in [Requests -> HandleState]
      /\ handler \in [Requests -> HandlerState]
  BY DEF TypeOK
<1>1. CASE UNCHANGED <<queue, handle, handler, inflight>>
  BY <1>1
<1>2. ASSUME NEW r \in Requests, Send(r) PROVE HandlerLinks'
  <2>1. handle[r] = "none" /\ handler' = handler
    BY <1>2 DEF Send, ConnLinks
  <2> QED BY <1>0, <1>2, <2>1 DEF Send
<1>3. CASE PollTask
  <2>1. Head(queue) \in Requests
    BY <1>3, HeadTailProperties DEF PollTask, TypeOK
  <2> QED BY <1>0, <1>3, <2>1 DEF PollTask
<1>4. ASSUME NEW r \in Requests, CountHandler(r) \/ SpawnHandler(r) PROVE HandlerLinks'
  BY <1>0, <1>4 DEF CountHandler, SpawnHandler
<1>5. ASSUME NEW r \in Requests, HandlerStep(r) PROVE HandlerLinks'
  BY <1>0, <1>5 DEF HandlerStep, HandlerStart, HandlerThrow, HandlerComplete, HandlerFail,
     HandlerLost, HandlerFinally, Complete
<1> QED BY <1>1, <1>2, <1>3, <1>4, <1>5, TaskFrame

\* Where a connection is says how far its task can be. Only the routes' removal
\* and a connection's own steps matter; handles never go back.
LEMMA HandleForward ==
    ASSUME Inv, [Next]_vars, NEW r \in Requests
    PROVE  /\ handle[r] # "none" => handle'[r] # "none"
           /\ handle[r] = "freed" => handle'[r] = "freed"
           /\ ~Send(r) /\ handle[r] = "none" => handle'[r] = "none"
<1> USE DEF Inv, HandlerLinks
<1>0. /\ handle \in [Requests -> HandleState]
      /\ handler \in [Requests -> HandlerState]
  BY DEF TypeOK
<1>1. CASE UNCHANGED <<queue, handle, handler, inflight>>
  BY <1>1
<1>2. ASSUME NEW s \in Requests, Send(s)
      PROVE  handle[s] = "none" /\ handle' = [handle EXCEPT ![s] = "queued"]
  BY <1>2 DEF Send, ConnLinks
<1>3. CASE PollTask
  <2>1. /\ Head(queue) \in Requests /\ handle[Head(queue)] = "queued"
        /\ handle' = [handle EXCEPT ![Head(queue)] = "polled"]
    BY <1>3, HeadTailProperties, EmptySeq, LenProperties DEF PollTask, TypeOK, QueueOwned
  <2> QED BY <1>0, <2>1
<1>4. ASSUME NEW s \in Requests, CountHandler(s) \/ SpawnHandler(s)
      PROVE  handle' = handle
  BY <1>4 DEF CountHandler, SpawnHandler
<1>5. ASSUME NEW s \in Requests, HandlerStep(s)
      PROVE  handle' = handle \/ (handle' = [handle EXCEPT ![s] = "freed"] /\ handle[s] # "none")
  BY <1>0, <1>5 DEF HandlerStep, HandlerStart, HandlerThrow, HandlerComplete, HandlerFail,
     HandlerLost, HandlerFinally, Complete
<1> QED BY <1>0, <1>1, <1>2, <1>3, <1>4, <1>5, TaskFrame

\* Each action keeps the ties between a connection and its task.
LEMMA ConnLinksStep == Inv /\ [Next]_vars => ConnLinks'
<1> SUFFICES ASSUME Inv, [Next]_vars, NEW r \in Requests
             PROVE  /\ conn'[r] \in {"idle", "open", "resolved", "sending", "notfound"} => handle'[r] = "none"
                    /\ conn'[r] \in {"pushed", "notifying", "waiting"} => handle'[r] # "none"
                    /\ conn'[r] = "writing" => handle'[r] = "freed" \/ (handle'[r] = "none" /\ ~rustUp')
                    /\ conn'[r] = "answered" => handle'[r] = "freed"
  BY DEF ConnLinks
<1> USE DEF Inv, ConnLinks
<1>0. /\ conn \in [Requests -> ConnState]
      /\ handle \in [Requests -> HandleState]
  BY DEF TypeOK
<1>1. ~rustUp => ~rustUp'
  <2>1. ASSUME LoopStep \/ Interrupt \/ FinalizeCond PROVE UNCHANGED rustUp
    BY <2>1 DEF LoopStep, LoopCheck, PollTask, PollEmpty, CountHandler, SpawnHandler,
       LoopRecheck, Wake, LoopFinally, ServeReturn, Interrupt, FinalizeCond, rustVars
  <2>2. ASSUME NEW c \in Callers, StopBegin(c) \/ StopStep(c)
        PROVE  UNCHANGED rustUp \/ ~rustUp'
    BY <2>2 DEF StopBegin, StopStep, StopRust, StopSignal, StopDrained, StopRelease,
       StopClear, rustVars
  <2> QED BY Zenon, <2>1, <2>2, JuliaFrame
<1>2. CASE conn'[r] = conn[r]
  <2>1. ~Send(r)
    BY <1>0, <1>2 DEF Send
  <2> QED BY <1>1, <1>2, <2>1, HandleForward
<1>3. ASSUME NEW s \in Requests, Connect(s) \/ ConnStep(s) \/ GiveUp(s), conn'[r] # conn[r]
      PROVE  s = r
  BY <1>0, <1>3 DEF ConnStep, Connect, Resolve, AcquireSender, Send, LoadNotifier, CallNotifier,
     Receive, WriteResponse, GiveUp
<1>4. CASE Send(r)
  BY <1>0, <1>4 DEF Send
<1>5. CASE Connect(r) \/ Resolve(r) \/ AcquireSender(r) \/ LoadNotifier(r) \/ CallNotifier(r)
  <2>1. handle' = handle /\ rustUp' = rustUp
    BY <1>5 DEF Connect, Resolve, AcquireSender, LoadNotifier, CallNotifier, taskVars, rustVars
  <2> QED BY <1>0, <1>5, <2>1 DEF Connect, Resolve, AcquireSender, LoadNotifier, CallNotifier
<1>6. CASE Receive(r) \/ WriteResponse(r) \/ GiveUp(r)
  <2>1. handle' = handle /\ rustUp' = rustUp
    BY <1>6 DEF Receive, WriteResponse, GiveUp, taskVars, rustVars
  <2>2. CASE Receive(r) \/ GiveUp(r)
    <3>1. conn'[r] = "dropped" \/ (conn'[r] = "writing" /\ handle[r] = "freed")
      BY <1>0, <2>2 DEF Receive, GiveUp
    <3> QED BY <2>1, <3>1
  <2>3. CASE WriteResponse(r)
    <3>1. handle[r] \in {"none", "freed"}
      BY <2>3 DEF WriteResponse
    <3>2. conn'[r] = IF handle[r] = "none" THEN "notfound" ELSE "answered"
      BY <1>0, <2>3 DEF WriteResponse
    <3> QED BY <2>1, <3>1, <3>2
  <2> QED BY <1>6, <2>2, <2>3
<1>7. CASE ServerExit
  <2>1. handle' = handle /\ rustUp' = rustUp
    BY <1>7 DEF ServerExit, taskVars
  <2> QED BY <1>0, <1>7, <2>1 DEF ServerExit, AwaitPoints
<1> QED BY <1>2, <1>3, <1>4, <1>5, <1>6, <1>7, ConnFrame DEF ConnStep

\* Types of the tasks, step by step.
LEMMA TaskTypes ==
    ASSUME Inv, [Next]_vars
    PROVE  /\ queue' \in Seq(Requests) /\ Len(queue') <= Capacity
           /\ handle' \in [Requests -> HandleState]
           /\ handler' \in [Requests -> HandlerState]
<1> USE DEF Inv, TypeOK, HandleState, HandlerState, ActiveHandler
<1>1. CASE UNCHANGED <<queue, handle, handler, inflight>>
  BY <1>1
<1>2. ASSUME NEW r \in Requests, Send(r)
      PROVE  /\ queue' \in Seq(Requests) /\ Len(queue') <= Capacity
             /\ handle' \in [Requests -> HandleState]
             /\ handler' = handler
  <2>1. /\ queue' \in Seq(Requests) /\ Len(queue') = Len(queue) + 1
    BY <1>2, AppendProperties DEF Send
  <2>2. Len(queue) + 1 <= Capacity
    BY <1>2, CapacityAssumption, LenProperties DEF Send
  <2> QED BY <1>2, <2>1, <2>2 DEF Send
<1>3. CASE PollTask
  <2>1. /\ queue' \in Seq(Requests) /\ Len(queue') = Len(queue) - 1
    BY <1>3, HeadTailProperties DEF PollTask
  <2>2. Len(queue) - 1 <= Capacity
    BY CapacityAssumption, LenProperties
  <2> QED BY <1>3, <2>1, <2>2 DEF PollTask
<1>4. ASSUME NEW r \in Requests, CountHandler(r) \/ SpawnHandler(r)
      PROVE  /\ queue' = queue /\ handle' = handle
             /\ handler' \in [Requests -> HandlerState]
  BY <1>4 DEF CountHandler, SpawnHandler, connVars
<1>5. ASSUME NEW r \in Requests, HandlerStep(r)
      PROVE  /\ queue' = queue
             /\ handle' \in [Requests -> HandleState]
             /\ handler' \in [Requests -> HandlerState]
  BY <1>5 DEF HandlerStep, HandlerStart, HandlerThrow, HandlerComplete, HandlerFail,
     HandlerLost, HandlerFinally, Complete, connVars
<1> QED BY <1>1, <1>2, <1>3, <1>4, <1>5, TaskFrame

\* Types of the connections, the loop and the callers of stop_server!.
LEMMA ControlTypes ==
    ASSUME Inv, [Next]_vars
    PROVE  /\ conn' \in [Requests -> ConnState]
           /\ loop' \in LoopState
           /\ stop' \in [Callers -> StopState]
<1>1. conn' \in [Requests -> ConnState]
  <2> USE DEF ConnState, SyncPoints, AwaitPoints, ConnEnds
  <2>1. conn \in [Requests -> ConnState]
    BY DEF Inv, TypeOK
  <2>2. ASSUME NEW r \in Requests, Connect(r) \/ ConnStep(r) \/ GiveUp(r)
        PROVE  conn' \in [Requests -> ConnState]
    BY <2>1, <2>2 DEF ConnStep, Connect, Resolve, AcquireSender, Send, LoadNotifier,
       CallNotifier, Receive, WriteResponse, GiveUp
  <2>3. CASE ServerExit
    BY <2>1, <2>3 DEF ServerExit
  <2> QED BY <2>1, <2>2, <2>3, ConnFrame
<1>2. loop' \in LoopState /\ stop' \in [Callers -> StopState]
  <2> USE DEF LoopState, StopState
  <2>1. loop \in LoopState /\ stop \in [Callers -> StopState]
    BY DEF Inv, TypeOK
  <2>2. ASSUME LoopStep \/ Interrupt
        PROVE  loop' \in LoopState /\ stop' = stop
    BY <2>1, <2>2 DEF LoopStep, LoopCheck, PollTask, PollEmpty, CountHandler, SpawnHandler,
       LoopRecheck, Wake, LoopFinally, ServeReturn, Interrupt, juliaVars
  <2>3. ASSUME NEW c \in Callers, StopBegin(c) \/ StopStep(c)
        PROVE  loop' = loop /\ stop' \in [Callers -> StopState]
    BY <2>1, <2>3 DEF StopBegin, StopStep, StopRust, StopSignal, StopDrained, StopRelease,
       StopClear
  <2>4. ASSUME FinalizeCond PROVE loop' = loop /\ stop' = stop
    BY <2>4 DEF FinalizeCond, juliaVars
  <2> QED BY <2>1, <2>2, <2>3, <2>4, JuliaFrame
<1> QED BY <1>1, <1>2

\* The flags stay Booleans.
LEMMA FlagTypes ==
    ASSUME Inv, [Next]_vars
    PROVE  /\ rustUp' \in BOOLEAN /\ listening' \in BOOLEAN /\ notifier' \in BOOLEAN
           /\ running' \in BOOLEAN /\ activeApp' \in BOOLEAN
           /\ condSet' \in BOOLEAN /\ condRef' \in BOOLEAN /\ condAlive' \in BOOLEAN
<1> USE DEF Inv, TypeOK, vars, connVars, taskVars, rustVars, juliaVars, condVars
<1>1. CASE UNCHANGED vars
  BY <1>1
<1>2. ASSUME NEW r \in Requests, Connect(r) \/ ConnStep(r) \/ GiveUp(r)
      PROVE  UNCHANGED <<rustVars, running, activeApp, condRef, condAlive>> /\ condSet' \in BOOLEAN
  BY <1>2 DEF ConnStep, Connect, Resolve, AcquireSender, Send, LoadNotifier, CallNotifier,
     Receive, WriteResponse, GiveUp
<1>3. ASSUME NEW r \in Requests, HandlerStep(r)
      PROVE  UNCHANGED <<rustVars, running, activeApp, condVars>>
  BY <1>3 DEF HandlerStep, HandlerStart, HandlerThrow, HandlerComplete, HandlerFail,
     HandlerLost, HandlerFinally, Complete
<1>4. CASE ServerExit
  BY <1>4 DEF ServerExit
<1>5. ASSUME LoopStep \/ Interrupt
      PROVE  UNCHANGED <<rustVars, running, activeApp, condRef, condAlive>> /\ condSet' \in BOOLEAN
  BY <1>5 DEF LoopStep, LoopCheck, PollTask, PollEmpty, CountHandler, SpawnHandler,
     LoopRecheck, Wake, LoopFinally, ServeReturn, Interrupt
<1>6. ASSUME NEW c \in Callers, StopBegin(c) \/ StopStep(c)
      PROVE  /\ rustUp' \in BOOLEAN /\ listening' = listening /\ notifier' \in BOOLEAN
             /\ running' \in BOOLEAN /\ activeApp' \in BOOLEAN
             /\ condSet' \in BOOLEAN /\ condRef' \in BOOLEAN /\ condAlive' = condAlive
  BY <1>6 DEF StopBegin, StopStep, StopRust, StopSignal, StopDrained, StopRelease, StopClear
<1>7. CASE FinalizeCond
  BY <1>7 DEF FinalizeCond
<1> QED BY <1>1, <1>2, <1>3, <1>4, <1>5, <1>6, <1>7 DEF Next

\* The parts together: the invariant is inductive.
LEMMA InvStep == Inv /\ [Next]_vars => Inv'
<1> SUFFICES ASSUME Inv, [Next]_vars PROVE Inv'
  OBVIOUS
<1>1. TypeOK'
  BY TaskTypes, ControlTypes, FlagTypes, CountStep DEF TypeOK
<1> QED
  BY <1>1, CountStep, QueueStep, HandlerLinksStep, ConnLinksStep DEF Inv

\* The inductive invariant holds in every state of the bridge.
THEOREM Invariance == SafeSpec => []Inv
  BY InvInit, InvStep, PTL DEF SafeSpec

\* Every variable keeps its type, the task channel never holds more than its
\* capacity and the counter of handlers never goes below zero, for any number
\* of requests and of callers of stop_server!.
THEOREM TypeCorrect == SafeSpec => []TypeOK
  BY Invariance, PTL DEF Inv

\* Task handles: in the channel exactly once while Rust owns them, and never
\* freed while a handler reads them or is still to complete them.
THEOREM OwnershipHolds == SafeSpec => []HandleOwnership
<1>1. Inv => HandleOwnership
  BY DEF Inv, QueueOwned, HandlerLinks, HandleOwnership
<1> QED BY <1>1, Invariance, PTL

\* What stop_server! waits on is exactly the handlers counted and not ended.
THEOREM CounterExact == SafeSpec => []InflightCounts
<1>1. Inv => InflightCounts
  BY DEF Inv, CountOK, Active, InflightCounts
<1> QED BY <1>1, Invariance, PTL
=============================================================================
