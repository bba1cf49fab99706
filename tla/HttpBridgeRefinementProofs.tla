---------------------- MODULE HttpBridgeRefinementProofs ----------------------
(***************************************************************************)
(* The safety half of "the bridge implements the service": every behaviour *)
(* of HttpBridge is one of RequestService under the refinement mapping.    *)
(* (The liveness half is checked by TLC.)                                  *)
(***************************************************************************)
EXTENDS HttpBridgeProofs

clientBar == [r \in Requests |-> Client(r)]
workBar == [r \in Requests |-> WorkOfHandle[handle[r]]]
serviceBar == IF rustUp THEN "up" ELSE IF listening THEN "closing" ELSE "down"

\* Once the runtime is gone no connection is left, and none comes.
ExitInv ==
    /\ rustUp => listening
    /\ ~listening => \A r \in Requests : conn[r] \in {"idle"} \cup ConnEnds

\* The runtime is alive when the loop is entered.
LEMMA ExitInvInit == Init => ExitInv
  BY DEF Init, ExitInv

\* Only ServerExit ends the runtime, and it drops every open connection.
LEMMA ExitInvStep == Inv /\ ExitInv /\ [Next]_vars => ExitInv'
<1> SUFFICES ASSUME Inv, ExitInv, [Next]_vars PROVE ExitInv'
  OBVIOUS
<1> USE DEF ExitInv, vars, connVars, taskVars, rustVars, juliaVars, condVars
<1>0. conn \in [Requests -> ConnState]
  BY DEF Inv, TypeOK
<1>1. ASSUME NEW r \in Requests, Connect(r) \/ ConnStep(r) \/ GiveUp(r) PROVE ExitInv'
  <2>1. UNCHANGED rustVars /\ \A s \in Requests : s # r => conn'[s] = conn[s]
    BY <1>0, <1>1 DEF ConnStep, Connect, Resolve, AcquireSender, Send, LoadNotifier,
       CallNotifier, Receive, WriteResponse, GiveUp
  <2>2. listening \/ conn[r] \in SyncPoints \cup AwaitPoints
    BY <1>1 DEF ConnStep, Connect, Resolve, AcquireSender, Send, LoadNotifier,
       CallNotifier, Receive, WriteResponse, GiveUp, SyncPoints, AwaitPoints
  <2>3. listening
    BY <2>2 DEF SyncPoints, AwaitPoints, ConnEnds
  <2> QED BY <2>1, <2>3
<1>2. ASSUME NEW r \in Requests, HandlerStep(r) PROVE UNCHANGED <<conn, rustVars>>
  BY <1>2 DEF HandlerStep, HandlerStart, HandlerThrow, HandlerComplete, HandlerFail,
     HandlerLost, HandlerFinally
<1>3. CASE ServerExit
  BY <1>0, <1>3 DEF ServerExit, ConnState, ConnEnds
<1>4. ASSUME LoopStep \/ Interrupt \/ FinalizeCond PROVE UNCHANGED <<conn, rustVars>>
  BY <1>4 DEF LoopStep, LoopCheck, PollTask, PollEmpty, CountHandler, SpawnHandler,
     LoopRecheck, Wake, LoopFinally, ServeReturn, Interrupt, FinalizeCond
<1>5. ASSUME NEW c \in Callers, StopBegin(c) \/ StopStep(c)
      PROVE  UNCHANGED <<conn, listening>> /\ (UNCHANGED rustUp \/ ~rustUp')
  BY <1>5 DEF StopBegin, StopStep, StopRust, StopSignal, StopDrained, StopRelease, StopClear
<1>6. CASE UNCHANGED vars
  BY <1>6
<1>7. ASSUME UNCHANGED <<conn, rustVars>> PROVE ExitInv'
  BY <1>7
<1> QED BY <1>1, <1>2, <1>3, <1>4, <1>5, <1>6, <1>7 DEF Next

-----------------------------------------------------------------------------
\* The mapping, point by point.
LEMMA ClientOpen ==
    ASSUME NEW r \in Requests, conn[r] \in SyncPoints \cup AwaitPoints
    PROVE  Client(r) = "open"
  BY DEF Client, SyncPoints, AwaitPoints

\* The initial state is the initial state of the service.
LEMMA InitMaps == Init => Service!Init
<1> SUFFICES ASSUME Init PROVE Service!Init
  OBVIOUS
<1>1. \A r \in Requests : Client(r) = "idle"
  BY DEF Init, Client
<1>2. \A r \in Requests : WorkOfHandle[handle[r]] = "none"
  BY DEF Init, WorkOfHandle
<1>3. rustUp
  BY DEF Init
<1> QED BY <1>1, <1>2, <1>3 DEF Service!Init

\* One connection moves: so does one client, or none.
LEMMA ClientMoves ==
    ASSUME Inv, NEW r \in Requests, NEW v, conn' = [conn EXCEPT ![r] = v], v = conn'[r]
    PROVE  clientBar' = [clientBar EXCEPT ![r] = Client(r)']
<1>1. \A s \in Requests : s # r => Client(s)' = Client(s)
  BY DEF Inv, TypeOK, Client
<1> QED BY <1>1 DEF clientBar

\* One handle moves: so does the work of that request.
LEMMA WorkMoves ==
    ASSUME Inv, NEW r \in Requests, NEW v \in HandleState, handle' = [handle EXCEPT ![r] = v]
    PROVE  workBar' = [workBar EXCEPT ![r] = WorkOfHandle[v]]
  BY DEF Inv, TypeOK, workBar

\* The steps of a connection task.
LEMMA ConnMaps ==
    ASSUME Inv, ExitInv, NEW r \in Requests, Connect(r) \/ ConnStep(r) \/ GiveUp(r)
    PROVE  [Service!Next]_(Service!vars)
<1> USE DEF connVars, taskVars, rustVars, juliaVars, condVars
<1>t. conn \in [Requests -> ConnState] /\ handle \in [Requests -> HandleState]
  BY DEF Inv, TypeOK
<1>s. UNCHANGED serviceBar
  <2>1. UNCHANGED <<rustUp, listening>>
    BY DEF Connect, ConnStep, Resolve, AcquireSender, Send, LoadNotifier, CallNotifier,
       Receive, WriteResponse, GiveUp
  <2> QED BY <2>1 DEF serviceBar
<1>l. conn[r] \in SyncPoints \cup AwaitPoints => listening
  BY DEF ExitInv, SyncPoints, AwaitPoints, ConnEnds
<1>1. CASE Connect(r)
  <2>1. Client(r) = "idle" /\ Client(r)' = "open" /\ UNCHANGED workBar
    BY <1>t, <1>1 DEF Connect, Client, workBar
  <2>2. clientBar' = [clientBar EXCEPT ![r] = "open"]
    BY <1>t, <1>1, <2>1, ClientMoves DEF Connect
  <2>3. serviceBar # "down"
    BY <1>1 DEF Connect, serviceBar
  <2>4. Service!Open(r)
    BY <1>s, <2>1, <2>2, <2>3 DEF Service!Open, clientBar, workBar, serviceBar
  <2> QED BY <2>4 DEF Service!Next
<1>2. CASE Send(r)
  <2>1. /\ handle[r] = "none"
        /\ handle' = [handle EXCEPT ![r] = "queued"]
    BY <1>2 DEF Send, Inv, ConnLinks
  <2>a. workBar' = [workBar EXCEPT ![r] = WorkOfHandle["queued"]]
    BY <2>1, WorkMoves DEF HandleState
  <2>b. WorkOfHandle["queued"] = "queued" /\ workBar[r] = "none"
    BY <2>1 DEF WorkOfHandle, workBar
  <2>2. workBar' = [workBar EXCEPT ![r] = "queued"] /\ workBar[r] = "none"
    BY <2>a, <2>b
  <2>3. Client(r) = "open" /\ Client(r)' = "open"
    BY <1>t, <1>2 DEF Send, Client
  <2>4. UNCHANGED clientBar
    BY <1>t, <1>2, <2>3, ClientMoves DEF Send, clientBar
  <2>5. Service!Submit(r)
    BY <1>s, <2>2, <2>3, <2>4 DEF Service!Submit, clientBar, workBar, serviceBar
  <2> QED BY <2>5 DEF Service!Next
<1>3. CASE WriteResponse(r)
  <2>1. Client(r) = "open" /\ UNCHANGED workBar
    BY <1>t, <1>3 DEF WriteResponse, Client, workBar
  <2>2. CASE handle[r] = "none"
    <3>1. Client(r)' = "refused" /\ workBar[r] = "none"
      BY <1>t, <1>3, <2>2 DEF WriteResponse, Client, workBar, WorkOfHandle
    <3>2. clientBar' = [clientBar EXCEPT ![r] = "refused"]
      BY <1>t, <1>3, <3>1, ClientMoves DEF WriteResponse
    <3>3. serviceBar = "closing"
      BY <1>l, <1>3, <2>2 DEF WriteResponse, Inv, ConnLinks, AwaitPoints, serviceBar
    <3>4. Service!Refuse(r)
      BY <1>s, <2>1, <3>1, <3>2, <3>3 DEF Service!Refuse, clientBar, workBar, serviceBar
    <3> QED BY <3>4 DEF Service!Next
  <2>3. CASE handle[r] # "none"
    <3>1. handle[r] = "freed"
      BY <1>3, <2>3 DEF WriteResponse, Inv, ConnLinks
    <3>2. Client(r)' = "answered" /\ workBar[r] = "finished"
      BY <1>t, <1>3, <3>1 DEF WriteResponse, Client, workBar, WorkOfHandle
    <3>3. clientBar' = [clientBar EXCEPT ![r] = "answered"]
      BY <1>t, <1>3, <3>2, ClientMoves DEF WriteResponse
    <3>4. Service!Answer(r)
      BY <1>s, <2>1, <3>2, <3>3 DEF Service!Answer, clientBar, workBar, serviceBar
    <3> QED BY <3>4 DEF Service!Next
  <2> QED BY <2>2, <2>3
<1>4. ASSUME conn[r] \in SyncPoints \cup AwaitPoints,
             conn' = [conn EXCEPT ![r] = "dropped"], UNCHANGED handle
      PROVE  Service!Next
  <2>1. Client(r) = "open" /\ Client(r)' = "dropped" /\ UNCHANGED workBar
    BY <1>t, <1>4, ClientOpen DEF Client, workBar
  <2>2. clientBar' = [clientBar EXCEPT ![r] = "dropped"]
    BY <1>t, <1>4, <2>1, ClientMoves
  <2>3. Service!Drop(r)
    BY <1>s, <2>1, <2>2 DEF Service!Drop, clientBar, workBar, serviceBar
  <2> QED BY <2>3 DEF Service!Next
<1>5. ASSUME NEW v \in SyncPoints \cup AwaitPoints, conn[r] \in SyncPoints \cup AwaitPoints,
             conn' = [conn EXCEPT ![r] = v], UNCHANGED handle
      PROVE  UNCHANGED Service!vars
  <2>1. Client(r) = "open" /\ Client(r)' = "open" /\ UNCHANGED workBar
    BY <1>t, <1>5 DEF Client, workBar, SyncPoints, AwaitPoints
  <2>2. UNCHANGED clientBar
    BY <1>t, <1>5, <2>1, ClientMoves DEF clientBar
  <2> QED BY <1>s, <2>1, <2>2 DEF Service!vars, clientBar, workBar, serviceBar
<1>6. CASE AcquireSender(r)
  BY <1>4, <1>5, <1>6 DEF AcquireSender, SyncPoints, AwaitPoints
<1>7. CASE Resolve(r) \/ LoadNotifier(r) \/ CallNotifier(r) \/ Receive(r)
  BY <1>5, <1>7 DEF Resolve, LoadNotifier, CallNotifier, Receive, SyncPoints, AwaitPoints
<1>8. CASE GiveUp(r)
  BY <1>4, <1>8 DEF GiveUp
<1> QED BY <1>1, <1>2, <1>3, <1>6, <1>7, <1>8 DEF ConnStep

\* A task that Julia takes, or that a handler completes.
LEMMA TaskMaps ==
    ASSUME Inv, UNCHANGED <<conn, rustUp, listening>>,
           NEW r \in Requests, NEW v \in HandleState, handle' = [handle EXCEPT ![r] = v],
           \/ handle[r] = "queued" /\ v = "polled"
           \/ handle[r] = "polled" /\ v = "freed"
    PROVE  Service!Next
<1>1. UNCHANGED <<clientBar, serviceBar>>
  BY DEF clientBar, serviceBar, Client
<1>2. workBar' = [workBar EXCEPT ![r] = WorkOfHandle[v]]
  BY WorkMoves
<1>3. CASE handle[r] = "queued" /\ v = "polled"
  <2>1. WorkOfHandle[v] = "running" /\ workBar[r] = "queued"
    BY <1>3 DEF WorkOfHandle, workBar
  <2>2. Service!Start(r)
    BY <1>1, <1>2, <2>1 DEF Service!Start, clientBar, workBar, serviceBar
  <2> QED BY <2>2 DEF Service!Next
<1>4. CASE handle[r] = "polled" /\ v = "freed"
  <2>1. WorkOfHandle[v] = "finished" /\ workBar[r] = "running"
    BY <1>4 DEF WorkOfHandle, workBar
  <2>2. Service!Finish(r)
    BY <1>1, <1>2, <2>1 DEF Service!Finish, clientBar, workBar, serviceBar
  <2> QED BY <2>2 DEF Service!Next
<1> QED BY <1>3, <1>4

\* Steps the service does not see.
LEMMA Stutters ==
    ASSUME UNCHANGED <<conn, handle, rustUp, listening>>
    PROVE  UNCHANGED Service!vars
<1>1. UNCHANGED <<clientBar, workBar, serviceBar>>
  BY DEF clientBar, workBar, serviceBar, Client
<1> QED BY <1>1 DEF Service!vars, clientBar, workBar, serviceBar

\* Every step of the bridge is a step of the service, or changes nothing there.
LEMMA StepMaps == Inv /\ ExitInv /\ [Next]_vars => [Service!Next]_(Service!vars)
<1> SUFFICES ASSUME Inv, ExitInv, [Next]_vars PROVE [Service!Next]_(Service!vars)
  OBVIOUS
<1> USE DEF connVars, taskVars, rustVars, juliaVars, condVars
<1>t. conn \in [Requests -> ConnState] /\ handle \in [Requests -> HandleState]
  BY DEF Inv, TypeOK
<1>1. ASSUME NEW r \in Requests, Connect(r) \/ ConnStep(r) \/ GiveUp(r)
      PROVE  [Service!Next]_(Service!vars)
  BY <1>1, ConnMaps
<1>2. ASSUME NEW r \in Requests, HandlerStep(r)
      PROVE  [Service!Next]_(Service!vars)
  <2>1. UNCHANGED <<conn, rustUp, listening>>
    BY <1>2 DEF HandlerStep, HandlerStart, HandlerThrow, HandlerComplete, HandlerFail,
       HandlerLost, HandlerFinally
  <2>2. UNCHANGED handle \/ (handle' = [handle EXCEPT ![r] = "freed"] /\ handle[r] = "polled")
    BY <1>2 DEF HandlerStep, HandlerStart, HandlerThrow, HandlerComplete, HandlerFail,
       HandlerLost, HandlerFinally, Complete, Inv, HandlerLinks
  <2> QED BY <2>1, <2>2, TaskMaps, Stutters DEF HandleState
<1>3. CASE ServerExit
  <2>1. UNCHANGED workBar /\ serviceBar = "closing" /\ serviceBar' = "down"
    BY <1>3 DEF ServerExit, workBar, serviceBar
  <2>2. \A r \in Requests :
          Client(r)' = IF Client(r) = "open" THEN "dropped" ELSE Client(r)
    <3> SUFFICES ASSUME NEW r \in Requests
                 PROVE  Client(r)' = IF Client(r) = "open" THEN "dropped" ELSE Client(r)
      OBVIOUS
    <3>1. CASE conn[r] \in AwaitPoints
      <4>1. Client(r) = "open" /\ conn'[r] = "dropped"
        BY <1>3, <3>1, ClientOpen DEF ServerExit
      <4>2. Client(r)' = "dropped"
        BY <4>1 DEF Client
      <4> QED BY <4>1, <4>2
    <3>2. CASE conn[r] \notin AwaitPoints
      <4>1. conn'[r] = conn[r] /\ conn[r] \in {"idle"} \cup ConnEnds
        BY <1>t, <1>3, <3>2 DEF ServerExit, ConnState
      <4>2. Client(r)' = Client(r) /\ Client(r) # "open"
        BY <4>1 DEF Client, ConnEnds
      <4> QED BY <4>2
    <3> QED BY <3>1, <3>2
  <2>3. Service!Close
    BY <2>1, <2>2 DEF Service!Close, clientBar, workBar, serviceBar
  <2> QED BY <2>3 DEF Service!Next
<1>4. CASE PollTask
  <2>1. Head(queue) \in Requests /\ handle[Head(queue)] = "queued"
    BY <1>4, HeadTailProperties, EmptySeq, LenProperties DEF PollTask, Inv, TypeOK, QueueOwned
  <2>2. UNCHANGED <<conn, rustUp, listening>> /\ handle' = [handle EXCEPT ![Head(queue)] = "polled"]
    BY <1>4 DEF PollTask
  <2> QED BY <2>1, <2>2, TaskMaps DEF HandleState
<1>5. ASSUME LoopStep \/ Interrupt \/ FinalizeCond, ~PollTask
      PROVE  UNCHANGED <<conn, handle, rustUp, listening>>
  BY <1>5 DEF LoopStep, LoopCheck, PollEmpty, CountHandler, SpawnHandler,
     LoopRecheck, Wake, LoopFinally, ServeReturn, Interrupt, FinalizeCond
<1>6. ASSUME NEW c \in Callers, StopRust(c) PROVE [Service!Next]_(Service!vars)
  <2>1. UNCHANGED <<conn, handle, listening>> /\ ~rustUp'
    BY <1>6 DEF StopRust
  <2>2. CASE rustUp
    <3>1. serviceBar = "up" /\ serviceBar' = "closing"
      BY <2>1, <2>2 DEF serviceBar, ExitInv
    <3>2. UNCHANGED <<clientBar, workBar>>
      BY <2>1 DEF clientBar, workBar, Client
    <3>3. Service!BeginClose
      BY <3>1, <3>2 DEF Service!BeginClose, clientBar, workBar, serviceBar
    <3> QED BY <3>3 DEF Service!Next
  <2>3. CASE ~rustUp
    <3>1. UNCHANGED <<clientBar, workBar, serviceBar>>
      BY <2>1, <2>3 DEF clientBar, workBar, serviceBar, Client
    <3> QED BY <3>1 DEF Service!vars, clientBar, workBar, serviceBar
  <2> QED BY <2>2, <2>3
<1>7. ASSUME NEW c \in Callers, StopBegin(c) \/ StopStep(c), ~StopRust(c)
      PROVE  UNCHANGED <<conn, handle, rustUp, listening>>
  BY <1>7 DEF StopBegin, StopStep, StopSignal, StopDrained, StopRelease, StopClear
<1>8. CASE UNCHANGED vars
  BY <1>8, Stutters DEF vars
<1> QED
  BY <1>1, <1>2, <1>3, <1>4, <1>5, <1>6, <1>7, <1>8, Stutters DEF Next, StopStep

\* Every behaviour of the bridge is one of the service: each request is worked
\* on at most once and answered at most once, only with the outcome of its own
\* work, refused only while the server closes, and cut off when it is down.
THEOREM RefinesService == SafeSpec => Service!SafeSpec
<1>1. ExitInv /\ Inv /\ [Next]_vars => ExitInv'
  BY ExitInvStep
<1> QED
  BY <1>1, InitMaps, StepMaps, ExitInvInit, Invariance, PTL DEF SafeSpec, Service!SafeSpec
=============================================================================
