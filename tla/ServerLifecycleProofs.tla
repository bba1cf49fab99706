------------------------ MODULE ServerLifecycleProofs ------------------------
(***************************************************************************)
(* Proofs about ServerLifecycle, for any tasks and apps and any number of  *)
(* runs: what holds in every schedule, what holds when the tasks share a   *)
(* thread, and what holds when the calls of serve() do not overlap.        *)
(***************************************************************************)
EXTENDS ServerLifecycle, TLAPS

\* The local variables before the call, and after each assignment to them.
LEMMA FrameTyped ==
    ASSUME NEW f \in FrameType, NEW a \in Apps \cup {NoApp}, NEW r \in RunOrNone
    PROVE  /\ [f EXCEPT !.app = a] \in FrameType
           /\ [f EXCEPT !.run = r] \in FrameType
           /\ [f EXCEPT !.cond = r] \in FrameType
           /\ [f EXCEPT !.stopApp = a] \in FrameType
           /\ [f EXCEPT !.join = r] \in FrameType
  BY DEF FrameType

LEMMA NoFrameTyped == NoFrame \in FrameType
<1>1. 0 \in RunOrNone
  BY LifecycleAssumption DEF RunOrNone
<1> QED
  BY <1>1 DEF NoFrame, FrameType

\* What a call has in its local variables, field by field.
LEMMA FrameFields ==
    ASSUME NEW f \in FrameType
    PROVE  /\ f.app \in Apps \cup {NoApp} /\ f.stopApp \in Apps \cup {NoApp}
           /\ f.run \in RunOrNone /\ f.cond \in RunOrNone /\ f.join \in RunOrNone
  BY DEF FrameType

\* Run numbers and 0.
LEMMA RunNumbers ==
    /\ 0 \in RunOrNone
    /\ Runs \subseteq RunOrNone
    /\ \A r \in RunOrNone : r # 0 => r \in Runs
    /\ \A r \in RunOrNone : r < MaxRuns => r + 1 \in RunOrNone
  BY LifecycleAssumption DEF RunOrNone, Runs

\* A call of serve() has an app. TypeOK is not inductive without it: what
\* ServeRegister puts in the tables is the app of its call.
AppGiven == \A t \in Tasks : pc[t] \in ServePoints => frame[t].app \in Apps

Inv == TypeOK /\ AppGiven

\* Where a task is, and its local variables.
PlacesOK ==
    /\ pc \in [Tasks -> Points]
    /\ frame \in [Tasks -> FrameType]
    /\ AppGiven

LEMMA StepTyped ==
    ASSUME PlacesOK, NEW t \in Tasks, NEW from, NEW to \in Points, Step(t, from, to),
           to \in ServePoints => from \in ServePoints
    PROVE  PlacesOK'
  BY DEF PlacesOK, AppGiven, Step, Goto

LEMMA ReturnTyped ==
    ASSUME PlacesOK, NEW t \in Tasks, NEW from, Return(t, from)
    PROVE  PlacesOK'
  BY NoFrameTyped DEF PlacesOK, AppGiven, ServePoints, Return, Goto, Points

LEMMA AssignTyped ==
    ASSUME PlacesOK, NEW t \in Tasks, NEW f \in FrameType, NEW to \in Points,
           to \in ServePoints => f.app \in Apps,
           Goto(t, to), frame' = [frame EXCEPT ![t] = f]
    PROVE  PlacesOK'
  BY DEF PlacesOK, AppGiven, Goto

\* The places are typed after every step, in whatever globals it leaves.
LEMMA PlacesStep ==
    ASSUME Inv, [Next]_<<vars, schedule>>
    PROVE  PlacesOK'
<1> USE DEF Points, ServePoints, LoopPoints, StopPoints
<1>0. PlacesOK
  BY DEF Inv, TypeOK, PlacesOK
<1>1. ASSUME NEW t \in Tasks, ServeCall(t) PROVE PlacesOK'
  <2>1. PICK a \in Apps : frame' = [frame EXCEPT ![t] = [NoFrame EXCEPT !.app = a]]
    BY <1>1 DEF ServeCall
  <2>2. [NoFrame EXCEPT !.app = a] \in FrameType /\ [NoFrame EXCEPT !.app = a].app = a
    BY NoFrameTyped, FrameTyped, RunNumbers DEF NoFrame
  <2> QED BY <1>0, <1>1, <2>1, <2>2, AssignTyped DEF ServeCall
<1>2. ASSUME NEW t \in Tasks, ServeBegin(t) PROVE PlacesOK'
  <2>1. [frame[t] EXCEPT !.run = runs + 1] \in FrameType
    BY <1>0, <1>2, FrameTyped, RunNumbers DEF ServeBegin, Inv, TypeOK, PlacesOK
  <2>3. [frame[t] EXCEPT !.run = runs + 1].app \in Apps
    BY <1>0, <1>2 DEF ServeBegin, PlacesOK, AppGiven, FrameType
  <2>2. frame' = [frame EXCEPT ![t] = [frame[t] EXCEPT !.run = runs + 1]]
    BY <1>2 DEF ServeBegin
  <2> QED BY <1>0, <1>2, <2>1, <2>2, <2>3, AssignTyped DEF ServeBegin
<1>3. ASSUME NEW t \in Tasks, LoopEnter(t) PROVE PlacesOK'
  <2>1. [frame[t] EXCEPT !.cond = condRef] \in FrameType
    BY <1>0, FrameTyped DEF Inv, TypeOK, PlacesOK
  <2>2. frame' = [frame EXCEPT ![t] = [frame[t] EXCEPT !.cond = condRef]]
    BY <1>3 DEF LoopEnter
  <2> QED BY <1>0, <1>3, <2>1, <2>2, AssignTyped DEF LoopEnter
<1>4. ASSUME NEW t \in Tasks, StopBegin(t) PROVE PlacesOK'
  <2>1. [frame[t] EXCEPT !.stopApp = activeApp] \in FrameType
    BY <1>0, FrameTyped, RunNumbers DEF Inv, TypeOK, PlacesOK
  <2>2. frame' = [frame EXCEPT ![t] = [frame[t] EXCEPT !.stopApp = activeApp]]
    BY <1>4 DEF StopBegin
  <2> QED BY <1>0, <1>4, <2>1, <2>2, AssignTyped DEF StopBegin
<1>5. ASSUME NEW t \in Tasks, StopRelease(t) PROVE PlacesOK'
  <2> DEFINE j == IF frame[t].stopApp = NoApp THEN 0 ELSE wsList[frame[t].stopApp]
  <2>1. frame[t] \in FrameType
    BY <1>0 DEF PlacesOK
  <2>2. j \in RunOrNone
    BY <2>1, FrameFields, RunNumbers DEF Inv, TypeOK
  <2>3. frame' = [frame EXCEPT ![t] = [frame[t] EXCEPT !.join = j]]
    BY <1>5 DEF StopRelease
  <2> HIDE DEF j
  <2>4. [frame[t] EXCEPT !.join = j] \in FrameType
    BY <2>1, <2>2, FrameTyped
  <2> QED BY <1>0, <1>5, <2>3, <2>4, AssignTyped DEF StopRelease
<1>6. ASSUME NEW t \in Tasks, NEW from,
             \/ Return(t, from)
             \/ \E to \in Points :
                    Step(t, from, to) /\ (to \in ServePoints => from \in ServePoints)
      PROVE  PlacesOK'
  BY <1>0, <1>6, StepTyped, ReturnTyped
<1>7. ASSUME NEW t \in Tasks, ServeStep(t), ~ServeBegin(t) PROVE PlacesOK'
  BY <1>7, <1>6 DEF ServeStep, ServeRefused, ServeRegister, ServeNotify, ServeFlag,
     StartAlready, Start, StartOk, StartFailed, StartDied, ServeFail, ServeBadFps, ServeWs
<1>8. ASSUME NEW t \in Tasks, LoopStep(t) \/ LoopBreak(t), ~LoopEnter(t) PROVE PlacesOK'
  BY <1>8, <1>6 DEF LoopStep, LoopCheck, PollTask, PollEmpty, LoopRecheck, Wake,
     ServeReturn, LoopBreak
<1>9. ASSUME NEW t \in Tasks, StopCall(t) \/ StopStep(t), ~StopBegin(t), ~StopRelease(t)
      PROVE PlacesOK'
  BY <1>9, <1>6 DEF StopCall, StopStep, StopRust, StopSignal, StopYield, StopDrained,
     StopWait, StopJoin, StopClear
<1>10. CASE UNCHANGED <<pc, frame>>
  BY <1>0, <1>10 DEF PlacesOK, AppGiven
<1> QED
  BY <1>1, <1>2, <1>3, <1>4, <1>5, <1>7, <1>8, <1>9, <1>10
  DEF Next, AnyStep, vars, Bind, ThreadExit, WsStop, WsThrow, Notify, HandlerEnd

LEMMA InvHolds == SafeSpec => []Inv
<1>1. Init => Inv
  BY RunNumbers, NoFrameTyped DEF Init, Inv, TypeOK, AppGiven, Points, ServePoints
<1>2. Inv /\ [Next]_<<vars, schedule>> => Inv'
  <2> SUFFICES ASSUME Inv, [Next]_<<vars, schedule>>
               PROVE  TypeOK'
    BY PlacesStep DEF Inv, PlacesOK
  <2>0. TypeOK /\ AppGiven /\ PlacesOK' /\ schedule' = schedule
    BY PlacesStep DEF Inv, Next
  <2>f. ASSUME NEW t \in Tasks
        PROVE  /\ frame[t].app \in Apps \cup {NoApp} /\ frame[t].stopApp \in Apps \cup {NoApp}
               /\ frame[t].run \in RunOrNone
    BY <2>0, <2>f, FrameFields DEF TypeOK
  <2> USE RunNumbers, <2>0 DEF TypeOK, PlacesOK
  <2>1. ASSUME NEW t \in Tasks, ServeCall(t) \/ ServeStep(t) PROVE TypeOK'
    <3>1. CASE \/ ServeCall(t) \/ ServeRefused(t) \/ StartAlready(t) \/ StartOk(t)
               \/ StartDied(t) \/ ServeBadFps(t)
      BY <3>1 DEF ServeCall, ServeRefused, StartAlready, StartOk, StartDied, ServeBadFps,
                  rustVars, juliaVars, wsVars
    <3>2. CASE ServeBegin(t)
      BY <3>2, <2>f DEF ServeBegin, rustVars, wsVars
    <3>3. CASE ServeRegister(t)
      <4>1. pc[t] = "register" /\ frame[t].app \in Apps
        BY <3>3 DEF ServeRegister, Step, Return, AppGiven, ServePoints
      <4> QED BY <3>3, <4>1 DEF ServeRegister, juliaVars, wsVars
    <3>4. CASE ServeNotify(t)
      BY <3>4, <2>f DEF ServeNotify, wsVars
    <3>5. CASE ServeFlag(t) \/ ServeFail(t)
      BY <3>5 DEF ServeFlag, ServeFail, rustVars, wsVars
    <3>6. CASE Start(t)
      BY <3>6, <2>f DEF Start, juliaVars, wsVars
    <3>7. CASE StartFailed(t)
      BY <3>7 DEF StartFailed, juliaVars, wsVars
    <3>8. CASE ServeWs(t)
      BY <3>8, <2>f DEF ServeWs, rustVars, juliaVars
    <3> QED
      BY <2>1, <3>1, <3>2, <3>3, <3>4, <3>5, <3>6, <3>7, <3>8 DEF ServeStep
  <2>2. ASSUME NEW t \in Tasks, LoopStep(t) \/ LoopBreak(t) PROVE TypeOK'
    <3>1. CASE PollTask(t) \/ Wake(t)
      BY <3>1 DEF PollTask, Wake, rustVars, wsVars
    <3>2. CASE ~PollTask(t) /\ ~Wake(t)
      BY <2>2, <3>2 DEF LoopStep, LoopEnter, LoopCheck, PollEmpty, LoopRecheck, LoopBreak,
                        ServeReturn, rustVars, juliaVars, wsVars
    <3> QED BY <3>1, <3>2
  <2>3. ASSUME NEW t \in Tasks, StopCall(t) \/ StopStep(t) PROVE TypeOK'
    <3>1. CASE StopCall(t) \/ StopYield(t) \/ StopDrained(t) \/ StopWait(t)
      BY <3>1 DEF StopCall, StopYield, StopDrained, StopWait, rustVars, juliaVars, wsVars
    <3>2. CASE StopBegin(t) \/ StopSignal(t) \/ StopRelease(t) \/ StopClear(t)
      BY <3>2 DEF StopBegin, StopSignal, StopRelease, StopClear, rustVars, wsVars
    <3>3. CASE StopRust(t)
      BY <3>3 DEF StopRust, juliaVars, wsVars
    <3>4. CASE StopJoin(t)
      BY <3>4 DEF StopJoin, rustVars, juliaVars
    <3> QED
      BY <2>3, <3>1, <3>2, <3>3, <3>4 DEF StopStep
  <2>4. ASSUME NEW r \in Runs, Bind(r) \/ ThreadExit(r) \/ WsStop(r) \/ WsThrow(r)
        PROVE TypeOK'
    BY <2>4 DEF Bind, ThreadExit, WsStop, WsThrow, rustVars, juliaVars, wsVars
  <2>5. CASE Notify \/ HandlerEnd
    BY <2>5 DEF Notify, HandlerEnd, rustVars, wsVars
  <2>6. CASE UNCHANGED <<vars, schedule>>
    BY <2>6 DEF vars, rustVars, juliaVars, wsVars
  <2> QED
    BY <2>1, <2>2, <2>3, <2>4, <2>5, <2>6 DEF Next, AnyStep
<1> QED
  BY <1>1, <1>2, PTL DEF SafeSpec

\* The globals, the server state and the local variables of each call stay in
\* their types: a run number is that of a run begun, or 0.
THEOREM TypeCorrect == SafeSpec => []TypeOK
<1>1. Inv => TypeOK
  BY DEF Inv
<1> QED
  BY <1>1, InvHolds, PTL

\* The ends of the task channel are a pair, whoever calls what and when: they
\* are stored together while there is no shutdown sender, and no step takes
\* one of them away and leaves the shutdown sender.
THEOREM ChannelPairedHolds == SafeSpec => []ChannelPaired
<1>1. Init => ChannelPaired
  BY DEF Init, ChannelPaired
<1>2. ChannelPaired /\ [Next]_<<vars, schedule>> => ChannelPaired'
  <2> SUFFICES ASSUME ChannelPaired, [Next]_<<vars, schedule>>
               PROVE  ChannelPaired'
    OBVIOUS
  <2> USE DEF ChannelPaired
  <2>1. ASSUME NEW t \in Tasks, ServeCall(t) \/ ServeStep(t) PROVE ChannelPaired'
    <3>1. CASE Start(t)
      BY <3>1 DEF Start
    <3>2. CASE StartFailed(t)
      BY <3>2 DEF StartFailed
    <3>3. CASE ServeRegister(t) \/ ServeNotify(t)
      BY <3>3 DEF ServeRegister, ServeNotify
    <3>4. CASE \/ ServeCall(t) \/ ServeRefused(t) \/ ServeBegin(t) \/ ServeFlag(t) \/ StartAlready(t)
               \/ StartOk(t) \/ StartDied(t) \/ ServeFail(t) \/ ServeBadFps(t) \/ ServeWs(t)
      BY <3>4 DEF ServeCall, ServeRefused, ServeBegin, ServeFlag, StartAlready, StartOk,
                  StartDied, ServeFail, ServeBadFps, ServeWs, rustVars
    <3> QED
      BY <2>1, <3>1, <3>2, <3>3, <3>4 DEF ServeStep
  <2>2. ASSUME NEW t \in Tasks, LoopStep(t) \/ LoopBreak(t) PROVE ChannelPaired'
    BY <2>2 DEF LoopStep, LoopEnter, LoopCheck, PollTask, PollEmpty, LoopRecheck, Wake,
                ServeReturn, LoopBreak, rustVars
  <2>3. ASSUME NEW t \in Tasks, StopCall(t) \/ StopStep(t) PROVE ChannelPaired'
    <3>1. CASE StopRust(t)
      BY <3>1 DEF StopRust
    <3>2. CASE \/ StopCall(t) \/ StopBegin(t) \/ StopSignal(t) \/ StopYield(t) \/ StopDrained(t)
               \/ StopRelease(t) \/ StopWait(t) \/ StopJoin(t) \/ StopClear(t)
      BY <3>2 DEF StopCall, StopBegin, StopSignal, StopYield, StopDrained, StopRelease,
                  StopWait, StopJoin, StopClear, rustVars
    <3> QED
      BY <2>3, <3>1, <3>2 DEF StopStep
  <2>4. ASSUME NEW r \in Runs, Bind(r) \/ ThreadExit(r) \/ WsStop(r) \/ WsThrow(r)
        PROVE ChannelPaired'
    BY <2>4 DEF Bind, ThreadExit, WsStop, WsThrow, rustVars
  <2>5. CASE Notify \/ HandlerEnd
    BY <2>5 DEF Notify, HandlerEnd, rustVars
  <2>6. CASE UNCHANGED <<vars, schedule>>
    BY <2>6 DEF vars, rustVars
  <2> QED
    BY <2>1, <2>2, <2>3, <2>4, <2>5, <2>6 DEF Next, AnyStep
<1> QED
  BY <1>1, <1>2, PTL DEF SafeSpec

(***************************************************************************)
(* The flag and the Rust server, when the tasks share a thread. One task   *)
(* runs until it yields, and what it may rely on depends on where it is:   *)
(* between the flag and fmh_server_start, and between the flag and         *)
(* fmh_server_stop, the two disagree, and nobody else can look.            *)
(***************************************************************************)
Agree ==
    /\ running <=> ServerUp
    /\ shutdownTx # 0 => running \/ thread[shutdownTx] = "died"

\* The sender that Rust has, if any, was left by a thread that died; or it may
\* be that of a thread that listens.
Dead == shutdownTx # 0 => thread[shutdownTx] = "died"
Settled == shutdownTx # 0 => thread[shutdownTx] \in {"listening", "died"}

\* What a task at point p of run r finds when it runs.
Holds(p, r) ==
    /\ p \in ServePoints \ {"banner"} => r \in Runs
    /\ p \in {"register", "notify", "flag", "rust"} => ~running
    /\ p \in {"start", "binding", "refused", "ws", "enter"} => running
    /\ p \in {"start", "refused"} => Dead
    /\ p = "binding" =>
          shutdownTx = r /\ thread[r] \in {"binding", "listening", "failed", "died"}
    /\ p = "rust" => Settled
    /\ p \notin {"start", "binding", "refused", "rust"} => Agree

\* The points between which steps write neither.
Resting ==
    {"idle", "check", "poll", "recheck", "wait", "finally", "stopping", "signal", "drain",
     "draining", "release", "join", "joining", "clear"}

OthersYield(t) == \A u \in Tasks \ {t} : AtYield(u)

Turns ==
    /\ \A t \in Tasks : ~AtYield(t) => OthersYield(t) /\ Holds(pc[t], frame[t].run)
    /\ (\A t \in Tasks : AtYield(t)) => Agree

CoopInv == schedule # "parallel" => Turns

\* The task that runs finds what its place says.
LEMMA TurnBegins ==
    ASSUME Turns, NEW t \in Tasks, OthersYield(t)
    PROVE  Holds(pc[t], frame[t].run)
<1>1. CASE AtYield(t)
  <2>1. Agree
    BY <1>1 DEF Turns, OthersYield
  <2> QED
    BY <1>1, <2>1 DEF Holds, AtYield, ServePoints
<1>2. CASE ~AtYield(t)
  BY <1>2 DEF Turns
<1> QED
  BY <1>1, <1>2

\* It is enough that it leaves what its new place says.
LEMMA TurnEnds ==
    ASSUME pc \in [Tasks -> Points], NEW t \in Tasks, OthersYield(t),
           NEW to, Goto(t, to), Holds(pc[t], frame[t].run)'
    PROVE  Turns'
<1>1. \A u \in Tasks \ {t} : pc'[u] = pc[u]
  BY DEF Goto
<1>2. OthersYield(t)'
  BY <1>1 DEF OthersYield, AtYield
<1>3. ASSUME NEW u \in Tasks, ~AtYield(u)' PROVE u = t
  BY <1>2, <1>3 DEF OthersYield
<1>4. AtYield(t)' => Agree'
  BY DEF AtYield, Holds
<1> QED
  BY <1>2, <1>3, <1>4 DEF Turns

LEMMA TurnPasses ==
    ASSUME TypeOK, Turns, NEW t \in Tasks, OthersYield(t), UNCHANGED schedule,
           ServeCall(t) \/ ServeStep(t) \/ LoopStep(t) \/ LoopBreak(t) \/ StopCall(t) \/ StopStep(t)
    PROVE  Turns'
<1> DEFINE r == frame[t].run
<1>0. Holds(pc[t], r)
  BY TurnBegins
<1>t. pc \in [Tasks -> Points] /\ frame \in [Tasks -> FrameType] /\ frame[t] \in FrameType
  BY DEF TypeOK
<1>s. ASSUME NEW from, NEW to, Step(t, from, to)
      PROVE  pc[t] = from /\ pc'[t] = to /\ frame'[t].run = r /\ Goto(t, to)
  BY <1>s, <1>t DEF Step, Goto
<1>r. ASSUME NEW from, Return(t, from)
      PROVE  pc[t] = from /\ pc'[t] = "idle" /\ Goto(t, "idle")
  BY <1>r, <1>t DEF Return, Goto
\* Steps that leave the flag, the sender and the threads alone.
<1>q. ASSUME UNCHANGED <<running, shutdownTx, thread>>,
             NEW from, pc[t] = from, from \notin {"start", "binding", "refused", "rust"},
             NEW to, pc'[t] = to, Goto(t, to),
             to \notin {"start", "binding", "refused", "rust"},
             to \in {"register", "notify", "flag"} => ~running,
             to \in {"ws", "enter"} => running,
             to \in ServePoints \ {"banner"} => frame'[t].run \in Runs
      PROVE  Turns'
  <2>1. Agree'
    BY <1>0, <1>q DEF Holds, Agree, ServerUp
  <2>2. Holds(pc[t], frame[t].run)'
    BY <1>q, <2>1 DEF Holds
  <2> QED
    BY <1>t, <1>q, <2>2, TurnEnds
<1>1. CASE ServeCall(t)
  <2>1. pc[t] = "idle" /\ pc'[t] = "banner" /\ Goto(t, "banner")
    BY <1>1, <1>t DEF ServeCall, Goto
  <2> QED
    BY <1>1, <1>q, <2>1 DEF ServeCall, rustVars, juliaVars
<1>2. CASE ServeBegin(t)
  <2>1. pc[t] = "banner" /\ pc'[t] = "register" /\ Goto(t, "register") /\ ~running
    BY <1>2, <1>t DEF ServeBegin, Goto
  <2>2. frame'[t].run = runs + 1 /\ runs + 1 \in Runs
    BY <1>2, <1>t, LifecycleAssumption DEF ServeBegin, TypeOK, FrameType, RunOrNone, Runs
  <2> QED
    BY <1>2, <1>q, <2>1, <2>2 DEF ServeBegin, rustVars
<1>3. CASE ServeRegister(t)
  <2>1. UNCHANGED <<running, shutdownTx, thread>>
    BY <1>3 DEF ServeRegister, juliaVars
  <2>2. pc[t] = "register" /\ r \in Runs /\ ~running
    BY <1>0, <1>3 DEF ServeRegister, Step, Return, Holds, ServePoints
  <2>3. CASE Step(t, "register", "notify")
    BY <1>q, <1>s, <2>1, <2>2, <2>3
  <2>4. CASE Return(t, "register")
    BY <1>q, <1>r, <2>1, <2>2, <2>4 DEF ServePoints
  <2> QED
    BY <1>3, <2>3, <2>4 DEF ServeRegister
<1>4. CASE ServeNotify(t)
  <2>1. pc[t] = "notify" /\ r \in Runs /\ ~running
    BY <1>0, <1>4 DEF ServeNotify, Step, Holds, ServePoints
  <2> QED
    BY <1>4, <1>q, <1>s, <2>1 DEF ServeNotify
<1>5. CASE ServeFlag(t)
  <2>1. /\ pc[t] = "flag" /\ pc'[t] = "start" /\ frame'[t].run = r /\ Goto(t, "start")
        /\ running' /\ shutdownTx' = shutdownTx
    BY <1>5, <1>s DEF ServeFlag, rustVars
  <2>2. Dead /\ r \in Runs /\ thread' = thread
    BY <1>0, <1>5, <2>1 DEF Holds, Agree, Dead, ServePoints, ServeFlag, rustVars
  <2>3. Holds(pc[t], frame[t].run)'
    BY <2>1, <2>2 DEF Holds, Dead
  <2> QED
    BY <1>t, <2>1, <2>3, TurnEnds
<1>6. CASE StartAlready(t)
  <2>1. /\ pc[t] = "start" /\ pc'[t] = "refused" /\ frame'[t].run = r /\ Goto(t, "refused")
        /\ UNCHANGED <<running, shutdownTx, thread>>
    BY <1>6, <1>s DEF StartAlready, rustVars, juliaVars
  <2>2. r \in Runs /\ running /\ Dead
    BY <1>0, <2>1 DEF Holds, ServePoints
  <2>3. Holds(pc[t], frame[t].run)'
    BY <2>1, <2>2 DEF Holds, Dead
  <2> QED
    BY <1>t, <2>1, <2>3, TurnEnds
<1>7. CASE Start(t)
  <2>1. /\ pc[t] = "start" /\ pc'[t] = "binding" /\ frame'[t].run = r /\ Goto(t, "binding")
        /\ running' = running /\ shutdownTx' = r /\ thread' = [thread EXCEPT ![r] = "binding"]
    BY <1>7, <1>s DEF Start, juliaVars
  <2>2. r \in Runs /\ running
    BY <1>0, <2>1 DEF Holds, ServePoints
  <2>3. thread'[r] = "binding"
    BY <2>1, <2>2 DEF TypeOK
  <2>4. Holds(pc[t], frame[t].run)'
    BY <2>1, <2>2, <2>3 DEF Holds
  <2> QED
    BY <1>t, <2>1, <2>4, TurnEnds
<1>8. CASE StartOk(t)
  <2>1. /\ pc[t] = "binding" /\ pc'[t] = "ws" /\ frame'[t].run = r /\ Goto(t, "ws")
        /\ UNCHANGED <<running, shutdownTx, thread>> /\ thread[r] \in {"listening", "gone"}
    BY <1>8, <1>s DEF StartOk, rustVars, juliaVars
  <2>2. r \in Runs /\ running /\ shutdownTx = r /\ thread[r] = "listening"
    BY <1>0, <2>1 DEF Holds, ServePoints
  <2>3. r # 0
    BY <2>2, LifecycleAssumption DEF Runs
  <2>4. Agree'
    BY <2>1, <2>2, <2>3 DEF Agree, ServerUp
  <2>5. Holds(pc[t], frame[t].run)'
    BY <2>1, <2>2, <2>4 DEF Holds
  <2> QED
    BY <1>t, <2>1, <2>5, TurnEnds
<1>9. CASE StartFailed(t) \/ StartDied(t)
  <2>1. /\ pc[t] = "binding" /\ pc'[t] = "refused" /\ frame'[t].run = r /\ Goto(t, "refused")
        /\ running' = running /\ thread' = thread
        /\ shutdownTx' = 0 \/ (shutdownTx' = shutdownTx /\ thread[r] = "died")
    BY <1>9, <1>s DEF StartFailed, StartDied, rustVars, juliaVars
  <2>2. r \in Runs /\ running /\ shutdownTx = r
    BY <1>0, <2>1 DEF Holds, ServePoints
  <2>3. Holds(pc[t], frame[t].run)'
    BY <2>1, <2>2 DEF Holds, Dead
  <2> QED
    BY <1>t, <2>1, <2>3, TurnEnds
<1>10. CASE ServeFail(t)
  <2>1. /\ pc[t] = "refused" /\ pc'[t] = "idle" /\ Goto(t, "idle")
        /\ ~running' /\ UNCHANGED <<shutdownTx, thread>>
    BY <1>10, <1>r DEF ServeFail, rustVars
  <2>2. Dead
    BY <1>0, <2>1 DEF Holds
  <2>3. Holds(pc[t], frame[t].run)'
    BY <2>1, <2>2 DEF Holds, Dead, Agree, ServerUp, ServePoints
  <2> QED
    BY <1>t, <2>1, <2>3, TurnEnds
<1>11. CASE ServeRefused(t) \/ ServeBadFps(t) \/ ServeReturn(t) \/ StopClear(t)
  <2>1. PICK from \in {"banner", "ws", "finally", "clear"} : Return(t, from)
    BY <1>11 DEF ServeRefused, ServeBadFps, ServeReturn, StopClear
  <2>2. UNCHANGED <<running, shutdownTx, thread>>
    BY <1>11 DEF ServeRefused, ServeBadFps, ServeReturn, StopClear, rustVars, juliaVars
  <2> QED
    BY <1>q, <1>r, <2>1, <2>2 DEF ServePoints
<1>12. CASE ServeWs(t)
  <2>1. Step(t, "ws", "enter") /\ UNCHANGED <<running, shutdownTx, thread>>
    BY <1>12 DEF ServeWs, rustVars, juliaVars
  <2>2. r \in Runs /\ running
    BY <1>0, <2>1 DEF Step, Holds, ServePoints
  <2> QED
    BY <1>q, <1>s, <2>1, <2>2
<1>13. CASE LoopEnter(t) \/ StopRelease(t)
  <2>1. PICK from \in {"enter", "release"}, to \in {"check", "join"} :
            pc[t] = from /\ pc'[t] = to /\ Goto(t, to)
    BY <1>13, <1>t DEF LoopEnter, StopRelease, Goto
  <2>2. UNCHANGED <<running, shutdownTx, thread>>
    BY <1>13 DEF LoopEnter, StopRelease, rustVars, juliaVars
  <2> QED
    BY <1>q, <2>1, <2>2 DEF ServePoints
<1>14. CASE \/ LoopCheck(t) \/ PollTask(t) \/ PollEmpty(t) \/ LoopRecheck(t) \/ Wake(t) \/ LoopBreak(t)
            \/ StopCall(t) \/ StopSignal(t) \/ StopYield(t) \/ StopDrained(t) \/ StopWait(t) \/ StopJoin(t)
  <2>1. \E from \in Resting, to \in Resting : Step(t, from, to)
    <3>1. CASE LoopCheck(t) \/ LoopRecheck(t)
      BY <3>1 DEF LoopCheck, LoopRecheck, Resting
    <3>2. CASE PollTask(t) \/ PollEmpty(t) \/ Wake(t) \/ LoopBreak(t) \/ StopCall(t)
      BY <3>2 DEF PollTask, PollEmpty, Wake, LoopBreak, StopCall, Resting
    <3>3. CASE StopSignal(t) \/ StopYield(t) \/ StopWait(t)
      BY <3>3 DEF StopSignal, StopYield, StopWait, Resting
    <3>4. CASE StopDrained(t) \/ StopJoin(t)
      BY <3>4 DEF StopDrained, StopJoin, Resting
    <3> QED
      BY <1>14, <3>1, <3>2, <3>3, <3>4
  <2>2. UNCHANGED <<running, shutdownTx, thread>>
    BY <1>14 DEF LoopCheck, PollTask, PollEmpty, LoopRecheck, Wake, LoopBreak, StopCall, StopSignal,
                 StopYield, StopDrained, StopWait, StopJoin, rustVars, juliaVars
  <2> QED
    BY <1>q, <1>s, <2>1, <2>2 DEF ServePoints, Resting
<1>15. CASE StopBegin(t)
  <2>1. /\ pc[t] = "stopping" /\ pc'[t] = "rust" /\ Goto(t, "rust") /\ ~running'
        /\ UNCHANGED <<shutdownTx, thread>>
    BY <1>15, <1>t DEF StopBegin, Goto, rustVars
  <2>3. Settled
    BY <1>0, <2>1 DEF Holds, Agree, ServerUp, Settled
  <2>2. Holds(pc[t], frame[t].run)'
    BY <2>1, <2>3 DEF Holds, Settled, ServePoints
  <2> QED
    BY <1>t, <2>1, <2>2, TurnEnds
<1>16. CASE StopRust(t)
  <2>1. pc[t] = "rust" /\ pc'[t] = "signal" /\ Goto(t, "signal") /\ running' = running /\ shutdownTx' = 0
    BY <1>16, <1>s DEF StopRust, juliaVars
  <2>2. ~running
    BY <1>0, <2>1 DEF Holds
  <2>3. Holds(pc[t], frame[t].run)'
    BY <2>1, <2>2 DEF Holds, Agree, ServerUp, ServePoints
  <2> QED
    BY <1>t, <2>1, <2>3, TurnEnds
<1> QED
  BY <1>1, <1>2, <1>3, <1>4, <1>5, <1>6, <1>7, <1>8, <1>9, <1>10, <1>11, <1>12, <1>13, <1>14,
     <1>15, <1>16 DEF ServeStep, LoopStep, StopStep

\* A server that is up stays up while its sender is kept: a thread that listens
\* ends only without it, and one that binds is not the one that listens.
LEMMA TurnStays ==
    ASSUME TypeOK, Turns, UNCHANGED <<pc, frame>>, UNCHANGED <<running, shutdownTx>>,
           \/ UNCHANGED thread
           \/ \E r \in Runs : Bind(r) \/ ThreadExit(r)
    PROVE  Turns'
<1>1. \A s \in Runs : s = shutdownTx =>
          /\ thread[s] = "listening" => thread'[s] = "listening"
          /\ thread[s] = "died" => thread'[s] = "died"
          /\ thread[s] \in {"binding", "listening", "failed", "died"} =>
                thread'[s] \in {"binding", "listening", "failed", "died"}
  BY DEF TypeOK, Bind, ThreadExit
<1>2. (Agree => Agree') /\ (Dead => Dead') /\ (Settled => Settled')
  BY <1>1, RunNumbers DEF Agree, Dead, Settled, ServerUp, TypeOK
<1>3. ASSUME NEW t \in Tasks, Holds(pc[t], frame[t].run) PROVE Holds(pc[t], frame[t].run)'
  <2>1. CASE pc[t] = "binding"
    BY <1>1, <1>3, <2>1 DEF Holds, ServePoints
  <2>2. CASE pc[t] # "binding"
    BY <1>2, <1>3, <2>2 DEF Holds
  <2> QED
    BY <2>1, <2>2
<1> QED
  BY <1>2, <1>3 DEF Turns, OthersYield, AtYield

\* A task that shares its thread moves when all others have yielded.
LEMMA TurnGiven ==
    ASSUME schedule # "parallel", NEW t \in Tasks,
           \/ ServeCall(t) \/ ServeStep(t) \/ LoopStep(t) \/ LoopBreak(t)
           \/ StopCall(t) \/ StopStep(t)
    PROVE  OthersYield(t)
<1>1. MayRun(t)
  BY DEF ServeCall, ServeStep, LoopStep, LoopBreak, StopCall, StopStep, Step, Return,
     ServeRefused, ServeBegin, ServeRegister, ServeNotify, ServeFlag, StartAlready, Start,
     StartOk, StartFailed, StartDied, ServeFail, ServeBadFps, ServeWs, LoopEnter, LoopCheck,
     PollTask, PollEmpty, LoopRecheck, Wake, ServeReturn, StopBegin, StopRust, StopSignal, StopYield,
     StopDrained, StopRelease, StopWait, StopJoin, StopClear
<1> QED
  BY <1>1 DEF MayRun, OthersYield

LEMMA CoopHolds == SafeSpec => []CoopInv
<1>1. Init => CoopInv
  BY DEF Init, CoopInv, Turns, AtYield, Agree, ServerUp
<1>2. TypeOK /\ CoopInv /\ [Next]_<<vars, schedule>> => CoopInv'
  <2> SUFFICES ASSUME TypeOK, CoopInv, [Next]_<<vars, schedule>>, schedule' # "parallel"
               PROVE  Turns'
    BY DEF CoopInv
  <2>0. schedule' = schedule /\ schedule # "parallel" /\ Turns
    BY DEF Next, CoopInv
  <2>1. ASSUME NEW t \in Tasks,
               \/ ServeCall(t) \/ ServeStep(t) \/ LoopStep(t) \/ LoopBreak(t)
               \/ StopCall(t) \/ StopStep(t)
        PROVE  Turns'
    BY <2>0, <2>1, TurnGiven, TurnPasses
  <2>2. CASE \/ \E r \in Runs : Bind(r) \/ ThreadExit(r) \/ WsStop(r) \/ WsThrow(r)
             \/ Notify \/ HandlerEnd \/ UNCHANGED <<vars, schedule>>
    <3>1. UNCHANGED <<pc, frame>> /\ UNCHANGED <<running, shutdownTx>>
      BY <2>2 DEF Bind, ThreadExit, WsStop, WsThrow, Notify, HandlerEnd, vars, rustVars, juliaVars
    <3>2. UNCHANGED thread \/ \E r \in Runs : Bind(r) \/ ThreadExit(r)
      BY <2>2 DEF WsStop, WsThrow, Notify, HandlerEnd, vars, rustVars
    <3> QED
      BY <2>0, <3>1, <3>2, TurnStays
  <2> QED
    BY <2>1, <2>2 DEF Next, AnyStep
<1> QED
  BY <1>1, <1>2, TypeCorrect, PTL DEF SafeSpec

\* With all tasks on one thread Julia's flag tells the truth about Rust wherever
\* another task can run, for any number of tasks, apps and runs.
\* For tasks of one thread a sender Rust has while the flag is down belongs to a
\* thread that died before it could report.
THEOREM FlagsAgreeHolds == SafeSpec => []FlagsAgree
<1>1. CoopInv => FlagsAgree
  BY DEF CoopInv, Turns, Agree, FlagsAgree
<1> QED
  BY <1>1, CoopHolds, PTL

\* With all tasks on one thread fmh_server_start never says "server already
\* running" of a server that runs: the check of the flag comes first, and what
\* is left to refuse is the sender of a thread that died.
THEOREM OnlyDeadRefuse ==
    SafeSpec => [](schedule # "parallel" =>
        \A t \in Tasks : pc[t] = "start" /\ shutdownTx # 0 => thread[shutdownTx] = "died")
<1> DEFINE Refused ==
        schedule # "parallel" =>
            \A t \in Tasks : pc[t] = "start" /\ shutdownTx # 0 => thread[shutdownTx] = "died"
<1>1. CoopInv => Refused
  <2> SUFFICES ASSUME CoopInv, schedule # "parallel", NEW t \in Tasks,
                      pc[t] = "start", shutdownTx # 0
               PROVE  thread[shutdownTx] = "died"
    OBVIOUS
  <2> QED BY DEF CoopInv, Turns, AtYield, Holds, Dead
<1> QED
  BY <1>1, CoopHolds, PTL

-----------------------------------------------------------------------------
(***************************************************************************)
(* What belongs to whom, when nobody calls serve() before every earlier    *)
(* call has returned. At most one call of serve() is under way; before its *)
(* loop nobody else is, and nothing is left of the runs before.            *)
(***************************************************************************)
Serving == ServePoints \cup LoopPoints \cup {"finally"}
Lowered == StopPoints \ {"stopping"}

OneServe == \A t, u \in Tasks : pc[t] \in Serving /\ pc[u] \in Serving => t = u

\* A call of serve() begins alone, and stop_server!() finds nothing to wait for
\* until it has passed its check.
Alone ==
    \A t \in Tasks : pc[t] \in ServePoints =>
        /\ pc[t] # "enter" => Quiet
        /\ \A u \in Tasks \ {t} :
            /\ pc[u] \notin {"draining", "joining"}
            /\ pc[t] # "banner" => pc[u] = "idle"

\* A stop_server!() that has lowered the flag finds it so until it returns.
FlagDown == running => \A u \in Tasks : pc[u] \notin Lowered

\* Rust forgets the condition before Julia releases it.
Silent ==
    \A u \in Tasks : pc[u] \in {"signal", "drain", "draining", "release"} => notifier = 0

\* What a call of serve() has put in place at each point; its loop has all of it
\* as long as the flag is up.
Owned(t) ==
    /\ pc[t] \in ServePoints \ {"banner"} => activeApp = frame[t].app
    /\ pc[t] \in ServePoints \ {"banner", "register"} => activeApp \in routes
    /\ pc[t] \in ServePoints \ {"banner", "register", "notify"} =>
          condRef = frame[t].run /\ notifier = frame[t].run
    /\ pc[t] \in {"ws", "enter"} => shutdownTx = frame[t].run
    /\ pc[t] = "poll" => running
    /\ pc[t] \in LoopPoints /\ running =>
          /\ activeApp = frame[t].app /\ activeApp \in routes
          /\ condRef = frame[t].run /\ notifier = frame[t].run
          /\ shutdownTx = frame[t].run /\ frame[t].cond = frame[t].run
          /\ frame[t].run # 0

\* A handler in flight is waited for: by a stop_server!(), or by the one the
\* loop will call or be stopped by.
HandlerWaited ==
    inflight = 1 =>
        \/ running /\ \E t \in Tasks : pc[t] \in LoopPoints \cup {"finally", "stopping"}
        \/ \E u \in Tasks : pc[u] \in {"rust", "signal", "drain", "draining"}

BeforeClear == {"rust", "signal", "drain", "draining", "release", "join", "joining"}

\* And so is a WebSocket task, which is in the list of its app.
TaskWaited(r) ==
    wsTask[r] # NoApp =>
        /\ wsList[wsTask[r]] = r
        /\ \A u \in Tasks :
            pc[u] \in {"join", "joining"} /\ frame[u].stopApp = wsTask[r] => frame[u].join = r
        /\ \/ /\ running /\ activeApp = wsTask[r]
              /\ \E t \in Tasks : pc[t] \in {"enter", "finally", "stopping"} \cup LoopPoints
           \/ \E u \in Tasks : pc[u] \in BeforeClear /\ frame[u].stopApp = wsTask[r]

Shape == OneServe /\ Alone
Flags == FlagDown /\ Silent /\ NotifierRooted /\ NoStaleWsTask
Owners == \A t \in Tasks : Owned(t)
Waited == HandlerWaited /\ \A r \in Runs : TaskWaited(r)

SeqOK == Shape /\ Flags /\ Owners /\ Waited

LEMMA ShapeKept ==
    ASSUME pc \in [Tasks -> Points], Shape, NEW t \in Tasks, OthersYield(t),
           NEW from, NEW to, pc[t] = from, Goto(t, to),
           to \in Serving => from \in Serving,
           to \in ServePoints => from \in ServePoints \ {"enter"} /\ to # "banner",
           to \in {"draining", "joining"} => ~Quiet,
           Quiet => Quiet' \/ to = "enter" \/ from = "poll"
    PROVE  Shape'
<1>1. pc'[t] = to /\ \A u \in Tasks \ {t} : pc'[u] = pc[u]
  BY DEF Goto
<1>2. OneServe'
  BY <1>1 DEF Shape, OneServe
<1>3. ASSUME NEW s \in Tasks, pc'[s] \in ServePoints
      PROVE  /\ pc'[s] # "enter" => Quiet'
             /\ \A u \in Tasks \ {s} :
                 /\ pc'[u] \notin {"draining", "joining"}
                 /\ pc'[s] # "banner" => pc'[u] = "idle"
  <2>1. CASE s = t
    <3>1. to \in ServePoints /\ from \in ServePoints /\ to # "banner" /\ from # "poll"
      BY <1>1, <1>3, <2>1 DEF ServePoints
    <3>2. \A u \in Tasks \ {t} : pc[u] = "idle"
      <4> TAKE u \in Tasks \ {t}
      <4>1. pc[u] \notin Serving
        BY <3>1 DEF Shape, OneServe, Serving
      <4>2. AtYield(u) /\ pc[u] \notin {"draining", "joining"}
        BY <3>1 DEF OthersYield, Shape, Alone
      <4> QED
        BY <4>1, <4>2 DEF AtYield, Serving, ServePoints, LoopPoints
    <3>3. to # "enter" => Quiet'
      BY <2>1, <1>3, <1>1, <3>1 DEF Shape, Alone
    <3> QED BY <1>1, <2>1, <3>1, <3>2, <3>3
  <2>2. CASE s # t
    <3>1. pc[s] \in ServePoints /\ pc'[s] = pc[s] /\ pc[s] = "banner"
      BY <1>1, <1>3, <2>2 DEF OthersYield, AtYield, ServePoints
    <3>2. Quiet /\ \A u \in Tasks \ {s} : pc[u] \notin {"draining", "joining"}
      BY <3>1 DEF Shape, Alone
    <3>3. from \notin Serving
      BY <2>2, <3>1 DEF Shape, OneServe, Serving
    <3>4. Quiet'
      BY <3>2, <3>3 DEF Serving, LoopPoints, ServePoints
    <3> QED BY <1>1, <3>1, <3>2, <3>4
  <2> QED BY <2>1, <2>2
<1> QED BY <1>2, <1>3 DEF Shape, Alone

LEMMA OwnersKept ==
    ASSUME pc \in [Tasks -> Points], Shape, Owners, NEW t \in Tasks, OthersYield(t),
           NEW to, Goto(t, to), \A u \in Tasks \ {t} : frame'[u] = frame[u],
           \/ pc[t] \in Serving
           \/ ~running'
           \/ UNCHANGED <<running, activeApp, routes, condRef, notifier, shutdownTx>>,
           Owned(t)'
    PROVE  Owners'
<1> SUFFICES ASSUME NEW s \in Tasks \ {t} PROVE Owned(s)'
  BY DEF Owners
<1>1. pc'[s] = pc[s] /\ frame'[s] = frame[s] /\ AtYield(s)
  BY DEF Goto, OthersYield
<1>2. pc[s] \notin ServePoints \ {"banner"} /\ pc[s] # "poll"
  BY <1>1 DEF AtYield, ServePoints
<1>3. pc[s] \in LoopPoints => pc[t] \notin Serving
  BY DEF Shape, OneServe, Serving
<1> QED BY <1>1, <1>2, <1>3 DEF Owned, Owners, LoopPoints, ServePoints


LEMMA FlagsKept ==
    ASSUME pc \in [Tasks -> Points], Flags, NEW t \in Tasks, NEW to, Goto(t, to), to \notin Lowered,
           UNCHANGED <<running, notifier, condRef, shutdownTx>>,
           \A r \in Runs : wsTask'[r] = wsTask[r] \/ wsTask'[r] = NoApp
    PROVE  Flags'
<1>1. pc'[t] = to /\ \A u \in Tasks \ {t} : pc'[u] = pc[u]
  BY DEF Goto
<1>2. FlagDown' /\ Silent'
  BY <1>1 DEF Flags, FlagDown, Silent, Lowered, StopPoints
<1>3. NotifierRooted' /\ NoStaleWsTask'
  BY DEF Flags, NotifierRooted, NoStaleWsTask
<1> QED BY <1>2, <1>3 DEF Flags

LEMMA QuietWaited ==
    ASSUME Quiet' PROVE Waited'
  BY DEF Quiet, Waited, HandlerWaited, TaskWaited

\* Where nobody is, nothing is left to wait for.
LEMMA IdleQuiet ==
    ASSUME TypeOK, Waited, \A t \in Tasks : pc[t] = "idle"
    PROVE  Quiet
<1>1. inflight # 1
  BY DEF Waited, HandlerWaited, LoopPoints
<1>2. \A r \in Runs : wsTask[r] = NoApp
  BY DEF Waited, TaskWaited, LoopPoints, BeforeClear
<1> QED BY <1>1, <1>2 DEF TypeOK, Quiet

\* A step of t that leaves its local variables alone, or its return.
LEMMA Moved ==
    ASSUME pc \in [Tasks -> Points], frame \in [Tasks -> FrameType], NEW t \in Tasks
    PROVE  /\ \A from, to : Step(t, from, to) =>
                  pc[t] = from /\ Goto(t, to) /\ pc'[t] = to /\ frame' = frame
           /\ \A from : Return(t, from) =>
                  /\ pc[t] = from /\ Goto(t, "idle") /\ pc'[t] = "idle"
                  /\ \A u \in Tasks \ {t} : frame'[u] = frame[u]
  BY DEF Step, Return, Goto

\* serve() before its check, and every return before the loop.
LEMMA SeqLeave ==
    ASSUME TypeOK, SeqOK, NEW t \in Tasks, OthersYield(t), Goto(t, "idle"),
           pc[t] \in ServePoints \ {"enter"},
           \A u \in Tasks \ {t} : frame'[u] = frame[u],
           UNCHANGED <<notifier, condRef, shutdownTx, wsVars, inflight>>,
           running' => running
    PROVE  SeqOK'
<1>1. Quiet /\ Quiet'
  BY DEF SeqOK, Shape, Alone, Quiet, wsVars
<1>2. Shape'
  BY <1>1, ShapeKept DEF TypeOK, SeqOK, Serving, ServePoints, LoopPoints
<1>3. pc'[t] = "idle" /\ \A u \in Tasks \ {t} : pc'[u] = pc[u]
  BY DEF TypeOK, Goto
<1>4. Flags'
  BY <1>1, <1>3
  DEF SeqOK, Flags, FlagDown, Silent, NotifierRooted, NoStaleWsTask, Quiet, Lowered, StopPoints
<1>5. Owned(t)'
  BY <1>3 DEF Owned, ServePoints, LoopPoints
<1>6. Owners'
  BY <1>5, OwnersKept DEF TypeOK, SeqOK, Serving
<1> QED BY <1>1, <1>2, <1>4, <1>6, QuietWaited DEF SeqOK

\* The points of serve() from its check to its WebSocket task: nobody else is
\* there, and what counts is what the step puts in place.
LEMMA SeqServe ==
    ASSUME TypeOK, SeqOK, NEW t \in Tasks, OthersYield(t), NEW to, Goto(t, to),
           pc[t] \in ServePoints \ {"enter"}, to \in ServePoints \ {"banner", "enter"},
           \A u \in Tasks \ {t} : frame'[u] = frame[u],
           UNCHANGED <<wsVars, inflight>>,
           NotifierRooted', Owned(t)'
    PROVE  SeqOK'
<1>1. Quiet /\ Quiet'
  BY DEF SeqOK, Shape, Alone, Quiet, wsVars
<1>2. Shape'
  BY <1>1, ShapeKept DEF TypeOK, SeqOK, Serving, ServePoints, LoopPoints
<1>3. pc'[t] = to /\ \A u \in Tasks \ {t} : pc'[u] = "idle"
  BY <1>2 DEF TypeOK, Goto, Shape, Alone
<1>4. Flags'
  BY <1>1, <1>3 DEF Flags, FlagDown, Silent, NoStaleWsTask, Quiet, Lowered, ServePoints, StopPoints
<1>6. Owners'
  BY OwnersKept DEF TypeOK, SeqOK, Serving
<1> QED BY <1>1, <1>2, <1>4, <1>6, QuietWaited DEF SeqOK

LEMMA SeqServeCall ==
    ASSUME TypeOK, SeqOK, schedule = "sequential", NEW t \in Tasks, OthersYield(t), ServeCall(t)
    PROVE  SeqOK'
<1>1. \A u \in Tasks : pc[u] = "idle"
  BY DEF ServeCall, MayServe
<1>2. Quiet
  BY <1>1, IdleQuiet DEF SeqOK
<1>3. /\ pc'[t] = "banner" /\ Goto(t, "banner") /\ \A u \in Tasks \ {t} : pc'[u] = "idle"
      /\ \A u \in Tasks \ {t} : frame'[u] = frame[u]
      /\ UNCHANGED <<rustVars, juliaVars, wsVars>>
  BY <1>1 DEF ServeCall, Goto, TypeOK
<1>4. Quiet'
  BY <1>2, <1>3 DEF Quiet, juliaVars, wsVars
<1>5. Shape'
  <2>1. \A u \in Tasks : pc'[u] \in Serving => u = t
    BY <1>3 DEF Serving, ServePoints, LoopPoints
  <2>2. OneServe'
    BY <2>1 DEF OneServe
  <2>3. Alone'
    BY <1>3, <1>4, <2>1 DEF Alone, Serving
  <2> QED BY <2>2, <2>3 DEF Shape
<1>6. Flags'
  BY <1>3, FlagsKept DEF TypeOK, SeqOK, Lowered, StopPoints, rustVars, juliaVars, wsVars
<1>7. Owned(t)'
  BY <1>3 DEF Owned, ServePoints, LoopPoints
<1>8. Owners'
  BY <1>3, <1>7, OwnersKept DEF TypeOK, SeqOK, rustVars, juliaVars
<1> QED BY <1>4, <1>5, <1>6, <1>8, QuietWaited DEF SeqOK

LEMMA SeqServeWs ==
    ASSUME TypeOK, AppGiven, Turns, SeqOK, NEW t \in Tasks, OthersYield(t), ServeWs(t)
    PROVE  SeqOK'
<1> DEFINE r == frame[t].run
           a == frame[t].app
<1>1. /\ pc[t] = "ws" /\ Goto(t, "enter") /\ pc'[t] = "enter" /\ frame' = frame
      /\ wsTask' = [wsTask EXCEPT ![r] = a] /\ wsList' = [wsList EXCEPT ![a] = r]
      /\ UNCHANGED <<rustVars, juliaVars>>
  BY Moved DEF ServeWs, TypeOK
<1>2. a \in Apps /\ a # NoApp
  BY <1>1, LifecycleAssumption DEF AppGiven, ServePoints
<1>3. r \in Runs /\ shutdownTx = r /\ activeApp = a /\ running
  BY <1>1, TurnBegins DEF Holds, ServePoints, SeqOK, Owners, Owned
<1>5. Quiet /\ \A u \in Tasks \ {t} : pc[u] = "idle" /\ pc'[u] = "idle"
  BY <1>1 DEF SeqOK, Shape, Alone, ServePoints, TypeOK, Goto
<1>6. wsTask'[r] = a /\ wsList'[a] = r /\ \A s \in Runs \ {r} : wsTask'[s] = NoApp
  BY <1>1, <1>2, <1>3, <1>5 DEF TypeOK, Quiet
<1>7. Shape'
  BY <1>1, ShapeKept DEF TypeOK, SeqOK, Serving, ServePoints, LoopPoints
<1>8. Flags'
  BY <1>1, <1>3, <1>5, <1>6
  DEF SeqOK, Flags, FlagDown, Silent, NotifierRooted, NoStaleWsTask, Lowered, StopPoints, rustVars, juliaVars
<1>9. Owned(t)'
  BY <1>1 DEF SeqOK, Owners, Owned, ServePoints, LoopPoints, rustVars, juliaVars
<1>10. Owners'
  BY <1>1, <1>9, OwnersKept DEF TypeOK, SeqOK, Serving, ServePoints
<1>11. HandlerWaited'
  BY <1>1, <1>5 DEF HandlerWaited, Quiet, juliaVars
<1>12. ASSUME NEW s \in Runs PROVE TaskWaited(s)'
  BY <1>1, <1>2, <1>3, <1>5, <1>6, <1>12 DEF TaskWaited, juliaVars
<1> QED BY <1>7, <1>8, <1>10, <1>11, <1>12 DEF SeqOK, Waited

LEMMA SeqServeStep ==
    ASSUME TypeOK, AppGiven, Turns, SeqOK, NEW t \in Tasks, OthersYield(t), ServeStep(t)
    PROVE  SeqOK'
<1> USE Moved DEF TypeOK
<1>0. Owned(t) /\ NotifierRooted /\ frame[t] \in FrameType
  BY DEF SeqOK, Owners, Flags
<1>1. CASE ServeRefused(t) \/ ServeBadFps(t) \/ ServeFail(t)
  <2>1. PICK from \in {"banner", "ws", "refused"} : Return(t, from)
    BY <1>1 DEF ServeRefused, ServeBadFps, ServeFail
  <2>2. UNCHANGED <<rustVars, condRef, inflight, wsVars>> /\ (running' => running)
    BY <1>1 DEF ServeRefused, ServeBadFps, ServeFail, juliaVars
  <2> QED BY <2>1, <2>2, SeqLeave DEF rustVars, ServePoints
<1>2. CASE ServeBegin(t)
  <2>1. /\ pc[t] = "banner" /\ Goto(t, "register") /\ pc'[t] = "register"
        /\ frame' = [frame EXCEPT ![t] = [frame[t] EXCEPT !.run = runs + 1]]
        /\ activeApp' = frame[t].app
        /\ UNCHANGED <<rustVars, condRef, inflight, wsVars>>
    BY <1>2 DEF ServeBegin, Goto
  <2>2. frame'[t].app = frame[t].app /\ \A u \in Tasks \ {t} : frame'[u] = frame[u]
    BY <1>0, <2>1 DEF FrameType
  <2>3. Owned(t)'
    BY <2>1, <2>2 DEF Owned, LoopPoints
  <2>4. NotifierRooted'
    BY <1>0, <2>1 DEF NotifierRooted, rustVars
  <2> QED BY <2>1, <2>2, <2>3, <2>4, SeqServe DEF ServePoints
<1>3. CASE ServeRegister(t)
  <2>1. /\ activeApp' = activeApp /\ routes' = routes \cup {frame[t].app}
        /\ UNCHANGED <<notifier, condRef, shutdownTx, wsVars, inflight, running>>
    BY <1>3 DEF ServeRegister, juliaVars
  <2>2. CASE Return(t, "register")
    BY <2>1, <2>2, SeqLeave DEF ServePoints
  <2>3. CASE Step(t, "register", "notify")
    <3>1. pc[t] = "register" /\ pc'[t] = "notify" /\ Goto(t, "notify") /\ frame' = frame
      BY <2>3
    <3>2. Owned(t)' /\ NotifierRooted'
      BY <1>0, <2>1, <3>1 DEF Owned, LoopPoints, ServePoints, NotifierRooted
    <3> QED BY <2>1, <3>1, <3>2, SeqServe DEF ServePoints
  <2> QED BY <1>3, <2>2, <2>3 DEF ServeRegister
<1>4. CASE ServeNotify(t)
  <2>1. /\ pc[t] = "notify" /\ pc'[t] = "flag" /\ Goto(t, "flag") /\ frame' = frame
        /\ condRef' = frame[t].run /\ notifier' = frame[t].run
        /\ UNCHANGED <<activeApp, routes, inflight, wsVars>>
    BY <1>4 DEF ServeNotify
  <2>2. Owned(t)' /\ NotifierRooted'
    BY <1>0, <2>1 DEF Owned, LoopPoints, ServePoints, NotifierRooted
  <2> QED BY <2>1, <2>2, SeqServe DEF ServePoints
<1>5. CASE ServeFlag(t) \/ StartAlready(t) \/ Start(t) \/ StartFailed(t) \/ StartDied(t)
  <2>1. PICK from \in {"flag", "start", "binding"}, to \in {"start", "binding", "refused"} : Step(t, from, to)
    BY <1>5 DEF ServeFlag, StartAlready, Start, StartFailed, StartDied
  <2>2. UNCHANGED <<notifier, condRef, activeApp, routes, inflight, wsVars>>
    BY <1>5 DEF ServeFlag, StartAlready, Start, StartFailed, StartDied, rustVars, juliaVars
  <2>3. pc[t] = from /\ pc'[t] = to /\ Goto(t, to) /\ frame' = frame
    BY <2>1
  <2>4. Owned(t)' /\ NotifierRooted'
    BY <1>0, <2>2, <2>3 DEF Owned, LoopPoints, ServePoints, NotifierRooted
  <2> QED BY <2>2, <2>3, <2>4, SeqServe DEF ServePoints
<1>6. CASE StartOk(t)
  <2>1. /\ pc[t] = "binding" /\ pc'[t] = "ws" /\ Goto(t, "ws") /\ frame' = frame
        /\ UNCHANGED <<rustVars, juliaVars, wsVars>>
    BY <1>6 DEF StartOk
  <2>2. shutdownTx = frame[t].run
    BY <2>1, TurnBegins DEF Holds
  <2>3. Owned(t)' /\ NotifierRooted'
    BY <1>0, <2>1, <2>2 DEF Owned, LoopPoints, ServePoints, NotifierRooted, rustVars, juliaVars
  <2> QED BY <2>1, <2>3, SeqServe DEF ServePoints, juliaVars
<1>7. CASE ServeWs(t)
  BY <1>7, SeqServeWs
<1> QED BY <1>1, <1>2, <1>3, <1>4, <1>5, <1>6, <1>7 DEF ServeStep

\* The poll loop, the calls of stop_server!() and the return of serve(): nothing
\* changes hands. A task in the loop, or on its way out of it while the flag is
\* up, is a task that will wait for what is left.
LEMMA SeqLoop ==
    ASSUME TypeOK, SeqOK, NEW t \in Tasks, OthersYield(t), NEW to, Goto(t, to),
           pc[t] \in {"enter", "idle", "finally"} \cup LoopPoints,
           to \in {"idle", "finally", "stopping"} \cup LoopPoints,
           to \in Serving => pc[t] \in Serving, running => to # "idle",
           \A u \in Tasks \ {t} : frame'[u] = frame[u],
           UNCHANGED <<rustVars, running, activeApp, condRef, wsVars>>,
           inflight' = inflight \/ (pc[t] = "poll" /\ to \in LoopPoints),
           Owned(t)'
    PROVE  SeqOK'
<1>1. pc'[t] = to /\ \A u \in Tasks \ {t} : pc'[u] = pc[u]
  BY DEF TypeOK, Goto
<1>2. Quiet => Quiet' \/ pc[t] = "poll"
  BY DEF Quiet, wsVars
<1>3. Shape'
  BY <1>2, ShapeKept DEF TypeOK, SeqOK, ServePoints, LoopPoints
<1>4. Flags'
  BY FlagsKept DEF TypeOK, SeqOK, Lowered, StopPoints, LoopPoints, rustVars, wsVars
<1>5. Owners'
  BY OwnersKept DEF TypeOK, SeqOK, rustVars
<1>6. HandlerWaited'
  <2>1. CASE inflight' = inflight
    BY <1>1, <2>1 DEF SeqOK, Waited, HandlerWaited, LoopPoints
  <2>2. CASE pc[t] = "poll" /\ to \in LoopPoints
    BY <1>1, <2>2 DEF SeqOK, Owners, Owned, HandlerWaited
  <2> QED BY <2>1, <2>2
<1>7. ASSUME NEW r \in Runs PROVE TaskWaited(r)'
  <2> SUFFICES ASSUME wsTask[r] # NoApp PROVE TaskWaited(r)'
    BY DEF TaskWaited, wsVars
  <2>1. TaskWaited(r)
    BY DEF SeqOK, Waited
  <2>2. \A u \in Tasks :
            pc'[u] \in {"join", "joining"} => pc'[u] = pc[u] /\ frame'[u] = frame[u]
    BY <1>1 DEF LoopPoints
  <2>3. \/ running /\ activeApp = wsTask[r] /\ \E u \in Tasks : pc'[u] \in {"enter", "finally", "stopping"} \cup LoopPoints
        \/ \E u \in Tasks \ {t} : pc[u] \in BeforeClear /\ frame[u].stopApp = wsTask[r]
    BY <1>1, <2>1 DEF TaskWaited, LoopPoints, BeforeClear
  <2> QED BY <1>1, <2>1, <2>2, <2>3 DEF TaskWaited, wsVars
<1> QED BY <1>3, <1>4, <1>5, <1>6, <1>7 DEF SeqOK, Waited

LEMMA SeqLoopStep ==
    ASSUME TypeOK, Turns, SeqOK, NEW t \in Tasks, OthersYield(t),
           LoopStep(t) \/ LoopBreak(t) \/ StopCall(t)
    PROVE  SeqOK'
<1> USE Moved DEF TypeOK
<1>0. Owned(t) /\ frame[t] \in FrameType
  BY DEF SeqOK, Owners
<1>1. CASE LoopEnter(t)
  <2>1. /\ pc[t] = "enter" /\ Goto(t, "check") /\ pc'[t] = "check"
        /\ frame' = [frame EXCEPT ![t] = [frame[t] EXCEPT !.cond = condRef]]
        /\ UNCHANGED <<rustVars, juliaVars, wsVars>>
    BY <1>1 DEF LoopEnter, Goto
  <2>2. /\ frame'[t].app = frame[t].app /\ frame'[t].run = frame[t].run
        /\ frame'[t].cond = condRef /\ \A u \in Tasks \ {t} : frame'[u] = frame[u]
    BY <1>0, <2>1 DEF FrameType
  <2>3. frame[t].run # 0
    BY <2>1, TurnBegins, LifecycleAssumption DEF Holds, ServePoints, Runs
  <2>4. Owned(t)'
    BY <1>0, <2>1, <2>2, <2>3 DEF Owned, ServePoints, LoopPoints, rustVars, juliaVars
  <2> QED BY <2>1, <2>2, <2>4, SeqLoop DEF LoopPoints, ServePoints, Serving, juliaVars
<1>2. CASE PollTask(t) \/ PollEmpty(t) \/ Wake(t) \/ LoopBreak(t)
  <2>1. PICK from \in {"poll", "wait"}, to \in {"check", "recheck", "finally"} :
            Step(t, from, to) /\ (from = "poll" => to \in LoopPoints)
    BY <1>2 DEF PollTask, PollEmpty, Wake, LoopBreak, LoopPoints
  <2>2. /\ UNCHANGED <<rustVars, running, activeApp, condRef, wsVars>>
        /\ inflight' = inflight \/ pc[t] = "poll"
    BY <1>2 DEF PollTask, PollEmpty, Wake, LoopBreak, juliaVars
  <2>3. pc[t] = from /\ pc'[t] = to /\ Goto(t, to) /\ frame' = frame
    BY <2>1
  <2>4. Owned(t)'
    BY <1>0, <2>2, <2>3 DEF Owned, LoopPoints, ServePoints, rustVars
  <2> QED BY <2>1, <2>2, <2>3, <2>4, SeqLoop DEF LoopPoints, Serving
<1>3. CASE LoopCheck(t) \/ LoopRecheck(t)
  <2>1. PICK from \in {"check", "recheck"}, to \in {"poll", "wait"} :
            Step(t, from, IF running THEN to ELSE "finally")
    BY <1>3 DEF LoopCheck, LoopRecheck
  <2> DEFINE next == IF running THEN to ELSE "finally"
  <2>2. UNCHANGED <<rustVars, juliaVars, wsVars>>
    BY <1>3 DEF LoopCheck, LoopRecheck
  <2>3. pc[t] = from /\ pc'[t] = next /\ Goto(t, next) /\ frame' = frame
    BY <2>1
  <2>4. Owned(t)'
    BY <1>0, <2>2, <2>3 DEF Owned, LoopPoints, ServePoints, rustVars, juliaVars
  <2>5. next \in {"poll", "wait", "finally"}
    OBVIOUS
  <2> HIDE DEF next
  <2> QED BY <2>2, <2>3, <2>4, <2>5, SeqLoop DEF LoopPoints, Serving, juliaVars
<1>4. CASE ServeReturn(t)
  <2>1. /\ pc[t] = "finally" /\ pc'[t] = "idle" /\ Goto(t, "idle") /\ ~running
        /\ \A u \in Tasks \ {t} : frame'[u] = frame[u]
        /\ UNCHANGED <<rustVars, juliaVars, wsVars>>
    BY <1>4 DEF ServeReturn
  <2>2. Owned(t)'
    BY <2>1 DEF Owned, LoopPoints, ServePoints
  <2> QED BY <2>1, <2>2, SeqLoop DEF Serving, LoopPoints, ServePoints, juliaVars
<1>5. CASE StopCall(t)
  <2>1. PICK from \in {"idle", "finally"} : Step(t, from, "stopping")
    BY <1>5 DEF StopCall
  <2>2. UNCHANGED <<rustVars, juliaVars, wsVars>>
    BY <1>5 DEF StopCall
  <2>3. pc[t] = from /\ pc'[t] = "stopping" /\ Goto(t, "stopping") /\ frame' = frame
    BY <2>1
  <2>4. Owned(t)'
    BY <2>3 DEF Owned, LoopPoints, ServePoints
  <2> QED BY <2>1, <2>2, <2>3, <2>4, SeqLoop DEF Serving, LoopPoints, ServePoints, juliaVars
<1> QED BY <1>1, <1>2, <1>3, <1>4, <1>5 DEF LoopStep

\* A step of stop_server!() once it has lowered the flag, or as it does: what
\* is left to see is that Rust's condition is rooted and that somebody waits.
LEMMA SeqStop ==
    ASSUME TypeOK, SeqOK, NEW t \in Tasks, OthersYield(t), NEW to, Goto(t, to),
           pc[t] \in StopPoints, to \in Lowered \cup {"idle"},
           to \in {"draining", "joining"} => ~Quiet,
           \A u \in Tasks \ {t} : frame'[u] = frame[u],
           ~running', UNCHANGED <<inflight, wsTask>>,
           notifier' = 0 \/ UNCHANGED <<notifier, condRef>>,
           to \in {"signal", "drain", "draining", "release"} => notifier' = 0,
           \/ to \in {"rust", "signal", "drain", "draining"}
           \/ pc[t] \in {"release", "join", "joining", "clear"}
           \/ inflight = 0,
           \A r \in Runs : TaskWaited(r)'
    PROVE  SeqOK'
<1>1. pc'[t] = to /\ \A u \in Tasks \ {t} : pc'[u] = pc[u]
  BY DEF TypeOK, Goto
<1>2. Quiet => Quiet'
  BY DEF Quiet
<1>3. Shape'
  BY <1>2, ShapeKept DEF TypeOK, SeqOK, Serving, ServePoints, LoopPoints, Lowered, StopPoints
<1>4. Silent'
  BY <1>1 DEF SeqOK, Flags, Silent
<1>5. Flags'
  BY <1>4 DEF SeqOK, Flags, FlagDown, NotifierRooted, NoStaleWsTask
<1>6. Owned(t)'
  BY <1>1 DEF Owned, ServePoints, LoopPoints, Lowered, StopPoints
<1>7. Owners'
  BY <1>6, OwnersKept DEF TypeOK, SeqOK
<1>8. HandlerWaited'
  <2>1. CASE to \in {"rust", "signal", "drain", "draining"} \/ inflight = 0
    BY <1>1, <2>1 DEF HandlerWaited
  <2>2. CASE pc[t] \in {"release", "join", "joining", "clear"}
    <3>1. ~running
      BY <2>2 DEF SeqOK, Flags, FlagDown, Lowered, StopPoints
    <3> QED BY <1>1, <2>2, <3>1 DEF SeqOK, Waited, HandlerWaited
  <2> QED BY <2>1, <2>2
<1> QED BY <1>3, <1>5, <1>7, <1>8 DEF SeqOK, Waited

LEMMA SeqStopStep ==
    ASSUME TypeOK, SeqOK, NEW t \in Tasks, OthersYield(t), StopStep(t)
    PROVE  SeqOK'
<1> USE Moved DEF TypeOK
<1>0. frame[t] \in FrameType /\ \A r \in Runs : TaskWaited(r)
  BY DEF SeqOK, Waited
<1>1. pc[t] \in StopPoints /\ (pc[t] # "stopping" => ~running)
  <2>1. pc[t] \in StopPoints
    BY DEF StopStep, StopBegin, StopRust, StopSignal, StopYield, StopDrained, StopRelease,
       StopWait, StopJoin, StopClear, StopPoints
  <2> QED BY <2>1 DEF SeqOK, Flags, FlagDown, Lowered
<1>2. pc[t] \in {"signal", "drain", "draining", "release"} => notifier = 0
  BY DEF SeqOK, Flags, Silent
<1>3. CASE StopBegin(t)
  <2>1. /\ pc[t] = "stopping" /\ Goto(t, "rust") /\ pc'[t] = "rust" /\ ~running'
        /\ frame' = [frame EXCEPT ![t] = [frame[t] EXCEPT !.stopApp = activeApp]]
        /\ UNCHANGED <<rustVars, activeApp, condRef, inflight, wsVars>>
        /\ \A u \in Tasks \ {t} : pc'[u] = pc[u]
    BY <1>3 DEF StopBegin, Goto
  <2>2. frame'[t].stopApp = activeApp /\ \A u \in Tasks \ {t} : frame'[u] = frame[u]
    BY <1>0, <2>1 DEF FrameType
  <2>3. ASSUME NEW r \in Runs PROVE TaskWaited(r)'
    BY <1>0, <2>1, <2>2 DEF TaskWaited, BeforeClear, wsVars
  <2> QED BY <1>1, <2>1, <2>2, <2>3, SeqStop DEF Lowered, StopPoints, rustVars, wsVars
<1>4. CASE StopRust(t) \/ StopSignal(t) \/ StopYield(t) \/ StopDrained(t) \/ StopWait(t)
  <2>1. PICK from \in BeforeClear, to \in BeforeClear \ {"join"} : Step(t, from, to)
    BY <1>4 DEF StopRust, StopSignal, StopYield, StopDrained, StopWait, BeforeClear
  <2>2. pc[t] = from /\ pc'[t] = to /\ Goto(t, to) /\ frame' = frame
        /\ \A u \in Tasks \ {t} : pc'[u] = pc[u]
    BY <2>1 DEF Goto
  <2>3. UNCHANGED <<running, activeApp, condRef, inflight, wsVars>>
    BY <1>4 DEF StopRust, StopSignal, StopYield, StopDrained, StopWait, juliaVars
  <2>4. /\ notifier' = 0 \/ notifier' = notifier
        /\ from = "rust" => notifier' = 0
        /\ to = "joining" => from = "join" /\ frame[t].join # 0 /\ wsTask[frame[t].join] # NoApp
        /\ to = "draining" => inflight > 0
        /\ to = "release" => inflight = 0
        /\ to # "rust"
        /\ from \in {"join", "joining"} => to = "joining"
    BY <1>4, <2>2 DEF StopRust, StopSignal, StopYield, StopDrained, StopWait, rustVars, BeforeClear
  <2>5. to \in {"draining", "joining"} => ~Quiet
    <3>1. frame[t].join \in RunOrNone
      BY <1>0, FrameFields
    <3> QED BY <2>4, <3>1, RunNumbers DEF Quiet
  <2>6. ASSUME NEW r \in Runs PROVE TaskWaited(r)'
    BY <1>0, <1>1, <2>1, <2>2, <2>3, <2>4 DEF TaskWaited, BeforeClear, wsVars
  <2>7. to \in {"signal", "drain", "draining", "release"} => notifier' = 0
    BY <1>2, <2>2, <2>4, <2>1 DEF BeforeClear
  <2> QED BY <1>1, <2>1, <2>2, <2>3, <2>4, <2>5, <2>6, <2>7, SeqStop
          DEF Lowered, StopPoints, BeforeClear, wsVars
<1>5. CASE StopRelease(t)
  <2> DEFINE j == IF frame[t].stopApp = NoApp THEN 0 ELSE wsList[frame[t].stopApp]
  <2>1. /\ pc[t] = "release" /\ Goto(t, "join") /\ pc'[t] = "join"
        /\ frame' = [frame EXCEPT ![t] = [frame[t] EXCEPT !.join = j]]
        /\ UNCHANGED <<rustVars, running, activeApp, inflight, wsVars>>
        /\ \A u \in Tasks \ {t} : pc'[u] = pc[u]
    BY <1>5 DEF StopRelease, Goto
  <2>2. /\ frame'[t].stopApp = frame[t].stopApp /\ frame'[t].join = j
        /\ \A u \in Tasks \ {t} : frame'[u] = frame[u]
    BY <1>0, <2>1 DEF FrameType
  <2>3. ASSUME NEW r \in Runs PROVE TaskWaited(r)'
    BY <1>0, <1>1, <2>1, <2>2 DEF TaskWaited, BeforeClear, wsVars
  <2> QED BY <1>1, <1>2, <2>1, <2>2, <2>3, SeqStop DEF Lowered, StopPoints, rustVars, wsVars
<1>6. CASE StopJoin(t)
  <2>1. PICK from \in {"join", "joining"} : Step(t, from, "clear")
    BY <1>6 DEF StopJoin
  <2>2. /\ pc[t] = from /\ Goto(t, "clear") /\ pc'[t] = "clear" /\ frame' = frame
        /\ frame[t].join # 0 => wsTask[frame[t].join] = NoApp
        /\ wsList' = [a \in Apps |-> IF a = frame[t].stopApp THEN 0 ELSE wsList[a]]
        /\ UNCHANGED <<rustVars, juliaVars, wsTask>>
        /\ \A u \in Tasks \ {t} : pc'[u] = pc[u]
    BY <1>6, <2>1 DEF StopJoin, Goto
  <2>3. ASSUME NEW r \in Runs PROVE TaskWaited(r)'
    <3> SUFFICES ASSUME wsTask[r] # NoApp PROVE TaskWaited(r)'
      BY <2>2 DEF TaskWaited
    <3>1. r # 0 /\ wsTask[r] \in Apps
      BY LifecycleAssumption DEF Runs
    <3>2. frame[t].stopApp # wsTask[r]
      BY <1>0, <2>2, <3>1 DEF TaskWaited
    <3>3. wsList'[wsTask[r]] = r
      BY <1>0, <2>2, <3>1, <3>2 DEF TaskWaited
    <3> QED BY <1>0, <1>1, <2>2, <3>2, <3>3 DEF TaskWaited, BeforeClear, juliaVars
  <2> QED BY <1>1, <2>2, <2>3, SeqStop DEF Lowered, StopPoints, rustVars, juliaVars
<1>7. CASE StopClear(t)
  <2>1. /\ pc[t] = "clear" /\ Goto(t, "idle") /\ pc'[t] = "idle"
        /\ \A u \in Tasks \ {t} : frame'[u] = frame[u] /\ pc'[u] = pc[u]
        /\ UNCHANGED <<rustVars, running, condRef, inflight, wsVars>>
    BY <1>7 DEF StopClear, Goto
  <2>2. ASSUME NEW r \in Runs PROVE TaskWaited(r)'
    BY <1>0, <1>1, <2>1 DEF TaskWaited, BeforeClear, wsVars
  <2> QED BY <1>1, <2>1, <2>2, SeqStop DEF Lowered, StopPoints, rustVars, wsVars
<1> QED BY <1>3, <1>4, <1>5, <1>6, <1>7 DEF StopStep

\* The threads of the Rust servers, the handlers and the WebSocket tasks only
\* finish what somebody waits for.
LEMMA SeqBesides ==
    ASSUME TypeOK, SeqOK,
           UNCHANGED <<pc, frame, shutdownTx, notifier, routes, running, activeApp, condRef, wsList>>,
           inflight' = inflight \/ inflight' = 0,
           \A r \in Runs : wsTask'[r] = wsTask[r] \/ wsTask'[r] = NoApp
    PROVE  SeqOK'
<1>1. Quiet => Quiet'
  BY DEF Quiet
<1>2. Shape'
  BY <1>1 DEF SeqOK, Shape, OneServe, Alone
<1>3. Flags'
  BY DEF SeqOK, Flags, FlagDown, Silent, NotifierRooted, NoStaleWsTask
<1>4. Owners'
  BY DEF SeqOK, Owners, Owned
<1>5. HandlerWaited'
  BY DEF SeqOK, Waited, HandlerWaited
<1>6. ASSUME NEW r \in Runs PROVE TaskWaited(r)'
  BY DEF SeqOK, Waited, TaskWaited
<1> QED BY <1>2, <1>3, <1>4, <1>5, <1>6 DEF SeqOK, Waited

SeqInv == schedule = "sequential" => SeqOK

LEMMA SeqHolds == SafeSpec => []SeqInv
<1>1. Init => SeqInv
  BY DEF Init, SeqInv, SeqOK, Shape, OneServe, Alone, Flags, FlagDown, Silent, NotifierRooted,
         NoStaleWsTask, Owners, Owned, Waited, HandlerWaited, TaskWaited, Serving, ServePoints,
         LoopPoints
<1>2. Inv /\ CoopInv /\ SeqInv /\ [Next]_<<vars, schedule>> => SeqInv'
  <2> SUFFICES ASSUME Inv, CoopInv, SeqInv, [Next]_<<vars, schedule>>, schedule' = "sequential"
               PROVE  SeqOK'
    BY DEF SeqInv
  <2>0. TypeOK /\ AppGiven /\ Turns /\ SeqOK /\ schedule = "sequential"
    BY DEF Next, Inv, CoopInv, SeqInv
  <2>1. ASSUME NEW t \in Tasks, ServeCall(t) \/ ServeStep(t) PROVE SeqOK'
    BY <2>0, <2>1, TurnGiven, SeqServeCall, SeqServeStep
  <2>2. ASSUME NEW t \in Tasks, LoopStep(t) \/ LoopBreak(t) \/ StopCall(t) PROVE SeqOK'
    BY <2>0, <2>2, TurnGiven, SeqLoopStep
  <2>3. ASSUME NEW t \in Tasks, StopStep(t) PROVE SeqOK'
    BY <2>0, <2>3, TurnGiven, SeqStopStep
  <2>4. CASE \/ \E r \in Runs : Bind(r) \/ ThreadExit(r) \/ WsStop(r) \/ WsThrow(r)
             \/ Notify \/ HandlerEnd \/ UNCHANGED <<vars, schedule>>
    <3>1. UNCHANGED <<pc, frame, shutdownTx, notifier, routes, running, activeApp, condRef, wsList>>
      BY <2>4 DEF Bind, ThreadExit, WsStop, WsThrow, Notify, HandlerEnd, vars, rustVars,
         juliaVars, wsVars
    <3>2. inflight' = inflight \/ inflight' = 0
      BY <2>4 DEF Bind, ThreadExit, WsStop, WsThrow, Notify, HandlerEnd, vars, juliaVars
    <3>3. \A r \in Runs : wsTask'[r] = wsTask[r] \/ wsTask'[r] = NoApp
      BY <2>0, <2>4 DEF TypeOK, Bind, ThreadExit, WsStop, WsThrow, Notify, HandlerEnd, vars, wsVars
    <3> QED
      BY <2>0, <3>1, <3>2, <3>3, SeqBesides
  <2> QED
    BY <2>1, <2>2, <2>3, <2>4 DEF Next, AnyStep
<1> QED
  BY <1>1, <1>2, InvHolds, CoopHolds, PTL DEF SafeSpec

\* As long as nobody calls serve() before the calls before it have returned, a
\* loop that was not told to stop has the server to itself.
THEOREM LoopOwnsServerHolds == SafeSpec => [](schedule = "sequential" => LoopOwnsServer)
<1>1. SeqInv /\ ChannelPaired => (schedule = "sequential" => LoopOwnsServer)
  BY DEF SeqInv, SeqOK, Owners, Owned, LoopOwnsServer, ChannelPaired
<1> QED
  BY <1>1, SeqHolds, ChannelPairedHolds, PTL

\* And no WebSocket task of an earlier run writes frames into the present one.
THEOREM NoStaleWsTaskHolds == SafeSpec => [](schedule = "sequential" => NoStaleWsTask)
<1>1. SeqInv => (schedule = "sequential" => NoStaleWsTask)
  BY DEF SeqInv, SeqOK, Flags
<1> QED
  BY <1>1, SeqHolds, PTL

\* And Julia keeps the condition Rust was given, until Rust has forgotten it.
THEOREM NotifierRootedHolds == SafeSpec => [](schedule = "sequential" => NotifierRooted)
<1>1. SeqInv => (schedule = "sequential" => NotifierRooted)
  BY DEF SeqInv, SeqOK, Flags
<1> QED
  BY <1>1, SeqHolds, PTL

-----------------------------------------------------------------------------
(***************************************************************************)
(* Calls of serve() that do not overlap have the one server of OneServer.  *)
(***************************************************************************)
\* The task that moves is the only one that can be starting a server.
LEMMA StartingMoves ==
    ASSUME pc \in [Tasks -> Points], NEW t \in Tasks, OthersYield(t), NEW to, Goto(t, to)
    PROVE  (Starting <=> pc[t] \in StartPoints) /\ (Starting' <=> to \in StartPoints)
<1>1. pc'[t] = to /\ \A u \in Tasks \ {t} : pc'[u] = pc[u] /\ pc[u] \notin StartPoints
  BY DEF Goto, OthersYield, AtYield, StartPoints
<1> QED BY <1>1 DEF Starting

\* A step that leaves the phase, the app that is served and the tables alone, and
\* begins no work.
LEMMA ServerRests ==
    ASSUME Phase' = Phase, Phase = "down" \/ activeApp' = activeApp, routes' = routes,
           Quiet => Quiet'
    PROVE  [Server!Next]_(Server!vars)
<1>1. CASE Quiet' /\ ~Quiet
  BY <1>1 DEF Server!Next, Server!Rest
<1>2. CASE Quiet' <=> Quiet
  BY <1>2 DEF Server!vars
<1> QED BY <1>1, <1>2

\* The calls of serve().
LEMMA ServeMaps ==
    ASSUME TypeOK, AppGiven, Turns, SeqOK, NEW t \in Tasks, OthersYield(t),
           ServeCall(t) \/ ServeStep(t)
    PROVE  [Server!Next]_(Server!vars)
<1> USE Moved, StartingMoves DEF TypeOK
<1>0. Holds(pc[t], frame[t].run) /\ Owned(t)
  BY TurnBegins DEF SeqOK, Owners
<1>q. pc[t] \in ServePoints \ {"enter"} => Quiet
  BY DEF SeqOK, Shape, Alone
<1>1. CASE \/ ServeCall(t) \/ ServeRefused(t) \/ ServeNotify(t) \/ ServeFlag(t) \/ StartAlready(t)
           \/ ServeBadFps(t)
  <2>1. \/ ServeCall(t) /\ pc[t] = "idle" /\ Goto(t, "banner")
        \/ \E from \in {"banner", "ws"} : Return(t, from)
        \/ \E from \in StartPoints, to \in StartPoints : Step(t, from, to)
    BY <1>1 DEF ServeCall, ServeRefused, ServeNotify, ServeFlag, StartAlready, ServeBadFps,
       StartPoints
  <2>2. Starting' <=> Starting
    BY <2>1 DEF StartPoints
  <2>3. UNCHANGED <<shutdownTx, thread, activeApp, routes, inflight, wsTask>>
    BY <1>1 DEF ServeCall, ServeRefused, ServeNotify, ServeFlag, StartAlready, ServeBadFps,
       rustVars, juliaVars, wsVars
  <2> QED BY <2>2, <2>3, ServerRests DEF Phase, ServerUp, Quiet
<1>2. CASE ServeBegin(t)
  <2>1. /\ pc[t] = "banner" /\ Goto(t, "register") /\ ~running
        /\ UNCHANGED <<shutdownTx, thread, routes, inflight, wsTask>>
    BY <1>2 DEF ServeBegin, rustVars, wsVars
  <2>2. ~ServerUp /\ ~ServerUp'
    BY <1>0, <2>1 DEF Holds, Agree, ServerUp
  <2>3. Phase = "down" /\ Phase' = "down"
    BY <2>1, <2>2 DEF Phase, StartPoints
  <2> QED BY <2>1, <2>3, ServerRests DEF Quiet
<1>3. CASE ServeRegister(t)
  <2>1. /\ pc[t] = "register" /\ routes' = routes \cup {frame[t].app}
        /\ UNCHANGED <<shutdownTx, thread, activeApp, inflight, wsTask>>
    BY <1>3 DEF ServeRegister, juliaVars, wsVars
  <2>6. ~ServerUp /\ ~ServerUp'
    BY <1>0, <2>1 DEF Holds, Agree, ServerUp
  <2>2. activeApp = frame[t].app /\ frame[t].app \in Apps
    BY <1>0, <2>1 DEF Owned, ServePoints, AppGiven
  <2>3. Quiet /\ Quiet'
    BY <1>q, <2>1 DEF ServePoints, Quiet
  <2>4. CASE Step(t, "register", "notify")
    <3>1. Phase = "down" /\ Phase' = "starting"
      BY <2>1, <2>4, <2>6 DEF Phase, StartPoints
    <3>2. Server!Begin
      BY <2>1, <2>2, <2>3, <3>1 DEF Server!Begin
    <3> QED BY <3>2 DEF Server!Next
  <2>5. CASE Return(t, "register")
    <3>1. Phase = "down" /\ Phase' = "down"
      BY <2>1, <2>5, <2>6 DEF Phase, StartPoints
    <3>2. Server!Abort
      BY <2>1, <2>2, <2>3, <3>1 DEF Server!Abort
    <3> QED BY <3>2 DEF Server!Next
  <2> QED BY <1>3, <2>4, <2>5 DEF ServeRegister
<1>4. CASE Start(t) \/ StartFailed(t) \/ StartDied(t)
  <2>1. PICK from \in StartPoints, to \in StartPoints : Step(t, from, to)
    BY <1>4 DEF Start, StartFailed, StartDied, StartPoints
  <2>2. Phase = "starting" /\ Phase' = "starting"
    BY <2>1 DEF Phase
  <2>3. UNCHANGED <<activeApp, routes, inflight, wsTask>>
    BY <1>4 DEF Start, StartFailed, StartDied, rustVars, juliaVars, wsVars
  <2> QED BY <2>2, <2>3, ServerRests DEF Quiet
<1>5. CASE StartOk(t)
  <2>1. /\ pc[t] = "binding" /\ Goto(t, "ws")
        /\ UNCHANGED <<shutdownTx, thread, activeApp, routes, inflight, wsTask>>
        /\ thread[frame[t].run] \in {"listening", "gone"}
    BY <1>5 DEF StartOk, rustVars, juliaVars, wsVars
  <2>2. ServerUp'
    BY <1>0, <2>1, LifecycleAssumption DEF Holds, ServePoints, Runs, ServerUp
  <2>3. Phase = "starting" /\ Phase' = "up"
    BY <2>1, <2>2 DEF Phase, StartPoints
  <2>4. Server!Up
    BY <2>1, <2>3 DEF Server!Up, Quiet
  <2> QED BY <2>4 DEF Server!Next
<1>6. CASE ServeFail(t)
  <2>1. /\ pc[t] = "refused" /\ Goto(t, "idle")
        /\ UNCHANGED <<shutdownTx, thread, activeApp, routes, inflight, wsTask>>
    BY <1>6 DEF ServeFail, rustVars, wsVars
  <2>2. Phase = "starting" /\ Phase' = "down"
    BY <1>0, <2>1 DEF Phase, ServerUp, Dead, StartPoints, Holds
  <2>3. Server!Fail
    BY <2>1, <2>2 DEF Server!Fail, Quiet
  <2> QED BY <2>3 DEF Server!Next
<1>7. CASE ServeWs(t)
  <2>1. /\ pc[t] = "ws" /\ Goto(t, "enter")
        /\ wsTask' = [wsTask EXCEPT ![frame[t].run] = frame[t].app]
        /\ UNCHANGED <<shutdownTx, thread, activeApp, routes, inflight>>
    BY <1>7 DEF ServeWs, rustVars, juliaVars
  <2>2. frame[t].run \in Runs /\ running /\ frame[t].app \in Apps
    BY <1>0, <2>1 DEF Holds, ServePoints, AppGiven
  <2>3. ServerUp /\ ServerUp' /\ frame[t].app # NoApp
    BY <1>0, <2>1, <2>2, LifecycleAssumption DEF Holds, Agree, ServerUp
  <2>4. Phase = "up" /\ Phase' = "up"
    BY <2>1, <2>3 DEF Phase, StartPoints
  <2>5. ~Quiet'
    BY <2>1, <2>2, <2>3 DEF Quiet
  <2>6. Server!Work
    BY <2>1, <2>4, <2>5 DEF Server!Work
  <2> QED BY <2>6 DEF Server!Next
<1> QED BY <1>1, <1>2, <1>3, <1>4, <1>5, <1>6, <1>7 DEF ServeStep

\* The poll loop and stop_server!().
LEMMA LoopMaps ==
    ASSUME TypeOK, Turns, SeqOK, NEW t \in Tasks, OthersYield(t),
           LoopStep(t) \/ LoopBreak(t) \/ StopCall(t) \/ StopStep(t)
    PROVE  [Server!Next]_(Server!vars)
<1> USE Moved, StartingMoves DEF TypeOK
<1>0. Holds(pc[t], frame[t].run) /\ Owned(t)
  BY TurnBegins DEF SeqOK, Owners
<1>1. CASE PollTask(t)
  <2>1. /\ pc[t] = "poll" /\ Goto(t, "check") /\ inflight' = 1
        /\ UNCHANGED <<shutdownTx, thread, activeApp, routes>>
    BY <1>1 DEF PollTask, rustVars
  <2>2. ServerUp /\ ServerUp'
    BY <1>0, <2>1 DEF Holds, Agree, Owned, ServerUp
  <2>3. Phase = "up" /\ Phase' = "up"
    BY <2>1, <2>2 DEF Phase, StartPoints
  <2>4. Server!Work
    BY <2>1, <2>3 DEF Server!Work, Quiet
  <2> QED BY <2>4 DEF Server!Next
<1>2. CASE StopRust(t)
  <2>1. /\ pc[t] = "rust" /\ Goto(t, "signal") /\ shutdownTx' = 0 /\ routes' = {}
        /\ UNCHANGED <<inflight, wsTask>>
    BY <1>2 DEF StopRust, juliaVars, wsVars
  <2>2. Phase # "starting" /\ Phase' = "down"
    BY <2>1 DEF Phase, ServerUp, StartPoints
  <2>3. Server!Stop
    BY <2>1, <2>2 DEF Server!Stop, Quiet
  <2> QED BY <2>3 DEF Server!Next
<1>3. CASE StopClear(t)
  <2>1. /\ pc[t] = "clear" /\ Goto(t, "idle")
        /\ UNCHANGED <<shutdownTx, thread, routes, inflight, wsTask>>
    BY <1>3 DEF StopClear, rustVars, wsVars
  <2>2. ~running
    BY <2>1 DEF SeqOK, Flags, FlagDown, Lowered, StopPoints
  <2>3. Phase = "down" /\ Phase' = "down"
    BY <1>0, <2>1, <2>2 DEF Phase, ServerUp, StartPoints, Holds, Agree
  <2> QED BY <2>1, <2>3, ServerRests DEF Quiet
<1>4. CASE /\ LoopStep(t) \/ LoopBreak(t) \/ StopCall(t) \/ StopStep(t)
           /\ ~PollTask(t) /\ ~StopRust(t) /\ ~StopClear(t)
  <2>1. UNCHANGED <<shutdownTx, thread, activeApp, routes, inflight, wsTask>>
    BY <1>4 DEF LoopStep, StopStep, LoopEnter, LoopCheck, PollEmpty, LoopRecheck, Wake, LoopBreak,
       ServeReturn, StopCall, StopBegin, StopSignal, StopYield, StopDrained, StopRelease, StopWait,
       StopJoin, rustVars, juliaVars, wsVars
  <2>2. \E to \in Points \ StartPoints : pc[t] \notin StartPoints /\ Goto(t, to)
    <3> USE DEF Points, StartPoints, StopPoints, LoopPoints
    <3>1. CASE LoopStep(t) \/ LoopBreak(t)
      BY <1>4, <3>1 DEF LoopStep, LoopEnter, LoopCheck, PollEmpty, LoopRecheck, Wake, LoopBreak,
         ServeReturn
    <3>2. CASE StopCall(t) \/ StopStep(t)
      BY <1>4, <3>2 DEF StopStep, StopCall, StopBegin, StopSignal, StopYield, StopDrained,
         StopRelease, StopWait, StopJoin
    <3> QED BY <1>4, <3>1, <3>2
  <2> QED BY <2>1, <2>2, ServerRests DEF Phase, ServerUp, Quiet
<1> QED BY <1>1, <1>2, <1>3, <1>4

\* No thread comes up or goes whose sender Rust has, unless a call of serve() is
\* waiting for it.
LEMMA UpStays ==
    ASSUME TypeOK, Turns, ~Starting, UNCHANGED shutdownTx,
           UNCHANGED thread \/ \E r \in Runs : Bind(r) \/ ThreadExit(r)
    PROVE  ServerUp' <=> ServerUp
<1>1. Settled
  <2>1. CASE \A t \in Tasks : AtYield(t)
    BY <2>1 DEF Turns, Agree, ServerUp, Settled
  <2>2. ASSUME NEW t \in Tasks, ~AtYield(t) PROVE Settled
    <3>1. Holds(pc[t], frame[t].run) /\ pc[t] \notin StartPoints
      BY <2>2 DEF Turns, Starting
    <3> QED BY <3>1 DEF Holds, Agree, ServerUp, Settled, StartPoints
  <2> QED BY <2>1, <2>2
<1>2. \A s \in Runs : s = shutdownTx => (thread'[s] = "listening" <=> thread[s] = "listening")
  <2> SUFFICES ASSUME NEW s \in Runs, s = shutdownTx
               PROVE  thread'[s] = "listening" <=> thread[s] = "listening"
    OBVIOUS
  <2>1. thread[s] \in {"listening", "died"}
    BY <1>1, LifecycleAssumption DEF Settled, Runs
  <2>2. CASE UNCHANGED thread
    BY <2>2
  <2>3. ASSUME NEW r \in Runs, Bind(r) PROVE thread'[s] = thread[s]
    BY <2>1, <2>3 DEF TypeOK, Bind
  <2>4. ASSUME NEW r \in Runs, ThreadExit(r) PROVE thread'[s] = thread[s]
    BY <2>4 DEF TypeOK, ThreadExit
  <2> QED BY <2>2, <2>3, <2>4
<1> QED BY <1>2, RunNumbers DEF ServerUp, TypeOK

\* The threads, the handlers and the WebSocket tasks only end what was begun.
LEMMA BesidesMaps ==
    ASSUME TypeOK, UNCHANGED <<pc, routes, activeApp>>,
           Starting \/ (ServerUp' <=> ServerUp),
           inflight' = inflight \/ inflight' = 0,
           \A r \in Runs : wsTask'[r] = wsTask[r] \/ wsTask'[r] = NoApp
    PROVE  [Server!Next]_(Server!vars)
<1>1. Starting' <=> Starting
  BY DEF Starting
<1>2. Phase' = Phase /\ (Quiet => Quiet')
  BY <1>1 DEF Phase, Quiet
<1> QED BY <1>2, ServerRests

LEMMA ServerInit == Init => Server!Init
  BY DEF Init, Server!Init, Phase, ServerUp, Starting, StartPoints, Quiet

\* The safety half of ImplementsOneServer: as long as nobody calls serve() before
\* every earlier call has returned, whoever calls stop_server!() and however
\* often, there is one server after the other. It serves the app of its own
\* call, with all its routes, from the start to the stop, and nothing of the
\* one before is at work when it starts.
THEOREM OneServerAtATime == SafeSpec /\ schedule = "sequential" => Server!SafeSpec
<1>1. schedule = "sequential" /\ [Next]_<<vars, schedule>> => (schedule = "sequential")'
  BY DEF Next
<1>2. Inv /\ CoopInv /\ SeqInv /\ schedule = "sequential" /\ [Next]_<<vars, schedule>>
        => [Server!Next]_(Server!vars)
  <2> SUFFICES ASSUME Inv, CoopInv, SeqInv, schedule = "sequential", [Next]_<<vars, schedule>>
               PROVE  [Server!Next]_(Server!vars)
    OBVIOUS
  <2>0. TypeOK /\ AppGiven /\ Turns /\ SeqOK
    BY DEF Inv, CoopInv, SeqInv
  <2>1. ASSUME NEW t \in Tasks, ServeCall(t) \/ ServeStep(t)
        PROVE  [Server!Next]_(Server!vars)
    BY <2>0, <2>1, TurnGiven, ServeMaps
  <2>2. ASSUME NEW t \in Tasks, LoopStep(t) \/ LoopBreak(t) \/ StopCall(t) \/ StopStep(t)
        PROVE  [Server!Next]_(Server!vars)
    BY <2>0, <2>2, TurnGiven, LoopMaps
  <2>3. CASE \/ \E r \in Runs : Bind(r) \/ ThreadExit(r) \/ WsStop(r) \/ WsThrow(r)
             \/ Notify \/ HandlerEnd \/ UNCHANGED <<vars, schedule>>
    <3>1. /\ UNCHANGED <<pc, shutdownTx, routes, activeApp>>
          /\ UNCHANGED thread \/ \E r \in Runs : Bind(r) \/ ThreadExit(r)
      BY <2>3 DEF Bind, ThreadExit, WsStop, WsThrow, Notify, HandlerEnd, vars, rustVars, juliaVars
    <3>4. Starting \/ (ServerUp' <=> ServerUp)
      BY <2>0, <3>1, UpStays
    <3>2. inflight' = inflight \/ inflight' = 0
      BY <2>3 DEF Bind, ThreadExit, WsStop, WsThrow, Notify, HandlerEnd, vars, juliaVars
    <3>3. \A r \in Runs : wsTask'[r] = wsTask[r] \/ wsTask'[r] = NoApp
      BY <2>0, <2>3 DEF TypeOK, Bind, ThreadExit, WsStop, WsThrow, Notify, HandlerEnd, vars, wsVars
    <3> QED BY <2>0, <3>1, <3>2, <3>3, <3>4, BesidesMaps
  <2> QED BY <2>1, <2>2, <2>3 DEF Next, AnyStep
<1> QED
  BY <1>1, <1>2, ServerInit, InvHolds, CoopHolds, SeqHolds, PTL DEF SafeSpec, Server!SafeSpec

\* And a loop polls only while its own server is up, which it may not once calls
\* of serve() overlap: the loop of a stopped run then lives on.
THEOREM StopEndsLoopHolds == SafeSpec => [](schedule = "sequential" => StopEndsLoop)
<1>1. SeqInv => (schedule = "sequential" => StopEndsLoop)
  BY DEF SeqInv, SeqOK, Owners, Owned, StopEndsLoop, LoopPoints
<1> QED
  BY <1>1, SeqHolds, PTL

=============================================================================
