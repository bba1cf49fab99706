------------------------------ MODULE WsStream ------------------------------
(***************************************************************************)
(* WebSocket streams. A path is served either by a Julia task of serve()   *)
(* ("ws") or by a Rust thread that calls a native generator ("axis"); both *)
(* write frames into a tokio watch channel, which keeps the last frame     *)
(* only, and each connection copies from the channel of its path into its  *)
(* socket.                                                                 *)
(*                                                                         *)
(* One app has one path of each kind and is served again and again, never  *)
(* before the last serve() and stop_server!() have returned. A run is a    *)
(* call of serve(); its channels, tasks and threads carry its number, and  *)
(* 0 is None. A frame is named by the version the channel had when it was  *)
(* stored: 1, 2, ...; what it says of itself is its envelope.              *)
(***************************************************************************)
EXTENDS Envelope

CONSTANTS
    Conns,      \* the connections there can be at a time
    Payloads,   \* the sizes of what handlers and generators return
    MaxRuns,    \* bound on the calls of serve()
    MaxFrames   \* bound on the frames stored in a channel

ASSUME StreamAssumption ==
    Payloads \subseteq Nat /\ MaxRuns \in Nat /\ MaxFrames \in Nat

Paths == {"ws", "axis"}
Runs == 1..MaxRuns
RunOrNone == 0..MaxRuns
Frames == 0..MaxFrames

VARIABLES
    phase,    \* where the calls of serve() and stop_server!() are
    runs,     \* the runs begun so far
    running,  \* _server_running[]
    route,    \* route[p]: the run whose sender ws_routes or axis_ws_routes holds
    thread,   \* thread[r]: the server thread of run r
    version,  \* version[p][r]: the number of frames stored in the channel
    held,     \* held[p][r]: the envelope of the last of them
    axis,     \* axis[r]: the generator thread spawned by run r
    wsTask,   \* wsTask[r]: the WebSocket task of run r
    conn      \* conn[c]: a connection, see NoConn

serverVars == <<phase, runs, running, route, thread>>
channel == <<version, held>>
vars == <<serverVars, channel, axis, wsTask, conn>>

\* path and run: what was asked of which server thread. chan: the run of the
\* sender that was resolved. since and seen: the version at the subscription
\* and the one marked as seen last. frame and env: the one being sent. sent and
\* times: the last one sent, and how often.
NoConn == [pc |-> "none", path |-> "ws", run |-> 0, chan |-> 0, since |-> 0, seen |-> 0,
           frame |-> 0, env |-> EmptyFrame, sent |-> 0, times |-> 0]

Init ==
    /\ phase = "idle"
    /\ runs = 0
    /\ running = FALSE
    /\ route = [p \in Paths |-> 0]
    /\ thread = [r \in Runs |-> "none"]
    /\ version = [p \in Paths |-> [r \in Runs |-> 0]]
    /\ held = [p \in Paths |-> [r \in Runs |-> EmptyFrame]]
    /\ axis = [r \in Runs |-> "none"]
    /\ wsTask = [r \in Runs |-> "none"]
    /\ conn = [c \in Conns |-> NoConn]

(***************************************************************************)
(* serve() and stop_server!(), as far as streams are concerned.            *)
(***************************************************************************)
\* Both routes get a new channel, and a generator thread is spawned for the
\* native one, which does not wait for the server to be up.
Register ==
    /\ phase = "idle"
    /\ runs < MaxRuns
    /\ runs' = runs + 1
    /\ route' = [p \in Paths |-> runs + 1]
    /\ axis' = [axis EXCEPT ![runs + 1] = "sleeping"]
    /\ phase' = "registered"
    /\ UNCHANGED <<running, thread, channel, wsTask, conn>>

\* serve() throws: more than 10000 fps, or, with the route inserted already, so
\* few that the interval is no Duration, or a thread that cannot be spawned.
RegisterFails ==
    /\ phase = "idle"
    /\ runs < MaxRuns
    /\ runs' = runs + 1
    /\ \E axisRun \in {route["axis"], runs + 1} :
        route' = [route EXCEPT !["ws"] = runs + 1, !["axis"] = axisRun]
    /\ UNCHANGED <<phase, running, thread, channel, axis, wsTask, conn>>

\* The server is up and the WebSocket task runs, or is "done" when serve() has
\* thrown for fps <= 0.
Listen ==
    /\ phase = "registered"
    /\ \A r \in Runs : thread[r] \notin {"listening", "told"}
    /\ running' = TRUE
    /\ thread' = [thread EXCEPT ![runs] = "listening"]
    /\ \E point \in {"check", "done"} : wsTask' = [wsTask EXCEPT ![runs] = point]
    /\ phase' = "serving"
    /\ UNCHANGED <<runs, route, channel, axis, conn>>

\* The address is taken: serve() throws and leaves what it has registered.
ListenFails ==
    /\ phase = "registered"
    /\ phase' = "idle"
    /\ UNCHANGED <<runs, running, route, thread, channel, axis, wsTask, conn>>

StopBegin ==
    /\ phase = "serving"
    /\ running' = FALSE
    /\ phase' = "stopping"
    /\ UNCHANGED <<runs, route, thread, channel, axis, wsTask, conn>>

\* fmh_server_stop drops the senders of both maps; the generator thread has a
\* clone of its own.
StopRust ==
    /\ phase = "stopping"
    /\ route' = [p \in Paths |-> 0]
    /\ thread' = [thread EXCEPT ![runs] = "told"]
    /\ phase' = "joining"
    /\ UNCHANGED <<runs, running, channel, axis, wsTask, conn>>

\* Mutant of StopJoin: the task is not waited for.
StopJoinNobody ==
    /\ phase = "joining"
    /\ phase' = "idle"
    /\ UNCHANGED <<runs, running, route, thread, channel, axis, wsTask, conn>>

StopJoin ==
    /\ phase = "joining"
    /\ wsTask[runs] = "done"
    /\ phase' = "idle"
    /\ UNCHANGED <<runs, running, route, thread, channel, axis, wsTask, conn>>

\* Mutant of ThreadExit: the connections live on.
ThreadExitDetached(r) ==
    /\ thread[r] = "told"
    /\ thread' = [thread EXCEPT ![r] = "gone"]
    /\ UNCHANGED <<phase, runs, running, route, channel, axis, wsTask, conn>>

\* The server thread ends, between two steps of its connections, and drops them.
ThreadExit(r) ==
    /\ thread[r] = "told"
    /\ \A c \in Conns : conn[c].run = r => conn[c].pc \notin {"resolved", "woken"}
    /\ thread' = [thread EXCEPT ![r] = "gone"]
    /\ conn' = [c \in Conns |-> IF conn[c].run = r THEN NoConn ELSE conn[c]]
    /\ UNCHANGED <<phase, runs, running, route, channel, axis, wsTask>>

(***************************************************************************)
(* Those who write frames.                                                 *)
(***************************************************************************)
Subscribed(c) == conn[c].pc \in {"waiting", "woken", "sending"}

Receivers(p, r) == {c \in Conns : Subscribed(c) /\ conn[c].path = p /\ conn[c].chan = r}

\* watch::Sender::send stores nothing when there is no receiver.
Publish(p, r, frame) ==
    IF Receivers(p, r) = {}
    THEN UNCHANGED channel
    ELSE /\ version[p][r] < MaxFrames
         /\ version' = [version EXCEPT ![p][r] = @ + 1]
         /\ held' = [held EXCEPT ![p][r] = frame]

WsCheck(r) ==
    /\ wsTask[r] = "check"
    /\ wsTask' = [wsTask EXCEPT ![r] = IF running THEN "handler" ELSE "done"]
    /\ UNCHANGED <<serverVars, channel, axis, conn>>

\* The handler returns nothing; or it throws, or returns what is no payload or
\* too large a one, and the task ends.
WsNoFrame(r) ==
    /\ wsTask[r] = "handler"
    /\ \E point \in {"check", "done"} : wsTask' = [wsTask EXCEPT ![r] = point]
    /\ UNCHANGED <<serverVars, channel, axis, conn>>

\* The handler returns data: fmh_ws_broadcast checks the envelope and looks the
\* path up. When either fails broadcast_frame! throws, which ends the task.
WsBroadcast(r) ==
    /\ wsTask[r] = "handler"
    /\ \E n \in Payloads :
        /\ Builds(n)
        /\ IF route["ws"] = 0 \/ ~Valid(Built(n))
           THEN /\ wsTask' = [wsTask EXCEPT ![r] = "done"]
                /\ UNCHANGED channel
           ELSE /\ wsTask' = [wsTask EXCEPT ![r] = "check"]
                /\ Publish("ws", route["ws"], Built(n))
    /\ UNCHANGED <<serverVars, axis, conn>>

\* The generator has returned a pointer to its buffer.
AxisCall(r) ==
    /\ axis[r] = "sleeping"
    /\ axis' = [axis EXCEPT ![r] = "copying"]
    /\ UNCHANGED <<serverVars, channel, wsTask, conn>>

\* Without a pointer, or with no byte at it, there is no frame.
AxisSend(r) ==
    /\ axis[r] = "copying"
    /\ axis' = [axis EXCEPT ![r] = "sleeping"]
    /\ \/ UNCHANGED channel
       \/ \E n \in Payloads \ {0} : Publish("axis", r, BuiltInline(n))
    /\ UNCHANGED <<serverVars, wsTask, conn>>

(***************************************************************************)
(* A connection.                                                           *)
(***************************************************************************)
Update(c, new) ==
    /\ conn' = [conn EXCEPT ![c] = new]
    /\ UNCHANGED <<serverVars, channel, axis, wsTask>>

Close(c) == Update(c, NoConn)

\* A client connects and asks for an upgrade on path p. A thread that was told to
\* stop may accept it still: select! takes either branch that is ready.
Connect(c) ==
    /\ conn[c].pc = "none"
    /\ \E r \in Runs, p \in Paths :
        /\ thread[r] \in {"listening", "told"}
        /\ Update(c, [NoConn EXCEPT !.pc = "head", !.path = p, !.run = r])

\* route_exists(path); without a route it is an HTTP request like any other.
Upgrade(c) ==
    /\ conn[c].pc = "head"
    /\ IF route[conn[c].path] # 0
       THEN Update(c, [conn[c] EXCEPT !.pc = "handshake"])
       ELSE Close(c)

\* Mutant of Resolve: the sender is there because the route was.
ResolveTrusting(c) ==
    /\ conn[c].pc = "handshake"
    /\ Update(c, [conn[c] EXCEPT !.pc = "resolved", !.chan = route[conn[c].path]])

\* After the handshake the route is looked up again.
Resolve(c) ==
    /\ conn[c].pc = "handshake"
    /\ IF route[conn[c].path] # 0
       THEN Update(c, [conn[c] EXCEPT !.pc = "resolved", !.chan = route[conn[c].path]])
       ELSE Close(c)

Latest(c) == version[conn[c].path][conn[c].chan]
Held(c) == held[conn[c].path][conn[c].chan]

\* Mutant of Subscribe: the frame that is there counts as new.
SubscribeUnseen(c) ==
    /\ conn[c].pc = "resolved"
    /\ Update(c, [conn[c] EXCEPT !.pc = "waiting", !.since = Latest(c)])

Subscribe(c) ==
    /\ conn[c].pc = "resolved"
    /\ Update(c, [conn[c] EXCEPT !.pc = "waiting", !.since = Latest(c), !.seen = Latest(c)])

\* Mutant of Changed: the version is not marked as seen.
ChangedUnmarked(c) ==
    /\ conn[c].pc = "waiting"
    /\ Latest(c) > conn[c].seen
    /\ Update(c, [conn[c] EXCEPT !.pc = "woken"])

\* changed() returns. It cannot fail: handle_socket keeps a sender of its own.
Changed(c) ==
    /\ conn[c].pc = "waiting"
    /\ Latest(c) > conn[c].seen
    /\ Update(c, [conn[c] EXCEPT !.pc = "woken", !.seen = Latest(c)])

\* borrow() takes the frame that is there by now, and marks nothing. An empty one
\* is not sent.
Borrow(c) ==
    /\ conn[c].pc = "woken"
    /\ Update(c, IF Held(c).size = 0
                 THEN [conn[c] EXCEPT !.pc = "waiting"]
                 ELSE [conn[c] EXCEPT !.pc = "sending", !.frame = Latest(c), !.env = Held(c)])

\* How often the frame has been sent, once it is sent now.
TimesNow(c) == IF conn[c].frame = conn[c].sent THEN conn[c].times + 1 ELSE 1

\* Mutant of SendOk: what has come in meanwhile is marked as seen.
SendOkMarks(c) ==
    /\ conn[c].pc = "sending"
    /\ Update(c, [conn[c] EXCEPT !.pc = "waiting", !.sent = conn[c].frame,
                                 !.env = EmptyFrame, !.times = TimesNow(c), !.seen = Latest(c)])

SendOk(c) ==
    /\ conn[c].pc = "sending"
    /\ Update(c, [conn[c] EXCEPT !.pc = "waiting", !.sent = conn[c].frame,
                                 !.env = EmptyFrame, !.times = TimesNow(c)])

\* The client is gone.
SendFails(c) ==
    /\ conn[c].pc = "sending"
    /\ Close(c)

\* The 30 seconds of handle_connection are over, wherever it awaits, or the
\* client goes away before it is sent anything.
GiveUp(c) ==
    /\ conn[c].pc \in {"head", "handshake", "waiting", "sending"}
    /\ Close(c)

-----------------------------------------------------------------------------
Read(c) == Changed(c) \/ Borrow(c) \/ SendOk(c) \/ SendFails(c)

Next ==
    \/ Register \/ RegisterFails \/ Listen \/ ListenFails
    \/ StopBegin \/ StopRust \/ StopJoin
    \/ \E r \in Runs :
        \/ ThreadExit(r) \/ WsCheck(r) \/ WsNoFrame(r) \/ WsBroadcast(r)
        \/ AxisCall(r) \/ AxisSend(r)
    \/ \E c \in Conns :
        \/ Connect(c) \/ Upgrade(c) \/ Resolve(c) \/ Subscribe(c)
        \/ Read(c) \/ GiveUp(c)

\* A connection goes on, a send comes to an end (if only because the client is
\* too slow), and a server thread that was told to stop does, since its
\* loop gets a turn again and again.
Fairness ==
    /\ \A c \in Conns :
        WF_vars(Upgrade(c) \/ Resolve(c) \/ Subscribe(c) \/ Read(c))
    /\ \A r \in Runs : SF_vars(ThreadExit(r))

SafeSpec == Init /\ [][Next]_vars
Spec == SafeSpec /\ Fairness

-----------------------------------------------------------------------------
(***************************************************************************)
(* Properties.                                                             *)
(***************************************************************************)
Points == {"none", "head", "handshake", "resolved", "waiting", "woken", "sending"}

Connection ==
    [pc : Points, path : Paths, run : RunOrNone, chan : RunOrNone, since : Frames,
     seen : Frames, frame : Frames, env : Envelopes, sent : Frames, times : Nat]

\* The types. A connection has a channel exactly from resolve_sender on.
TypeOK ==
    /\ phase \in {"idle", "registered", "serving", "stopping", "joining"}
    /\ runs \in RunOrNone
    /\ running \in BOOLEAN
    /\ route \in [Paths -> RunOrNone]
    /\ thread \in [Runs -> {"none", "listening", "told", "gone"}]
    /\ version \in [Paths -> [Runs -> Frames]]
    /\ held \in [Paths -> [Runs -> Envelopes]]
    /\ axis \in [Runs -> {"none", "sleeping", "copying"}]
    /\ wsTask \in [Runs -> {"none", "check", "handler", "done"}]
    /\ conn \in [Conns -> Connection]
    /\ \A c \in Conns :
        conn[c].chan = 0 <=> conn[c].pc \in {"none", "head", "handshake"}

\* A client is sent frames in the order they were stored in, and none that was
\* stored before it subscribed.
FramesInOrder ==
    \A c \in Conns : conn[c].pc = "sending" =>
        /\ conn[c].since < conn[c].frame
        /\ conn[c].sent <= conn[c].frame
        /\ conn[c].frame <= Latest(c)

\* changed() and borrow() are two looks at the channel: a frame stored in
\* between is sent twice, and never more often.
AtMostTwice == \A c \in Conns : conn[c].times <= 2

\* A WebSocket task writes into the channel of its own run: by the time the
\* path has a new one the task has ended.
NoStaleBroadcast ==
    \A r \in Runs : wsTask[r] \in {"check", "handler"} => route["ws"] \in {0, r}

\* What a client is sent has a valid envelope: always on the path of a Julia task,
\* and on the path of a generator unless the payload has 2^32 bytes or more, when
\* the header is wrong about it.
EnvelopesValid ==
    \A c \in Conns : conn[c].pc = "sending" =>
        IF conn[c].path = "ws"
        THEN Valid(conn[c].env)
        ELSE Valid(conn[c].env) <=> Builds(conn[c].env.size - HeaderLen)

\* The clients of FrameFeed are those that have subscribed; the frame such a
\* client is at is the last one sent to it, or the one that was there already.
Client(c) ==
    IF Subscribed(c)
    THEN [stream |-> <<conn[c].path, conn[c].chan>>, times |-> conn[c].times,
          last |-> IF conn[c].times = 0 THEN conn[c].since ELSE conn[c].sent]
    ELSE [stream |-> <<>>, last |-> 0, times |-> 0]

Feed == INSTANCE FrameFeed WITH
    Clients <- Conns, Streams <- Paths \X Runs, None <- <<>>,
    count <- [s \in Paths \X Runs |-> version[s[1]][s[2]]],
    client <- [c \in Conns |-> Client(c)]

\* Each client gets the frames of one channel in the order they were stored in,
\* none that was stored before it subscribed and none more than twice. Frames may
\* be skipped, the last one is not: a client that is behind catches up once no
\* more frames come, or is disconnected.
ImplementsFeed == Feed!Spec

\* A client whose route was taken away is disconnected.
StrandedClientsEnd ==
    \A c \in Conns :
        Subscribed(c) /\ route[conn[c].path] # conn[c].chan
            ~> ~(Subscribed(c) /\ route[conn[c].path] # conn[c].chan)

\* A stop ends the generator thread of its run: when the server of that run is
\* gone and a later one is up, only the thread of the later one calls the
\* generator of the path.
OneGenerator ==
    \A r, s \in Runs : thread[r] = "gone" /\ thread[s] = "listening" =>
        ~(axis[r] = "copying" /\ axis[s] = "copying")

\* The one server of OneServer, whose routes are the two paths and whose work is
\* the WebSocket task.
Server == INSTANCE OneServer WITH
    Routes <- Paths, tables <- {p \in Paths : route[p] # 0},
    busy <- \E r \in Runs : wsTask[r] \in {"check", "handler"},
    app <- IF phase \in {"registered", "serving", "stopping"} THEN Paths ELSE {},
    phase <- IF phase = "registered" THEN "starting"
             ELSE IF phase \in {"serving", "stopping"} THEN "up" ELSE "down"

=============================================================================
