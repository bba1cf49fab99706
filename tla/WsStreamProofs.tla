---------------------------- MODULE WsStreamProofs ----------------------------
(***************************************************************************)
(* Proofs about WsStream, for any number of clients, runs and frames, any  *)
(* payloads, and every schedule.                                           *)
(***************************************************************************)
EXTENDS WsStream, TLAPS

-----------------------------------------------------------------------------
(***************************************************************************)
(* Envelopes.                                                              *)
(***************************************************************************)
\* What Julia builds and what Rust builds for a generator are envelopes; Julia's
\* are valid, and Rust's are when Julia would have built them.
LEMMA BuiltValid ==
    ASSUME NEW n \in Nat, Builds(n)
    PROVE  Built(n) \in Envelopes /\ Valid(Built(n)) /\ Built(n).size = HeaderLen + n
  BY LenAssumption DEF Builds, Built, Envelopes, Valid, HeaderLen, V1

LEMMA BuiltInlineTyped ==
    ASSUME NEW n \in Nat
    PROVE  /\ BuiltInline(n) \in Envelopes /\ BuiltInline(n).size = HeaderLen + n
           /\ Valid(BuiltInline(n)) <=> Builds(n)
<1>1. n % LenLimit \in 0..(LenLimit - 1) /\ (n % LenLimit = n <=> n < LenLimit)
  BY LenAssumption
<1>2. BuiltInline(n) \in Envelopes
  BY <1>1, LenAssumption DEF BuiltInline, Envelopes, HeaderLen, V1
<1>3. /\ BuiltInline(n).size = HeaderLen + n /\ BuiltInline(n).version = V1
      /\ BuiltInline(n).payload_len = n % LenLimit
  BY DEF BuiltInline
<1> QED
  BY <1>1, <1>2, <1>3, LenAssumption DEF Valid, Builds, HeaderLen

LEMMA EmptyTyped == EmptyFrame \in Envelopes /\ EmptyFrame.size = 0
  BY LenAssumption DEF EmptyFrame, Envelopes

\* What EnvelopesValid asks of the frame of a path.
Good(p, e) ==
    IF p = "ws" THEN Valid(e) ELSE Valid(e) <=> Builds(e.size - HeaderLen)

\* A channel holds nothing, or a good envelope.
HeldOK(p, e) == e \in Envelopes /\ (e.size # 0 => Good(p, e))

LEMMA BuiltHeld ==
    /\ \A n \in Nat : Builds(n) => HeldOK("ws", Built(n))
    /\ \A n \in Nat : HeldOK("axis", BuiltInline(n))
    /\ \A p \in Paths : HeldOK(p, EmptyFrame)
<1>1. \A n \in Nat : Builds(n) => HeldOK("ws", Built(n))
  BY BuiltValid DEF HeldOK, Good
<1>2. ASSUME NEW n \in Nat PROVE HeldOK("axis", BuiltInline(n))
  <2> DEFINE e == BuiltInline(n)
  <2>1. e \in Envelopes /\ e.size = HeaderLen + n /\ (Valid(e) <=> Builds(n))
    BY BuiltInlineTyped
  <2> HIDE DEF e
  <2>2. e.size - HeaderLen = n
    BY <2>1 DEF HeaderLen
  <2>3. Good("axis", e)
    BY <2>1, <2>2 DEF Good
  <2> QED
    BY <2>1, <2>3 DEF HeldOK, e
<1>3. \A p \in Paths : HeldOK(p, EmptyFrame)
  BY EmptyTyped DEF HeldOK
<1> QED
  BY <1>1, <1>2, <1>3

-----------------------------------------------------------------------------
(***************************************************************************)
(* The inductive invariant: the server, the channels, and a connection k   *)
(* in their state.                                                         *)
(***************************************************************************)
ServerTyped ==
    /\ phase \in {"idle", "registered", "serving", "stopping", "joining"}
    /\ runs \in RunOrNone
    /\ running \in BOOLEAN
    /\ route \in [Paths -> RunOrNone]
    /\ thread \in [Runs -> {"none", "listening", "told", "gone"}]
    /\ axis \in [Runs -> {"none", "sleeping", "copying"}]
    /\ wsTask \in [Runs -> {"none", "check", "handler", "done"}]

\* A WebSocket task lives only while its run is served, and its channel is the
\* path's all that time.
TaskOfRun ==
    /\ phase # "idle" => runs \in Runs /\ route["ws"] \in {0, runs}
    /\ \A r \in Runs : wsTask[r] \in {"check", "handler"} =>
        r = runs /\ phase \in {"serving", "stopping", "joining"}

ServerOK == ServerTyped /\ TaskOfRun

ChannelOK ==
    /\ version \in [Paths -> [Runs -> Frames]]
    /\ held \in [Paths -> [Runs -> Envelopes]]
    /\ \A p \in Paths : \A r \in Runs : HeldOK(p, held[p][r])

\* The versions a connection knows of are behind the channel's, in order; a frame
\* sent twice is one it has marked as seen.
ReaderOK(k, latest) ==
    /\ k.since <= k.seen /\ k.seen <= latest /\ k.sent <= latest
    /\ k.times <= 2
    /\ k.pc = "waiting" /\ k.times = 2 => k.sent <= k.seen
    /\ k.pc \in {"woken", "sending"} =>
        /\ k.since < k.seen /\ k.sent <= k.seen
        /\ k.times = 2 => k.sent < k.seen
    /\ k.pc = "sending" =>
        /\ k.seen <= k.frame /\ k.frame <= latest
        /\ Good(k.path, k.env)

ConnOK(k) ==
    /\ k \in Connection
    /\ k.chan = 0 <=> k.pc \in {"none", "head", "handshake"}
    /\ k.pc \in {"none", "head", "handshake", "resolved"} =>
        k.since = 0 /\ k.seen = 0 /\ k.sent = 0 /\ k.times = 0
    /\ k.pc \in {"waiting", "woken", "sending"} => ReaderOK(k, version[k.path][k.chan])

ConnsOK == conn \in [Conns -> Connection] /\ \A c \in Conns : ConnOK(conn[c])

IInv == ServerOK /\ ChannelOK /\ ConnsOK

LEMMA NoConnOK == ConnOK(NoConn)
<1>1. NoConn \in Connection
  BY EmptyTyped, StreamAssumption DEF NoConn, Connection, Points, Paths, RunOrNone, Frames
<1> QED
  BY <1>1 DEF ConnOK, NoConn

LEMMA InitOK == Init => IInv
<1> SUFFICES ASSUME Init PROVE IInv
  OBVIOUS
<1>1. ServerOK
  <2>1. ServerTyped
    <3>1. 0 \in RunOrNone
      BY StreamAssumption DEF RunOrNone
    <3> QED
      BY <3>1 DEF Init, ServerTyped
  <2>2. TaskOfRun
    BY DEF Init, TaskOfRun
  <2> QED
    BY <2>1, <2>2 DEF ServerOK
<1>2. ChannelOK
  <2>1. 0 \in Frames /\ EmptyFrame \in Envelopes
    BY EmptyTyped, StreamAssumption DEF Frames
  <2> QED
    BY <2>1, BuiltHeld DEF Init, ChannelOK
<1>3. ConnsOK
  <2>1. NoConn \in Connection
    BY NoConnOK DEF ConnOK
  <2> QED
    BY <2>1, NoConnOK DEF Init, ConnsOK
<1> QED
  BY <1>1, <1>2, <1>3 DEF IInv
-----------------------------------------------------------------------------
(***************************************************************************)
(* serve(), stop_server!() and those who write frames leave connections    *)
(* alone, and channels only grow.                                          *)
(***************************************************************************)
Grows ==
    /\ version' \in [Paths -> [Runs -> Frames]]
    /\ \A p \in Paths : \A r \in Runs : version[p][r] <= version'[p][r]

LEMMA ChannelKept ==
    ASSUME ChannelOK, UNCHANGED channel
    PROVE  ChannelOK' /\ Grows
<1>1. version' = version /\ held' = held
  BY DEF channel
<1>2. \A p \in Paths : \A r \in Runs : version[p][r] \in Nat
  BY StreamAssumption DEF ChannelOK, Frames
<1> QED
  BY <1>1, <1>2 DEF ChannelOK, Grows

LEMMA PublishOK ==
    ASSUME ChannelOK, NEW p \in Paths, NEW r \in Runs, NEW e, HeldOK(p, e), Publish(p, r, e)
    PROVE  ChannelOK' /\ Grows
<1>1. CASE UNCHANGED channel
  BY <1>1, ChannelKept
<1>2. CASE /\ version[p][r] < MaxFrames
           /\ version' = [version EXCEPT ![p][r] = @ + 1]
           /\ held' = [held EXCEPT ![p][r] = e]
  <2>1. \A q \in Paths : \A o \in Runs : version[q][o] \in Frames /\ version[q][o] \in Nat
    BY StreamAssumption DEF ChannelOK, Frames
  <2>2. version[p][r] + 1 \in Frames
    BY <1>2, <2>1, StreamAssumption DEF Frames
  <2>3. \A q \in Paths : \A o \in Runs :
            version'[q][o] = IF q = p /\ o = r THEN version[p][r] + 1 ELSE version[q][o]
    BY <1>2 DEF ChannelOK
  <2>4. version' \in [Paths -> [Runs -> Frames]]
    BY <1>2, <2>2 DEF ChannelOK
  <2>5. Grows
    BY <2>1, <2>3, <2>4 DEF Grows
  <2>6. \A q \in Paths : \A o \in Runs :
            held'[q][o] = IF q = p /\ o = r THEN e ELSE held[q][o]
    BY <1>2 DEF ChannelOK
  <2>7. held' \in [Paths -> [Runs -> Envelopes]]
    <3>1. e \in Envelopes
      BY DEF HeldOK
    <3> QED
      BY <1>2, <3>1 DEF ChannelOK
  <2>8. \A q \in Paths : \A o \in Runs : HeldOK(q, held'[q][o])
    BY <2>6 DEF ChannelOK
  <2> QED
    BY <2>4, <2>5, <2>7, <2>8 DEF ChannelOK, HeldOK, Good
<1> QED
  BY <1>1, <1>2 DEF Publish

LEMMA ConnsKept ==
    ASSUME ChannelOK, ConnsOK, Grows, UNCHANGED conn
    PROVE  ConnsOK'
<1> SUFFICES ASSUME NEW c \in Conns PROVE ConnOK(conn[c])'
  BY DEF ConnsOK
<1> DEFINE k == conn[c]
<1>1. ConnOK(k) /\ conn'[c] = k /\ k \in Connection
  BY DEF ConnsOK, ConnOK
<1>2. ASSUME k.pc \in {"waiting", "woken", "sending"}
      PROVE  ReaderOK(k, version'[k.path][k.chan])
  <2>1. k.path \in Paths /\ k.chan \in Runs
    BY <1>1, <1>2, StreamAssumption DEF ConnOK, Connection, RunOrNone, Runs
  <2>2. /\ version[k.path][k.chan] <= version'[k.path][k.chan]
        /\ version[k.path][k.chan] \in Nat /\ version'[k.path][k.chan] \in Nat
        /\ k.seen \in Nat /\ k.sent \in Nat /\ k.frame \in Nat
    BY <1>1, <2>1, StreamAssumption DEF Grows, ChannelOK, Frames, Connection
  <2>3. ReaderOK(k, version[k.path][k.chan])
    BY <1>1, <1>2 DEF ConnOK
  <2> HIDE DEF k
  <2> QED
    BY <2>2, <2>3 DEF ReaderOK
<1> QED
  BY <1>1, <1>2 DEF ConnOK, ReaderOK, Good

ServeStep ==
    \/ Register \/ RegisterFails \/ Listen \/ ListenFails
    \/ StopBegin \/ StopRust \/ StopJoin

LEMMA ServeOK ==
    ASSUME ServerOK, ServeStep
    PROVE  ServerOK' /\ UNCHANGED channel /\ UNCHANGED conn
<1> USE StreamAssumption DEF ServerOK, TaskOfRun, RunOrNone, Runs, Paths
<1>1. CASE Register
  BY <1>1 DEF Register, ServerTyped
<1>2. CASE RegisterFails
  <2>1. PICK a \in {route["axis"], runs + 1} :
            route' = [route EXCEPT !["ws"] = runs + 1, !["axis"] = a]
    BY <1>2 DEF RegisterFails
  <2> QED
    BY <1>2, <2>1 DEF RegisterFails, ServerTyped
<1>3. CASE Listen
  BY <1>3 DEF Listen, ServerTyped
<1>4. CASE ListenFails
  BY <1>4 DEF ListenFails, ServerTyped
<1>5. CASE StopBegin
  BY <1>5 DEF StopBegin, ServerTyped
<1>6. CASE StopRust
  BY <1>6 DEF StopRust, ServerTyped
<1>7. CASE StopJoin
  BY <1>7 DEF StopJoin, ServerTyped
<1> QED
  BY <1>1, <1>2, <1>3, <1>4, <1>5, <1>6, <1>7 DEF ServeStep
WriterStep(r) ==
    WsCheck(r) \/ WsNoFrame(r) \/ WsBroadcast(r) \/ AxisCall(r) \/ AxisSend(r)

LEMMA WriterServer ==
    ASSUME ServerOK, NEW r \in Runs, WriterStep(r)
    PROVE  ServerOK' /\ UNCHANGED conn
<1> USE DEF ServerOK, ServerTyped, TaskOfRun, serverVars
<1>1. CASE WsCheck(r)
  BY <1>1 DEF WsCheck
<1>2. CASE WsNoFrame(r)
  BY <1>2 DEF WsNoFrame
<1>3. CASE WsBroadcast(r)
  <2>1. /\ wsTask[r] = "handler" /\ UNCHANGED <<serverVars, axis, conn>>
        /\ \E point \in {"check", "done"} : wsTask' = [wsTask EXCEPT ![r] = point]
    BY <1>3 DEF WsBroadcast
  <2> QED
    BY <2>1
<1>4. CASE AxisCall(r)
  BY <1>4 DEF AxisCall
<1>5. CASE AxisSend(r)
  BY <1>5 DEF AxisSend
<1> QED
  BY <1>1, <1>2, <1>3, <1>4, <1>5 DEF WriterStep

LEMMA WriterChannel ==
    ASSUME ServerOK, ChannelOK, NEW r \in Runs, WriterStep(r)
    PROVE  ChannelOK' /\ Grows
<1>1. CASE UNCHANGED channel
  BY <1>1, ChannelKept
<1>2. CASE WsBroadcast(r)
  <2>1. PICK n \in Payloads :
            /\ Builds(n)
            /\ \/ UNCHANGED channel
               \/ route["ws"] # 0 /\ Publish("ws", route["ws"], Built(n))
    BY <1>2 DEF WsBroadcast
  <2>2. route["ws"] # 0 => route["ws"] \in Runs /\ "ws" \in Paths
    BY StreamAssumption DEF ServerOK, ServerTyped, RunOrNone, Runs, Paths
  <2>3. HeldOK("ws", Built(n))
    BY <2>1, BuiltHeld, StreamAssumption
  <2> QED
    BY <1>1, <2>1, <2>2, <2>3, PublishOK
<1>3. CASE AxisSend(r)
  <2>1. \/ UNCHANGED channel
        \/ \E n \in Payloads \ {0} : Publish("axis", r, BuiltInline(n))
    BY <1>3 DEF AxisSend
  <2>2. ASSUME NEW n \in Payloads, Publish("axis", r, BuiltInline(n)) PROVE ChannelOK' /\ Grows
    <3>1. HeldOK("axis", BuiltInline(n)) /\ "axis" \in Paths
      BY BuiltHeld, StreamAssumption DEF Paths
    <3> QED
      BY <2>2, <3>1, PublishOK
  <2> QED
    BY <1>1, <2>1, <2>2
<1> QED
  BY <1>1, <1>2, <1>3 DEF WriterStep, WsCheck, WsNoFrame, AxisCall

-----------------------------------------------------------------------------
(***************************************************************************)
(* The steps of a connection, which leave the rest alone.                  *)
(***************************************************************************)
LEMMA UpdateOK ==
    ASSUME IInv, NEW c \in Conns, NEW k, ConnOK(k), Update(c, k)
    PROVE  IInv'
<1>1. /\ conn' = [conn EXCEPT ![c] = k]
      /\ UNCHANGED <<phase, runs, running, route, thread, version, held, axis, wsTask>>
  BY DEF Update, serverVars, channel
<1>2. ServerOK' /\ ChannelOK'
  BY <1>1 DEF IInv, ServerOK, ServerTyped, TaskOfRun, ChannelOK, HeldOK, Good
<1>3. k \in Connection /\ conn \in [Conns -> Connection] /\ \A o \in Conns : ConnOK(conn[o])
  BY DEF ConnOK, IInv, ConnsOK
<1>4. \A o \in Conns : ConnOK(conn'[o])
  BY <1>1, <1>3
<1>5. ConnsOK'
  BY <1>1, <1>3, <1>4 DEF ConnsOK, ConnOK, ReaderOK, Good
<1> QED
  BY <1>2, <1>5 DEF IInv

LEMMA CloseOK ==
    ASSUME IInv, NEW c \in Conns, Close(c)
    PROVE  IInv'
  BY NoConnOK, UpdateOK DEF Close

\* What a connection is made of, and the version it compares with.
LEMMA ConnFields ==
    ASSUME IInv, NEW c \in Conns
    PROVE  /\ ConnOK(conn[c]) /\ conn[c] \in Connection
           /\ conn[c].path \in Paths /\ conn[c].run \in RunOrNone /\ conn[c].chan \in RunOrNone
           /\ conn[c].since \in Nat /\ conn[c].seen \in Nat /\ conn[c].frame \in Nat
           /\ conn[c].sent \in Nat /\ conn[c].times \in Nat
           /\ conn[c].chan # 0 =>
                /\ conn[c].chan \in Runs /\ Latest(c) \in Frames /\ Latest(c) \in Nat
                /\ HeldOK(conn[c].path, Held(c)) /\ Held(c) \in Envelopes
<1>1. ConnOK(conn[c]) /\ conn[c] \in Connection
  BY DEF IInv, ConnsOK
<1>2. /\ conn[c].path \in Paths /\ conn[c].run \in RunOrNone /\ conn[c].chan \in RunOrNone
      /\ conn[c].since \in Nat /\ conn[c].seen \in Nat /\ conn[c].frame \in Nat
      /\ conn[c].sent \in Nat /\ conn[c].times \in Nat
  BY <1>1, StreamAssumption DEF Connection, Frames
<1>3. conn[c].chan # 0 => conn[c].chan \in Runs
  BY <1>2, StreamAssumption DEF RunOrNone, Runs
<1>4. conn[c].chan \in Runs => Latest(c) \in Frames /\ Latest(c) \in Nat
  BY <1>2, StreamAssumption DEF IInv, ChannelOK, Latest, Frames
<1>5. conn[c].chan \in Runs => HeldOK(conn[c].path, Held(c)) /\ Held(c) \in Envelopes
  BY <1>2 DEF IInv, ChannelOK, Held
<1> QED
  BY <1>1, <1>2, <1>3, <1>4, <1>5
LEMMA OpeningOK ==
    ASSUME IInv, NEW c \in Conns, Connect(c) \/ Upgrade(c) \/ Resolve(c)
    PROVE  IInv'
<1>0. ConnOK(NoConn) /\ NoConn \in Connection /\ ConnOK(conn[c]) /\ conn[c] \in Connection
  BY NoConnOK, ConnFields DEF ConnOK
<1>p. "head" \in Points /\ "handshake" \in Points /\ "resolved" \in Points
  BY DEF Points
<1>1. CASE Connect(c)
  <2>1. PICK r \in Runs, p \in Paths :
            Update(c, [NoConn EXCEPT !.pc = "head", !.path = p, !.run = r])
    BY <1>1 DEF Connect
  <2> DEFINE k == [NoConn EXCEPT !.pc = "head", !.path = p, !.run = r]
  <2>2. r \in RunOrNone
    BY StreamAssumption DEF Runs, RunOrNone
  <2>3. k \in Connection
    BY <1>0, <1>p, <2>2 DEF Connection
  <2>4. /\ k.pc = "head" /\ k.chan = 0 /\ k.since = 0 /\ k.seen = 0 /\ k.sent = 0 /\ k.times = 0
    BY DEF NoConn
  <2>5. Update(c, k)
    BY <2>1
  <2> HIDE DEF k
  <2> QED
    BY <2>3, <2>4, <2>5, UpdateOK DEF ConnOK
<1>2. CASE Upgrade(c)
  <2>1. CASE Close(c)
    BY <2>1, CloseOK
  <2>2. CASE conn[c].pc = "head" /\ Update(c, [conn[c] EXCEPT !.pc = "handshake"])
    <3> DEFINE k == [conn[c] EXCEPT !.pc = "handshake"]
    <3>1. k \in Connection
      BY <1>0, <1>p DEF Connection
    <3>2. /\ k.pc = "handshake" /\ k.chan = conn[c].chan /\ k.since = conn[c].since
          /\ k.seen = conn[c].seen /\ k.sent = conn[c].sent /\ k.times = conn[c].times
      BY <1>0 DEF Connection
    <3>3. Update(c, k)
      BY <2>2
    <3> HIDE DEF k
    <3> QED
      BY <1>0, <2>2, <3>1, <3>2, <3>3, UpdateOK DEF ConnOK
  <2> QED
    BY <1>2, <2>1, <2>2 DEF Upgrade
<1>3. CASE Resolve(c)
  <2>1. CASE Close(c)
    BY <2>1, CloseOK
  <2>2. CASE /\ conn[c].pc = "handshake" /\ route[conn[c].path] # 0
             /\ Update(c, [conn[c] EXCEPT !.pc = "resolved", !.chan = route[conn[c].path]])
    <3> DEFINE r == route[conn[c].path]
               k == [conn[c] EXCEPT !.pc = "resolved", !.chan = r]
    <3>1. r \in RunOrNone
      BY ConnFields DEF IInv, ServerOK, ServerTyped
    <3>2. k \in Connection
      BY <1>0, <1>p, <3>1 DEF Connection
    <3>3. /\ k.pc = "resolved" /\ k.chan = r /\ k.since = conn[c].since
          /\ k.seen = conn[c].seen /\ k.sent = conn[c].sent /\ k.times = conn[c].times
      BY <1>0 DEF Connection
    <3>4. Update(c, k) /\ r # 0
      BY <2>2
    <3> HIDE DEF k, r
    <3> QED
      BY <1>0, <2>2, <3>2, <3>3, <3>4, UpdateOK DEF ConnOK
  <2> QED
    BY <1>3, <2>1, <2>2 DEF Resolve
<1> QED
  BY <1>1, <1>2, <1>3

\* Where the subscriber starts is the version that is there.
LEMMA SubscribeOK ==
    ASSUME IInv, NEW c \in Conns, Subscribe(c)
    PROVE  IInv'
<1> DEFINE k == [conn[c] EXCEPT !.pc = "waiting", !.since = Latest(c), !.seen = Latest(c)]
<1>0. /\ ConnOK(conn[c]) /\ conn[c] \in Connection /\ conn[c].pc = "resolved" /\ conn[c].chan # 0
      /\ Latest(c) \in Frames /\ Latest(c) \in Nat /\ conn[c].sent = 0 /\ conn[c].times = 0
  BY ConnFields DEF Subscribe, ConnOK
<1>1. k \in Connection
  <2>1. "waiting" \in Points
    BY DEF Points
  <2> QED
    BY <1>0, <2>1 DEF Connection
<1>2. /\ k.pc = "waiting" /\ k.chan = conn[c].chan /\ k.path = conn[c].path
      /\ k.since = Latest(c) /\ k.seen = Latest(c) /\ k.sent = 0 /\ k.times = 0
      /\ k.frame = conn[c].frame /\ k.env = conn[c].env
  BY <1>0 DEF Connection
<1>3. Update(c, k)
  BY DEF Subscribe
<1> HIDE DEF k
<1>4. version[k.path][k.chan] = Latest(c)
  BY <1>2 DEF Latest
<1>5. ReaderOK(k, Latest(c))
  BY <1>0, <1>2 DEF ReaderOK
<1> QED
  BY <1>0, <1>1, <1>2, <1>3, <1>4, <1>5, UpdateOK DEF ConnOK

\* A version is only marked as seen when it is newer than the last one.
LEMMA ChangedOK ==
    ASSUME IInv, NEW c \in Conns, Changed(c)
    PROVE  IInv'
<1> DEFINE k == [conn[c] EXCEPT !.pc = "woken", !.seen = Latest(c)]
<1>0. /\ ConnOK(conn[c]) /\ conn[c] \in Connection /\ conn[c].pc = "waiting" /\ conn[c].chan # 0
      /\ Latest(c) \in Frames /\ Latest(c) \in Nat /\ Latest(c) > conn[c].seen
      /\ conn[c].since \in Nat /\ conn[c].seen \in Nat /\ conn[c].sent \in Nat
      /\ conn[c].times \in Nat
  BY ConnFields DEF Changed, ConnOK
<1>1. k \in Connection
  <2>1. "woken" \in Points
    BY DEF Points
  <2> QED
    BY <1>0, <2>1 DEF Connection
<1>2. /\ k.pc = "woken" /\ k.chan = conn[c].chan /\ k.path = conn[c].path
      /\ k.since = conn[c].since /\ k.seen = Latest(c) /\ k.sent = conn[c].sent
      /\ k.times = conn[c].times /\ k.frame = conn[c].frame /\ k.env = conn[c].env
  BY <1>0 DEF Connection
<1>3. Update(c, k)
  BY DEF Changed
<1>r. ReaderOK(conn[c], Latest(c))
  BY <1>0 DEF ConnOK, Latest
<1> HIDE DEF k
<1>4. version[k.path][k.chan] = Latest(c)
  BY <1>2 DEF Latest
<1>5. ReaderOK(k, Latest(c))
  BY <1>0, <1>2, <1>r DEF ReaderOK
<1> QED
  BY <1>0, <1>1, <1>2, <1>3, <1>4, <1>5, UpdateOK DEF ConnOK

LEMMA BorrowOK ==
    ASSUME IInv, NEW c \in Conns, Borrow(c)
    PROVE  IInv'
<1>0. /\ ConnOK(conn[c]) /\ conn[c] \in Connection /\ conn[c].pc = "woken" /\ conn[c].chan # 0
      /\ Latest(c) \in Frames /\ Latest(c) \in Nat
      /\ HeldOK(conn[c].path, Held(c)) /\ Held(c) \in Envelopes
      /\ conn[c].since \in Nat /\ conn[c].seen \in Nat /\ conn[c].sent \in Nat
      /\ conn[c].times \in Nat
  BY ConnFields DEF Borrow, ConnOK
<1>p. "waiting" \in Points /\ "sending" \in Points
  BY DEF Points
<1>r. ReaderOK(conn[c], Latest(c))
  BY <1>0 DEF ConnOK, Latest
<1>1. ASSUME Update(c, [conn[c] EXCEPT !.pc = "waiting"]) PROVE IInv'
  <2> DEFINE k == [conn[c] EXCEPT !.pc = "waiting"]
  <2>1. k \in Connection
    BY <1>0, <1>p DEF Connection
  <2>2. /\ k.pc = "waiting" /\ k.chan = conn[c].chan /\ k.path = conn[c].path
        /\ k.since = conn[c].since /\ k.seen = conn[c].seen /\ k.sent = conn[c].sent
        /\ k.times = conn[c].times
    BY <1>0 DEF Connection
  <2>3. Update(c, k)
    BY <1>1
  <2> HIDE DEF k
  <2>4. ReaderOK(k, Latest(c)) /\ version[k.path][k.chan] = Latest(c)
    BY <1>0, <1>r, <2>2 DEF ReaderOK, Latest
  <2> QED
    BY <1>0, <2>1, <2>2, <2>3, <2>4, UpdateOK DEF ConnOK
<1>2. ASSUME Held(c).size # 0,
             Update(c, [conn[c] EXCEPT !.pc = "sending", !.frame = Latest(c), !.env = Held(c)])
      PROVE  IInv'
  <2> DEFINE k == [conn[c] EXCEPT !.pc = "sending", !.frame = Latest(c), !.env = Held(c)]
  <2>1. k \in Connection
    BY <1>0, <1>p DEF Connection
  <2>2. /\ k.pc = "sending" /\ k.chan = conn[c].chan /\ k.path = conn[c].path
        /\ k.since = conn[c].since /\ k.seen = conn[c].seen /\ k.sent = conn[c].sent
        /\ k.times = conn[c].times /\ k.frame = Latest(c) /\ k.env = Held(c)
    BY <1>0 DEF Connection
  <2>3. Update(c, k)
    BY <1>2
  <2>4. Good(conn[c].path, Held(c))
    BY <1>0, <1>2 DEF HeldOK
  <2> HIDE DEF k
  <2>5. ReaderOK(k, Latest(c)) /\ version[k.path][k.chan] = Latest(c)
    BY <1>0, <1>r, <2>2, <2>4 DEF ReaderOK, Latest
  <2> QED
    BY <1>0, <2>1, <2>2, <2>3, <2>5, UpdateOK DEF ConnOK
<1> QED
  BY <1>1, <1>2 DEF Borrow

LEMMA SendOkOK ==
    ASSUME IInv, NEW c \in Conns, SendOk(c)
    PROVE  IInv'
<1> DEFINE k == [conn[c] EXCEPT !.pc = "waiting", !.sent = conn[c].frame,
                                !.env = EmptyFrame, !.times = TimesNow(c)]
<1>0. /\ ConnOK(conn[c]) /\ conn[c] \in Connection /\ conn[c].pc = "sending" /\ conn[c].chan # 0
      /\ Latest(c) \in Nat /\ conn[c].frame \in Nat
      /\ conn[c].since \in Nat /\ conn[c].seen \in Nat /\ conn[c].sent \in Nat
      /\ conn[c].times \in Nat
  BY ConnFields DEF SendOk, ConnOK
<1>n. TimesNow(c) \in Nat
  BY <1>0 DEF TimesNow
<1>1. k \in Connection
  <2>1. "waiting" \in Points
    BY DEF Points
  <2> QED
    BY <1>0, <1>n, <2>1, EmptyTyped DEF Connection
<1>2. /\ k.pc = "waiting" /\ k.chan = conn[c].chan /\ k.path = conn[c].path
      /\ k.since = conn[c].since /\ k.seen = conn[c].seen /\ k.sent = conn[c].frame
      /\ k.times = TimesNow(c)
  BY <1>0 DEF Connection
<1>3. Update(c, k)
  BY DEF SendOk
<1>r. ReaderOK(conn[c], Latest(c))
  BY <1>0 DEF ConnOK, Latest
<1> HIDE DEF k
<1>4. version[k.path][k.chan] = Latest(c)
  BY <1>2 DEF Latest
<1>5. ReaderOK(k, Latest(c))
  BY <1>0, <1>2, <1>r DEF ReaderOK, TimesNow
<1> QED
  BY <1>0, <1>1, <1>2, <1>3, <1>4, <1>5, UpdateOK DEF ConnOK

LEMMA ThreadExitOK ==
    ASSUME IInv, NEW r \in Runs, ThreadExit(r)
    PROVE  IInv'
<1>1. /\ UNCHANGED <<phase, runs, running, route, axis, wsTask>> /\ UNCHANGED <<version, held>>
      /\ thread' = [thread EXCEPT ![r] = "gone"]
      /\ conn' = [c \in Conns |-> IF conn[c].run = r THEN NoConn ELSE conn[c]]
  BY DEF ThreadExit, channel
<1>2. ServerOK' /\ ChannelOK'
  BY <1>1 DEF IInv, ServerOK, ServerTyped, TaskOfRun, ChannelOK, HeldOK, Good
<1>3. \A c \in Conns : ConnOK(conn'[c]) /\ conn'[c] \in Connection
  BY <1>1, NoConnOK DEF IInv, ConnsOK, ConnOK
<1>4. ConnsOK'
  BY <1>1, <1>3 DEF ConnsOK, ConnOK, ReaderOK, Good
<1> QED
  BY <1>2, <1>4 DEF IInv

-----------------------------------------------------------------------------
(***************************************************************************)
(* The theorems.                                                           *)
(***************************************************************************)
LEMMA StepOK == IInv /\ [Next]_vars => IInv'
<1>1. ASSUME IInv, ServeStep PROVE IInv'
  BY <1>1, ServeOK, ChannelKept, ConnsKept DEF IInv
<1>2. ASSUME IInv, NEW r \in Runs, WriterStep(r) PROVE IInv'
  BY <1>2, WriterServer, WriterChannel, ConnsKept DEF IInv
<1>3. ASSUME IInv, NEW r \in Runs, ThreadExit(r) PROVE IInv'
  BY <1>3, ThreadExitOK
<1>4. ASSUME IInv, NEW c \in Conns, Connect(c) \/ Upgrade(c) \/ Resolve(c) PROVE IInv'
  BY <1>4, OpeningOK
<1>5. ASSUME IInv, NEW c \in Conns, Subscribe(c) \/ Read(c) \/ GiveUp(c) PROVE IInv'
  BY <1>5, SubscribeOK, ChangedOK, BorrowOK, SendOkOK, CloseOK DEF Read, SendFails, GiveUp
<1>6. ASSUME IInv, UNCHANGED vars PROVE IInv'
  <2>1. UNCHANGED <<phase, runs, running, route, thread, axis, wsTask>>
        /\ UNCHANGED channel /\ UNCHANGED conn
    BY <1>6 DEF vars, serverVars
  <2>2. ServerOK'
    BY <1>6, <2>1 DEF IInv, ServerOK, ServerTyped, TaskOfRun
  <2> QED
    BY <1>6, <2>1, <2>2, ChannelKept, ConnsKept DEF IInv
<1> QED
  BY <1>1, <1>2, <1>3, <1>4, <1>5, <1>6 DEF Next, ServeStep, WriterStep

LEMMA Inductive == Spec => []IInv
  BY InitOK, StepOK, PTL DEF Spec, SafeSpec

\* The types hold in every state, and a connection has a channel exactly from
\* resolve_sender on.
THEOREM TypeCorrect == Spec => []TypeOK
<1>1. IInv => TypeOK
  BY DEF IInv, ServerOK, ServerTyped, ChannelOK, ConnsOK, ConnOK, TypeOK
<1> QED
  BY <1>1, Inductive, PTL

\* Frames are sent in the order they were stored in, and none from before the
\* subscription, with any number of clients on one channel.
THEOREM FramesInOrderHolds == Spec => []FramesInOrder
<1>1. ASSUME IInv, NEW c \in Conns, conn[c].pc = "sending"
      PROVE  /\ conn[c].since < conn[c].frame
             /\ conn[c].sent <= conn[c].frame
             /\ conn[c].frame <= Latest(c)
  <2>1. ReaderOK(conn[c], Latest(c))
    BY <1>1 DEF IInv, ConnsOK, ConnOK, Latest
  <2> QED
    BY <1>1, <2>1, ConnFields DEF ReaderOK
<1>2. IInv => FramesInOrder
  BY <1>1 DEF FramesInOrder
<1> QED
  BY <1>2, Inductive, PTL

\* No frame is sent a third time, however many come in between changed() and
\* borrow().
THEOREM AtMostTwiceHolds == Spec => []AtMostTwice
<1>1. ASSUME IInv, NEW c \in Conns PROVE conn[c].times <= 2
  <2>1. ConnOK(conn[c]) /\ conn[c] \in Connection
    BY <1>1, ConnFields
  <2>2. CASE conn[c].pc \in {"waiting", "woken", "sending"}
    BY <2>1, <2>2 DEF ConnOK, ReaderOK
  <2>3. CASE conn[c].pc \in {"none", "head", "handshake", "resolved"}
    BY <2>1, <2>3 DEF ConnOK
  <2> QED
    BY <2>1, <2>2, <2>3 DEF Connection, Points
<1>2. IInv => AtMostTwice
  BY <1>1 DEF AtMostTwice
<1> QED
  BY <1>2, Inductive, PTL

\* A WebSocket task never writes into the channel of another run.
THEOREM NoStaleBroadcastHolds == Spec => []NoStaleBroadcast
<1>1. IInv => NoStaleBroadcast
  BY DEF IInv, ServerOK, TaskOfRun, NoStaleBroadcast
<1> QED
  BY <1>1, Inductive, PTL

\* What is sent on the path of a Julia task is a valid envelope, and so is what a
\* generator has made, unless its length is no u32.
THEOREM EnvelopesValidHolds == Spec => []EnvelopesValid
<1>1. IInv => EnvelopesValid
  BY DEF IInv, ConnsOK, ConnOK, ReaderOK, Good, EnvelopesValid
<1> QED
  BY <1>1, Inductive, PTL

-----------------------------------------------------------------------------
(***************************************************************************)
(* The server of OneServer.                                                *)
(***************************************************************************)
Busy == \E r \in Runs : wsTask[r] \in {"check", "handler"}
Tables == {p \in Paths : route[p] # 0}

\* No WebSocket task is left before a server is up.
LEMMA NotBusy ==
    ASSUME ServerOK, phase \in {"idle", "registered"}
    PROVE  ~Busy
  BY DEF ServerOK, TaskOfRun, Busy

LEMMA CallsMap ==
    ASSUME ServerOK, ServeStep
    PROVE  [Server!Next]_(Server!vars)
<1> USE NotBusy DEF Busy, Tables
<1>0. runs \in Nat /\ route \in [Paths -> RunOrNone] /\ wsTask \in [Runs -> {"none", "check", "handler", "done"}]
  BY StreamAssumption DEF ServerOK, ServerTyped, RunOrNone
<1>1. CASE Register
  <2>1. phase = "idle" /\ phase' = "registered" /\ Tables' = Paths /\ wsTask' = wsTask
    BY <1>0, <1>1 DEF Register
  <2>2. Server!Begin
    BY <1>0, <2>1 DEF Server!Begin, Paths
  <2> QED BY <2>2 DEF Server!Next
<1>2. CASE RegisterFails
  <2>1. PICK a \in {route["axis"], runs + 1} :
            route' = [route EXCEPT !["ws"] = runs + 1, !["axis"] = a]
    BY <1>2 DEF RegisterFails
  <2>2. Tables \subseteq Tables'
    BY <1>0, <2>1 DEF Paths
  <2>3. phase = "idle" /\ phase' = phase /\ wsTask' = wsTask
    BY <1>2 DEF RegisterFails
  <2>4. Server!Abort
    BY <2>2, <2>3 DEF Server!Abort
  <2> QED BY <2>4 DEF Server!Next
<1>3. CASE Listen
  <2>1. phase = "registered" /\ phase' = "serving" /\ route' = route
    BY <1>3 DEF Listen
  <2>2. Server!Up
    BY <2>1 DEF Server!Up
  <2> QED BY <2>2 DEF Server!Next
<1>4. CASE ListenFails
  <2>1. phase = "registered" /\ phase' = "idle" /\ UNCHANGED <<route, wsTask>>
    BY <1>4 DEF ListenFails
  <2>2. Server!Fail
    BY <2>1 DEF Server!Fail
  <2> QED BY <2>2 DEF Server!Next
<1>5. CASE StopBegin
  BY <1>5 DEF StopBegin, Server!vars
<1>6. CASE StopRust
  <2>1. phase = "stopping" /\ phase' = "joining" /\ Tables' = {} /\ wsTask' = wsTask
    BY <1>6 DEF StopRust
  <2>2. Server!Stop
    BY <2>1 DEF Server!Stop
  <2> QED BY <2>2 DEF Server!Next
<1>7. CASE StopJoin
  BY <1>7 DEF StopJoin, Server!vars
<1> QED
  BY <1>1, <1>2, <1>3, <1>4, <1>5, <1>6, <1>7 DEF ServeStep

\* Only Listen puts a WebSocket task to work: everybody else leaves the server
\* alone, or ends one.
LEMMA OthersMap ==
    ASSUME ServerOK, UNCHANGED <<phase, route>>,
           \A r \in Runs : wsTask'[r] \in {"check", "handler"} => wsTask[r] \in {"check", "handler"}
    PROVE  [Server!Next]_(Server!vars)
<1> USE DEF Busy, Tables
<1>1. Busy' => Busy
  OBVIOUS
<1>2. CASE Busy /\ ~Busy'
  BY <1>2 DEF Server!Next, Server!Rest
<1>3. CASE Busy' <=> Busy
  BY <1>3 DEF Server!vars
<1> QED BY <1>1, <1>2, <1>3

\* The calls of serve() and stop_server!() that WsStream takes for granted are
\* those of OneServer, the promise that ServerLifecycle keeps: both paths have a
\* route until the server is stopped, and the WebSocket task of one run has
\* ended before the next begins.
THEOREM StreamsOfOneServer == SafeSpec => Server!SafeSpec
<1>1. Init => Server!Init
  BY DEF Init, Server!Init
<1>2. ASSUME IInv, [Next]_vars PROVE [Server!Next]_(Server!vars)
  <2>1. CASE ServeStep
    BY <1>2, <2>1, CallsMap DEF IInv
  <2>2. ASSUME NEW r \in Runs, WriterStep(r) PROVE [Server!Next]_(Server!vars)
    <3>1. UNCHANGED <<phase, route>>
      BY <2>2 DEF WriterStep, WsCheck, WsNoFrame, WsBroadcast, AxisCall, AxisSend, serverVars
    <3>2. \/ wsTask' = wsTask
          \/ wsTask[r] \in {"check", "handler"} /\ \E p : wsTask' = [wsTask EXCEPT ![r] = p]
      BY <2>2 DEF WriterStep, WsCheck, WsNoFrame, WsBroadcast, AxisCall, AxisSend
    <3>3. wsTask \in [Runs -> {"none", "check", "handler", "done"}]
      BY <1>2 DEF IInv, ServerOK, ServerTyped
    <3> QED BY <1>2, <3>1, <3>2, <3>3, OthersMap DEF IInv
  <2>3. CASE UNCHANGED <<phase, route, wsTask>>
    BY <1>2, <2>3, OthersMap DEF IInv
  <2>4. ASSUME NEW r \in Runs, ThreadExit(r) PROVE UNCHANGED <<phase, route, wsTask>>
    BY <2>4 DEF ThreadExit
  <2>5. ASSUME NEW c \in Conns,
               Connect(c) \/ Upgrade(c) \/ Resolve(c) \/ Subscribe(c) \/ Read(c) \/ GiveUp(c)
        PROVE  UNCHANGED <<phase, route, wsTask>>
    BY <2>5 DEF Connect, Upgrade, Resolve, Subscribe, Read, Changed, Borrow, SendOk, SendFails,
       GiveUp, Close, Update, serverVars
  <2> QED
    BY <1>2, <2>1, <2>2, <2>3, <2>4, <2>5 DEF Next, ServeStep, WriterStep, vars, serverVars
<1>3. SafeSpec => []IInv
  BY InitOK, StepOK, PTL DEF SafeSpec
<1> QED
  BY <1>1, <1>2, <1>3, PTL DEF SafeSpec, Server!SafeSpec

-----------------------------------------------------------------------------
(***************************************************************************)
(* The clients of FrameFeed.                                               *)
(***************************************************************************)
Streams == Paths \X Runs
countBar == [s \in Streams |-> version[s[1]][s[2]]]
clientBar == [c \in Conns |-> Client(c)]

\* What a connection k is to the feed.
Reader(k) ==
    IF k.pc \in {"waiting", "woken", "sending"}
    THEN [stream |-> <<k.path, k.chan>>, times |-> k.times,
          last |-> IF k.times = 0 THEN k.since ELSE k.sent]
    ELSE Feed!NoClient

LEMMA ClientIs == \A c \in Conns : Client(c) = Reader(conn[c])
  BY DEF Client, Subscribed, Reader, Feed!NoClient, Feed!At

LEMMA FeedRests ==
    ASSUME UNCHANGED <<countBar, clientBar>>
    PROVE  [Feed!Next]_(Feed!vars)
  BY DEF Feed!vars, countBar, clientBar, Streams

\* A frame that is stored is a frame for somebody.
LEMMA PublishMaps ==
    ASSUME IInv, UNCHANGED conn, NEW p \in Paths, NEW r \in Runs, NEW e, Publish(p, r, e)
    PROVE  [Feed!Next]_(Feed!vars)
<1>1. clientBar' = clientBar
  BY DEF clientBar, Client, Subscribed
<1>2. CASE Receivers(p, r) = {}
  BY <1>1, <1>2, FeedRests DEF Publish, channel, countBar
<1>3. CASE Receivers(p, r) # {}
  <2>1. PICK c \in Conns : Subscribed(c) /\ conn[c].path = p /\ conn[c].chan = r
    BY <1>3 DEF Receivers
  <2>2. clientBar[c] # Feed!NoClient /\ clientBar[c].stream = <<p, r>>
    BY <2>1 DEF clientBar, Client, Feed!NoClient, Feed!At
  <2>3. countBar' = [countBar EXCEPT ![<<p, r>>] = @ + 1]
    <3>1. version' = [version EXCEPT ![p][r] = @ + 1] /\ version \in [Paths -> [Runs -> Frames]]
      BY <1>3 DEF Publish, IInv, ChannelOK
    <3>2. \A s \in Streams :
              /\ s[1] \in Paths /\ s[2] \in Runs /\ (s = <<p, r>> <=> s[1] = p /\ s[2] = r)
              /\ countBar'[s] = version'[s[1]][s[2]] /\ countBar[s] = version[s[1]][s[2]]
      BY DEF Streams, countBar
    <3>3. \A s \in Streams : countBar'[s] = IF s = <<p, r>> THEN countBar[s] + 1 ELSE countBar[s]
      BY <3>1, <3>2
    <3> QED BY <3>3 DEF countBar
  <2>4. Feed!Publish(c)
    BY <1>1, <2>2, <2>3 DEF Feed!Publish, countBar, clientBar, Streams
  <2> QED BY <2>4 DEF Feed!Next
<1> QED BY <1>2, <1>3

LEMMA WriterMaps ==
    ASSUME IInv, NEW r \in Runs, WriterStep(r)
    PROVE  [Feed!Next]_(Feed!vars)
<1>1. UNCHANGED conn
  BY WriterServer DEF IInv
<1>2. CASE UNCHANGED channel
  <2>1. UNCHANGED <<countBar, clientBar>>
    BY <1>1, <1>2 DEF channel, countBar, clientBar, Client, Subscribed
  <2> QED BY <2>1, FeedRests
<1>3. CASE WsBroadcast(r)
  <2>1. PICK n \in Payloads :
            \/ UNCHANGED channel
            \/ route["ws"] # 0 /\ Publish("ws", route["ws"], Built(n))
    BY <1>3 DEF WsBroadcast
  <2>2. route["ws"] # 0 => route["ws"] \in Runs /\ "ws" \in Paths
    BY StreamAssumption DEF IInv, ServerOK, ServerTyped, RunOrNone, Runs, Paths
  <2> QED BY <1>1, <1>2, <2>1, <2>2, PublishMaps
<1>4. CASE AxisSend(r)
  <2>1. "axis" \in Paths
    BY DEF Paths
  <2> QED BY <1>1, <1>2, <1>4, <2>1, PublishMaps DEF AxisSend
<1> QED BY <1>2, <1>3, <1>4 DEF WriterStep, WsCheck, WsNoFrame, AxisCall

\* A step of one connection is a step of one client.
LEMMA UpdateMaps ==
    ASSUME IInv, NEW c \in Conns, NEW k, Update(c, k)
    PROVE  countBar' = countBar /\ clientBar' = [clientBar EXCEPT ![c] = Reader(k)]
<1>1. conn' = [conn EXCEPT ![c] = k] /\ UNCHANGED version /\ conn \in [Conns -> Connection]
  BY DEF Update, channel, IInv, ConnsOK
<1>2. clientBar = [o \in Conns |-> Reader(conn[o])] /\ clientBar' = [o \in Conns |-> Reader(conn'[o])]
  BY ClientIs DEF clientBar, Client, Subscribed, Reader, Feed!NoClient, Feed!At
<1> QED BY <1>1, <1>2 DEF countBar

LEMMA SameReader ==
    ASSUME IInv, NEW c \in Conns, NEW k, Update(c, k), Reader(k) = Reader(conn[c])
    PROVE  [Feed!Next]_(Feed!vars)
<1>1. UNCHANGED <<countBar, clientBar>>
  BY UpdateMaps, ClientIs DEF clientBar
<1> QED BY <1>1, FeedRests

LEMMA CloseMaps ==
    ASSUME IInv, NEW c \in Conns, Close(c)
    PROVE  [Feed!Next]_(Feed!vars)
<1>1. Reader(NoConn) = Feed!NoClient
  BY DEF Reader, NoConn
<1>2. countBar' = countBar /\ clientBar' = [clientBar EXCEPT ![c] = Feed!NoClient]
  BY <1>1, UpdateMaps DEF Close
<1>3. clientBar' = [o \in Conns |-> IF o \in {c} THEN Feed!NoClient ELSE clientBar[o]]
  BY <1>2 DEF clientBar
<1>4. Feed!Leave({c})
  BY <1>2, <1>3 DEF Feed!Leave, countBar, clientBar, Streams
<1> QED BY <1>4 DEF Feed!Next

LEMMA ExitMaps ==
    ASSUME IInv, NEW r \in Runs, ThreadExit(r)
    PROVE  [Feed!Next]_(Feed!vars)
<1> DEFINE gone == {c \in Conns : conn[c].run = r}
<1>1. conn' = [c \in Conns |-> IF conn[c].run = r THEN NoConn ELSE conn[c]] /\ UNCHANGED version
  BY DEF ThreadExit, channel
<1>2. \A c \in Conns : Client(c)' = IF c \in gone THEN Feed!NoClient ELSE Client(c)
  BY <1>1 DEF Client, Subscribed, NoConn, Feed!NoClient, Feed!At
<1>3. clientBar' = [c \in Conns |-> IF c \in gone THEN Feed!NoClient ELSE clientBar[c]]
  BY <1>2 DEF clientBar
<1>4. Feed!Leave(gone)
  BY <1>1, <1>3 DEF Feed!Leave, clientBar
<1> QED BY <1>4 DEF Feed!Next

\* The version at the subscription is the newest frame there is.
LEMMA SubscribeMaps ==
    ASSUME IInv, NEW c \in Conns, Subscribe(c)
    PROVE  [Feed!Next]_(Feed!vars)
<1> DEFINE k == [conn[c] EXCEPT !.pc = "waiting", !.since = Latest(c), !.seen = Latest(c)]
           s == <<conn[c].path, conn[c].chan>>
<1>1. /\ conn[c].pc = "resolved" /\ conn[c] \in Connection /\ conn[c].times = 0
      /\ conn[c].path \in Paths /\ conn[c].chan \in Runs
  BY ConnFields DEF Subscribe, ConnOK
<1>2. s \in Streams /\ countBar[s] = Latest(c)
  BY <1>1 DEF Streams, countBar, Latest
<1>3. Reader(k) = [stream |-> s, last |-> Latest(c), times |-> 0]
  BY <1>1 DEF Reader, Connection
<1>4. clientBar[c] = Feed!NoClient
  BY <1>1, ClientIs DEF clientBar, Reader
<1>5. countBar' = countBar /\ clientBar' = [clientBar EXCEPT ![c] = Reader(k)]
  BY UpdateMaps DEF Subscribe
<1> HIDE DEF k, s
<1>6. Feed!Join(c, s)
  BY <1>2, <1>3, <1>4, <1>5 DEF Feed!Join, Feed!At, countBar, clientBar, Streams
<1> QED BY <1>2, <1>6 DEF Feed!Next, Streams

\* A frame that is sent is a later one, or the last one for the second time.
LEMMA SendOkMaps ==
    ASSUME IInv, NEW c \in Conns, SendOk(c)
    PROVE  [Feed!Next]_(Feed!vars)
<1> DEFINE k == [conn[c] EXCEPT !.pc = "waiting", !.sent = conn[c].frame,
                                !.env = EmptyFrame, !.times = TimesNow(c)]
           s == <<conn[c].path, conn[c].chan>>
           n == conn[c].frame
           from == IF conn[c].times = 0 THEN conn[c].since ELSE conn[c].sent
<1>1. /\ conn[c].pc = "sending" /\ conn[c] \in Connection
      /\ conn[c].path \in Paths /\ conn[c].chan \in Runs
      /\ Latest(c) \in Nat /\ n \in Nat /\ conn[c].times \in Nat
      /\ conn[c].since \in Nat /\ conn[c].sent \in Nat /\ conn[c].seen \in Nat
      /\ ReaderOK(conn[c], Latest(c))
  BY ConnFields DEF SendOk, ConnOK, Latest
<1>2. s \in Streams /\ countBar[s] = Latest(c)
  BY <1>1 DEF Streams, countBar, Latest
<1>3. clientBar[c] = [stream |-> s, last |-> from, times |-> conn[c].times] /\ clientBar[c] # Feed!NoClient
  <2>1. clientBar[c] = [stream |-> s, last |-> from, times |-> conn[c].times]
    BY <1>1, ClientIs DEF clientBar, Reader
  <2>2. s # <<>>
    OBVIOUS
  <2> QED BY <2>1, <2>2 DEF Feed!NoClient, Feed!At
<1>4. Reader(k) = [stream |-> s, last |-> n, times |-> TimesNow(c)] /\ TimesNow(c) # 0
  BY <1>1 DEF Reader, Connection, TimesNow
<1>5. countBar' = countBar /\ clientBar' = [clientBar EXCEPT ![c] = Reader(k)]
  BY UpdateMaps DEF SendOk
<1> HIDE DEF k, s
<1>6. CASE conn[c].times # 0 /\ n = conn[c].sent
  <2>1. conn[c].times = 1 /\ TimesNow(c) = 2
    BY <1>1, <1>6 DEF ReaderOK, TimesNow
  <2>2. Reader(k) = Feed!At(clientBar[c].stream, clientBar[c].last, 2) /\ clientBar[c].times = 1
    BY <1>3, <1>4, <1>6, <2>1 DEF Feed!At
  <2>3. Feed!Repeat(c)
    BY <1>5, <2>2 DEF Feed!Repeat, countBar, clientBar, Streams
  <2> QED BY <2>3 DEF Feed!Next
<1>7. CASE conn[c].times = 0 \/ n # conn[c].sent
  <2>1. from < n /\ n <= Latest(c) /\ from \in Nat /\ TimesNow(c) = 1
    BY <1>1, <1>7 DEF ReaderOK, TimesNow
  <2>2. Reader(k) = Feed!At(clientBar[c].stream, n, 1)
    BY <1>3, <1>4, <2>1 DEF Feed!At
  <2>3. clientBar[c].last < countBar[clientBar[c].stream]
        /\ n \in clientBar[c].last + 1 .. countBar[clientBar[c].stream]
    BY <1>1, <1>2, <1>3, <2>1
  <2>4. Feed!Deliver(c)
    BY <1>3, <1>5, <2>2, <2>3 DEF Feed!Deliver, Feed!Behind, Feed!Newest, countBar, clientBar, Streams
  <2> QED BY <2>4 DEF Feed!Next
<1> QED BY <1>6, <1>7

\* The other steps of a connection.
LEMMA ConnMaps ==
    ASSUME IInv, NEW c \in Conns, Connect(c) \/ Upgrade(c) \/ Resolve(c) \/ Changed(c) \/ Borrow(c)
    PROVE  [Feed!Next]_(Feed!vars)
<1> USE DEF Reader, Connection
<1>0. conn[c] \in Connection
  BY ConnFields
<1>1. CASE Connect(c)
  <2>1. PICK r \in Runs, p \in Paths :
            Update(c, [NoConn EXCEPT !.pc = "head", !.path = p, !.run = r]) /\ conn[c].pc = "none"
    BY <1>1 DEF Connect
  <2>2. Reader([NoConn EXCEPT !.pc = "head", !.path = p, !.run = r]) = Reader(conn[c])
    BY <2>1 DEF NoConn
  <2> QED BY <2>1, <2>2, SameReader
<1>2. CASE Close(c)
  BY <1>2, CloseMaps
<1>3. CASE Upgrade(c) /\ ~Close(c)
  <2>1. conn[c].pc = "head" /\ Update(c, [conn[c] EXCEPT !.pc = "handshake"])
    BY <1>3 DEF Upgrade
  <2>2. Reader([conn[c] EXCEPT !.pc = "handshake"]) = Reader(conn[c])
    BY <1>0, <2>1
  <2> QED BY <2>1, <2>2, SameReader
<1>4. CASE Resolve(c) /\ ~Close(c)
  <2> DEFINE k == [conn[c] EXCEPT !.pc = "resolved", !.chan = route[conn[c].path]]
  <2>1. conn[c].pc = "handshake" /\ Update(c, k)
    BY <1>4 DEF Resolve
  <2>2. Reader(k) = Reader(conn[c])
    BY <1>0, <2>1
  <2> HIDE DEF k
  <2> QED BY <2>1, <2>2, SameReader
<1>5. CASE Changed(c)
  <2> DEFINE k == [conn[c] EXCEPT !.pc = "woken", !.seen = Latest(c)]
  <2>1. conn[c].pc = "waiting" /\ Update(c, k)
    BY <1>5 DEF Changed
  <2>2. Reader(k) = Reader(conn[c])
    BY <1>0, <2>1
  <2> HIDE DEF k
  <2> QED BY <2>1, <2>2, SameReader
<1>6. CASE Borrow(c)
  <2>1. PICK k \in {[conn[c] EXCEPT !.pc = "waiting"],
                    [conn[c] EXCEPT !.pc = "sending", !.frame = Latest(c), !.env = Held(c)]} :
            conn[c].pc = "woken" /\ Update(c, k)
    BY <1>6 DEF Borrow
  <2>2. Reader(k) = Reader(conn[c])
    BY <1>0, <2>1
  <2> QED BY <2>1, <2>2, SameReader
<1> QED BY <1>1, <1>2, <1>3, <1>4, <1>5, <1>6

\* The safety half of ImplementsFeed, with any number of clients on a channel and
\* any number of channels: whatever a client is sent is a frame of its own
\* channel, from after its subscription, later than the one before or this one
\* for the second time.
THEOREM RefinesFeed == SafeSpec => Feed!SafeSpec
<1>1. Init => Feed!Init
  <2> SUFFICES ASSUME Init PROVE Feed!Init
    OBVIOUS
  <2>1. \A c \in Conns : Client(c) = Feed!NoClient
    BY DEF Init, Client, Subscribed, NoConn, Feed!NoClient, Feed!At
  <2>2. \A s \in Paths \X Runs : version[s[1]][s[2]] = 0
    BY DEF Init
  <2> QED BY <2>1, <2>2 DEF Feed!Init
<1>2. ASSUME IInv, [Next]_vars PROVE [Feed!Next]_(Feed!vars)
  <2>1. CASE ServeStep \/ UNCHANGED vars
    <3>1. UNCHANGED <<version, conn>>
      BY <1>2, <2>1, ServeOK DEF IInv, vars, channel
    <3>2. UNCHANGED <<countBar, clientBar>>
      BY <3>1 DEF countBar, clientBar, Client, Subscribed
    <3> QED BY <3>2, FeedRests
  <2>2. ASSUME NEW r \in Runs, WriterStep(r) \/ ThreadExit(r) PROVE [Feed!Next]_(Feed!vars)
    BY <1>2, <2>2, WriterMaps, ExitMaps
  <2>3. ASSUME NEW c \in Conns,
               Connect(c) \/ Upgrade(c) \/ Resolve(c) \/ Subscribe(c) \/ Read(c) \/ GiveUp(c)
        PROVE  [Feed!Next]_(Feed!vars)
    BY <1>2, <2>3, ConnMaps, SubscribeMaps, SendOkMaps, CloseMaps DEF Read, SendFails, GiveUp
  <2> QED
    BY <1>2, <2>1, <2>2, <2>3 DEF Next, ServeStep, WriterStep
<1>3. SafeSpec => []IInv
  BY InitOK, StepOK, PTL DEF SafeSpec
<1> QED
  BY <1>1, <1>2, <1>3, PTL DEF SafeSpec, Feed!SafeSpec
=============================================================================
