-------------------------- MODULE NativeRoutesProofs --------------------------
(***************************************************************************)
(* Proofs about NativeRoutes, for any connections, apps, requests and      *)
(* databases, any number of runs, and every schedule.                      *)
(***************************************************************************)
EXTENDS NativeRoutes, TLAPS

-----------------------------------------------------------------------------
(***************************************************************************)
(* The inductive invariant: what holds of the server, and what holds of a  *)
(* connection k in the server's state.                                     *)
(***************************************************************************)
ServerTyped ==
    /\ phase \in {"idle", "routes", "origins", "serving"}
    /\ runs \in 0..MaxRuns
    /\ served \in [Runs -> Apps]
    /\ thread \in [Runs -> {"none", "listening", "told", "gone"}]
    /\ native_routes \in [Methods -> Tables \cup {NoTable}]
    /\ allowed_origins \subseteq Origins
    /\ db \in Dbs \cup {NoDb}

\* serve() goes through its phases with a run of its own, and a thread belongs
\* to a run that was begun.
RunsGiven ==
    /\ phase # "idle" => runs \in Runs
    /\ \A r \in Runs : thread[r] # "none" => r <= runs

\* The routes of the latest app are in the table, whatever else is.
LatestRoutes ==
    runs \in Runs =>
        \A m \in served[runs].methods : native_routes[m] = served[runs].table

\* The origins are those of one run, which no run with a thread comes after.
OriginsOfRun ==
    /\ phase \in {"origins", "serving"} => allowed_origins = served[runs].origins
    /\ allowed_origins # {} =>
        \E o \in Runs :
            /\ o <= runs /\ allowed_origins = served[o].origins
            /\ \A r \in Runs : thread[r] # "none" => r <= o

ServerOK == ServerTyped /\ RunsGiven /\ LatestRoutes /\ OriginsOfRun

\* What has been sent to the database, and what came of it.
StatementOK(k) ==
    /\ k.ran # "no" => k.using # NoDb
    /\ k.pc \in {"none", "asked", "resolved"} => k.using = NoDb
    /\ k.using # NoDb => ~Refused(k.req, k.table)
    /\ k.pc \in {"reply", "answered"} => (k.status = 200 <=> k.ran = "done")

KnownOK(k) == (k.known => db # NoDb) /\ (k.status = 503 => ~k.known)

\* A connection belongs to a run that was begun, and has its table.
RunOK(k) ==
    /\ k.run <= runs
    /\ k.pc # "none" => k.run \in Runs /\ thread[k.run] # "none"
    /\ k.table # NoTable => k.run \in Runs /\ k.pc \notin {"none", "asked"}
    /\ k.table # NoTable /\ k.at = k.run /\ k.req.method \in served[k.run].methods
        => k.table = served[k.run].table

GrantOK(k) ==
    k.grant # "none" =>
        /\ k.grant \in {"*", k.req.origin}
        /\ \E r \in Runs : r <= runs /\ r >= k.run /\ k.grant \in served[r].origins

ConnOK(k) == k \in Connection /\ StatementOK(k) /\ KnownOK(k) /\ RunOK(k) /\ GrantOK(k)

ConnsOK == conn \in [Clients -> Connection] /\ \A c \in Clients : ConnOK(conn[c])

IInv == ServerOK /\ ConnsOK

LEMMA NoConnOK ==
    ASSUME runs \in Nat
    PROVE  ConnOK(NoConn)
<1>1. AnyRequest \in Requests
  BY NativeAssumption DEF AnyRequest
<1> QED
  BY <1>1, NativeAssumption DEF NoConn, Connection, Points,
     ConnOK, StatementOK, KnownOK, RunOK, GrantOK

LEMMA InitOK == Init => IInv
<1> SUFFICES ASSUME Init PROVE IInv
  OBVIOUS
<1>1. AnyApp \in Apps
  BY NativeAssumption DEF AnyApp
<1>2. ServerOK
  BY <1>1, NativeAssumption DEF Init, ServerOK, ServerTyped, RunsGiven, LatestRoutes,
     OriginsOfRun, Runs
<1>3. ConnOK(NoConn)
  BY NoConnOK DEF Init
<1>4. conn \in [Clients -> Connection] /\ \A c \in Clients : conn[c] = NoConn
  BY <1>3 DEF Init, ConnOK
<1> QED
  BY <1>2, <1>3, <1>4 DEF IInv, ConnsOK

-----------------------------------------------------------------------------
(***************************************************************************)
(* serve(), stop_server!() and connect_db(), which leave connections alone. *)
(***************************************************************************)
ServeStep == Register \/ SetOrigins \/ Listen \/ ListenFails \/ Stop \/ Connect

\* The apps of the runs that were begun stay, no thread comes back, and a
\* database stays connected.
Keeps ==
    /\ runs' \in 0..MaxRuns /\ runs <= runs'
    /\ \A r \in Runs : r <= runs => served'[r] = served[r]
    /\ \A r \in Runs : thread[r] # "none" => thread'[r] # "none"
    /\ db # NoDb => db' # NoDb

LEMMA ServeKeeps ==
    ASSUME ServerOK, ServeStep
    PROVE  Keeps /\ conn' = conn
<1> USE NativeAssumption DEF ServerOK, ServerTyped, RunsGiven, Runs, Keeps
<1>1. CASE Register
  BY <1>1 DEF Register
<1>2. CASE SetOrigins
  BY <1>2 DEF SetOrigins
<1>3. CASE Listen
  BY <1>3 DEF Listen, shared
<1>4. CASE ListenFails
  BY <1>4 DEF ListenFails, shared
<1>5. CASE Stop
  BY <1>5 DEF Stop
<1>6. CASE Connect
  BY <1>6 DEF Connect, server
<1> QED
  BY <1>1, <1>2, <1>3, <1>4, <1>5, <1>6 DEF ServeStep

\* What holds of a connection that has no step holds after the server's.
LEMMA KeepsOK ==
    ASSUME ServerOK, Keeps, NEW k, ConnOK(k)
    PROVE  ConnOK(k)'
<1>1. k.run \in 0..MaxRuns /\ runs \in Nat /\ runs' \in Nat /\ MaxRuns \in Nat
  BY NativeAssumption DEF ConnOK, Connection, ServerOK, ServerTyped, Keeps
<1>2. KnownOK(k)'
  BY DEF Keeps, ConnOK, KnownOK
<1>3. RunOK(k)'
  BY <1>1 DEF Keeps, ConnOK, RunOK
<1>4. GrantOK(k)'
  BY <1>1 DEF Keeps, ConnOK, GrantOK, Runs
<1> QED
  BY <1>2, <1>3, <1>4 DEF ConnOK, StatementOK

LEMMA ServeServer ==
    ASSUME ServerOK, ServeStep
    PROVE  ServerOK'
<1> USE NativeAssumption DEF ServerOK, Runs
<1>1. ASSUME Register PROVE ServerOK'
  <2>1. PICK a \in Apps : served' = [served EXCEPT ![runs + 1] = a] /\ native_routes' = Inserted(a)
    BY <1>1 DEF Register
  <2>2. /\ runs + 1 \in Runs /\ runs' = runs + 1
        /\ phase' = "routes" /\ UNCHANGED <<thread, allowed_origins, db>>
    BY <1>1 DEF Register, ServerTyped
  <2>3. ServerTyped'
    BY <2>1, <2>2 DEF ServerTyped, Inserted, Tables
  <2>4. RunsGiven'
    BY <2>2 DEF RunsGiven, ServerTyped
  <2>5. LatestRoutes'
    <3>1. served'[runs'] = a /\ a.methods \subseteq Methods
      BY <2>1, <2>2 DEF ServerTyped
    <3> QED
      BY <2>1, <3>1 DEF LatestRoutes, Inserted
  <2>6. OriginsOfRun'
    BY <2>1, <2>2 DEF OriginsOfRun, ServerTyped
  <2> QED
    BY <2>3, <2>4, <2>5, <2>6
<1>2. ASSUME SetOrigins PROVE ServerOK'
  <2>1. runs \in Runs /\ allowed_origins' = served[runs].origins /\ phase' = "origins"
        /\ UNCHANGED <<runs, served, thread, native_routes, db>>
    BY <1>2 DEF SetOrigins, RunsGiven
  <2>2. served[runs].origins \subseteq Origins
    BY <2>1 DEF ServerTyped
  <2>3. ServerTyped' /\ RunsGiven' /\ LatestRoutes'
    BY <2>1, <2>2 DEF ServerTyped, RunsGiven, LatestRoutes
  <2>4. OriginsOfRun'
    BY <2>1 DEF OriginsOfRun, RunsGiven, ServerTyped
  <2> QED
    BY <2>3, <2>4
<1>3. ASSUME Listen PROVE ServerOK'
  <2>1. /\ runs \in Runs /\ phase = "origins" /\ phase' = "serving"
        /\ thread' = [thread EXCEPT ![runs] = "listening"]
        /\ UNCHANGED <<runs, served, native_routes, allowed_origins, db>>
    BY <1>3 DEF Listen, RunsGiven, shared
  <2>2. ServerTyped' /\ RunsGiven' /\ LatestRoutes'
    BY <2>1 DEF ServerTyped, RunsGiven, LatestRoutes
  <2>3. OriginsOfRun'
    <3>1. allowed_origins = served[runs].origins
      BY <2>1 DEF OriginsOfRun
    <3>2. \A r \in Runs : thread'[r] # "none" => r <= runs
      BY <2>1 DEF RunsGiven, ServerTyped
    <3> QED
      BY <2>1, <3>1, <3>2 DEF OriginsOfRun
  <2> QED
    BY <2>2, <2>3
<1>4. ASSUME ListenFails PROVE ServerOK'
  BY <1>4 DEF ListenFails, shared, ServerTyped, RunsGiven, LatestRoutes, OriginsOfRun
<1>5. ASSUME Stop PROVE ServerOK'
  <2>1. /\ runs \in Runs /\ phase' = "idle" /\ allowed_origins' = {}
        /\ thread' = [thread EXCEPT ![runs] = "told"]
        /\ UNCHANGED <<runs, served, native_routes, db>>
    BY <1>5 DEF Stop, RunsGiven
  <2>2. ServerTyped' /\ RunsGiven' /\ LatestRoutes'
    BY <2>1 DEF ServerTyped, RunsGiven, LatestRoutes
  <2>3. OriginsOfRun'
    BY <2>1 DEF OriginsOfRun
  <2> QED
    BY <2>2, <2>3
<1>6. ASSUME Connect PROVE ServerOK'
  BY <1>6 DEF Connect, server, ServerTyped, RunsGiven, LatestRoutes, OriginsOfRun
<1> QED
  BY <1>1, <1>2, <1>3, <1>4, <1>5, <1>6 DEF ServeStep

LEMMA ServeOK ==
    ASSUME IInv, ServeStep
    PROVE  IInv'
<1>1. ServerOK' /\ Keeps /\ conn' = conn
  BY ServeServer, ServeKeeps DEF IInv
<1>2. \A c \in Clients : ConnOK(conn[c])'
  <2> TAKE c \in Clients
  <2> DEFINE k == conn[c]
  <2>1. ConnOK(k)
    BY DEF IInv, ConnsOK
  <2> QED
    BY <1>1, <2>1, KeepsOK DEF IInv
<1> QED
  BY <1>1, <1>2 DEF IInv, ConnsOK

-----------------------------------------------------------------------------
(***************************************************************************)
(* The steps of a connection, which leave the server alone.                *)
(***************************************************************************)
LEMMA UpdateOK ==
    ASSUME IInv, NEW c \in Clients, NEW k, ConnOK(k), Update(c, k)
    PROVE  IInv'
<1>1. UNCHANGED <<phase, runs, served, thread, native_routes, allowed_origins, db>>
      /\ conn' = [conn EXCEPT ![c] = k]
  BY DEF Update, server, shared
<1>2. ServerOK'
  BY <1>1 DEF IInv, ServerOK, ServerTyped, RunsGiven, LatestRoutes, OriginsOfRun
<1>3. \A o \in Clients : ConnOK(conn[o])'
  <2> TAKE o \in Clients
  <2>1. conn'[o] = k \/ conn'[o] = conn[o]
    BY <1>1 DEF IInv, ConnsOK
  <2>2. ConnOK(conn'[o])
    BY <2>1 DEF IInv, ConnsOK
  <2> QED
    BY <1>1, <2>2 DEF ConnOK, StatementOK, KnownOK, RunOK, GrantOK
<1>4. conn' \in [Clients -> Connection]
  BY <1>1 DEF IInv, ConnsOK, ConnOK
<1> QED
  BY <1>2, <1>3, <1>4 DEF IInv, ConnsOK

LEMMA AskOK ==
    ASSUME IInv, NEW c \in Clients, Ask(c)
    PROVE  IInv'
<1>1. PICK r \in Runs, q \in Requests :
        /\ thread[r] \in {"listening", "told"}
        /\ Update(c, [NoConn EXCEPT !.pc = "asked", !.req = q, !.run = r, !.known = db # NoDb])
  BY DEF Ask
<1> DEFINE k == [NoConn EXCEPT !.pc = "asked", !.req = q, !.run = r, !.known = db # NoDb]
<1>2. /\ k.pc = "asked" /\ k.req = q /\ k.run = r /\ (k.known <=> db # NoDb) /\ k.at = 0
      /\ k.table = NoTable /\ k.using = NoDb /\ k.ran = "no" /\ k.status = 0 /\ k.grant = "none"
  BY DEF NoConn
<1>3. k \in Connection
  <2>1. "asked" \in Points /\ r \in 0..MaxRuns /\ (db # NoDb) \in BOOLEAN
    BY NativeAssumption DEF Points, Runs
  <2>2. NoConn \in Connection
    BY NoConnOK, NativeAssumption DEF IInv, ServerOK, ServerTyped, ConnOK
  <2> QED
    BY <2>1, <2>2 DEF Connection
<1>4. r <= runs
  BY <1>1 DEF IInv, ServerOK, RunsGiven
<1> HIDE DEF k
<1>5. StatementOK(k) /\ KnownOK(k)
  BY <1>2 DEF StatementOK, KnownOK
<1>6. RunOK(k) /\ GrantOK(k)
  BY <1>1, <1>2, <1>4 DEF RunOK, GrantOK
<1>7. Update(c, k)
  BY <1>1 DEF k
<1> QED
  BY <1>3, <1>5, <1>6, <1>7, UpdateOK DEF ConnOK

\* A connection after the assignments to its fields.
LEMMA ConnTyped ==
    ASSUME NEW k \in Connection, NEW p \in Points
    PROVE  /\ [k EXCEPT !.pc = p] \in Connection
           /\ \A r \in Results : [k EXCEPT !.ran = r] \in Connection
           /\ \A g \in Origins \cup {"none"} : [k EXCEPT !.pc = p, !.grant = g] \in Connection
<1>1. [k EXCEPT !.pc = p] \in Connection
  BY DEF Connection
<1>3. \A r \in Results : [k EXCEPT !.ran = r] \in Connection
  BY DEF Connection
<1>4. \A g \in Origins \cup {"none"} : [k EXCEPT !.pc = p, !.grant = g] \in Connection
  BY DEF Connection
<1> QED
  BY <1>1, <1>3, <1>4

\* A connection that is given a status, at any place.
Replied(k, s) == [k EXCEPT !.pc = "reply", !.status = s]

LEMMA RepliedTyped ==
    ASSUME NEW k \in Connection, NEW s \in Statuses, "reply" \in Points
    PROVE  Replied(k, s) \in Connection
  BY DEF Connection, Replied

LEMMA ReplyOK ==
    ASSUME IInv, NEW c \in Clients, NEW s \in Statuses,
           Update(c, Replied(conn[c], s)),
           s = 200 <=> conn[c].ran = "done",
           s = 503 => ~conn[c].known,
           conn[c].table # NoTable => conn[c].pc # "asked",
           conn[c].pc # "none"
    PROVE  IInv'
<1>0. ConnOK(conn[c]) /\ conn[c] \in Connection
  BY DEF IInv, ConnsOK, ConnOK
<1> DEFINE k == Replied(conn[c], s)
<1>1. k \in Connection
  <2>1. "reply" \in Points
    BY DEF Points
  <2> QED
    BY <1>0, <2>1, RepliedTyped
<1>2. /\ k.pc = "reply" /\ k.status = s /\ k.req = conn[c].req /\ k.run = conn[c].run
      /\ k.known = conn[c].known /\ k.at = conn[c].at /\ k.table = conn[c].table
      /\ k.using = conn[c].using /\ k.ran = conn[c].ran /\ k.grant = conn[c].grant
  BY <1>0 DEF Connection, Replied
<1>3. Update(c, k)
  OBVIOUS
<1> HIDE DEF k
<1>4. StatementOK(k) /\ KnownOK(k)
  BY <1>0, <1>2 DEF ConnOK, StatementOK, KnownOK
<1>5. RunOK(k) /\ GrantOK(k)
  BY <1>0, <1>2 DEF ConnOK, RunOK, GrantOK
<1> QED
  BY <1>1, <1>3, <1>4, <1>5, UpdateOK DEF ConnOK

LEMMA ResolveOK ==
    ASSUME IInv, NEW c \in Clients, Resolve(c)
    PROVE  IInv'
<1>0. ConnOK(conn[c]) /\ conn[c].pc = "asked" /\ conn[c].ran = "no"
  BY DEF IInv, ConnsOK, ConnOK, StatementOK, Resolve
<1> DEFINE table == native_routes[conn[c].req.method]
           k == [conn[c] EXCEPT !.at = runs, !.pc = "resolved", !.table = table]
<1>1. table \in Tables \cup {NoTable} /\ runs \in 0..MaxRuns /\ conn[c] \in Connection
  BY <1>0, NativeAssumption DEF IInv, ServerOK, ServerTyped, ConnOK, Connection
<1>2. ASSUME Update(c, Replied(conn[c], 404)) PROVE IInv'
  <2>1. 404 \in Statuses
    BY DEF Statuses
  <2>2. conn[c].table = NoTable
    BY <1>0 DEF ConnOK, RunOK
  <2>3. (404 = 200 <=> conn[c].ran = "done") /\ (404 = 503 => ~conn[c].known) /\ conn[c].pc # "none"
    BY <1>0
  <2> QED
    BY <1>2, <2>1, <2>2, <2>3, ReplyOK
<1>3. ASSUME Update(c, k) PROVE IInv'
  <2>1. k \in Connection
    <3>1. "resolved" \in Points
      BY DEF Points
    <3> QED
      BY <1>1, <3>1 DEF Connection
  <2>2. /\ k.pc = "resolved" /\ k.table = table /\ k.at = runs
        /\ k.req = conn[c].req /\ k.run = conn[c].run /\ k.known = conn[c].known
        /\ k.status = conn[c].status /\ k.using = conn[c].using
        /\ k.ran = conn[c].ran /\ k.grant = conn[c].grant
    BY <1>1 DEF Connection
  <2>3. k.run \in Runs
    BY <1>0, <2>2 DEF ConnOK, RunOK
  <2>4. LatestRoutes
    BY DEF IInv, ServerOK
  <2> HIDE DEF k
  <2>5. StatementOK(k) /\ KnownOK(k)
    BY <1>0, <2>2 DEF ConnOK, StatementOK, KnownOK
  <2>6. RunOK(k) /\ GrantOK(k)
    BY <1>0, <2>2, <2>3, <2>4 DEF ConnOK, RunOK, GrantOK, LatestRoutes
  <2> QED
    BY <1>3, <2>1, <2>5, <2>6, UpdateOK DEF ConnOK
<1> QED
  BY <1>2, <1>3 DEF Resolve, Replied

LEMMA TakeDbOK ==
    ASSUME IInv, NEW c \in Clients, TakeDb(c)
    PROVE  IInv'
<1>0. /\ ConnOK(conn[c]) /\ conn[c].pc = "resolved" /\ conn[c] \in Connection
      /\ conn[c].ran = "no" /\ (conn[c].known => db # NoDb)
  BY DEF IInv, ConnsOK, TakeDb, ConnOK, StatementOK, KnownOK
<1>1. ASSUME db = NoDb, Update(c, Replied(conn[c], 503))
      PROVE  IInv'
  <2>1. 503 \in Statuses
    BY DEF Statuses
  <2>2. /\ (503 = 200 <=> conn[c].ran = "done") /\ (503 = 503 => ~conn[c].known)
        /\ conn[c].pc # "asked" /\ conn[c].pc # "none"
    BY <1>0, <1>1
  <2> QED
    BY <1>1, <2>1, <2>2, ReplyOK
<1>2. ASSUME Update(c, Replied(conn[c], 500))
      PROVE  IInv'
  <2>1. 500 \in Statuses
    BY DEF Statuses
  <2>2. /\ (500 = 200 <=> conn[c].ran = "done") /\ (500 = 503 => ~conn[c].known)
        /\ conn[c].pc # "asked" /\ conn[c].pc # "none"
    BY <1>0
  <2> QED
    BY <1>2, <2>1, <2>2, ReplyOK
<1>3. ASSUME db # NoDb, ~Refused(conn[c].req, conn[c].table),
             Update(c, [conn[c] EXCEPT !.pc = "sent", !.using = db])
      PROVE  IInv'
  <2> DEFINE k == [conn[c] EXCEPT !.pc = "sent", !.using = db]
  <2>1. k \in Connection
    <3>1. db \in Dbs \cup {NoDb} /\ "sent" \in Points
      BY DEF IInv, ServerOK, ServerTyped, Points
    <3> QED
      BY <1>0, <3>1 DEF Connection
  <2>2. /\ k.pc = "sent" /\ k.status = conn[c].status /\ k.req = conn[c].req
        /\ k.run = conn[c].run /\ k.known = conn[c].known /\ k.at = conn[c].at
        /\ k.table = conn[c].table /\ k.using = db /\ k.ran = conn[c].ran
        /\ k.grant = conn[c].grant
    BY <1>0 DEF Connection
  <2>3. Update(c, k)
    BY <1>3
  <2> HIDE DEF k
  <2>4. StatementOK(k) /\ KnownOK(k)
    BY <1>0, <1>3, <2>2 DEF ConnOK, StatementOK, KnownOK
  <2>5. RunOK(k) /\ GrantOK(k)
    BY <1>0, <2>2 DEF ConnOK, RunOK, GrantOK
  <2> QED
    BY <2>1, <2>3, <2>4, <2>5, UpdateOK DEF ConnOK
<1> QED
  BY <1>1, <1>2, <1>3 DEF TakeDb, Replied

LEMMA ResultOK ==
    ASSUME IInv, NEW c \in Clients, Result(c)
    PROVE  IInv'
<1>1. /\ ConnOK(conn[c]) /\ conn[c].pc = "sent"
      /\ Update(c, Replied(conn[c], StatusOf(conn[c].ran)))
  BY DEF IInv, ConnsOK, Result, Replied
<1> DEFINE s == StatusOf(conn[c].ran)
<1>2. /\ s \in Statuses /\ (s = 200 <=> conn[c].ran = "done")
      /\ (s = 503 => ~conn[c].known)
      /\ conn[c].pc # "asked" /\ conn[c].pc # "none"
      /\ Update(c, Replied(conn[c], s))
  BY <1>1 DEF StatusOf, Statuses
<1> HIDE DEF s
<1> QED
  BY <1>2, ReplyOK

LEMMA ExecuteOK ==
    ASSUME IInv, NEW c \in Clients, Execute(c)
    PROVE  IInv'
<1>0. /\ ConnOK(conn[c]) /\ conn[c] \in Connection
      /\ conn[c].pc \in {"sent", "dropped"} /\ conn[c].using # NoDb
  BY DEF IInv, ConnsOK, Execute, ConnOK
<1>1. PICK r \in Results : Update(c, [conn[c] EXCEPT !.ran = r])
  BY DEF Execute
<1> DEFINE k == [conn[c] EXCEPT !.ran = r]
<1>2. k \in Connection
  BY <1>0 DEF Connection
<1>3. /\ k.pc = conn[c].pc /\ k.status = conn[c].status /\ k.req = conn[c].req
      /\ k.run = conn[c].run /\ k.known = conn[c].known /\ k.at = conn[c].at
      /\ k.table = conn[c].table /\ k.using = conn[c].using /\ k.grant = conn[c].grant
  BY <1>0 DEF Connection
<1>4. Update(c, k)
  BY <1>1
<1> HIDE DEF k
<1>5. StatementOK(k) /\ KnownOK(k)
  BY <1>0, <1>3 DEF ConnOK, StatementOK, KnownOK
<1>6. RunOK(k) /\ GrantOK(k)
  BY <1>0, <1>3 DEF ConnOK, RunOK, GrantOK
<1> QED
  BY <1>2, <1>4, <1>5, <1>6, UpdateOK DEF ConnOK

LEMMA GrantCases ==
    ASSUME NEW origin
    PROVE  \/ Grant(origin) = "none"
           \/ Grant(origin) \in allowed_origins /\ Grant(origin) \in {"*", origin}
  BY DEF Grant

LEMMA AnswerOK ==
    ASSUME IInv, NEW c \in Clients, Answer(c)
    PROVE  IInv'
<1>0. ConnOK(conn[c]) /\ conn[c] \in Connection /\ conn[c].pc = "reply"
  BY DEF IInv, ConnsOK, Answer, ConnOK
<1> DEFINE g == Grant(conn[c].req.origin)
           k == [conn[c] EXCEPT !.pc = "answered", !.grant = g]
<1>1. g = "none" \/ (g \in allowed_origins /\ g \in {"*", conn[c].req.origin})
  BY GrantCases
<1>2. k \in Connection
  <2>1. "answered" \in Points /\ g \in Origins \cup {"none"}
    BY <1>1 DEF Points, IInv, ServerOK, ServerTyped
  <2> HIDE DEF g
  <2> QED
    BY <1>0, <2>1 DEF Connection
<1>3. /\ k.pc = "answered" /\ k.status = conn[c].status /\ k.req = conn[c].req
      /\ k.run = conn[c].run /\ k.known = conn[c].known /\ k.at = conn[c].at
      /\ k.table = conn[c].table /\ k.using = conn[c].using /\ k.ran = conn[c].ran
      /\ k.grant = g
  BY <1>0 DEF Connection
<1>4. Update(c, k)
  BY DEF Answer
<1>5. g # "none" => \E r \in Runs : r <= runs /\ r >= conn[c].run /\ g \in served[r].origins
  <2> SUFFICES ASSUME g # "none"
               PROVE  \E r \in Runs : r <= runs /\ r >= conn[c].run /\ g \in served[r].origins
    OBVIOUS
  <2>1. g \in allowed_origins
    BY <1>1
  <2>2. PICK o \in Runs :
            /\ o <= runs /\ allowed_origins = served[o].origins
            /\ \A r \in Runs : thread[r] # "none" => r <= o
    BY <2>1 DEF IInv, ServerOK, OriginsOfRun
  <2>3. conn[c].run \in Runs /\ thread[conn[c].run] # "none"
    BY <1>0 DEF ConnOK, RunOK
  <2> HIDE DEF g
  <2> QED
    BY <2>1, <2>2, <2>3 DEF Runs
<1> HIDE DEF k, g
<1>6. StatementOK(k) /\ KnownOK(k)
  BY <1>0, <1>3 DEF ConnOK, StatementOK, KnownOK
<1>7. RunOK(k)
  BY <1>0, <1>3 DEF ConnOK, RunOK
<1>8. GrantOK(k)
  BY <1>0, <1>1, <1>3, <1>5 DEF GrantOK
<1> QED
  BY <1>2, <1>4, <1>6, <1>7, <1>8, UpdateOK DEF ConnOK

\* A connection that is dropped, by the client, the clock or the end of its thread.
LEMMA DroppedOK ==
    ASSUME NEW k \in Connection, ConnOK(k), k.pc \in {"asked", "sent", "reply"}
    PROVE  ConnOK([k EXCEPT !.pc = "dropped"])
<1> DEFINE d == [k EXCEPT !.pc = "dropped"]
<1>1. d \in Connection
  <2>1. "dropped" \in Points
    BY DEF Points
  <2> QED
    BY <2>1 DEF Connection
<1>2. /\ d.pc = "dropped" /\ d.status = k.status /\ d.req = k.req /\ d.run = k.run
      /\ d.known = k.known /\ d.at = k.at /\ d.table = k.table /\ d.using = k.using
      /\ d.ran = k.ran /\ d.grant = k.grant
  BY DEF Connection
<1> HIDE DEF d
<1>3. ConnOK(d)
  BY <1>1, <1>2 DEF ConnOK, StatementOK, KnownOK, RunOK, GrantOK
<1> QED
  BY <1>3 DEF d

LEMMA ThreadExitOK ==
    ASSUME IInv, NEW r \in Runs, ThreadExit(r)
    PROVE  IInv'
<1>1. /\ UNCHANGED <<phase, runs, served, native_routes, allowed_origins, db>>
      /\ thread[r] = "told" /\ thread' = [thread EXCEPT ![r] = "gone"]
  BY DEF ThreadExit, shared
<1>2. ServerOK'
  BY <1>1 DEF IInv, ServerOK, ServerTyped, RunsGiven, LatestRoutes, OriginsOfRun
<1>3. Keeps
  BY <1>1, NativeAssumption DEF Keeps, IInv, ServerOK, ServerTyped
<1>4. ASSUME NEW c \in Clients PROVE ConnOK(conn[c])' /\ conn'[c] \in Connection
  <2>1. ConnOK(conn[c]) /\ conn[c] \in Connection
    BY DEF IInv, ConnsOK
  <2>2. \/ conn'[c] = conn[c]
        \/ /\ conn[c].pc \in {"asked", "sent", "reply"}
           /\ conn'[c] = [conn[c] EXCEPT !.pc = "dropped"]
    BY DEF ThreadExit
  <2>3. ConnOK(conn'[c])
    BY <2>1, <2>2, DroppedOK
  <2> DEFINE k == conn'[c]
  <2>4. k.run \in 0..MaxRuns
    BY <2>3 DEF ConnOK, Connection
  <2> QED
    BY <1>3, <2>3, <2>4, KeepsOK DEF IInv, ConnOK
<1>5. conn' \in [Clients -> Connection]
  BY <1>4 DEF ThreadExit
<1> QED
  BY <1>2, <1>4, <1>5 DEF IInv, ConnsOK
-----------------------------------------------------------------------------
(***************************************************************************)
(* The theorems.                                                           *)
(***************************************************************************)
LEMMA StepOK == IInv /\ [Next]_vars => IInv'
<1>1. ASSUME IInv, ServeStep PROVE IInv'
  BY <1>1, ServeOK
<1>2. ASSUME IInv, NEW r \in Runs, ThreadExit(r) PROVE IInv'
  BY <1>2, ThreadExitOK
<1>3. ASSUME IInv, NEW c \in Clients, Ask(c) \/ Proceed(c) \/ Execute(c) PROVE IInv'
  BY <1>3, AskOK, ResolveOK, TakeDbOK, ResultOK, AnswerOK, ExecuteOK DEF Proceed
<1>4. ASSUME IInv, NEW c \in Clients, Drop(c) PROVE IInv'
  <2>1. ConnOK(conn[c]) /\ conn[c] \in Connection /\ conn[c].pc \in {"asked", "sent", "reply"}
        /\ Update(c, [conn[c] EXCEPT !.pc = "dropped"])
    BY <1>4 DEF Drop, IInv, ConnsOK
  <2> DEFINE k == [conn[c] EXCEPT !.pc = "dropped"]
  <2>2. ConnOK(k) /\ Update(c, k)
    BY <2>1, DroppedOK
  <2> HIDE DEF k
  <2> QED
    BY <1>4, <2>2, UpdateOK
<1>5. ASSUME IInv, NEW c \in Clients, Forget(c) PROVE IInv'
  <2>1. ConnOK(NoConn) /\ Update(c, NoConn)
    BY <1>5, NoConnOK, NativeAssumption DEF Forget, IInv, ServerOK, ServerTyped
  <2> QED
    BY <1>5, <2>1, UpdateOK
<1>6. ASSUME IInv, UNCHANGED vars PROVE IInv'
  <2>1. UNCHANGED <<phase, runs, served, thread, native_routes, allowed_origins, db, conn>>
    BY <1>6 DEF vars, server, shared
  <2> QED
    BY <1>6, <2>1 DEF IInv, ServerOK, ServerTyped, RunsGiven, LatestRoutes, OriginsOfRun,
       ConnsOK, ConnOK, StatementOK, KnownOK, RunOK, GrantOK
<1> QED
  BY <1>1, <1>2, <1>3, <1>4, <1>5, <1>6 DEF Next, ServeStep

LEMMA Inductive == Spec => []IInv
  BY InitOK, StepOK, PTL DEF Spec, SafeSpec

\* The types hold in every state: no statement runs for a request that has not
\* taken a database.
THEOREM TypeCorrect == Spec => []TypeOK
<1>1. IInv => TypeOK
  BY DEF IInv, ServerOK, ServerTyped, ConnsOK, ConnOK, StatementOK, TypeOK
<1> QED
  BY <1>1, Inductive, PTL

\* 200 is answered exactly when the statement was carried out, and 503 only when
\* there was no database, in every schedule of stops, starts, connects and
\* dropped connections.
THEOREM AnswerHonestHolds == Spec => []AnswerHonest
<1>1. IInv => AnswerHonest
  BY DEF IInv, ConnsOK, ConnOK, StatementOK, KnownOK, AnswerHonest
<1> QED
  BY <1>1, Inductive, PTL

\* A request resolved before the next app is registered works on the table of
\* its own app, though the routes of earlier apps are never removed.
THEOREM OwnTableHolds == Spec => []OwnTable
<1>1. IInv => OwnTable
  BY DEF IInv, ConnsOK, ConnOK, RunOK, OwnTable
<1> QED
  BY <1>1, Inductive, PTL

\* The origin allowed to read an answer is one that the app of the run, or a
\* later one, has allowed.
THEOREM GrantHonestHolds == Spec => []GrantHonest
<1>1. IInv => GrantHonest
  BY DEF IInv, ConnsOK, ConnOK, GrantOK, GrantHonest
<1> QED
  BY <1>1, Inductive, PTL

-----------------------------------------------------------------------------
(***************************************************************************)
(* The clients of RowService.                                              *)
(***************************************************************************)
Place(k) == IF k.pc \in {"none", "answered", "dropped"} THEN k.pc ELSE "open"

\* What Client(c) is for a connection k.
Asker(k) == Rows!At(Place(k), k.ran, k.pc = "answered" /\ k.status = 200)

clientBar == [c \in Clients |-> Client(c)]

LEMMA ClientIs == \A c \in Clients : Client(c) = Asker(conn[c])
  BY DEF Client, Asker, Place, Rows!At

\* A step of one connection is one of its client.
LEMMA UpdateMaps ==
    ASSUME IInv, NEW c \in Clients, NEW k, Update(c, k)
    PROVE  clientBar' = [clientBar EXCEPT ![c] = Asker(k)] /\ clientBar[c] = Asker(conn[c])
<1>1. conn' = [conn EXCEPT ![c] = k] /\ conn \in [Clients -> Connection]
  BY DEF Update, IInv, ConnsOK
<1>2. clientBar = [o \in Clients |-> Asker(conn[o])] /\ clientBar' = [o \in Clients |-> Asker(conn'[o])]
  BY ClientIs DEF clientBar, Client, Asker, Place, Rows!At
<1> QED BY <1>1, <1>2

\* What is done for a request behind the client's back.
LEMMA SameAsker ==
    ASSUME IInv, NEW c \in Clients, NEW k, Update(c, k), Asker(k) = Asker(conn[c])
    PROVE  clientBar' = clientBar
  BY UpdateMaps DEF clientBar

LEMMA ProceedMaps ==
    ASSUME IInv, NEW c \in Clients, Proceed(c)
    PROVE  [Rows!Next]_clientBar
<1>1. conn[c] \in Connection /\ StatementOK(conn[c])
  BY DEF IInv, ConnsOK, ConnOK
<1>2. ASSUME NEW k, Update(c, k), k.pc \in {"resolved", "sent", "reply"}, k.ran = conn[c].ran,
             conn[c].pc \in {"asked", "resolved", "sent"}
      PROVE  clientBar' = clientBar
  <2>1. Asker(k) = Asker(conn[c])
    BY <1>2 DEF Asker, Place, Rows!At
  <2> QED BY <1>2, <2>1, SameAsker
<1>3. CASE Resolve(c)
  <2>1. PICK k \in {[conn[c] EXCEPT !.pc = "reply", !.status = 404],
                    [conn[c] EXCEPT !.at = runs, !.pc = "resolved",
                                    !.table = native_routes[conn[c].req.method]]} :
            conn[c].pc = "asked" /\ Update(c, k)
    BY <1>3 DEF Resolve
  <2>2. k.pc \in {"reply", "resolved"} /\ k.ran = conn[c].ran
    BY <1>1, <2>1 DEF Connection
  <2> QED BY <1>2, <2>1, <2>2
<1>4. CASE TakeDb(c)
  <2>1. PICK k \in {[conn[c] EXCEPT !.pc = "reply", !.status = 503],
                    [conn[c] EXCEPT !.pc = "reply", !.status = 500],
                    [conn[c] EXCEPT !.pc = "sent", !.using = db]} :
            conn[c].pc = "resolved" /\ Update(c, k)
    BY <1>4 DEF TakeDb
  <2>2. k.pc \in {"reply", "sent"} /\ k.ran = conn[c].ran
    <3>1. CASE k = [conn[c] EXCEPT !.pc = "sent", !.using = db]
      BY <1>1, <3>1 DEF Connection
    <3>2. ASSUME NEW st \in {503, 500}, k = [conn[c] EXCEPT !.pc = "reply", !.status = st]
          PROVE  k.pc = "reply" /\ k.ran = conn[c].ran
      BY <1>1, <3>2 DEF Connection
    <3> QED BY <2>1, <3>1, <3>2
  <2> QED BY <1>2, <2>1, <2>2
<1>5. CASE Result(c)
  <2> DEFINE k == [conn[c] EXCEPT !.pc = "reply", !.status = StatusOf(conn[c].ran)]
  <2>1. conn[c].pc = "sent" /\ Update(c, k)
    BY <1>5 DEF Result
  <2>2. k.pc = "reply" /\ k.ran = conn[c].ran
    BY <1>1 DEF Connection
  <2> HIDE DEF k
  <2> QED BY <1>2, <2>1, <2>2
<1>6. CASE Answer(c)
  <2> DEFINE k == [conn[c] EXCEPT !.pc = "answered", !.grant = Grant(conn[c].req.origin)]
  <2>1. conn[c].pc = "reply" /\ Update(c, k)
    BY <1>6 DEF Answer
  <2>2. k.pc = "answered" /\ k.ran = conn[c].ran /\ k.status = conn[c].status
    BY <1>1 DEF Connection
  <2> HIDE DEF k
  <2>3. conn[c].status = 200 <=> conn[c].ran = "done"
    BY <1>1, <2>1 DEF StatementOK
  <2>4. Asker(k) = Rows!At("answered", conn[c].ran, conn[c].ran = "done")
    <3>1. Place(k) = "answered" /\ (k.pc = "answered" /\ k.status = 200) = (conn[c].ran = "done")
      BY <2>2, <2>3 DEF Place
    <3> QED BY <2>2, <3>1 DEF Asker
  <2>5. Asker(conn[c]).place = "open" /\ Asker(conn[c]).ran = conn[c].ran
    BY <2>1 DEF Asker, Place, Rows!At
  <2>6. /\ clientBar' = [clientBar EXCEPT ![c] = Rows!At("answered", conn[c].ran, conn[c].ran = "done")]
        /\ clientBar[c].place = "open" /\ clientBar[c].ran = conn[c].ran
    BY <2>1, <2>4, <2>5, UpdateMaps
  <2>7. Rows!Answer(c)
    BY <2>6 DEF Rows!Answer, clientBar
  <2> QED BY <2>7 DEF Rows!Next
<1> QED BY <1>3, <1>4, <1>5, <1>6 DEF Proceed

\* A statement is carried out for a client that waits, or is gone.
LEMMA ExecuteMaps ==
    ASSUME IInv, NEW c \in Clients, Execute(c)
    PROVE  [Rows!Next]_clientBar
<1>1. conn[c] \in Connection /\ conn[c].pc \in {"sent", "dropped"} /\ conn[c].ran = "no"
  BY DEF Execute, IInv, ConnsOK
<1>2. PICK result \in Results : Update(c, [conn[c] EXCEPT !.ran = result])
  BY DEF Execute
<1> DEFINE k == [conn[c] EXCEPT !.ran = result]
<1>3. k.pc = conn[c].pc /\ k.ran = result
  BY <1>1 DEF Connection
<1>4. Update(c, k)
  BY <1>2
<1> HIDE DEF k
<1>5. clientBar[c] = Rows!At(Place(conn[c]), "no", FALSE)
      /\ clientBar' = [clientBar EXCEPT ![c] = Rows!At(Place(conn[c]), result, FALSE)]
  BY <1>1, <1>3, <1>4, UpdateMaps DEF Asker, Place
<1>6. clientBar[c].place = Place(conn[c]) /\ clientBar[c].ran = "no"
      /\ Place(conn[c]) \in {"open", "dropped"}
  BY <1>1, <1>5 DEF Rows!At, Place
<1>7. Rows!Execute(c)
  BY <1>5, <1>6 DEF Rows!Execute, clientBar
<1> QED BY <1>7 DEF Rows!Next

\* A client comes, and makes room for the next.
LEMMA ComeAndGo ==
    ASSUME IInv, NEW c \in Clients, Ask(c) \/ Forget(c)
    PROVE  [Rows!Next]_clientBar
<1>1. conn[c] \in Connection /\ StatementOK(conn[c])
  BY DEF IInv, ConnsOK, ConnOK
<1>2. CASE Ask(c)
  <2>1. PICK r \in Runs, q \in Requests :
            Update(c, [NoConn EXCEPT !.pc = "asked", !.req = q, !.run = r, !.known = db # NoDb])
    BY <1>2 DEF Ask
  <2> DEFINE k == [NoConn EXCEPT !.pc = "asked", !.req = q, !.run = r, !.known = db # NoDb]
  <2>2. k.pc = "asked" /\ k.ran = "no" /\ Update(c, k)
    BY <2>1 DEF NoConn
  <2> HIDE DEF k
  <2>3. conn[c].pc = "none" /\ conn[c].ran = "no"
    BY <1>1, <1>2 DEF Ask, StatementOK
  <2>4. Asker(k) = Rows!At("open", "no", FALSE) /\ Asker(conn[c]) = Rows!NoClient
    BY <2>2, <2>3 DEF Asker, Place, Rows!NoClient, Rows!At
  <2>5. clientBar[c] = Rows!NoClient
        /\ clientBar' = [clientBar EXCEPT ![c] = Rows!At("open", "no", FALSE)]
    BY <2>2, <2>4, UpdateMaps
  <2>6. Rows!Open(c)
    BY <2>5 DEF Rows!Open, clientBar
  <2> QED BY <2>6 DEF Rows!Next
<1>3. CASE Forget(c)
  <2>1. conn[c].pc \in {"answered", "dropped"} /\ Update(c, NoConn)
    BY <1>3 DEF Forget
  <2>2. Asker(NoConn) = Rows!NoClient
    BY DEF Asker, Place, NoConn, Rows!NoClient, Rows!At
  <2>3. Asker(conn[c]).place = conn[c].pc
    BY <2>1 DEF Asker, Place, Rows!At
  <2>4. clientBar[c].place = conn[c].pc /\ clientBar' = [clientBar EXCEPT ![c] = Rows!NoClient]
    BY <2>1, <2>2, <2>3, UpdateMaps
  <2>5. Rows!Forget(c)
    BY <2>1, <2>4 DEF Rows!Forget, clientBar
  <2> QED BY <2>5 DEF Rows!Next
<1> QED BY <1>2, <1>3

\* Connections that were open are dropped, with or without a statement.
LEMMA DropMaps ==
    ASSUME IInv, NEW gone \in SUBSET Clients,
           \A c \in gone : conn[c].pc \in {"asked", "sent", "reply"},
           conn' = [c \in Clients |-> IF c \in gone THEN [conn[c] EXCEPT !.pc = "dropped"] ELSE conn[c]]
    PROVE  Rows!Drop(gone)
<1>1. ASSUME NEW c \in Clients
      PROVE  Client(c)' = IF c \in gone /\ Client(c).place = "open"
                          THEN Rows!At("dropped", Client(c).ran, FALSE) ELSE Client(c)
  <2>0. conn[c] \in Connection
    BY DEF IInv, ConnsOK
  <2>1. CASE c \in gone
    <3> DEFINE k == [conn[c] EXCEPT !.pc = "dropped"]
    <3>1. conn'[c] = k /\ k.pc = "dropped" /\ k.ran = conn[c].ran
      BY <2>0, <2>1 DEF Connection
    <3> HIDE DEF k
    <3>2. Client(c)' = [place |-> "dropped", ran |-> conn[c].ran, told |-> FALSE]
      BY <3>1 DEF Client
    <3>3. Client(c).place = "open" /\ Client(c).ran = conn[c].ran
      BY <2>1 DEF Client
    <3> QED BY <2>1, <3>2, <3>3 DEF Rows!At
  <2>2. CASE c \notin gone
    BY <2>2 DEF Client
  <2> QED BY <2>1, <2>2
<1> QED BY <1>1 DEF Rows!Drop

\* The safety half of ImplementsRows, with any connections, requests and databases:
\* a request has one statement carried out at most, none after its answer, and the
\* answer tells whether it was, whatever servers and databases come and go.
THEOREM RefinesRows == SafeSpec => Rows!SafeSpec
<1>1. Init => Rows!Init
  <2> SUFFICES ASSUME Init PROVE Rows!Init
    OBVIOUS
  <2>1. \A c \in Clients : Client(c) = Rows!NoClient
    BY DEF Init, Client, NoConn, Rows!NoClient, Rows!At
  <2> QED BY <2>1 DEF Rows!Init
<1>2. ASSUME IInv, [Next]_vars PROVE [Rows!Next]_clientBar
  <2>1. CASE UNCHANGED conn
    <3>1. clientBar' = clientBar
      BY <2>1 DEF clientBar, Client
    <3> QED BY <3>1
  <2>2. ASSUME ServeStep PROVE UNCHANGED conn
    BY <1>2, <2>2, ServeKeeps DEF IInv
  <2>3. ASSUME NEW r \in Runs, ThreadExit(r) PROVE [Rows!Next]_clientBar
    <3> DEFINE gone == {c \in Clients : conn[c].run = r /\ conn[c].pc \in {"asked", "sent", "reply"}}
    <3>1. conn' = [c \in Clients |-> IF c \in gone THEN [conn[c] EXCEPT !.pc = "dropped"] ELSE conn[c]]
      BY <2>3 DEF ThreadExit
    <3>2. Rows!Drop(gone)
      BY <1>2, <3>1, DropMaps
    <3> QED BY <3>2 DEF Rows!Next
  <2>4. ASSUME NEW c \in Clients, Drop(c) PROVE [Rows!Next]_clientBar
    <3>1. conn[c].pc \in {"asked", "sent", "reply"} /\ conn' = [conn EXCEPT ![c] = [conn[c] EXCEPT !.pc = "dropped"]]
      BY <2>4 DEF Drop, Update
    <3>2. conn' = [o \in Clients |-> IF o \in {c} THEN [conn[o] EXCEPT !.pc = "dropped"] ELSE conn[o]]
      BY <1>2, <3>1 DEF IInv, ConnsOK
    <3>3. Rows!Drop({c})
      BY <1>2, <3>1, <3>2, DropMaps
    <3> QED BY <3>3 DEF Rows!Next
  <2> QED
    BY <1>2, <2>1, <2>2, <2>3, <2>4, ProceedMaps, ExecuteMaps, ComeAndGo DEF Next, ServeStep, vars
<1> QED BY <1>1, <1>2, InitOK, StepOK, PTL DEF SafeSpec, Rows!SafeSpec, clientBar
=============================================================================
