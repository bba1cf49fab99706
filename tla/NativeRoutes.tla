----------------------------- MODULE NativeRoutes -----------------------------
(***************************************************************************)
(* Native routes: requests that Rust answers from a database, without      *)
(* Julia. A connection looks three times at the server state, with the     *)
(* lock released in between: for the route, for the database, and, when it *)
(* writes the answer, for the origins that may read it. Meanwhile Julia    *)
(* connects to another database, stops the server and serves another app.  *)
(*                                                                         *)
(* A run is a call of serve(), as in ServerLifecycle, and runs do not      *)
(* overlap; the thread of an old run may live on while the next one is     *)
(* registered. RouteTable has which path matches which pattern: here a     *)
(* native route is its method, and the path says only which row it names.  *)
(* The database is external: a statement is carried out or fails.          *)
(***************************************************************************)
EXTENDS Naturals, FiniteSets

CONSTANTS
    Clients,   \* the connections there can be at a time
    Apps,      \* what may be served: methods, table and origins
    Requests,  \* what may be asked: method, id, body and origin
    Dbs,       \* the databases there are
    NoDb,      \* none is connected
    BadTable,  \* the name of a table that is no identifier
    NoTable,   \* there is no native route
    MaxRuns    \* bound on the calls of serve()

Methods == {"GET", "POST", "PUT", "PATCH", "DELETE", "HEAD"}
Origins == {"*"} \cup {q.origin : q \in Requests}
Tables == {a.table : a \in Apps}

ASSUME NativeAssumption ==
    /\ MaxRuns \in Nat
    /\ Apps # {} /\ Requests # {}
    /\ NoDb \notin Dbs /\ NoTable \notin Tables
    /\ \A a \in Apps : a.methods \subseteq Methods /\ a.origins \subseteq Origins
    /\ \A q \in Requests :
        q.method \in Methods /\ q.id \in Nat /\ q.body \in BOOLEAN /\ q.origin # "*"

Runs == 1..MaxRuns

Points == {"none", "asked", "resolved", "sent", "reply", "answered", "dropped"}
Results == {"done", "absent", "failed"}
Statuses == {200, 404, 500, 503}

VARIABLES
    phase,           \* where serve() is
    runs,            \* the calls of serve() so far
    served,          \* served[r]: the app of run r
    thread,          \* thread[r]: its server thread
    native_routes,   \* ServerState.native_routes: the table for each method
    allowed_origins, \* ServerState.allowed_origins
    db,              \* ServerState.db
    conn             \* conn[c]: a connection, see NoConn

server == <<phase, runs, served, thread>>
shared == <<native_routes, allowed_origins, db>>
vars == <<server, shared, conn>>

\* run: whose thread has the connection. known: a database was connected when
\* the request was sent. at: the runs there were, and table: what the route
\* said, when it was resolved. using: the database a statement was sent to. ran:
\* what became of the statement. grant: the origin that the answer allows.
AnyRequest == CHOOSE q \in Requests : TRUE
AnyApp == CHOOSE a \in Apps : TRUE
NoConn == [pc |-> "none", req |-> AnyRequest, run |-> 0, known |-> FALSE, at |-> 0,
           table |-> NoTable, using |-> NoDb, ran |-> "no", status |-> 0, grant |-> "none"]

Init ==
    /\ phase = "idle" /\ runs = 0
    /\ served = [r \in Runs |-> AnyApp]
    /\ thread = [r \in Runs |-> "none"]
    /\ native_routes = [m \in Methods |-> NoTable]
    /\ allowed_origins = {}
    /\ db = NoDb
    /\ conn = [c \in Clients |-> NoConn]

(***************************************************************************)
(* serve(), stop_server!() and connect_db().                               *)
(***************************************************************************)
\* Mutant of Inserted: a route that is there is left as it is.
InsertedOnce(a) ==
    [m \in Methods |-> IF m \in a.methods /\ native_routes[m] = NoTable
                       THEN a.table ELSE native_routes[m]]

\* The routes of the app, over those that are there.
Inserted(a) == [m \in Methods |-> IF m \in a.methods THEN a.table ELSE native_routes[m]]

Register ==
    /\ phase = "idle" /\ runs < MaxRuns
    /\ runs' = runs + 1
    /\ phase' = "routes"
    /\ \E a \in Apps :
        /\ served' = [served EXCEPT ![runs + 1] = a]
        /\ native_routes' = Inserted(a)
    /\ UNCHANGED <<thread, allowed_origins, db, conn>>

SetOrigins ==
    /\ phase = "routes"
    /\ allowed_origins' = served[runs].origins
    /\ phase' = "origins"
    /\ UNCHANGED <<runs, served, thread, native_routes, db, conn>>

\* The address is free when no other thread listens.
Listen ==
    /\ phase = "origins"
    /\ \A r \in Runs : thread[r] \notin {"listening", "told"}
    /\ thread' = [thread EXCEPT ![runs] = "listening"]
    /\ phase' = "serving"
    /\ UNCHANGED <<runs, served, shared, conn>>

\* serve() throws, and leaves behind what it has registered.
ListenFails ==
    /\ phase = "origins"
    /\ phase' = "idle"
    /\ UNCHANGED <<runs, served, thread, shared, conn>>

\* fmh_server_stop forgets the origins, and neither native routes nor database.
Stop ==
    /\ phase = "serving"
    /\ thread' = [thread EXCEPT ![runs] = "told"]
    /\ allowed_origins' = {}
    /\ phase' = "idle"
    /\ UNCHANGED <<runs, served, native_routes, db, conn>>

\* fmh_db_connect puts the new connection in place of the old one; when it
\* fails the old one stays.
Connect ==
    /\ \E d \in Dbs : db' = d
    /\ UNCHANGED <<server, native_routes, allowed_origins, conn>>

(***************************************************************************)
(* A connection. It writes nothing that another one reads, so their turns  *)
(* on the thread are left out. From the route to the database there is no  *)
(* await: there the thread does not end, nor is the connection dropped.    *)
(***************************************************************************)
Update(c, new) == conn' = [conn EXCEPT ![c] = new] /\ UNCHANGED <<server, shared>>

Ask(c) ==
    /\ conn[c].pc = "none"
    /\ \E r \in Runs, q \in Requests :
        /\ thread[r] \in {"listening", "told"}
        /\ Update(c, [NoConn EXCEPT !.pc = "asked", !.req = q, !.run = r, !.known = db # NoDb])

Resolve(c) ==
    /\ conn[c].pc = "asked"
    /\ LET table == native_routes[conn[c].req.method]
       IN Update(c, IF table = NoTable
                    THEN [conn[c] EXCEPT !.pc = "reply", !.status = 404]
                    ELSE [conn[c] EXCEPT !.at = runs, !.pc = "resolved", !.table = table])

\* What handle_native_request refuses before it asks the database: a table that
\* is no identifier, another method, a path that does not end in a number, a
\* body that is no JSON object with identifiers for keys.
Refused(q, table) ==
    \/ table = BadTable \/ q.method = "HEAD"
    \/ q.method \in {"PUT", "PATCH", "DELETE"} /\ q.id = 0
    \/ q.method \in {"POST", "PUT", "PATCH"} /\ ~q.body

TakeDb(c) ==
    /\ conn[c].pc = "resolved"
    /\ IF db = NoDb THEN Update(c, [conn[c] EXCEPT !.pc = "reply", !.status = 503])
       ELSE IF Refused(conn[c].req, conn[c].table)
       THEN Update(c, [conn[c] EXCEPT !.pc = "reply", !.status = 500])
       ELSE Update(c, [conn[c] EXCEPT !.pc = "sent", !.using = db])

\* The rows the statement reads or writes: the one the path names, a new one, or
\* the table. Of a row that is not there a write is a success all the same.
Scope(q) == IF q.method = "POST" THEN "new" ELSE IF q.id = 0 THEN "table" ELSE "row"

\* Mutant of Execute: there is a statement for every request.
ExecuteAny(c) ==
    /\ conn[c].pc \in {"sent", "dropped"} /\ conn[c].ran = "no"
    /\ \E result \in Results :
        /\ result = "absent" => conn[c].req.method = "GET" /\ Scope(conn[c].req) = "row"
        /\ Update(c, [conn[c] EXCEPT !.ran = result])

\* The database carries the statement out, also after the connection that sent
\* it was dropped; or finds no row to return, or fails.
Execute(c) ==
    /\ conn[c].pc \in {"sent", "dropped"} /\ conn[c].using # NoDb /\ conn[c].ran = "no"
    /\ \E result \in Results :
        /\ result = "absent" => conn[c].req.method = "GET" /\ Scope(conn[c].req) = "row"
        /\ Update(c, [conn[c] EXCEPT !.ran = result])

\* Mutant of StatusOf: no row is an answer like any other.
StatusOfAny(ran) == IF ran = "failed" THEN 500 ELSE 200

StatusOf(ran) == IF ran = "done" THEN 200 ELSE 500

\* Mutant of Result: nobody waits for an error.
ResultDone(c) ==
    /\ conn[c].pc = "sent" /\ conn[c].ran = "done"
    /\ Update(c, [conn[c] EXCEPT !.pc = "reply", !.status = StatusOf(conn[c].ran)])

\* The handler returns what the database says.
Result(c) ==
    /\ conn[c].pc = "sent" /\ conn[c].ran # "no"
    /\ Update(c, [conn[c] EXCEPT !.pc = "reply", !.status = StatusOf(conn[c].ran)])

\* Mutant of Grant: whoever asks is allowed once anyone is.
GrantAnyone(origin) ==
    IF allowed_origins = {} THEN "none"
    ELSE IF "*" \in allowed_origins THEN "*" ELSE origin

\* resolve_allow_origin.
Grant(origin) ==
    IF "*" \in allowed_origins THEN "*"
    ELSE IF origin \in allowed_origins THEN origin
    ELSE "none"

Answer(c) ==
    /\ conn[c].pc = "reply"
    /\ Update(c, [conn[c] EXCEPT !.pc = "answered", !.grant = Grant(conn[c].req.origin)])

\* The client is gone, or the 30 seconds are over. A statement that was sent is
\* not taken back.
Drop(c) ==
    /\ conn[c].pc \in {"asked", "sent", "reply"}
    /\ Update(c, [conn[c] EXCEPT !.pc = "dropped"])

\* The connection makes room for another one.
Forget(c) ==
    /\ conn[c].pc \in {"answered", "dropped"}
    /\ Update(c, NoConn)

\* The server thread ends, and drops what connections it has.
ThreadExit(r) ==
    /\ thread[r] = "told"
    /\ \A c \in Clients : conn[c].run = r => conn[c].pc # "resolved"
    /\ thread' = [thread EXCEPT ![r] = "gone"]
    /\ conn' = [c \in Clients |->
                    IF conn[c].run = r /\ conn[c].pc \in {"asked", "sent", "reply"}
                    THEN [conn[c] EXCEPT !.pc = "dropped"] ELSE conn[c]]
    /\ UNCHANGED <<phase, runs, served, shared>>

-----------------------------------------------------------------------------
Proceed(c) == Resolve(c) \/ TakeDb(c) \/ Result(c) \/ Answer(c)

Next ==
    \/ Register \/ SetOrigins \/ Listen \/ ListenFails \/ Stop \/ Connect
    \/ \E r \in Runs : ThreadExit(r)
    \/ \E c \in Clients : Ask(c) \/ Proceed(c) \/ Execute(c) \/ Drop(c) \/ Forget(c)

\* The thread polls the connection when it can go on, and the database answers.
Fairness == \A c \in Clients : WF_vars(Proceed(c)) /\ WF_vars(Execute(c))

SafeSpec == Init /\ [][Next]_vars
Spec == SafeSpec /\ Fairness

-----------------------------------------------------------------------------
(***************************************************************************)
(* Properties.                                                             *)
(***************************************************************************)
Connection ==
    [pc : Points, req : Requests, run : 0..MaxRuns, known : BOOLEAN, at : 0..MaxRuns,
     table : Tables \cup {NoTable}, using : Dbs \cup {NoDb}, ran : Results \cup {"no"},
     status : Statuses \cup {0}, grant : Origins \cup {"none"}]

\* The types. A statement runs only for a request that took a database.
TypeOK ==
    /\ phase \in {"idle", "routes", "origins", "serving"}
    /\ runs \in 0..MaxRuns
    /\ served \in [Runs -> Apps]
    /\ thread \in [Runs -> {"none", "listening", "told", "gone"}]
    /\ native_routes \in [Methods -> Tables \cup {NoTable}]
    /\ allowed_origins \subseteq Origins
    /\ db \in Dbs \cup {NoDb}
    /\ conn \in [Clients -> Connection]
    /\ \A c \in Clients : conn[c].ran # "no" => conn[c].using # NoDb

\* The answer tells what happened, whatever happened to the server and to the
\* database meanwhile: 200 means that the statement was carried out (and found
\* its row, when it was to return one), no other status is given then, and nobody
\* is told there is no database when there was one as he asked.
AnswerHonest ==
    \A c \in Clients : conn[c].pc \in {"reply", "answered"} =>
        /\ conn[c].status = 200 <=> conn[c].ran = "done"
        /\ conn[c].status = 503 => ~conn[c].known

\* A request works on the table of its own app, if the app has the route: the
\* routes earlier apps have left are never preferred. Only when the next app has
\* been registered before it is resolved, it may get that one's.
OwnTable ==
    \A c \in Clients :
        LET app == served[conn[c].run]
        IN conn[c].table # NoTable /\ conn[c].at = conn[c].run /\ conn[c].req.method \in app.methods
            => conn[c].table = app.table

\* An origin that is allowed to read the answer was allowed by the app of the
\* run, or by the one served next, whose origins are set while the last requests
\* of the old server are being answered; the client never gets another's.
GrantHonest ==
    \A c \in Clients : conn[c].grant # "none" =>
        /\ conn[c].grant \in {"*", conn[c].req.origin}
        /\ \E r \in Runs : r >= conn[c].run /\ conn[c].grant \in served[r].origins

\* The clients of RowService: a request is open until it is answered or dropped.
Client(c) ==
    [place |-> IF conn[c].pc \in {"none", "answered", "dropped"} THEN conn[c].pc ELSE "open",
     ran |-> conn[c].ran,
     told |-> conn[c].pc = "answered" /\ conn[c].status = 200]

Rows == INSTANCE RowService WITH client <- [c \in Clients |-> Client(c)]

\* Servers and databases may be replaced meanwhile: a request has one statement
\* carried out at most, none once it is answered, and the answer is true of it;
\* and every request is answered, or its connection ends.
ImplementsRows == Rows!Spec

=============================================================================
