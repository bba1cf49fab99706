----------------------------- MODULE RouteTable -----------------------------
(***************************************************************************)
(* Which handler a request gets. A route is looked up twice, in two tables *)
(* with two rules: the Rust server resolves the request in the routes that *)
(* serve() has registered, and when it finds a Julia route there it        *)
(* forwards the request, which Julia looks up in the App again.            *)
(*                                                                         *)
(* A path is its segments and whether a slash follows the last one; the    *)
(* root is <<>>, and <<>> with a slash is "//". A handler is named by the  *)
(* key of its route.                                                       *)
(***************************************************************************)
EXTENDS Naturals, Sequences

CONSTANTS
    Methods,     \* the methods other than OPTIONS, with "GET" among them
    Literals,    \* the segments a client may ask for
    Params,      \* the segments that start with a colon
    MaxSegs,     \* bound on the segments of a path
    MaxRoutes,   \* bound on the routes that are declared, of all apps
    MaxRuns      \* bound on the calls of serve()

ASSUME RouteAssumption ==
    /\ "GET" \in Methods
    /\ Literals \cap Params = {}
    /\ MaxSegs \in Nat /\ MaxRoutes \in Nat /\ MaxRuns \in Nat

AllMethods == Methods \cup {"OPTIONS"}
Segs(S) == UNION {[1..n -> S] : n \in 0..MaxSegs}
Patterns == Segs(Literals \cup Params)
Keys == AllMethods \X Patterns

\* A route as the App keeps it, with the slash the user wrote, which is of no
\* consequence to a native route.
Routes ==
    [kind : {"http"}, method : AllMethods, segs : Patterns, slash : BOOLEAN]
        \cup [kind : {"native"}, method : AllMethods, segs : Patterns, slash : {FALSE}]

VARIABLES
    phase,        \* "down", "registered" or "up"
    runs,         \* the calls of serve() that have registered routes
    declared,     \* the routes declared so far
    app,          \* the routes of the App that is, or will be, served
    served,       \* those that were registered for the server that is up
    dirty,        \* a serve() has failed since the last stop_server!()
    httpRoutes,   \* ServerState.http_routes, without the callback
    nativeRoutes, \* ServerState.native_routes, without the entity
    req           \* the request, see NoRequest

tables == <<phase, runs, declared, app, served, dirty, httpRoutes, nativeRoutes>>
vars == <<tables, req>>

\* found: how Rust resolved it. allow: the methods of the Allow-Methods header,
\* {} for none. handler: the segments of the route Julia calls.
NoRequest == [pc |-> "idle", method |-> "GET", segs |-> <<>>, slash |-> FALSE,
              found |-> "none", allow |-> {}, status |-> 0, handler |-> <<>>]

Points == {"idle", "asked", "resolved", "ready", "forwarded", "answered", "handled", "unhandled"}
Resolutions == {"none", "handler", "native", "other method", "nothing"}
Statuses == {0, 200, 204, 404, 405}

RequestStates ==
    [pc : Points, method : AllMethods, segs : Patterns, slash : BOOLEAN,
     found : Resolutions, allow : SUBSET AllMethods, status : Statuses,
     handler : Patterns]

Init ==
    /\ phase = "down"
    /\ runs = 0
    /\ declared = 0
    /\ app = {} /\ served = {}
    /\ dirty = FALSE
    /\ httpRoutes = {} /\ nativeRoutes = {}
    /\ req = NoRequest

(***************************************************************************)
(* The tables.                                                             *)
(***************************************************************************)
\* Segment by segment; empty segments do not count, nor does a slash at the end.
Matches(pattern, actual) ==
    /\ Len(pattern) = Len(actual)
    /\ \A i \in 1..Len(pattern) : pattern[i] \in Params \/ pattern[i] = actual[i]

Matching(table, method, segs) == {k \in table : k[1] = method /\ Matches(k[2], segs)}

\* A route is declared, before serve() or while the server runs.
Declare ==
    /\ declared < MaxRoutes
    /\ declared' = declared + 1
    /\ \E r \in Routes : app' = app \cup {r}
    /\ UNCHANGED <<phase, runs, served, dirty, httpRoutes, nativeRoutes, req>>

\* The next serve() is for another App.
OtherApp ==
    /\ phase = "down"
    /\ app' = {}
    /\ UNCHANGED <<phase, runs, declared, served, dirty, httpRoutes, nativeRoutes, req>>

\* Rust drops the slash at the end: two routes of the App may become one.
RustKeys(kind) == {<<r.method, r.segs>> : r \in {s \in app : s.kind = kind}}

Register ==
    /\ phase = "down"
    /\ app # {}
    /\ runs < MaxRuns
    /\ runs' = runs + 1
    /\ httpRoutes' = httpRoutes \cup RustKeys("http")
    /\ nativeRoutes' = nativeRoutes \cup RustKeys("native")
    /\ served' = app
    /\ phase' = "registered"
    /\ UNCHANGED <<declared, app, dirty, req>>

\* The address can be bound: the last server is gone, with its requests.
Listen ==
    /\ phase = "registered"
    /\ req.pc = "idle"
    /\ phase' = "up"
    /\ UNCHANGED <<runs, declared, app, served, dirty, httpRoutes, nativeRoutes, req>>

\* serve() throws and leaves the routes in Rust.
ListenFails ==
    /\ phase = "registered"
    /\ phase' = "down"
    /\ dirty' = TRUE
    /\ served' = {}
    /\ UNCHANGED <<runs, declared, app, httpRoutes, nativeRoutes, req>>

\* Mutant of Stop: the routes are left to the next registration.
StopKeepsRoutes ==
    /\ phase # "registered"
    /\ dirty' = FALSE
    /\ phase' = "down"
    /\ served' = {}
    /\ UNCHANGED <<runs, declared, app, httpRoutes, nativeRoutes, req>>

\* fmh_server_stop forgets the Julia routes, and no others.
Stop ==
    /\ phase # "registered"
    /\ httpRoutes' = {}
    /\ dirty' = FALSE
    /\ phase' = "down"
    /\ served' = {}
    /\ UNCHANGED <<runs, declared, app, nativeRoutes, req>>

(***************************************************************************)
(* A request.                                                              *)
(***************************************************************************)
\* Mutant of Resolution: a path with parameters is found by its own name only.
ResolutionExact(method, segs) ==
    IF <<method, segs>> \in httpRoutes THEN "handler"
    ELSE IF <<method, segs>> \in nativeRoutes THEN "native"
    ELSE IF \E k \in httpRoutes \cup nativeRoutes : Matches(k[2], segs) THEN "other method"
    ELSE "nothing"

\* How Rust resolves a request, without the slash at the end of its path.
Resolution(method, segs) ==
    IF <<method, segs>> \in httpRoutes THEN "handler"
    ELSE IF <<method, segs>> \in nativeRoutes THEN "native"
    ELSE IF Matching(nativeRoutes, method, segs) # {} THEN "native"
    ELSE IF Matching(httpRoutes, method, segs) # {} THEN "handler"
    ELSE IF \E k \in httpRoutes \cup nativeRoutes : Matches(k[2], segs) THEN "other method"
    ELSE "nothing"

Found(segs) ==
    LET byRoute == {k[1] : k \in {r \in httpRoutes \cup nativeRoutes : Matches(r[2], segs)}}
    IN IF segs = <<>> THEN byRoute \cup {"GET"} ELSE byRoute

\* Mutant of AllowedMethods: OPTIONS is not added.
AllowedMethodsBare(segs) == Found(segs)

\* Mutant of AllowedMethods: the native routes are passed over.
AllowedMethodsHttp(segs) ==
    LET byRoute == {k[1] : k \in {r \in httpRoutes : Matches(r[2], segs)}}
        methods == IF segs = <<>> THEN byRoute \cup {"GET"} ELSE byRoute
    IN IF methods = {} THEN {} ELSE methods \cup {"OPTIONS"}

AllowedMethods(segs) ==
    IF Found(segs) = {} THEN {} ELSE Found(segs) \cup {"OPTIONS"}

Change(new) == req' = new /\ UNCHANGED tables

Request ==
    /\ phase = "up"
    /\ req.pc = "idle"
    /\ \E m \in AllMethods, segs \in Patterns, slash \in BOOLEAN :
        Change([NoRequest EXCEPT !.pc = "asked", !.method = m, !.segs = segs, !.slash = slash])

Resolve ==
    /\ req.pc = "asked"
    /\ Change([req EXCEPT !.pc = "resolved", !.found = Resolution(req.method, req.segs)])

\* The tables are locked once more for the methods.
Allow ==
    /\ req.pc = "resolved"
    /\ Change([req EXCEPT !.pc = "ready", !.allow =
            IF req.method = "OPTIONS" \/ req.found = "other method"
            THEN AllowedMethods(req.segs) ELSE {}])

\* GET / is answered by the server itself, whatever the routes.
BuiltIn == req.method = "GET" /\ req.segs = <<>> /\ ~req.slash

Forward ==
    /\ req.pc = "ready"
    /\ req.found = "handler"
    /\ ~BuiltIn
    /\ Change([req EXCEPT !.pc = "forwarded"])

\* Answers from Rust; 200 stands for whatever a native route answers.
Status ==
    IF req.method = "OPTIONS" THEN IF req.allow = {} THEN 404 ELSE 204
    ELSE IF BuiltIn \/ req.found = "native" THEN 200
    ELSE IF req.found = "other method" THEN 405
    ELSE 404

Answer ==
    /\ req.pc = "ready"
    /\ req.found # "handler" \/ BuiltIn
    /\ Change([req EXCEPT !.pc = "answered", !.status = Status])

\* Mutant of Handlers: the pattern has to have the slash of the request.
HandlersSameSlash ==
    {r \in app : /\ r.kind = "http" /\ r.method = req.method
                 /\ r.slash = req.slash /\ Matches(r.segs, req.segs)}

\* Julia looks for the path as it was sent, then for a pattern that matches it,
\* in the order of the Dict.
Handlers ==
    LET candidates == {r \in app : r.kind = "http" /\ r.method = req.method}
        exact == {r \in candidates : r.segs = req.segs /\ r.slash = req.slash}
    IN IF exact # {} THEN exact ELSE {r \in candidates : Matches(r.segs, req.segs)}

Handle ==
    /\ req.pc = "forwarded"
    /\ phase = "up"
    /\ \E r \in Handlers : Change([req EXCEPT !.pc = "handled", !.handler = r.segs])

HandleNotFound ==
    /\ req.pc = "forwarded"
    /\ phase = "up"
    /\ Handlers = {}
    /\ Change([req EXCEPT !.pc = "unhandled", !.status = 404])

\* The answer is written, or the connection given up.
Done ==
    /\ req.pc # "idle"
    /\ Change(NoRequest)

-----------------------------------------------------------------------------
Next ==
    \/ Declare \/ OtherApp \/ Register \/ Listen \/ ListenFails \/ Stop
    \/ Request \/ Resolve \/ Allow \/ Forward \/ Answer \/ Handle \/ HandleNotFound \/ Done

Spec == Init /\ [][Next]_vars

-----------------------------------------------------------------------------
(***************************************************************************)
(* Properties.                                                             *)
(***************************************************************************)
\* The types. A list of methods that is sent names OPTIONS.
TypeOK ==
    /\ phase \in {"down", "registered", "up"}
    /\ runs \in 0..MaxRuns /\ declared \in 0..MaxRoutes
    /\ app \subseteq Routes /\ served \subseteq Routes
    /\ dirty \in BOOLEAN
    /\ httpRoutes \subseteq Keys /\ nativeRoutes \subseteq Keys
    /\ req \in RequestStates
    /\ req.allow # {} => "OPTIONS" \in req.allow

\* Whatever slashes the routes and the request have, a request Rust forwards
\* has a handler in Julia, unless an earlier serve() has failed and left routes.
HandlerFound == phase = "up" /\ req.pc = "unhandled" => dirty

\* While the server is up Rust refuses no request that a route of the app is
\* for: a 404 means no route for the path, a 405 none for the method.
RoutesReachable ==
    phase = "up" /\ req.pc = "answered" =>
        LET there == {r \in served : Matches(r.segs, req.segs)}
        IN /\ req.status = 404 => there = {}
           /\ req.status = 405 => \A r \in there : r.method # req.method

\* A 405 of a server that is up names the methods the path has, as a second look
\* at the tables finds them, and so not the one it refuses, but for "GET //".
\* (A stop between the two looks is not covered.)
AllowHonest ==
    phase = "up" /\ req.pc = "answered" /\ req.status = 405 =>
        LET has == {m \in AllMethods : Resolution(m, req.segs) \in {"handler", "native"}}
        IN /\ has \subseteq req.allow
           /\ req.allow \ has \subseteq {"OPTIONS"} \cup (IF req.segs = <<>> THEN {"GET"} ELSE {})
           /\ req.method \in req.allow => req.segs = <<>> /\ req.slash

\* A request for a route as the user wrote it, with the slash at its end or
\* without, is handled by this route, whatever patterns match it.
ExactWins ==
    phase = "up" /\ req.pc = "handled" =>
        ((\E r \in served : /\ r.kind = "http" /\ r.method = req.method
                            /\ r.segs = req.segs /\ r.slash = req.slash)
            => req.handler = req.segs)

\* The one server of OneServer, whose tables hold the keys of the Julia routes.
Server == INSTANCE OneServer WITH
    Routes <- Keys, tables <- httpRoutes, busy <- FALSE,
    app <- {<<r.method, r.segs>> : r \in {s \in served : s.kind = "http"}},
    phase <- IF phase = "registered" THEN "starting" ELSE phase
=============================================================================
