-------------------------- MODULE RouteTableProofs --------------------------
(***************************************************************************)
(* What RouteTable's runs check for one instance holds for any methods,    *)
(* segments and bounds.                                                    *)
(*                                                                         *)
(* The two tables are compared through a chain: what Rust has registered   *)
(* is what the App has (TablesOK), what Rust found is what its tables say  *)
(* while the server is up (RequestOK), and a key of Rust's table that      *)
(* matches a path has a route of the App that matches it.                  *)
(***************************************************************************)
EXTENDS RouteTable, TLAPS

\* The key under which Rust keeps a route, and where.
Keyed(r) == <<r.method, r.segs>> \in (IF r.kind = "http" THEN httpRoutes ELSE nativeRoutes)

TypesOK ==
    /\ phase \in {"down", "registered", "up"}
    /\ runs \in 0..MaxRuns /\ declared \in 0..MaxRoutes
    /\ app \subseteq Routes /\ served \subseteq Routes
    /\ dirty \in BOOLEAN
    /\ httpRoutes \subseteq Keys /\ nativeRoutes \subseteq Keys

TablesOK ==
    /\ TypesOK
    /\ ~dirty /\ phase = "down" => httpRoutes = {}
    /\ ~dirty /\ phase # "down" => httpRoutes \subseteq RustKeys("http")
    /\ phase # "down" => \A r \in served : Keyed(r)

\* The methods a request is told of.
Offered ==
    IF req.method = "OPTIONS" \/ req.found = "other method"
    THEN AllowedMethods(req.segs) ELSE {}

RequestTyped ==
    /\ req \in RequestStates
    /\ req.allow # {} => "OPTIONS" \in req.allow

\* While the server is up the tables stand still, and with them what was found.
RequestOK ==
    phase = "up" =>
        /\ req.pc \notin {"idle", "asked"} => req.found = Resolution(req.method, req.segs)
        /\ req.pc \notin {"idle", "asked", "resolved"} => req.allow = Offered
        /\ req.pc \in {"forwarded", "handled", "unhandled"} => req.found = "handler"
        /\ req.pc = "answered" => req.status = Status /\ (req.found # "handler" \/ BuiltIn)
        /\ req.pc = "unhandled" => dirty

IInv == TablesOK /\ RequestTyped /\ RequestOK

(***************************************************************************)
(* Lemmas about the operators.                                             *)
(***************************************************************************)
\* The root is a path.
LEMMA RootIsPattern == <<>> \in Patterns
<1>1. 0 \in 0..MaxSegs
  BY RouteAssumption
<1>2. <<>> \in [1..0 -> Literals \cup Params]
  OBVIOUS
<1>. QED  BY <1>1, <1>2 DEF Patterns, Segs

\* The parts of a fresh request.
LEMMA PartsTyped ==
    /\ "idle" \in Points /\ "asked" \in Points /\ "GET" \in AllMethods
    /\ "none" \in Resolutions /\ 0 \in Statuses
BY RouteAssumption DEF Points, Resolutions, Statuses, AllMethods

LEMMA NoRequestTyped ==
    NoRequest \in RequestStates /\ NoRequest.allow = {} /\ NoRequest.pc = "idle"
<1>1. NoRequest \in RequestStates
  BY PartsTyped, RootIsPattern DEF NoRequest, RequestStates
<1>. QED  BY <1>1 DEF NoRequest

\* A path matches itself.
LEMMA MatchesItself == ASSUME NEW s PROVE Matches(s, s)
BY DEF Matches

\* A key is a method and a pattern.
LEMMA KeyParts ==
    ASSUME NEW k \in Keys
    PROVE k[1] \in AllMethods /\ k[2] \in Patterns /\ k = <<k[1], k[2]>>
BY DEF Keys

\* The parts of a route.
LEMMA RouteParts ==
    ASSUME NEW r \in Routes
    PROVE /\ r.kind \in {"http", "native"} /\ r.method \in AllMethods /\ r.segs \in Patterns
          /\ <<r.method, r.segs>> \in Keys
<1>1. r.kind \in {"http", "native"} /\ r.method \in AllMethods /\ r.segs \in Patterns
  BY DEF Routes
<1>. QED  BY <1>1 DEF Keys

\* What Rust registers are keys.
LEMMA RustKeysAreKeys ==
    ASSUME app \subseteq Routes, NEW kind
    PROVE RustKeys(kind) \subseteq Keys
BY RouteParts DEF RustKeys

\* What each resolution says of the tables.
LEMMA ResolutionMeans ==
    ASSUME NEW m, NEW s
    PROVE /\ Resolution(m, s) \in Resolutions \ {"none"}
          /\ Resolution(m, s) = "handler" =>
                \E k \in httpRoutes : k[1] = m /\ Matches(k[2], s)
          /\ Resolution(m, s) = "native" =>
                \E k \in nativeRoutes : k[1] = m /\ Matches(k[2], s)
          /\ Resolution(m, s) \in {"other method", "nothing"} =>
                \A k \in httpRoutes \cup nativeRoutes : k[1] = m => ~Matches(k[2], s)
          /\ Resolution(m, s) = "other method" =>
                \E k \in httpRoutes \cup nativeRoutes : Matches(k[2], s)
          /\ Resolution(m, s) = "nothing" =>
                \A k \in httpRoutes \cup nativeRoutes : ~Matches(k[2], s)
<1>1. <<m, s>>[1] = m /\ Matches(<<m, s>>[2], s)
  BY MatchesItself
<1>2. Resolution(m, s) \in Resolutions \ {"none"}
  BY DEF Resolution, Resolutions
<1>3. Resolution(m, s) = "handler" => \E k \in httpRoutes : k[1] = m /\ Matches(k[2], s)
  <2>1. CASE <<m, s>> \in httpRoutes
    BY <1>1, <2>1
  <2>2. CASE <<m, s>> \notin httpRoutes
    BY <2>2 DEF Resolution, Matching
  <2>. QED  BY <2>1, <2>2
<1>4. Resolution(m, s) = "native" => \E k \in nativeRoutes : k[1] = m /\ Matches(k[2], s)
  <2>1. CASE <<m, s>> \in nativeRoutes
    BY <1>1, <2>1
  <2>2. CASE <<m, s>> \notin nativeRoutes
    BY <2>2 DEF Resolution, Matching
  <2>. QED  BY <2>1, <2>2
<1>5. Resolution(m, s) \in {"other method", "nothing"} =>
        \A k \in httpRoutes \cup nativeRoutes : k[1] = m => ~Matches(k[2], s)
  BY DEF Resolution, Matching
<1>6. Resolution(m, s) = "other method" =>
        \E k \in httpRoutes \cup nativeRoutes : Matches(k[2], s)
  BY DEF Resolution
<1>7. Resolution(m, s) = "nothing" =>
        \A k \in httpRoutes \cup nativeRoutes : ~Matches(k[2], s)
  BY DEF Resolution
<1>. QED  BY <1>2, <1>3, <1>4, <1>5, <1>6, <1>7

\* The methods found for a path: those of its routes, and GET for the root.
LEMMA FoundMeans ==
    ASSUME NEW s, NEW m
    PROVE m \in Found(s) <=>
            \/ \E k \in httpRoutes \cup nativeRoutes : k[1] = m /\ Matches(k[2], s)
            \/ s = <<>> /\ m = "GET"
BY DEF Found

\* They are methods, and a list of them that is not empty names OPTIONS.
LEMMA AllowedTyped ==
    ASSUME httpRoutes \subseteq Keys, nativeRoutes \subseteq Keys, NEW s
    PROVE /\ AllowedMethods(s) \subseteq AllMethods
          /\ AllowedMethods(s) # {} => "OPTIONS" \in AllowedMethods(s)
          /\ AllowedMethods(s) = {} => Found(s) = {}
<1>1. \A k \in httpRoutes \cup nativeRoutes : k[1] \in AllMethods
  BY KeyParts
<1>2. "GET" \in AllMethods /\ "OPTIONS" \in AllMethods
  BY RouteAssumption DEF AllMethods
<1>3. Found(s) \subseteq AllMethods
  BY <1>1, <1>2, FoundMeans
<1>. QED  BY <1>2, <1>3 DEF AllowedMethods

\* What Julia's table says when Rust's has a key for the request.
LEMMA KeyHasHandler ==
    ASSUME httpRoutes \subseteq RustKeys("http"),
           NEW k \in httpRoutes, k[1] = req.method, Matches(k[2], req.segs)
    PROVE Handlers # {}
<1>1. PICK r \in app : r.kind = "http" /\ k = <<r.method, r.segs>>
  BY DEF RustKeys
<1>2. r \in {c \in app : c.kind = "http" /\ c.method = req.method} /\ Matches(r.segs, req.segs)
  BY <1>1
<1>. QED  BY <1>2 DEF Handlers

(***************************************************************************)
(* The invariant.                                                          *)
(***************************************************************************)
LEMMA InitInv == Init => IInv
<1>. SUFFICES ASSUME Init PROVE IInv
  OBVIOUS
<1>1. TypesOK
  <2>1. 0 \in 0..MaxRuns /\ 0 \in 0..MaxRoutes
    BY RouteAssumption
  <2>. QED  BY <2>1 DEF Init, TypesOK
<1>2. TablesOK
  BY <1>1 DEF Init, TablesOK
<1>3. req \in RequestStates /\ req.allow = {} /\ req.pc = "idle"
  BY NoRequestTyped DEF Init
<1>. QED  BY <1>2, <1>3 DEF IInv, RequestTyped, RequestOK, Init

\* While the tables stand still so does what they say of a request.
LEMMA AnswersStay ==
    ASSUME httpRoutes' = httpRoutes, nativeRoutes' = nativeRoutes,
           req'.method = req.method, req'.segs = req.segs
    PROVE /\ Resolution(req.method, req.segs)' = Resolution(req.method, req.segs)
          /\ AllowedMethods(req.segs)' = AllowedMethods(req.segs)
<1>1. Resolution(req.method, req.segs)' = Resolution(req.method, req.segs)
  BY DEF Resolution, Matching
<1>2. Found(req.segs)' = Found(req.segs)
  BY DEF Found
<1>. QED  BY <1>1, <1>2 DEF AllowedMethods

\* The steps that write the tables.
LEMMA TableSteps ==
    ASSUME IInv, Declare \/ OtherApp \/ Register \/ Listen \/ ListenFails \/ Stop
    PROVE IInv'
<1>. USE DEF IInv
<1>0. TablesOK /\ TypesOK
  BY DEF TablesOK
<1>1. req' = req /\ RequestTyped'
  BY DEF Declare, OtherApp, Register, Listen, ListenFails, Stop, RequestTyped
<1>2. CASE Declare
  <2>1. PICK r \in Routes : app' = app \cup {r}
    BY <1>2 DEF Declare
  <2>2. TypesOK'
    BY <1>0, <1>2, <2>1, RouteAssumption DEF Declare, TypesOK
  <2>3. RustKeys("http") \subseteq RustKeys("http")'
    BY <2>1 DEF RustKeys
  <2>4. TablesOK'
    BY <1>0, <1>2, <2>2, <2>3 DEF Declare, TablesOK, Keyed
  <2>5. RequestOK'
    <3>1. httpRoutes' = httpRoutes /\ nativeRoutes' = nativeRoutes /\ phase' = phase /\ dirty' = dirty
      BY <1>2 DEF Declare
    <3>2. /\ Resolution(req.method, req.segs)' = Resolution(req.method, req.segs)
          /\ AllowedMethods(req.segs)' = AllowedMethods(req.segs)
      BY <1>1, <3>1, AnswersStay
    <3>3. Offered' = Offered
      BY <1>1, <3>2 DEF Offered
    <3>4. BuiltIn' = BuiltIn
      BY <1>1 DEF BuiltIn
    <3>5. Status' = Status
      BY <1>1, <3>4 DEF Status
    <3>. QED  BY <1>1, <3>1, <3>2, <3>3, <3>4, <3>5 DEF RequestOK
  <2>. QED  BY <1>1, <2>4, <2>5
<1>3. CASE OtherApp
  <2>1. TypesOK'
    BY <1>0, <1>3 DEF OtherApp, TypesOK
  <2>. QED  BY <1>0, <1>1, <1>3, <2>1 DEF OtherApp, TablesOK, RequestOK
<1>4. CASE Register
  <2>1. RustKeys("http") \subseteq Keys /\ RustKeys("native") \subseteq Keys
    BY <1>0, RustKeysAreKeys DEF TypesOK
  <2>2. TypesOK'
    BY <1>0, <1>4, <2>1, RouteAssumption DEF Register, TypesOK
  <2>3. ~dirty' => httpRoutes' \subseteq RustKeys("http")'
    BY <1>0, <1>4 DEF Register, TablesOK, RustKeys
  <2>4. ASSUME NEW r \in served' PROVE Keyed(r)'
    <3>1. r \in app /\ r.kind \in {"http", "native"}
      BY <1>0, <1>4, <2>4, RouteParts DEF Register, TypesOK
    <3>2. <<r.method, r.segs>> \in RustKeys(r.kind)
      BY <3>1 DEF RustKeys
    <3>. QED  BY <1>4, <3>1, <3>2 DEF Register, Keyed
  <2>. QED  BY <1>1, <1>4, <2>2, <2>3, <2>4 DEF Register, TablesOK, RequestOK
<1>5. CASE Listen
  <2>1. TypesOK'
    BY <1>0, <1>5 DEF Listen, TypesOK
  <2>2. TablesOK'
    BY <1>0, <1>5, <2>1 DEF Listen, TablesOK, Keyed, RustKeys
  <2>. QED  BY <1>1, <1>5, <2>2 DEF Listen, RequestOK
<1>6. CASE ListenFails
  <2>1. TypesOK'
    BY <1>0, <1>6 DEF ListenFails, TypesOK
  <2>. QED  BY <1>1, <1>6, <2>1 DEF ListenFails, TablesOK, RequestOK
<1>7. CASE Stop
  <2>1. TypesOK'
    BY <1>0, <1>7 DEF Stop, TypesOK
  <2>. QED  BY <1>1, <1>7, <2>1 DEF Stop, TablesOK, RequestOK
<1>. QED  BY <1>2, <1>3, <1>4, <1>5, <1>6, <1>7

\* The steps of a request leave the tables alone.
LEMMA TablesStay ==
    ASSUME TablesOK, UNCHANGED tables
    PROVE TablesOK'
BY DEF tables, TablesOK, TypesOK, Keyed, RustKeys

LEMMA PointsAre ==
    {"resolved", "ready", "forwarded", "answered", "handled", "unhandled"} \subseteq Points
BY DEF Points

LEMMA StatusTyped == Status \in Statuses /\ 404 \in Statuses
BY DEF Status, Statuses

\* A step after the request was resolved and before it is done.
RequestKept ==
    /\ req'.method = req.method /\ req'.segs = req.segs /\ req'.slash = req.slash
    /\ req'.found = req.found /\ req'.allow = req.allow

LEMMA WhatStays ==
    ASSUME UNCHANGED tables, RequestKept, RequestTyped, req' \in RequestStates
    PROVE /\ RequestTyped'
          /\ Resolution(req.method, req.segs)' = Resolution(req.method, req.segs)
          /\ Offered' = Offered /\ Status' = Status /\ BuiltIn' = BuiltIn
<1>1. httpRoutes' = httpRoutes /\ nativeRoutes' = nativeRoutes
  BY DEF tables
<1>2. /\ Resolution(req.method, req.segs)' = Resolution(req.method, req.segs)
      /\ AllowedMethods(req.segs)' = AllowedMethods(req.segs)
  BY <1>1, AnswersStay DEF RequestKept
<1>3. Offered' = Offered
  BY <1>2 DEF Offered, RequestKept
<1>4. BuiltIn' = BuiltIn
  BY DEF BuiltIn, RequestKept
<1>5. Status' = Status
  BY <1>4 DEF Status, RequestKept
<1>6. RequestTyped'
  BY DEF RequestTyped, RequestKept
<1>. QED  BY <1>2, <1>3, <1>4, <1>5, <1>6

LEMMA RequestSteps ==
    ASSUME IInv,
           Request \/ Resolve \/ Allow \/ Forward \/ Answer \/ Handle \/ HandleNotFound \/ Done
    PROVE IInv'
<1>. USE DEF IInv
<1>0. UNCHANGED tables
  BY DEF Request, Resolve, Allow, Forward, Answer, Handle, HandleNotFound, Done, Change
<1>1. TablesOK' /\ phase' = phase /\ dirty' = dirty
  BY <1>0, TablesStay DEF tables
<1>2. CASE Request
  <2>1. PICK m \in AllMethods, s \in Patterns, b \in BOOLEAN :
          req' = [NoRequest EXCEPT !.pc = "asked", !.method = m, !.segs = s, !.slash = b]
    BY <1>2 DEF Request, Change
  <2>2. req' = [pc |-> "asked", method |-> m, segs |-> s, slash |-> b, found |-> "none",
                allow |-> {}, status |-> 0, handler |-> <<>>]
    BY <2>1 DEF NoRequest
  <2>3. RequestTyped'
    BY <2>2, PartsTyped, RootIsPattern DEF RequestTyped, RequestStates
  <2>. QED  BY <1>1, <2>2, <2>3 DEF RequestOK
<1>3. CASE Resolve
  <2>1. PICK R : R = Resolution(req.method, req.segs) /\ req' = [req EXCEPT !.pc = "resolved", !.found = R]
    BY <1>3 DEF Resolve, Change
  <2>2. R \in Resolutions
    BY <2>1, ResolutionMeans
  <2>3. RequestTyped' /\ req'.pc = "resolved" /\ req'.found = R
        /\ req'.method = req.method /\ req'.segs = req.segs
        /\ req'.allow = req.allow
    BY <2>1, <2>2, PointsAre DEF RequestTyped, RequestStates
  <2>4. Resolution(req.method, req.segs)' = R
    BY <1>0, <2>1, <2>3, AnswersStay DEF tables
  <2>. QED  BY <1>1, <2>3, <2>4 DEF RequestOK
<1>4. CASE Allow
  <2>1. PICK O : O = Offered /\ req' = [req EXCEPT !.pc = "ready", !.allow = O]
    BY <1>4 DEF Allow, Change, Offered
  <2>2. O \subseteq AllMethods /\ (O # {} => "OPTIONS" \in O)
    BY <2>1, AllowedTyped DEF Offered, TablesOK, TypesOK
  <2>3. RequestTyped' /\ req'.pc = "ready" /\ req'.allow = O
    BY <2>1, <2>2, PointsAre DEF RequestTyped, RequestStates
  <2>4. req'.method = req.method /\ req'.segs = req.segs /\ req'.found = req.found
    BY <2>1, PointsAre DEF RequestTyped, RequestStates
  <2>5. Offered' = O /\ Resolution(req.method, req.segs)' = Resolution(req.method, req.segs)
    BY <1>0, <2>1, <2>4, AnswersStay DEF tables, Offered
  <2>6. req.pc = "resolved"
    BY <1>4 DEF Allow
  <2>. QED  BY <1>1, <2>3, <2>4, <2>5, <2>6 DEF RequestOK
<1>5. CASE Forward \/ Answer \/ Handle \/ HandleNotFound
  <2>1. CASE Forward
    <3>1. req' = [req EXCEPT !.pc = "forwarded"] /\ req.found = "handler" /\ req.pc = "ready"
      BY <2>1 DEF Forward, Change
    <3>2. req'.pc = "forwarded" /\ RequestKept /\ req' \in RequestStates
      BY <3>1, PointsAre DEF RequestTyped, RequestStates, RequestKept
    <3>. QED  BY <1>0, <1>1, <3>1, <3>2, WhatStays DEF RequestOK
  <2>2. CASE Answer
    <3>1. /\ req' = [req EXCEPT !.pc = "answered", !.status = Status] /\ req.pc = "ready"
          /\ req.found # "handler" \/ BuiltIn
      BY <2>2 DEF Answer, Change
    <3>2. /\ req'.pc = "answered" /\ req'.status = Status /\ RequestKept
          /\ req' \in RequestStates
      BY <3>1, PointsAre, StatusTyped DEF RequestTyped, RequestStates, RequestKept
    <3>. QED  BY <1>0, <1>1, <3>1, <3>2, WhatStays DEF RequestOK, RequestKept
  <2>3. CASE Handle
    <3>1. PICK r \in Handlers : req' = [req EXCEPT !.pc = "handled", !.handler = r.segs]
      BY <2>3 DEF Handle, Change
    <3>2. r.segs \in Patterns
      BY <3>1, RouteParts DEF Handlers, TablesOK, TypesOK
    <3>3. req'.pc = "handled" /\ req.pc = "forwarded" /\ RequestKept /\ req' \in RequestStates
      BY <2>3, <3>1, <3>2, PointsAre DEF Handle, RequestTyped, RequestStates, RequestKept
    <3>. QED  BY <1>0, <1>1, <3>3, WhatStays DEF RequestOK, RequestKept
  <2>4. CASE HandleNotFound
    <3>0. PICK st \in Statuses : req' = [req EXCEPT !.pc = "unhandled", !.status = st]
      BY <2>4, StatusTyped DEF HandleNotFound, Change
    <3>1. req.pc = "forwarded" /\ Handlers = {} /\ phase = "up"
      BY <2>4 DEF HandleNotFound
    <3>2. req'.pc = "unhandled" /\ RequestKept /\ req' \in RequestStates
      BY <3>0, PointsAre DEF RequestTyped, RequestStates, RequestKept
    <3>3. PICK k \in httpRoutes : k[1] = req.method /\ Matches(k[2], req.segs)
      <4>1. Resolution(req.method, req.segs) = "handler"
        BY <3>1 DEF RequestOK
      <4>. QED  BY <4>1, ResolutionMeans
    <3>4. dirty
      BY <3>1, <3>3, KeyHasHandler DEF TablesOK
    <3>. QED  BY <1>0, <1>1, <3>1, <3>2, <3>4, WhatStays DEF RequestOK, RequestKept
  <2>. QED  BY <1>5, <2>1, <2>2, <2>3, <2>4
<1>6. CASE Done
  <2>1. req' = NoRequest
    BY <1>6 DEF Done, Change
  <2>2. RequestTyped' /\ req'.pc = "idle"
    BY <2>1, NoRequestTyped DEF RequestTyped
  <2>. QED  BY <1>1, <2>2 DEF RequestOK
<1>. QED  BY <1>2, <1>3, <1>4, <1>5, <1>6

LEMMA StepInv == ASSUME IInv, [Next]_vars PROVE IInv'
<1>1. CASE UNCHANGED vars
  <2>1. httpRoutes' = httpRoutes /\ nativeRoutes' = nativeRoutes /\ req' = req
        /\ phase' = phase /\ dirty' = dirty
    BY <1>1 DEF vars, tables
  <2>2. TablesOK'
    BY <1>1, TablesStay DEF IInv, vars
  <2>3. RequestTyped'
    BY <2>1 DEF IInv, RequestTyped
  <2>4. /\ Resolution(req.method, req.segs)' = Resolution(req.method, req.segs)
        /\ Offered' = Offered /\ Status' = Status /\ BuiltIn' = BuiltIn
    BY <1>1, <2>1, WhatStays DEF IInv, RequestTyped, RequestKept, vars
  <2>. QED  BY <2>1, <2>2, <2>3, <2>4 DEF IInv, RequestOK
<1>. QED  BY <1>1, TableSteps, RequestSteps DEF Next

THEOREM Invariance == Spec => []IInv
BY InitInv, StepInv, PTL DEF Spec

(***************************************************************************)
(* What follows from it.                                                   *)
(***************************************************************************)
\* Every variable has its type, and a list of methods that is sent names
\* OPTIONS (allowed_methods_for_path).
THEOREM TypeCorrect == Spec => []TypeOK
<1>1. IInv => TypeOK
  BY DEF IInv, TablesOK, TypesOK, RequestTyped, TypeOK
<1>. QED  BY <1>1, Invariance, PTL

\* What Rust forwards Julia has a handler for, unless a serve() has failed.
THEOREM HandlerFoundHolds == Spec => []HandlerFound
<1>1. IInv => HandlerFound
  BY DEF IInv, RequestOK, HandlerFound
<1>. QED  BY <1>1, Invariance, PTL

\* A route of the app is a key of Rust's tables, and the key matches where the
\* route does.
LEMMA ServedIsFound ==
    ASSUME TablesOK, phase = "up", NEW r \in served, Matches(r.segs, req.segs)
    PROVE \E k \in httpRoutes \cup nativeRoutes : k[1] = r.method /\ Matches(k[2], req.segs)
<1>1. <<r.method, r.segs>> \in httpRoutes \cup nativeRoutes
  BY DEF TablesOK, Keyed
<1>. QED  BY <1>1

\* What a status says of the request.
LEMMA StatusMeans ==
    /\ Status = 404 /\ req.method = "OPTIONS" => req.allow = {}
    /\ Status = 404 /\ req.method # "OPTIONS" =>
            ~BuiltIn /\ req.found \notin {"native", "other method"}
    /\ Status = 405 => req.method # "OPTIONS" /\ ~BuiltIn /\ req.found = "other method"
<1>0. 200 # 404 /\ 200 # 405 /\ 404 # 405
  OBVIOUS
<1>1. CASE req.method = "OPTIONS"
  BY <1>1 DEF Status
<1>2. CASE req.method # "OPTIONS" /\ BuiltIn
  <2>1. Status = 200
    BY <1>2 DEF Status
  <2>2. Status # 404 /\ Status # 405
    BY <2>1
  <2>. QED  BY <2>2, <1>2
<1>3. CASE req.method # "OPTIONS" /\ ~BuiltIn
  <2>1. Status = IF req.found = "native" THEN 200 ELSE IF req.found = "other method" THEN 405 ELSE 404
    BY <1>3 DEF Status
  <2>2. Status = 404 => req.found \notin {"native", "other method"}
    BY <1>0, <2>1
  <2>3. Status = 405 => req.found = "other method"
    BY <1>0, <2>1
  <2>. QED  BY <1>3, <2>2, <2>3
<1>. QED  BY <1>1, <1>2, <1>3

\* Rust refuses nothing that a route of the app is for: neither with 404 nor
\* with 405.
THEOREM RoutesReachableHolds == Spec => []RoutesReachable
<1>1. ASSUME IInv, phase = "up", req.pc = "answered" PROVE RoutesReachable
  <2>. DEFINE R == Resolution(req.method, req.segs)
              there == {r \in served : Matches(r.segs, req.segs)}
  <2>1. /\ req.found = R /\ req.allow = Offered /\ req.status = Status
        /\ req.found # "handler" \/ BuiltIn
    BY <1>1 DEF IInv, RequestOK
  <2>2. R \in Resolutions \ {"none"}
    BY ResolutionMeans
  <2>3. ASSUME req.status = 404 PROVE there = {}
    <3>1. CASE req.method = "OPTIONS"
      <4>1. AllowedMethods(req.segs) = {}
        BY <2>1, <2>3, <3>1, StatusMeans DEF Offered
      <4>2. Found(req.segs) = {}
        BY <4>1, <1>1, AllowedTyped DEF IInv, TablesOK, TypesOK
      <4>3. \A k \in httpRoutes \cup nativeRoutes : ~Matches(k[2], req.segs)
        BY <4>2, FoundMeans
      <4>. QED  BY <4>3, <1>1, ServedIsFound DEF IInv
    <3>2. CASE req.method # "OPTIONS"
      <4>1. R = "nothing"
        <5>1. ~BuiltIn /\ req.found \notin {"native", "other method"}
          BY <2>1, <2>3, <3>2, StatusMeans
        <5>2. R \notin {"native", "other method", "handler"}
          BY <2>1, <5>1
        <5>. QED  BY <2>2, <5>2 DEF Resolutions
      <4>2. \A k \in httpRoutes \cup nativeRoutes : ~Matches(k[2], req.segs)
        BY <4>1, ResolutionMeans
      <4>. QED  BY <4>2, <1>1, ServedIsFound DEF IInv
    <3>. QED  BY <3>1, <3>2
  <2>4. ASSUME req.status = 405, NEW r \in there PROVE r.method # req.method
    <3>1. R = "other method"
      BY <2>1, <2>4, StatusMeans
    <3>2. \A k \in httpRoutes \cup nativeRoutes :
              k[1] = req.method => ~Matches(k[2], req.segs)
      BY <3>1, ResolutionMeans
    <3>. QED  BY <2>4, <3>2, <1>1, ServedIsFound DEF IInv
  <2>. QED  BY <2>3, <2>4 DEF RoutesReachable
<1>2. IInv => RoutesReachable
  BY <1>1 DEF RoutesReachable
<1>. QED  BY <1>2, Invariance, PTL

\* A 405 names exactly the methods that a request for the path could have.
THEOREM AllowHonestHolds == Spec => []AllowHonest
<1>1. ASSUME IInv, phase = "up", req.pc = "answered", req.status = 405 PROVE AllowHonest
  <2>. DEFINE s == req.segs
              has == {m \in AllMethods : Resolution(m, s) \in {"handler", "native"}}
  <2>1. req.found = Resolution(req.method, s) /\ req.allow = Offered /\ req.status = Status
    BY <1>1 DEF IInv, RequestOK
  <2>2. req.method # "OPTIONS" /\ ~BuiltIn /\ req.found = "other method"
    BY <1>1, <2>1, StatusMeans
  <2>9. Resolution(req.method, s) = "other method"
    BY <2>1, <2>2
  <2>3. \E k \in httpRoutes \cup nativeRoutes : Matches(k[2], s)
    BY <2>9, ResolutionMeans
  <2>4. Found(s) # {}
    BY <2>3, FoundMeans
  <2>5. req.allow = Found(s) \cup {"OPTIONS"}
    BY <2>1, <2>2, <2>4 DEF Offered, AllowedMethods
  <2>6. has \subseteq req.allow
    <3>1. ASSUME NEW m \in has
          PROVE \E k \in httpRoutes \cup nativeRoutes : k[1] = m /\ Matches(k[2], s)
      BY <3>1, ResolutionMeans
    <3>. QED  BY <3>1, <2>5, FoundMeans
  <2>7. ASSUME NEW m \in req.allow, m # "OPTIONS", s # <<>> \/ m # "GET" PROVE m \in has
    <3>1. PICK k \in httpRoutes \cup nativeRoutes : k[1] = m /\ Matches(k[2], s)
      BY <2>5, <2>7, FoundMeans
    <3>2. m \in AllMethods
      BY <1>1, <3>1, KeyParts DEF IInv, TablesOK, TypesOK
    <3>3. Resolution(m, s) \in {"handler", "native"}
      BY <3>1, ResolutionMeans DEF Resolutions
    <3>. QED  BY <3>2, <3>3
  <2>8. ASSUME req.method \in req.allow PROVE s = <<>> /\ req.slash
    <3>1. \A k \in httpRoutes \cup nativeRoutes : k[1] = req.method => ~Matches(k[2], s)
      BY <2>9, ResolutionMeans
    <3>2. s = <<>> /\ req.method = "GET"
      <4>1. req.method \in Found(s)
        BY <2>2, <2>5, <2>8
      <4>. QED  BY <4>1, <3>1, FoundMeans
    <3>. QED  BY <2>2, <3>2 DEF BuiltIn
  <2>. QED  BY <2>6, <2>7, <2>8 DEF AllowHonest
<1>2. IInv => AllowHonest
  BY <1>1 DEF AllowHonest
<1>. QED  BY <1>2, Invariance, PTL

-----------------------------------------------------------------------------
(***************************************************************************)
(* The exact route before the patterns.                                    *)
(***************************************************************************)
\* The server has a route for the request, with the slash or without it as the
\* request has it.
AsWritten ==
    \E r \in served : /\ r.kind = "http" /\ r.method = req.method
                      /\ r.segs = req.segs /\ r.slash = req.slash

\* Routes are only added to the App of a server that is up, so that Julia finds
\* what was registered.
ExactOK ==
    /\ phase # "down" => served \subseteq app
    /\ phase = "up" /\ req.pc = "handled" /\ AsWritten => req.handler = req.segs

LEMMA ExactStep == IInv /\ ExactOK /\ [Next]_vars => ExactOK'
<1>. SUFFICES ASSUME IInv, ExactOK, [Next]_vars PROVE ExactOK'
  OBVIOUS
<1>. USE DEF ExactOK
<1>1. CASE Declare \/ OtherApp \/ Register \/ Listen \/ ListenFails \/ Stop
  <2>1. req' = req /\ (phase' # "down" => served' \subseteq app')
    BY <1>1 DEF Declare, OtherApp, Register, Listen, ListenFails, Stop
  <2>2. phase' = "up" /\ req.pc = "handled" => phase = "up" /\ served' = served
    BY <1>1 DEF Declare, OtherApp, Register, Listen, ListenFails, Stop
  <2>. QED  BY <2>1, <2>2 DEF AsWritten
<1>2. CASE Handle
  <2>1. PICK r \in Handlers : req' = [req EXCEPT !.pc = "handled", !.handler = r.segs]
    BY <1>2 DEF Handle, Change
  <2>2. req'.handler = r.segs /\ req'.method = req.method /\ req'.segs = req.segs
        /\ req'.slash = req.slash /\ UNCHANGED <<phase, served, app>>
    BY <1>2, <2>1 DEF Handle, Change, tables, IInv, RequestTyped, RequestStates
  <2>3. AsWritten /\ phase = "up" => r.segs = req.segs
    BY <2>1 DEF AsWritten, Handlers
  <2>. QED  BY <2>2, <2>3 DEF AsWritten
<1>3. CASE Request \/ Resolve \/ Allow \/ Forward \/ Answer \/ HandleNotFound \/ Done
  <2>1. UNCHANGED <<phase, served, app>>
    BY <1>3 DEF Request, Resolve, Allow, Forward, Answer, HandleNotFound, Done, Change, tables
  <2>2. req'.pc # "handled"
    BY <1>3, NoRequestTyped DEF Request, Resolve, Allow, Forward, Answer, HandleNotFound, Done,
       Change, IInv, RequestTyped, RequestStates, NoRequest
  <2>. QED  BY <2>1, <2>2
<1>4. CASE UNCHANGED vars
  BY <1>4 DEF vars, tables, AsWritten
<1>. QED  BY <1>1, <1>2, <1>3, <1>4 DEF Next

\* A request for a route as the user wrote it is handled by this route, whatever
\* patterns match it, those declared while the server is up included.
THEOREM ExactWinsHolds == Spec => []ExactWins
<1>1. Init => ExactOK
  BY DEF Init, ExactOK
<1>2. ExactOK => ExactWins
  BY DEF ExactOK, AsWritten, ExactWins
<1>. QED  BY <1>1, <1>2, Invariance, ExactStep, PTL DEF Spec

-----------------------------------------------------------------------------
(***************************************************************************)
(* The server of OneServer.                                                *)
(***************************************************************************)
\* A step that leaves the phase, what is served and Rust's Julia routes alone.
LEMMA ServerRests ==
    ASSUME UNCHANGED <<phase, served, httpRoutes>>
    PROVE  [Server!Next]_(Server!vars)
BY DEF Server!vars

LEMMA ServerMaps ==
    ASSUME IInv, [Next]_vars
    PROVE  [Server!Next]_(Server!vars)
<1>. DEFINE keys == {<<r.method, r.segs>> : r \in {s \in served : s.kind = "http"}}
<1>t. TypesOK
  BY DEF IInv, TablesOK
<1>1. CASE Register
  <2>1. /\ phase = "down" /\ phase' = "registered" /\ keys' = RustKeys("http")
        /\ httpRoutes' = httpRoutes \cup RustKeys("http")
    BY <1>1 DEF Register, RustKeys
  <2>2. RustKeys("http") \subseteq Keys
    BY <1>t, RustKeysAreKeys DEF TypesOK
  <2>3. Server!Begin
    BY <2>1, <2>2 DEF Server!Begin
  <2>. QED  BY <2>3 DEF Server!Next
<1>2. CASE Listen
  <2>1. phase = "registered" /\ phase' = "up" /\ UNCHANGED <<served, httpRoutes>>
    BY <1>2 DEF Listen
  <2>2. Server!Up
    BY <2>1 DEF Server!Up
  <2>. QED  BY <2>2 DEF Server!Next
<1>3. CASE ListenFails
  <2>1. phase = "registered" /\ phase' = "down" /\ served' = {} /\ UNCHANGED httpRoutes
    BY <1>3 DEF ListenFails
  <2>2. Server!Fail
    BY <2>1 DEF Server!Fail
  <2>. QED  BY <2>2 DEF Server!Next
<1>4. CASE Stop
  <2>1. phase # "registered" /\ phase' = "down" /\ served' = {} /\ httpRoutes' = {}
    BY <1>4 DEF Stop
  <2>2. phase \in {"down", "up"}
    BY <1>t, <2>1 DEF TypesOK
  <2>3. Server!Stop
    BY <2>1, <2>2 DEF Server!Stop
  <2>. QED  BY <2>3 DEF Server!Next
<1>5. CASE Declare \/ OtherApp
  BY <1>5, ServerRests DEF Declare, OtherApp
<1>6. CASE \/ Request \/ Resolve \/ Allow \/ Forward \/ Answer \/ Handle \/ HandleNotFound
           \/ Done \/ UNCHANGED vars
  <2>1. UNCHANGED tables
    BY <1>6 DEF Request, Resolve, Allow, Forward, Answer, Handle, HandleNotFound, Done, Change, vars
  <2>. QED  BY <2>1, ServerRests DEF tables
<1>. QED  BY <1>1, <1>2, <1>3, <1>4, <1>5, <1>6 DEF Next

\* The calls of serve() and stop_server!() that RouteTable takes for granted are
\* those of OneServer, the promise that ServerLifecycle keeps: the Julia routes
\* of the app that is served are in Rust's table until the server is stopped.
THEOREM TablesOfOneServer == Spec => Server!SafeSpec
<1>1. Init => Server!Init
  BY DEF Init, Server!Init
<1>. QED  BY <1>1, ServerMaps, Invariance, PTL DEF Spec, Server!SafeSpec

=============================================================================
