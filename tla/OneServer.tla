------------------------------ MODULE OneServer ------------------------------
(***************************************************************************)
(* What a program that never overlaps its calls of serve() may rely on,    *)
(* with no word of tasks, flags, senders or threads.                       *)
(*                                                                         *)
(* There is one server: down, starting or up. While it starts or is up it  *)
(* serves one app, whose routes are all in the tables. Routes go into the  *)
(* tables while nothing is up and leave them only when the server is       *)
(* stopped. Work is done for Julia (a handler or a WebSocket task runs)    *)
(* only once it is up, and none is left when the next server starts.       *)
(***************************************************************************)
CONSTANT Routes

VARIABLES
    phase,   \* "down", "starting" or "up"
    app,     \* the routes of the app the server is for, none while it is down
    tables,  \* the routes Rust knows
    busy     \* a handler or a WebSocket task has not ended yet

vars == <<phase, app, tables, busy>>

Init ==
    /\ phase = "down"
    /\ app = {} /\ tables = {}
    /\ busy = FALSE

\* serve() throws with some of the routes registered.
Abort ==
    /\ phase = "down" /\ ~busy
    /\ tables \subseteq tables' /\ tables' \subseteq Routes
    /\ UNCHANGED <<phase, app, busy>>

Begin ==
    /\ phase = "down" /\ ~busy
    /\ phase' = "starting"
    /\ app' \subseteq Routes
    /\ tables' = tables \cup app'
    /\ UNCHANGED busy

\* Once it is up, work may begin.
Up ==
    /\ phase = "starting"
    /\ phase' = "up"
    /\ busy' \in BOOLEAN
    /\ UNCHANGED <<app, tables>>

\* The routes stay in the tables.
Fail ==
    /\ phase = "starting"
    /\ phase' = "down"
    /\ app' = {}
    /\ UNCHANGED <<tables, busy>>

Work ==
    /\ phase = "up"
    /\ busy' = TRUE
    /\ UNCHANGED <<phase, app, tables>>

Rest ==
    /\ busy
    /\ busy' = FALSE
    /\ UNCHANGED <<phase, app, tables>>

Stop ==
    /\ phase # "starting"
    /\ phase' = "down"
    /\ app' = {} /\ tables' = {}
    /\ UNCHANGED busy

Next == Abort \/ Begin \/ Up \/ Fail \/ Work \/ Rest \/ Stop

\* A start comes to an end, and so does what is left of a server that is down.
Fairness == WF_vars(Up \/ Fail) /\ WF_vars(phase = "down" /\ Rest)

SafeSpec == Init /\ [][Next]_vars
Spec == SafeSpec /\ Fairness
=============================================================================
