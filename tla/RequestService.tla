--------------------------- MODULE RequestService ---------------------------
(***************************************************************************)
(* What one run of the server promises about each HTTP request that a      *)
(* Julia handler serves, with no word of channels, wakeups or threads.     *)
(*                                                                         *)
(* A client is answered only after the work of its own request finished,   *)
(* the work of a request is done at most once (it only moves forward), a   *)
(* request is refused only while the service closes, and once the service  *)
(* is down no client is left connected.                                    *)
(***************************************************************************)
CONSTANT Requests

VARIABLES
    client,   \* client[r]: where the client of request r is
    work,     \* work[r]: how far the work of request r has come
    service   \* "up", "closing" (stop was called) or "down"

vars == <<client, work, service>>

ClientState == {"idle", "open", "answered", "refused", "dropped"}
WorkState == {"none", "queued", "running", "finished"}

Init ==
    /\ client = [r \in Requests |-> "idle"]
    /\ work = [r \in Requests |-> "none"]
    /\ service = "up"

Open(r) ==
    /\ service # "down"
    /\ client[r] = "idle"
    /\ client' = [client EXCEPT ![r] = "open"]
    /\ UNCHANGED <<work, service>>

\* The request of an open client is handed over, at most once.
Submit(r) ==
    /\ client[r] = "open"
    /\ work[r] = "none"
    /\ work' = [work EXCEPT ![r] = "queued"]
    /\ UNCHANGED <<client, service>>

Start(r) ==
    /\ work[r] = "queued"
    /\ work' = [work EXCEPT ![r] = "running"]
    /\ UNCHANGED <<client, service>>

Finish(r) ==
    /\ work[r] = "running"
    /\ work' = [work EXCEPT ![r] = "finished"]
    /\ UNCHANGED <<client, service>>

Answer(r) ==
    /\ client[r] = "open"
    /\ work[r] = "finished"
    /\ client' = [client EXCEPT ![r] = "answered"]
    /\ UNCHANGED <<work, service>>

\* The routes are gone before the listener is: a 404 while the service closes.
Refuse(r) ==
    /\ service = "closing"
    /\ client[r] = "open"
    /\ work[r] = "none"
    /\ client' = [client EXCEPT ![r] = "refused"]
    /\ UNCHANGED <<work, service>>

\* The connection closes with no response: its time is over, or it broke.
Drop(r) ==
    /\ client[r] = "open"
    /\ client' = [client EXCEPT ![r] = "dropped"]
    /\ UNCHANGED <<work, service>>

BeginClose ==
    /\ service = "up"
    /\ service' = "closing"
    /\ UNCHANGED <<client, work>>

Close ==
    /\ service = "closing"
    /\ service' = "down"
    /\ client' = [r \in Requests |-> IF client[r] = "open" THEN "dropped" ELSE client[r]]
    /\ UNCHANGED work

Next ==
    \/ \E r \in Requests :
        \/ Open(r) \/ Submit(r) \/ Start(r) \/ Finish(r)
        \/ Answer(r) \/ Refuse(r) \/ Drop(r)
    \/ BeginClose
    \/ Close

\* A client never waits for ever, and a service that closes gets down.
Fairness ==
    /\ \A r \in Requests : WF_vars(Answer(r) \/ Refuse(r) \/ Drop(r))
    /\ WF_vars(Close)

SafeSpec == Init /\ [][Next]_vars
Spec == SafeSpec /\ Fairness
=============================================================================
