------------------------------ MODULE RowService ------------------------------
(***************************************************************************)
(* What a request for rows of the database is promised, with no word of    *)
(* routes, looks at the server state, or servers.                          *)
(*                                                                         *)
(* Its statement is carried out at most once, and not after the answer. An *)
(* answer says whether it was carried out. A client that is gone is told   *)
(* nothing: its statement may be carried out all the same.                 *)
(***************************************************************************)
CONSTANTS
    Clients,
    Results   \* what may become of a statement, "done" for carried out

VARIABLE
    client    \* client[c]: where its request is, what became of it, what it was told

At(place, ran, told) == [place |-> place, ran |-> ran, told |-> told]
NoClient == At("none", "no", FALSE)

Init == client = [c \in Clients |-> NoClient]

Open(c) ==
    /\ client[c] = NoClient
    /\ client' = [client EXCEPT ![c] = At("open", "no", FALSE)]

Execute(c) ==
    /\ client[c].place \in {"open", "dropped"}
    /\ client[c].ran = "no"
    /\ \E ran \in Results : client' = [client EXCEPT ![c] = At(@.place, ran, FALSE)]

Answer(c) ==
    /\ client[c].place = "open"
    /\ client' = [client EXCEPT ![c] = At("answered", @.ran, @.ran = "done")]

\* Some connections end with no answer.
Drop(gone) ==
    client' = [c \in Clients |-> IF c \in gone /\ client[c].place = "open"
                                 THEN At("dropped", client[c].ran, FALSE) ELSE client[c]]

Forget(c) ==
    /\ client[c].place \in {"answered", "dropped"}
    /\ client' = [client EXCEPT ![c] = NoClient]

Next ==
    \/ \E gone \in SUBSET Clients : Drop(gone)
    \/ \E c \in Clients : Open(c) \/ Execute(c) \/ Answer(c) \/ Forget(c)

\* A client that stays is answered.
Fairness == \A c \in Clients : WF_client(Answer(c))

SafeSpec == Init /\ [][Next]_client
Spec == SafeSpec /\ Fairness
=============================================================================
