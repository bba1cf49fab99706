------------------------------ MODULE FrameFeed ------------------------------
(***************************************************************************)
(* What a stream promises its clients, with no word of channels that are   *)
(* watched, versions that are seen or sockets.                             *)
(*                                                                         *)
(* Frames are numbered as they come in. A client gets frames of its own    *)
(* stream that came in after it joined, each later than the one before,    *)
(* except that the last one it got may come a second time. It may miss     *)
(* frames, but not the newest for ever.                                    *)
(***************************************************************************)
EXTENDS Naturals

CONSTANTS
    Clients,
    Streams,
    None      \* no stream

VARIABLES
    count,    \* count[s]: how many frames of stream s have come in
    client    \* client[c]: its stream, the frame it is at and how often it got it

vars == <<count, client>>

At(s, n, times) == [stream |-> s, last |-> n, times |-> times]
NoClient == At(None, 0, 0)

Init ==
    /\ count = [s \in Streams |-> 0]
    /\ client = [c \in Clients |-> NoClient]

\* A frame comes in for the clients of a stream, c among them; when there is
\* nobody none does.
Publish(c) ==
    /\ client[c] # NoClient
    /\ count' = [count EXCEPT ![client[c].stream] = @ + 1]
    /\ UNCHANGED client

\* The frames that are there are not for the one who joins.
Join(c, s) ==
    /\ client[c] = NoClient
    /\ client' = [client EXCEPT ![c] = At(s, count[s], 0)]
    /\ UNCHANGED count

Newest(c) == count[client[c].stream]
Behind(c) == client[c] # NoClient /\ client[c].last < Newest(c)

Deliver(c) ==
    /\ Behind(c)
    /\ \E n \in client[c].last + 1 .. Newest(c) :
        client' = [client EXCEPT ![c] = At(@.stream, n, 1)]
    /\ UNCHANGED count

Repeat(c) ==
    /\ client[c].times = 1
    /\ client' = [client EXCEPT ![c] = At(@.stream, @.last, 2)]
    /\ UNCHANGED count

\* Some clients are disconnected, or go away.
Leave(gone) ==
    /\ client' = [c \in Clients |-> IF c \in gone THEN NoClient ELSE client[c]]
    /\ UNCHANGED count

Next ==
    \/ \E gone \in SUBSET Clients : Leave(gone)
    \/ \E c \in Clients :
        \/ Publish(c) \/ Deliver(c) \/ Repeat(c)
        \/ \E s \in Streams : Join(c, s)

\* A client that stays, and stays behind, is served again and again.
Fairness == \A c \in Clients : WF_vars(Deliver(c) \/ (Behind(c) /\ Repeat(c)))

SafeSpec == Init /\ [][Next]_vars
Spec == SafeSpec /\ Fairness
=============================================================================
