---------------------------- MODULE RequestFraming ----------------------------
(***************************************************************************)
(* What a connection promises about the bytes its client sends: however    *)
(* they are cut into segments, the server takes the first request of the   *)
(* stream, that one and all of it, or none; and the connection ends.       *)
(*                                                                         *)
(* A stream is bytes numbered from 1. ends are the positions where a blank *)
(* line ("\r\n\r\n") ends, head is what the bytes up to the first of them  *)
(* say, declared the value of Content-Length, 0 without one.               *)
(***************************************************************************)
EXTENDS Integers

CONSTANTS
    Streams,     \* what a client may send before it stops sending
    HeadLimit,   \* HEADER_READ_LIMIT
    BodyLimit    \* BODY_READ_LIMIT

\* A blank line has four bytes.
Terminator == 4

Stream ==
    {s \in [total : Nat, ends : SUBSET Nat, head : {"http", "upgrade", "bad"},
            chunked : BOOLEAN, declared : Nat] :
        \A e \in s.ends : Terminator <= e /\ e <= s.total}

VARIABLES
    stream,   \* what the client sends
    request,  \* the request that was taken: where its head and its body end
    open      \* the connection is open

vars == <<stream, request, open>>

NoRequest == [head |-> 0, body |-> 0]

\* No blank line ends before this one.
IsFirstEnd(s, e) == e \in s.ends /\ \A f \in s.ends : e <= f

\* The requests the server takes, and where the first one of the stream ends.
Takes(s, r) ==
    /\ s.head # "bad" /\ ~s.chunked /\ s.declared <= BodyLimit
    /\ IsFirstEnd(s, r.head) /\ r.head <= HeadLimit
    /\ r.body = r.head + s.declared /\ r.body <= s.total

Init ==
    /\ stream \in Streams
    /\ request = NoRequest
    /\ open = TRUE

Take ==
    /\ open
    /\ request = NoRequest
    /\ request' # NoRequest /\ Takes(stream, request')
    /\ UNCHANGED <<stream, open>>

Close ==
    /\ open
    /\ open' = FALSE
    /\ UNCHANGED <<stream, request>>

Next == Take \/ Close

SafeSpec == Init /\ [][Next]_vars
Spec == SafeSpec /\ WF_vars(Close)
=============================================================================
