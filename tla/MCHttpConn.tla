------------------------------ MODULE MCHttpConn ------------------------------
(***************************************************************************)
(* A small instance of HttpConn for TLC: a head of up to 8 bytes that is   *)
(* read by up to 5, so that a blank line may be cut in each place.         *)
(***************************************************************************)
EXTENDS HttpConn

Sent(total, ends, kind, chunked, declared) ==
    [total |-> total, ends |-> ends, head |-> kind, chunked |-> chunked, declared |-> declared]

\* Requests without and with a body, followed by another one, with a blank line
\* in the body, with one that overlaps the first; and what is refused: no blank
\* line, one beyond the limit, bad heads, chunked or large bodies.
SomeStreams ==
    {Sent(5, {5}, "http", FALSE, 0), Sent(7, {7}, "upgrade", FALSE, 0),
     Sent(10, {8}, "http", FALSE, 2), Sent(11, {6}, "http", FALSE, 3),
     Sent(12, {5, 12}, "http", FALSE, 0), Sent(12, {5, 9}, "upgrade", FALSE, 3),
     Sent(9, {5, 7}, "http", FALSE, 2), Sent(9, {7}, "http", FALSE, 3),
     Sent(9, {}, "http", FALSE, 0), Sent(10, {10}, "http", FALSE, 0),
     Sent(6, {6}, "bad", FALSE, 0), Sent(8, {6}, "http", TRUE, 0),
     Sent(13, {8}, "http", FALSE, 5)}
=============================================================================
