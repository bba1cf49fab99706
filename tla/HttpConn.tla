------------------------------- MODULE HttpConn -------------------------------
(***************************************************************************)
(* One connection of the HTTP server, from accept() to its end: the head   *)
(* is peeked at once, read again in pieces, then the body; the request is  *)
(* handled and the answer written, all under a timeout of 30 seconds, and  *)
(* the reading under a second one. Connections share nothing that matters  *)
(* here, so that there is one.                                             *)
(*                                                                         *)
(* Bytes are numbers: arrived have come in, the first len of them were     *)
(* taken out of the socket into the buffer. See RequestFraming for what a  *)
(* stream is. Left out: what the request says, and how it is handled.      *)
(***************************************************************************)
EXTENDS Integers

CONSTANTS
    Streams,     \* what a client may send
    HeadLimit,   \* HEADER_READ_LIMIT: of the peek and of the head
    HeadRead,    \* at most so many bytes at a time while the head is read
    BodyLimit,   \* BODY_READ_LIMIT
    BodyRead,    \* at most so many bytes at a time while the body is read
    Timeout      \* REQUEST_TIMEOUT_SECS, in ticks of the clock

VARIABLES
    stream,   \* what the client is going to send
    arrived,  \* how much of it has come in
    ended,    \* "fin": the client sends no more. "gone": it has reset the connection
    pc,       \* where the connection's task is
    len,      \* buffer.len()
    head,     \* headers_end, 0 as long as it is not known
    request,  \* what is handed on: where its head and its body end
    status,   \* the status of the answer, 200 for whatever a handler answers
    answer,   \* how much of the answer is written
    why,      \* why the connection was closed
    age,      \* the time since accept()
    readAge   \* age when read_http_request was called

client == <<stream, arrived, ended>>
buffer == <<len, head, request>>
reply == <<status, answer>>
clock == <<age, readAge>>
vars == <<client, pc, buffer, reply, why, clock>>

Framing == INSTANCE RequestFraming WITH open <- pc # "done"

ASSUME ConnAssumption ==
    /\ HeadLimit \in Nat /\ BodyLimit \in Nat
    /\ HeadRead \in Nat \ {0} /\ BodyRead \in Nat \ {0} /\ Timeout \in Nat \ {0}
    /\ \A s \in Streams : s \in Framing!Stream

Smaller(a, b) == IF a <= b THEN a ELSE b
Larger(a, b) == IF a >= b THEN a ELSE b

Init ==
    /\ stream \in Streams
    /\ arrived = 0 /\ ended = "no"
    /\ pc = "peek"
    /\ len = 0 /\ head = 0 /\ request = Framing!NoRequest
    /\ status = 0 /\ answer = "none"
    /\ why = "open"
    /\ age = 0 /\ readAge = 0

Finish(cause) == pc' = "done" /\ why' = cause
Goto(point) == pc' = point /\ UNCHANGED why

(***************************************************************************)
(* The client and the network.                                             *)
(***************************************************************************)
\* A segment comes in, cut wherever the network cuts it.
Arrive ==
    /\ pc # "done" /\ ended = "no"
    /\ \E n \in arrived + 1 .. stream.total : arrived' = n
    /\ UNCHANGED <<stream, ended, pc, buffer, reply, why, clock>>

StopSending ==
    /\ pc # "done" /\ ended = "no"
    /\ ended' = "fin"
    /\ UNCHANGED <<stream, arrived, pc, buffer, reply, why, clock>>

Reset ==
    /\ pc # "done" /\ ended # "gone"
    /\ ended' = "gone"
    /\ UNCHANGED <<stream, arrived, pc, buffer, reply, why, clock>>

(***************************************************************************)
(* handle_connection_inner up to the request.                              *)
(***************************************************************************)
\* Mutant of HeadSeen: the head is parsed before its blank line is there.
HeadSeenEarly(n) == stream.head # "bad" /\ n > 0

\* parse_request_head finds a head it understands in the first n bytes.
HeadSeen(n) ==
    /\ stream.head # "bad"
    /\ \E e \in stream.ends : Framing!IsFirstEnd(stream, e) /\ e <= n

\* One look at what is there. Without a whole head the answer is 400; with an
\* upgrade to a path that has a stream the socket is given away unread.
Peek ==
    /\ pc = "peek"
    /\ arrived > 0 \/ ended = "fin"
    /\ IF HeadSeen(Smaller(arrived, HeadLimit))
       THEN /\ \/ stream.head = "upgrade" /\ Goto("socket") /\ UNCHANGED readAge
               \/ Goto("head") /\ readAge' = age
            /\ UNCHANGED status
       ELSE /\ Goto("reply")
            /\ status' = 400
            /\ UNCHANGED readAge
    /\ UNCHANGED <<client, buffer, answer, age>>

PeekFails ==
    /\ pc = "peek" /\ ended = "gone"
    /\ Finish("peer")
    /\ UNCHANGED <<client, buffer, reply, clock>>

\* Mutant of SearchStart: only the new bytes are searched.
SearchStartFresh == len

\* A blank line may have begun in the bytes that were there.
SearchStart == Larger(len - (Framing!Terminator - 1), 0)

\* The blank lines in a buffer of n bytes, seen from where the search starts.
Found(n) == {e \in stream.ends : SearchStart + Framing!Terminator <= e /\ e <= n}

\* Mutant of Expected: the body is counted from the start of the buffer.
ExpectedBody(end) == Larger(end, stream.declared)

Expected(end) == end + stream.declared

\* The request is taken when the buffer has all of it.
Continue(n, end) ==
    IF n >= Expected(end)
    THEN Goto("handle") /\ request' = [head |-> end, body |-> Expected(end)]
    ELSE Goto("body") /\ UNCHANGED request

\* Mutant of Refused: the limit of the body is left out.
RefusedChunked == stream.head = "bad" \/ stream.chunked

\* What read_http_request_inner refuses once it has the head.
Refused == stream.head = "bad" \/ stream.chunked \/ stream.declared > BodyLimit

ReadHead ==
    /\ pc = "head"
    /\ \E k \in 1 .. Smaller(arrived - len, HeadRead) :
        /\ len' = len + k
        /\ IF Found(len + k) = {}
           THEN /\ IF len + k >= HeadLimit THEN Finish("limit") ELSE Goto("head")
                /\ UNCHANGED <<head, request>>
           ELSE \E end \in Found(len + k) :
                /\ \A e \in Found(len + k) : end <= e
                /\ head' = end
                /\ IF Refused THEN Finish("refused") /\ UNCHANGED request
                              ELSE Continue(len + k, end)
    /\ UNCHANGED <<client, reply, clock>>

\* Mutant of ReadBody: the buffer is not cut back to what was read.
ReadBodyUncut ==
    /\ pc = "body" /\ arrived > len
    /\ LET k == Smaller(Expected(head) - len, BodyRead)
       IN len' = len + k /\ Continue(len + k, head)
    /\ UNCHANGED <<client, head, reply, clock>>

ReadBody ==
    /\ pc = "body"
    /\ \E k \in 1 .. Smaller(arrived - len, Smaller(Expected(head) - len, BodyRead)) :
        /\ len' = len + k
        /\ Continue(len + k, head)
    /\ UNCHANGED <<client, head, reply, clock>>

\* The stream ends, or breaks: the error gets a status that is only printed.
ReadFails ==
    /\ pc \in {"head", "body"}
    /\ ended = "gone" \/ (ended = "fin" /\ arrived = len)
    /\ Finish("read")
    /\ UNCHANGED <<client, buffer, reply, clock>>

(***************************************************************************)
(* The answer.                                                             *)
(***************************************************************************)
\* handle_http_request has an answer, or no runtime to ask.
Handle ==
    /\ pc = "handle"
    /\ \/ Goto("reply") /\ status' = 200
       \/ Finish("handler") /\ UNCHANGED status
    /\ UNCHANGED <<client, buffer, answer, clock>>

WriteHeader ==
    /\ pc = "reply"
    /\ Goto("rest")
    /\ answer' = "header"
    /\ UNCHANGED <<client, buffer, status, clock>>

WriteBody ==
    /\ pc = "rest"
    /\ Finish("answered")
    /\ answer' = "whole"
    /\ UNCHANGED <<client, buffer, status, clock>>

WriteFails ==
    /\ pc \in {"reply", "rest"} /\ ended = "gone"
    /\ Finish("peer")
    /\ UNCHANGED <<client, buffer, reply, clock>>

\* handle_socket returns; WsStream has what it does.
SocketEnds ==
    /\ pc = "socket"
    /\ Finish("socket")
    /\ UNCHANGED <<client, buffer, reply, clock>>

(***************************************************************************)
(* Time, and the end of the runtime.                                       *)
(***************************************************************************)
Tick ==
    /\ pc # "done" /\ age < Timeout
    /\ age' = age + 1
    /\ UNCHANGED <<client, pc, buffer, reply, why, readAge>>

\* The inner timer is looked at first.
ReadDue == pc \in {"head", "body"} /\ age - readAge >= Timeout

\* A 408 that is only printed.
ReadTimeout ==
    /\ ReadDue
    /\ Finish("408")
    /\ UNCHANGED <<client, buffer, reply, clock>>

\* Mutant of ConnectionTimeout: an upgraded connection is on its own.
ConnectionTimeoutHttp ==
    /\ pc \notin {"done", "socket"} /\ age >= Timeout /\ ~ReadDue
    /\ Finish("timeout")
    /\ UNCHANGED <<client, buffer, reply, clock>>

\* The future of the connection is dropped at whatever it awaits.
ConnectionTimeout ==
    /\ pc # "done" /\ age >= Timeout /\ ~ReadDue
    /\ Finish("timeout")
    /\ UNCHANGED <<client, buffer, reply, clock>>

\* The server was stopped, and its runtime drops the connection.
RuntimeDropped ==
    /\ pc # "done"
    /\ Finish("shutdown")
    /\ UNCHANGED <<client, buffer, reply, clock>>

-----------------------------------------------------------------------------
Next ==
    \/ Arrive \/ StopSending \/ Reset
    \/ Peek \/ PeekFails \/ ReadHead \/ ReadBody \/ ReadFails
    \/ Handle \/ WriteHeader \/ WriteBody \/ WriteFails \/ SocketEnds
    \/ Tick \/ ReadTimeout \/ ConnectionTimeout \/ RuntimeDropped

\* Time passes and Tokio's timers fire; nobody else has to do anything.
Fairness == WF_vars(Tick) /\ WF_vars(ReadTimeout) /\ WF_vars(ConnectionTimeout)

SafeSpec == Init /\ [][Next]_vars
Spec == SafeSpec /\ Fairness

-----------------------------------------------------------------------------
(***************************************************************************)
(* Properties.                                                             *)
(***************************************************************************)
\* The types. Nothing is taken out of the socket before it is read.
TypeOK ==
    /\ stream \in Streams
    /\ arrived \in 0 .. stream.total
    /\ ended \in {"no", "fin", "gone"}
    /\ pc \in {"peek", "socket", "head", "body", "handle", "reply", "rest", "done"}
    /\ len \in 0 .. arrived
    /\ head \in Nat
    /\ request \in [head : Nat, body : Nat]
    /\ status \in {0, 200, 400}
    /\ answer \in {"none", "header", "whole"}
    /\ why \in {"open", "peer", "limit", "refused", "read", "handler", "answered",
                "socket", "408", "timeout", "shutdown"}
    /\ age \in 0 .. Timeout /\ readAge \in 0 .. age

\* The end of the head is not missed, however it was cut: while the head is read
\* the buffer has no blank line, and then headers_end is the first one.
BlankLineFound ==
    /\ pc = "head" => \A e \in stream.ends : len < e
    /\ head # 0 => Framing!IsFirstEnd(stream, head) /\ head <= len

\* The buffer stays within the two limits: what precedes the blank line is below
\* the first, and reading on for the body never takes more than the body.
BufferBounded == len <= HeadLimit + Larger(HeadRead - 1, BodyLimit)

\* A connection that nobody cuts off, not even a timer, is left without an answer
\* for three reasons only: a chunked body, a body too large, or a client that
\* stops in the middle of its request. A head that was seen by the peek is not
\* refused by the read.
SilentDrop ==
    pc = "done" /\ why \in {"limit", "refused", "read"} /\ ended # "gone" =>
        \/ stream.chunked
        \/ stream.declared > BodyLimit
        \/ \A e \in stream.ends : Framing!IsFirstEnd(stream, e) => arrived < Expected(e)

\* Closing a socket with unread bytes in it resets the connection and may destroy
\* the answer. That happens to an answer of 400, and to a client that sends more
\* than its request, and to no other.
CleanClose ==
    answer = "whole" /\ arrived > len => status = 400 \/ stream.total > head + stream.declared

\* However the bytes are cut, the first request is taken as a whole or not at
\* all, and every connection ends, WebSockets included.
ImplementsFraming == Framing!Spec

=============================================================================
