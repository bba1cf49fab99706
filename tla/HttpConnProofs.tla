---------------------------- MODULE HttpConnProofs ----------------------------
(***************************************************************************)
(* What HttpConn promises, for every stream, every limit and every way to  *)
(* cut the bytes.                                                          *)
(***************************************************************************)
EXTENDS HttpConn, TLAPS

Buffered == HeadLimit + Larger(HeadRead - 1, BodyLimit)

Taken == [head |-> head, body |-> head + stream.declared]

\* The peek has seen the first blank line, and the limits hold for it.
FirstEndSeen ==
    /\ stream.head # "bad"
    /\ \E e \in stream.ends : Framing!IsFirstEnd(stream, e) /\ e <= HeadLimit

\* Where the task is says what the buffer has.
Places ==
    /\ pc \in {"peek", "socket"} => len = 0 /\ head = 0
    /\ pc = "head" => FirstEndSeen /\ head = 0 /\ len < HeadLimit
    /\ pc \in {"body", "handle"} => head # 0
    /\ status = 200 => head # 0 /\ len >= head + stream.declared
    /\ pc = "body" => len < head + stream.declared
    /\ pc = "handle" => len >= head + stream.declared /\ status = 0
    /\ pc \in {"peek", "socket", "head", "body"} => status = 0
    /\ pc \in {"reply", "rest"} => status # 0

\* What is known of a head that was accepted.
HeadTaken ==
    /\ head # 0 => head <= HeadLimit /\ stream.head # "bad"
    /\ pc \in {"body", "handle"} => ~stream.chunked /\ stream.declared <= BodyLimit

\* The request is the first one of the stream, and it is set once.
RequestTaken ==
    /\ request # Framing!NoRequest => Framing!Takes(stream, request)
    /\ pc \in {"peek", "socket", "head", "body"} => request = Framing!NoRequest

Closed ==
    /\ pc # "done" => why = "open"
    /\ answer = "whole" => pc = "done" /\ status # 0

Inv ==
    /\ TypeOK /\ BlankLineFound /\ BufferBounded /\ SilentDrop
    /\ Places /\ HeadTaken /\ RequestTaken /\ Closed

\* The two helpers are the minimum and the maximum.
LEMMA SmallerLarger ==
    ASSUME NEW a \in Int, NEW b \in Int
    PROVE  /\ Smaller(a, b) \in {a, b} /\ Smaller(a, b) <= a /\ Smaller(a, b) <= b
           /\ Larger(a, b) \in {a, b} /\ Larger(a, b) >= a /\ Larger(a, b) >= b
  BY DEF Smaller, Larger

\* The parts of a stream, and that a blank line has its four bytes.
LEMMA StreamParts ==
    ASSUME NEW s \in Streams
    PROVE  /\ s.total \in Nat /\ s.ends \subseteq Nat /\ s.declared \in Nat
           /\ s.chunked \in BOOLEAN /\ s.head \in {"http", "upgrade", "bad"}
           /\ \A e \in s.ends : e \in Nat /\ 4 <= e /\ e <= s.total
  BY ConnAssumption DEF Framing!Stream, Framing!Terminator

LEMMA InitInv == Init => Inv
  <1>1. SUFFICES ASSUME Init PROVE Inv
    OBVIOUS
  <1>2. /\ HeadLimit \in Nat /\ BodyLimit \in Nat /\ HeadRead - 1 \in Nat /\ Timeout \in Nat
        /\ stream.total \in Nat
    BY <1>1, ConnAssumption, StreamParts DEF Init
  <1>3. TypeOK
    BY <1>1, <1>2 DEF Init, TypeOK, Framing!NoRequest
  <1>4. BufferBounded
    BY <1>1, <1>2, SmallerLarger DEF Init, BufferBounded
  <1>5. BlankLineFound /\ SilentDrop
    BY <1>1 DEF Init, BlankLineFound, SilentDrop
  <1>6. Places /\ HeadTaken /\ RequestTaken /\ Closed
    BY <1>1 DEF Init, Places, HeadTaken, RequestTaken, Closed
  <1> QED
    BY <1>3, <1>4, <1>5, <1>6 DEF Inv

\* What a step may rely on.
LEMMA Facts ==
    ASSUME TypeOK
    PROVE  /\ HeadLimit \in Nat /\ BodyLimit \in Nat /\ Timeout \in Nat
           /\ HeadRead \in Nat \ {0} /\ BodyRead \in Nat \ {0}
           /\ stream.total \in Nat /\ stream.ends \subseteq Nat /\ stream.declared \in Nat
           /\ \A e \in stream.ends : 4 <= e /\ e <= stream.total
           /\ len \in Nat /\ arrived \in Nat /\ len <= arrived /\ arrived <= stream.total
           /\ head \in Nat
  BY ConnAssumption, StreamParts DEF TypeOK

\* A step that only closes the connection.
Closes == Finish(why') /\ UNCHANGED <<client, buffer, reply, clock>>

LEMMA ClosesInv ==
    ASSUME Inv, Closes, pc # "done",
           why' \in {"peer", "read", "handler", "socket", "408", "timeout", "shutdown"},
           why' = "read" =>
                /\ pc \in {"head", "body"}
                /\ ended = "gone" \/ (ended = "fin" /\ arrived = len)
    PROVE  Inv'
  <1> USE DEF Closes, Finish, client, buffer, reply, clock
  <1>1. TypeOK' /\ BlankLineFound' /\ BufferBounded'
    BY DEF Inv, TypeOK, BlankLineFound, BufferBounded
  <1>2. Places' /\ HeadTaken' /\ RequestTaken' /\ Closed'
    BY DEF Inv, Places, HeadTaken, RequestTaken, Closed
  <1>3. SilentDrop'
    <2>1. SUFFICES ASSUME why' = "read", ended # "gone", NEW e \in stream.ends,
                          Framing!IsFirstEnd(stream, e)
                   PROVE  arrived < Expected(e)
      BY DEF SilentDrop, Expected
    <2>2. arrived = len /\ e \in Nat /\ len \in Nat /\ head \in Nat /\ stream.declared \in Nat
      BY <2>1, Facts DEF Inv
    <2>3. CASE pc = "head"
      BY <2>1, <2>2, <2>3 DEF Inv, BlankLineFound, Expected
    <2>4. CASE pc = "body"
      <3>1. head # 0 /\ Framing!IsFirstEnd(stream, head) /\ len < head + stream.declared
        BY <2>4 DEF Inv, Places, BlankLineFound
      <3>2. head = e
        BY <2>1, <2>2, <3>1, Facts DEF Framing!IsFirstEnd, Inv
      <3> QED BY <2>2, <3>1, <3>2 DEF Expected
    <2> QED BY <2>1, <2>3, <2>4
  <1> QED BY <1>1, <1>2, <1>3 DEF Inv

\* A step of the client or of the clock.
LEMMA OutsideInv ==
    ASSUME Inv, Arrive \/ StopSending \/ Reset \/ Tick
    PROVE  Inv'
  <1> USE DEF client, buffer, reply, clock
  <1>1. /\ pc # "done" /\ UNCHANGED <<stream, pc, buffer, reply, why, readAge>>
    BY DEF Arrive, StopSending, Reset, Tick
  <1>2. TypeOK'
    <2>1. arrived' \in 0 .. stream.total /\ len \in 0 .. arrived'
      BY Facts DEF Arrive, StopSending, Reset, Tick, Inv, TypeOK
    <2>2. ended' \in {"no", "fin", "gone"} /\ age' \in 0 .. Timeout /\ readAge \in 0 .. age'
      BY Facts DEF Arrive, StopSending, Reset, Tick, Inv, TypeOK
    <2> QED BY <1>1, <2>1, <2>2 DEF Inv, TypeOK
  <1>3. BlankLineFound' /\ BufferBounded' /\ SilentDrop'
    BY <1>1 DEF Inv, BlankLineFound, BufferBounded, SilentDrop
  <1>4. Places' /\ HeadTaken' /\ RequestTaken' /\ Closed'
    BY <1>1 DEF Inv, Places, FirstEndSeen, HeadTaken, RequestTaken, Closed
  <1> QED BY <1>2, <1>3, <1>4 DEF Inv

LEMMA PeekInv ==
    ASSUME Inv, Peek
    PROVE  Inv'
  <1> USE DEF client, buffer, reply, clock
  <1>1. /\ pc = "peek" /\ UNCHANGED <<client, buffer, answer, age, why>>
        /\ pc' \in {"socket", "head", "reply"} /\ readAge' \in {readAge, age}
        /\ pc' = "head" => HeadSeen(Smaller(arrived, HeadLimit)) /\ status' = status
        /\ pc' = "socket" => status' = status
        /\ pc' = "reply" => status' = 400
    BY DEF Peek, Goto
  <1>2. len = 0 /\ head = 0 /\ status = 0 /\ request = Framing!NoRequest
    BY <1>1 DEF Inv, Places, RequestTaken
  <1>3. TypeOK'
    <2>1. readAge' \in 0 .. age' /\ status' \in {0, 200, 400}
      BY <1>1, <1>2, Facts DEF Inv, TypeOK
    <2> QED BY <1>1, <2>1 DEF Inv, TypeOK
  <1>4. pc' = "head" => FirstEndSeen'
    BY <1>1, Facts, SmallerLarger DEF Inv, FirstEndSeen, HeadSeen
  <1>5. pc' = "head" => len < HeadLimit
    <2>1. SUFFICES ASSUME pc' = "head" PROVE 0 < HeadLimit
      BY <1>2
    <2>2. PICK e \in stream.ends : e <= HeadLimit
      BY <1>1, <1>4, <2>1 DEF FirstEndSeen
    <2> QED BY <2>2, Facts DEF Inv
  <1>6. BlankLineFound'
    BY <1>1, <1>2, Facts DEF Inv, BlankLineFound
  <1>7. BufferBounded' /\ SilentDrop' /\ HeadTaken' /\ RequestTaken' /\ Closed'
    BY <1>1, <1>2 DEF Inv, BufferBounded, SilentDrop, HeadTaken, RequestTaken, Closed
  <1>8. Places'
    BY <1>1, <1>2, <1>4, <1>5 DEF Places
  <1> QED BY <1>3, <1>6, <1>7, <1>8 DEF Inv

\* The search never starts behind the blank line it looks for.
LEMMA FoundIsFirst ==
    ASSUME Inv, pc = "head", NEW n \in Nat, len < n
    PROVE  /\ Found(n) = {} => (\A e \in stream.ends : n < e) /\ n < HeadLimit
           /\ \A end \in Found(n) :
                (\A e \in Found(n) : end <= e) =>
                    Framing!IsFirstEnd(stream, end) /\ end <= HeadLimit /\ end <= n /\ end \in Nat
  <1>1. PICK first \in stream.ends : Framing!IsFirstEnd(stream, first) /\ first <= HeadLimit
    BY DEF Inv, Places, FirstEndSeen
  <1>2. /\ first \in Nat /\ 4 <= first /\ len \in Nat /\ len < first /\ HeadLimit \in Nat
        /\ \A e \in stream.ends : first <= e /\ e \in Nat
    BY <1>1, Facts DEF Inv, BlankLineFound, Framing!IsFirstEnd
  <1>3. SearchStart + 4 <= first
    <2>1. SearchStart \in {len - 3, 0}
      BY <1>2 DEF SearchStart, Larger, Framing!Terminator
    <2> QED BY <1>2, <2>1
  <1>4. first <= n => first \in Found(n)
    BY <1>3 DEF Found, Framing!Terminator
  <1>5. Found(n) \subseteq stream.ends /\ \A e \in Found(n) : e <= n
    BY DEF Found
  <1>6. Found(n) = {} => (\A e \in stream.ends : n < e) /\ n < HeadLimit
    BY <1>1, <1>2, <1>4
  <1>7. ASSUME NEW end \in Found(n), \A e \in Found(n) : end <= e
        PROVE  Framing!IsFirstEnd(stream, end) /\ end <= HeadLimit /\ end <= n /\ end \in Nat
    <2>1. end \in Nat /\ first <= end /\ end <= n
      BY <1>2, <1>5, <1>7
    <2>2. first \in Found(n)
      BY <1>2, <1>4, <2>1
    <2>3. end = first
      BY <1>2, <1>7, <2>1, <2>2
    <2> QED BY <1>1, <2>1, <2>3
  <1> QED BY <1>6, <1>7

\* Of a head that has been read, and a buffer of n bytes, either the request is
\* taken or the body is read.
LEMMA ContinueInv ==
    ASSUME Inv, NEW end \in Nat, NEW n \in Nat, Continue(n, end), pc \in {"head", "body"},
           Framing!IsFirstEnd(stream, end), end <= HeadLimit, end <= n,
           len <= n, n <= arrived, n <= Buffered,
           stream.head # "bad", ~stream.chunked, stream.declared <= BodyLimit,
           len' = n, head' = end, UNCHANGED <<client, reply, clock>>
    PROVE  Inv'
  <1> USE DEF client, reply, clock
  <1>1. /\ pc' \in {"handle", "body"} /\ UNCHANGED why
        /\ pc' = "handle" => n >= end + stream.declared
                             /\ request' = [head |-> end, body |-> end + stream.declared]
        /\ pc' = "body" => n < end + stream.declared /\ UNCHANGED request
    BY Facts DEF Continue, Expected, Goto, Inv
  <1>2. /\ 4 <= end /\ status = 0 /\ request = Framing!NoRequest /\ why = "open"
        /\ stream.declared \in Nat /\ arrived <= stream.total /\ arrived \in Nat /\ stream.total \in Nat
    BY Facts DEF Inv, Places, RequestTaken, Closed, Framing!IsFirstEnd
  <1>3. TypeOK'
    <2>1. len' \in 0 .. arrived
      BY <1>2
    <2>2. request' \in [head : Nat, body : Nat]
      BY <1>1, <1>2 DEF Framing!NoRequest
    <2> QED BY <1>1, <2>1, <2>2 DEF Inv, TypeOK
  <1>4. BlankLineFound' /\ BufferBounded'
    BY <1>1, <1>2 DEF BlankLineFound, BufferBounded, Buffered
  <1>5. SilentDrop' /\ HeadTaken' /\ Closed' /\ Places'
    BY <1>1, <1>2 DEF Inv, SilentDrop, HeadTaken, Closed, Places
  <1>6. RequestTaken'
    <2>1. CASE pc' = "handle"
      <3>1. Framing!Takes(stream, [head |-> end, body |-> end + stream.declared])
        BY <1>1, <1>2, <2>1 DEF Framing!Takes
      <3> QED BY <1>1, <2>1, <3>1 DEF RequestTaken
    <2>2. CASE pc' = "body"
      BY <1>1, <1>2, <2>2 DEF RequestTaken
    <2> QED BY <1>1, <2>1, <2>2
  <1> QED BY <1>3, <1>4, <1>5, <1>6 DEF Inv

LEMMA ReadHeadInv ==
    ASSUME Inv, ReadHead
    PROVE  Inv'
  <1> USE DEF client, reply, clock
  <1>1. PICK k \in 1 .. Smaller(arrived - len, HeadRead) :
            /\ len' = len + k
            /\ \/ /\ Found(len + k) = {}
                  /\ IF len + k >= HeadLimit THEN Finish("limit") ELSE Goto("head")
                  /\ UNCHANGED <<head, request>>
               \/ \E end \in Found(len + k) :
                    /\ \A e \in Found(len + k) : end <= e
                    /\ head' = end
                    /\ IF Refused THEN Finish("refused") /\ UNCHANGED request
                                  ELSE Continue(len + k, end)
    BY DEF ReadHead
  <1>2. /\ pc = "head" /\ UNCHANGED <<client, reply, clock>>
        /\ head = 0 /\ FirstEndSeen /\ status = 0 /\ request = Framing!NoRequest /\ why = "open"
        /\ len < HeadLimit
    BY DEF ReadHead, Inv, Places, RequestTaken, Closed
  <1>3. /\ k \in Nat /\ 1 <= k /\ k <= arrived - len /\ k <= HeadRead /\ len + k \in Nat
        /\ len < len + k /\ len + k <= arrived
    BY Facts, SmallerLarger DEF Inv
  <1>4. len + k <= Buffered
    <2>1. len + k <= HeadLimit + (HeadRead - 1)
      BY <1>2, <1>3, Facts DEF Inv
    <2>2. HeadRead - 1 <= Larger(HeadRead - 1, BodyLimit) /\ Larger(HeadRead - 1, BodyLimit) \in Int
      BY Facts DEF Inv, Larger
    <2> QED BY <1>3, <2>1, <2>2, Facts DEF Inv, Buffered
  <1>5. CASE Found(len + k) = {}
    <2>1. (\A e \in stream.ends : len + k < e) /\ len + k < HeadLimit
      BY <1>2, <1>3, <1>5, FoundIsFirst
    <2>2. pc' = "head" /\ UNCHANGED <<head, request, why>>
      BY <1>1, <1>3, <1>5, <2>1, Facts DEF Goto, Inv
    <2>3. TypeOK' /\ BlankLineFound' /\ BufferBounded'
      BY <1>1, <1>2, <1>3, <1>4, <2>1, <2>2, Facts
         DEF Inv, TypeOK, BlankLineFound, BufferBounded, Buffered
    <2>4. Places' /\ HeadTaken' /\ RequestTaken' /\ Closed' /\ SilentDrop'
      BY <1>1, <1>2, <2>1, <2>2
         DEF Inv, Places, FirstEndSeen, HeadTaken, RequestTaken, Closed, SilentDrop
    <2> QED BY <2>3, <2>4 DEF Inv
  <1>6. CASE Found(len + k) # {}
    <2>1. PICK end \in Found(len + k) :
            /\ \A e \in Found(len + k) : end <= e
            /\ head' = end
            /\ IF Refused THEN Finish("refused") /\ UNCHANGED request
                          ELSE Continue(len + k, end)
      BY <1>1, <1>6
    <2>2. Framing!IsFirstEnd(stream, end) /\ end <= HeadLimit /\ end <= len + k /\ end \in Nat
      BY <1>2, <1>3, <2>1, FoundIsFirst
    <2>3. CASE Refused
      <3>1. stream.chunked \/ stream.declared > BodyLimit
        BY <1>2, <2>3 DEF Refused, FirstEndSeen
      <3>2. pc' = "done" /\ why' = "refused" /\ UNCHANGED request
        BY <2>1, <2>3 DEF Finish
      <3>3. TypeOK' /\ BlankLineFound' /\ BufferBounded'
        BY <1>1, <1>2, <1>3, <1>4, <2>1, <2>2, <3>2, Facts
           DEF Inv, TypeOK, BlankLineFound, BufferBounded, Buffered
      <3>4. Places' /\ HeadTaken' /\ RequestTaken' /\ Closed' /\ SilentDrop'
        BY <1>1, <1>2, <2>1, <2>2, <3>1, <3>2
           DEF Inv, Places, FirstEndSeen, HeadTaken, RequestTaken, Closed, SilentDrop
      <3> QED BY <3>3, <3>4 DEF Inv
    <2>4. CASE ~Refused
      <3>1. stream.head # "bad" /\ ~stream.chunked /\ stream.declared <= BodyLimit
        BY <2>4, Facts DEF Refused, Inv
      <3> QED BY <1>1, <1>2, <1>3, <1>4, <2>1, <2>2, <2>4, <3>1, ContinueInv, Facts DEF Inv
    <2> QED BY <2>3, <2>4
  <1> QED BY <1>5, <1>6

LEMMA ReadBodyInv ==
    ASSUME Inv, ReadBody
    PROVE  Inv'
  <1>1. PICK k \in 1 .. Smaller(arrived - len, Smaller(Expected(head) - len, BodyRead)) :
            len' = len + k /\ Continue(len + k, head)
    BY DEF ReadBody
  <1>2. /\ pc = "body" /\ UNCHANGED <<client, head, reply, clock>>
        /\ head # 0 /\ Framing!IsFirstEnd(stream, head) /\ head <= len /\ head <= HeadLimit
        /\ stream.head # "bad" /\ ~stream.chunked /\ stream.declared <= BodyLimit
    BY DEF ReadBody, Inv, Places, HeadTaken, BlankLineFound
  <1>3. /\ k \in Nat /\ 1 <= k /\ k <= arrived - len /\ k <= head + stream.declared - len
    BY Facts, SmallerLarger DEF Inv, Expected, Smaller
  <1>4. len + k <= Buffered
    <2>1. len + k <= HeadLimit + BodyLimit
      BY <1>2, <1>3, Facts DEF Inv
    <2>2. BodyLimit <= Larger(HeadRead - 1, BodyLimit) /\ Larger(HeadRead - 1, BodyLimit) \in Int
      BY Facts DEF Inv, Larger
    <2> QED BY <1>3, <2>1, <2>2, Facts DEF Inv, Buffered
  <1>5. len + k \in Nat /\ len <= len + k /\ len + k <= arrived /\ head <= len + k /\ head \in Nat
    BY <1>2, <1>3, Facts DEF Inv
  <1> QED BY <1>1, <1>2, <1>4, <1>5, ContinueInv

LEMMA AnswerInv ==
    ASSUME Inv, Handle \/ WriteHeader \/ WriteBody
    PROVE  Inv'
  <1> USE DEF client, buffer, clock
  <1>1. CASE Handle /\ pc' = "done"
    <2>1. Closes /\ why' = "handler" /\ pc # "done"
      BY <1>1 DEF Handle, Closes, Finish, Goto, reply
    <2> QED BY <2>1, ClosesInv
  <1>2. CASE Handle /\ pc' # "done"
    <2>1. /\ pc = "handle" /\ pc' = "reply" /\ status' = 200 /\ UNCHANGED <<client, buffer, answer, clock, why>>
      BY <1>2 DEF Handle, Finish, Goto
    <2>2. TypeOK' /\ BlankLineFound' /\ BufferBounded' /\ SilentDrop'
      BY <2>1 DEF Inv, TypeOK, BlankLineFound, BufferBounded, SilentDrop
    <2>3. Places' /\ HeadTaken' /\ RequestTaken' /\ Closed'
      BY <2>1 DEF Inv, Places, HeadTaken, RequestTaken, Closed
    <2> QED BY <2>2, <2>3 DEF Inv
  <1>3. CASE WriteHeader \/ WriteBody
    <2>1. /\ pc \in {"reply", "rest"} /\ pc' \in {"rest", "done"}
          /\ why' \in {why, "answered"} /\ (pc' # "done" => why' = why)
          /\ pc' = "done" => why' = "answered"
          /\ answer' \in {"header", "whole"} /\ (answer' = "whole" => pc' = "done")
          /\ UNCHANGED <<client, buffer, status, clock>>
      BY <1>3 DEF WriteHeader, WriteBody, Finish, Goto
    <2>2. TypeOK' /\ BlankLineFound' /\ BufferBounded' /\ SilentDrop'
      BY <2>1 DEF Inv, TypeOK, BlankLineFound, BufferBounded, SilentDrop
    <2>3. Places' /\ HeadTaken' /\ RequestTaken' /\ Closed'
      BY <2>1 DEF Inv, Places, HeadTaken, RequestTaken, Closed
    <2> QED BY <2>2, <2>3 DEF Inv
  <1> QED BY <1>1, <1>2, <1>3

LEMMA StepInv == Inv /\ [Next]_vars => Inv'
  <1> SUFFICES ASSUME Inv, [Next]_vars PROVE Inv'
    OBVIOUS
  <1>1. CASE Arrive \/ StopSending \/ Reset \/ Tick
    BY <1>1, OutsideInv
  <1>2. CASE Peek
    BY <1>2, PeekInv
  <1>3. CASE ReadHead
    BY <1>3, ReadHeadInv
  <1>4. CASE ReadBody
    BY <1>4, ReadBodyInv
  <1>5. CASE Handle \/ WriteHeader \/ WriteBody
    BY <1>5, AnswerInv
  <1>6. CASE PeekFails \/ WriteFails \/ SocketEnds \/ ReadTimeout \/ ConnectionTimeout \/ RuntimeDropped
    <2>1. /\ Closes /\ pc # "done"
          /\ why' \in {"peer", "socket", "408", "timeout", "shutdown"}
      BY <1>6 DEF PeekFails, WriteFails, SocketEnds, ReadTimeout, ReadDue, ConnectionTimeout,
                  RuntimeDropped, Closes, Finish
    <2> QED BY <2>1, ClosesInv
  <1>7. CASE ReadFails
    <2>1. /\ Closes /\ pc \in {"head", "body"} /\ why' = "read"
          /\ ended = "gone" \/ (ended = "fin" /\ arrived = len)
      BY <1>7 DEF ReadFails, Closes, Finish
    <2> QED BY <2>1, ClosesInv
  <1>8. CASE UNCHANGED vars
    <2>1. UNCHANGED <<stream, arrived, ended, pc, len, head, request, status, answer, why, age, readAge>>
      BY <1>8 DEF vars, client, buffer, reply, clock
    <2>2. TypeOK'
      BY <2>1 DEF Inv, TypeOK
    <2>3. BlankLineFound' /\ BufferBounded'
      BY <2>1 DEF Inv, BlankLineFound, BufferBounded
    <2>4. SilentDrop'
      BY <2>1 DEF Inv, SilentDrop, Expected
    <2>5. Places' /\ HeadTaken' /\ RequestTaken' /\ Closed'
      BY <2>1 DEF Inv, Places, FirstEndSeen, HeadTaken, RequestTaken, Closed
    <2> QED BY <2>2, <2>3, <2>4, <2>5 DEF Inv
  <1> QED BY <1>1, <1>2, <1>3, <1>4, <1>5, <1>6, <1>7, <1>8 DEF Next

LEMMA Invariance == SafeSpec => []Inv
  BY InitInv, StepInv, PTL DEF SafeSpec

\* TypeOK: the types, and that no byte leaves the socket before it has come in.
THEOREM TypeCorrect == SafeSpec => []TypeOK
  <1>1. Inv => TypeOK
    BY DEF Inv
  <1> QED BY <1>1, Invariance, PTL

\* BlankLineFound: the search over three old bytes and the new ones finds the
\* end of the head wherever the network cuts it.
THEOREM BlankLineFoundHolds == SafeSpec => []BlankLineFound
  <1>1. Inv => BlankLineFound
    BY DEF Inv
  <1> QED BY <1>1, Invariance, PTL

\* BufferBounded: the memory of a connection is bounded by the two limits.
THEOREM BufferBoundedHolds == SafeSpec => []BufferBounded
  <1>1. Inv => BufferBounded
    BY DEF Inv
  <1> QED BY <1>1, Invariance, PTL

\* SilentDrop: the reasons for which read_http_request leaves a client without
\* an answer.
THEOREM SilentDropHolds == SafeSpec => []SilentDrop
  <1>1. Inv => SilentDrop
    BY DEF Inv
  <1> QED BY <1>1, Invariance, PTL

\* CleanClose: the answer to a single request is not destroyed by a reset.
THEOREM CleanCloseHolds == SafeSpec => []CleanClose
  <1>1. Inv => CleanClose
    <2>1. SUFFICES ASSUME Inv, answer = "whole", arrived > len, status # 400
                   PROVE  stream.total > head + stream.declared
      BY DEF CleanClose
    <2>2. status = 200
      BY <2>1 DEF Inv, Closed, TypeOK
    <2>3. len >= head + stream.declared
      BY <2>1, <2>2 DEF Inv, Places
    <2> QED BY <2>1, <2>3, Facts DEF Inv
  <1> QED BY <1>1, Invariance, PTL

\* Every step of a connection takes the first request of its stream, closes the
\* connection, or changes neither.
LEMMA StepRefines == Inv /\ Inv' /\ [Next]_vars => [Framing!Next]_Framing!vars
  <1> SUFFICES ASSUME Inv, Inv', [Next]_vars PROVE [Framing!Next]_Framing!vars
    OBVIOUS
  <1> USE DEF client, buffer, reply, clock
  <1>1. UNCHANGED stream
    BY DEF vars, Next, Arrive, StopSending, Reset, Peek, PeekFails, ReadHead, ReadBody, ReadFails,
           Handle, WriteHeader, WriteBody, WriteFails, SocketEnds, Tick, ReadTimeout,
           ConnectionTimeout, RuntimeDropped
  <1>2. pc = "done" => UNCHANGED <<pc, request>>
    BY DEF vars, Next, Arrive, StopSending, Reset, Peek, PeekFails, ReadHead, ReadBody, ReadFails,
           Handle, WriteHeader, WriteBody, WriteFails, SocketEnds, Tick, ReadTimeout, ReadDue,
           ConnectionTimeout, RuntimeDropped
  <1>3. request' # request => pc \in {"head", "body"} /\ pc' = "handle"
    BY DEF vars, Next, Arrive, StopSending, Reset, Peek, PeekFails, ReadHead, ReadBody, ReadFails,
           Handle, WriteHeader, WriteBody, WriteFails, SocketEnds, Tick, ReadTimeout,
           ConnectionTimeout, RuntimeDropped, Continue, Goto, Finish
  <1>4. CASE request' # request
    <2>1. request = Framing!NoRequest /\ pc # "done" /\ pc' # "done"
      BY <1>3, <1>4 DEF Inv, RequestTaken
    <2>2. Framing!Takes(stream, request')
      BY <1>1, <1>4, <2>1 DEF Inv, RequestTaken
    <2>3. Framing!Take
      BY <1>1, <1>4, <2>1, <2>2 DEF Framing!Take
    <2> QED BY <2>3 DEF Framing!Next
  <1>5. CASE request' = request /\ pc # "done" /\ pc' = "done"
    <2>1. Framing!Close
      BY <1>1, <1>5 DEF Framing!Close
    <2> QED BY <2>1 DEF Framing!Next
  <1>6. CASE request' = request /\ (pc = "done" \/ pc' # "done")
    BY <1>1, <1>2, <1>6 DEF Framing!vars
  <1> QED BY <1>4, <1>5, <1>6

\* The safety half of ImplementsFraming: what is handed on is the first request
\* of the stream, whole, and nothing else, however the bytes were cut.
THEOREM TakesWholeRequests == SafeSpec => Framing!SafeSpec
  <1>1. Init => Framing!Init
    BY DEF Init, Framing!Init
  <1> QED BY <1>1, Invariance, StepRefines, PTL DEF SafeSpec, Framing!SafeSpec

=============================================================================
