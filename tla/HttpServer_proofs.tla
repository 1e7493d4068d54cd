-------------------------- MODULE HttpServer_proofs --------------------------
(***************************************************************************)
(* Theorems about HttpServer, for every number of clients, whatever they   *)
(* send in whatever pieces, and every size of the reader.                  *)
(***************************************************************************)
EXTENDS HttpServer, WellFoundedInduction, TLAPS

(* All that a client may send.                                               *)
Sent == UNION Range(Streams)

Request ==
    [line : Nat, path : Paths \cup {None}, contentLength : Int \cup {None}, body : Nat]

-----------------------------------------------------------------------------
(* The inductive invariant.                                                  *)

(* The last Content-Length among the first k lines, the first one excepted.  *)
LengthFields(s, k) == {i \in 2..k : s[i].kind = "contentLength"}

LastLength(s, k) ==
    IF LengthFields(s, k) = {} THEN None ELSE s[Max(LengthFields(s, k))].value

PathOf(s, k) == IF k = 0 THEN None ELSE PathIn(s[1])

(* The Request holds what the lines read so far say, none of which is empty. *)
LinesRead(c) ==
    /\ \A i \in 1..used[c] : stream[c][i].kind # "blank"
    /\ request[c].line = used[c]
    /\ request[c].path = PathOf(stream[c], used[c])
    /\ request[c].contentLength = LastLength(stream[c], used[c])
    /\ request[c].body = 0

(* The headers are done, and a body is announced.                            *)
HeadersRead(c) ==
    /\ used[c] = HeaderEnd(stream[c])
    /\ request[c].path = PathOf(stream[c], HeaderEnd(stream[c]) - 1)
    /\ contentLen(c) = Declared(stream[c])
    /\ Declared(stream[c]) > 0

Handled(c) ==
    /\ request[c].path = PathOf(stream[c], HeaderEnd(stream[c]) - 1)
    /\ request[c].body = Declared(stream[c])
    /\ used[c] = HeaderEnd(stream[c]) + Declared(stream[c])

(* A piece that ends inside the body has been seen, and so has a reader that *)
(* ends there, unless it is full.                                            *)
PiecesSeen(c) ==
    /\ arrived[c] > 0 /\ InsideBody(stream[c], arrived[c]) => split[c]
    /\ filled[c] > 0 /\ InsideBody(stream[c], filled[c]) =>
           split[c] \/ filled[c] >= BufferSize

Connection(c) ==
    /\ used[c] <= filled[c]
    /\ filled[c] <= arrived[c]
    /\ conn[c] = "none" => stream[c] = None /\ arrived[c] = 0 /\ request[c] = NoRequest
    /\ conn[c] # "none" => /\ stream[c] # None
                           /\ arrived[c] <= Len(stream[c])
                           /\ PiecesSeen(c)
    /\ conn[c] \in {"backlog", "lines"} => LinesRead(c)
    /\ conn[c] = "body" => HeadersRead(c)
    /\ conn[c] \in {"handle", "writeBody", "closed"} => Handled(c)

Types ==
    /\ server \in {"new", "serving", "exited"}
    /\ listenerFailed \in BOOLEAN
    /\ stream \in [Client -> Sent \cup {None}]
    /\ arrived \in [Client -> Nat]
    /\ gone \in [Client -> BOOLEAN]
    /\ split \in [Client -> BOOLEAN]
    /\ conn \in [Client -> {"none", "backlog", "lines", "body", "handle",
                            "writeBody", "closed"}]
    /\ used \in [Client -> Nat]
    /\ filled \in [Client -> Nat]
    /\ request \in [Client -> Request]
    /\ response \in [Client -> [status : {None, 200, 404}, whole : BOOLEAN]]

ServerInv == Types /\ \A c \in Client : Connection(c)

-----------------------------------------------------------------------------
(* Minima, maxima and streams.                                               *)

LEMMA MinOfTwo ==
    ASSUME NEW a \in Int, NEW b \in Int
    PROVE  Min({a, b}) = IF a <= b THEN a ELSE b
  <1> DEFINE P(x) == x \in {a, b} /\ \A y \in {a, b} : x <= y
             v == IF a <= b THEN a ELSE b
  <1>1. P(v)
    OBVIOUS
  <1>2. \A x : P(x) => x = v
    OBVIOUS
  <1>3. Min({a, b}) = CHOOSE x : P(x)
    BY DEF Min
  <1> HIDE DEF P, v
  <1>4. Min({a, b}) = v
    BY <1>1, <1>2, <1>3
  <1> QED
    BY <1>4 DEF v

LEMMA MaxOfTwo ==
    ASSUME NEW a \in Int, NEW b \in Int
    PROVE  Max({a, b}) = IF a >= b THEN a ELSE b
  <1> DEFINE P(x) == x \in {a, b} /\ \A y \in {a, b} : x >= y
             v == IF a >= b THEN a ELSE b
  <1>1. P(v)
    OBVIOUS
  <1>2. \A x : P(x) => x = v
    OBVIOUS
  <1>3. Max({a, b}) = CHOOSE x : P(x)
    BY DEF Max
  <1> HIDE DEF P, v
  <1>4. Max({a, b}) = v
    BY <1>1, <1>2, <1>3
  <1> QED
    BY <1>4 DEF v

LEMMA MinIs ==
    ASSUME NEW S \in SUBSET Int, NEW v \in S, \A y \in S : v <= y
    PROVE  Min(S) = v
  <1> DEFINE P(x) == x \in S /\ \A y \in S : x <= y
  <1>1. P(v)
    OBVIOUS
  <1>2. \A x : P(x) => x = v
    OBVIOUS
  <1>3. Min(S) = CHOOSE x : P(x)
    BY DEF Min
  <1> HIDE DEF P
  <1> QED
    BY <1>1, <1>2, <1>3

LEMMA MaxIs ==
    ASSUME NEW S \in SUBSET Int, NEW v \in S, \A y \in S : v >= y
    PROVE  Max(S) = v
  <1> DEFINE P(x) == x \in S /\ \A y \in S : x >= y
  <1>1. P(v)
    OBVIOUS
  <1>2. \A x : P(x) => x = v
    OBVIOUS
  <1>3. Max(S) = CHOOSE x : P(x)
    BY DEF Max
  <1> HIDE DEF P
  <1> QED
    BY <1>1, <1>2, <1>3

(* Every stream has an empty line that is the first.                         *)
LEMMA HeaderEndExists ==
    ASSUME NEW s \in Sent
    PROVE  /\ s \in Seq(Unit)
           /\ HeaderEnd(s) \in 1..Len(s)
           /\ s[HeaderEnd(s)].kind = "blank"
           /\ \A i \in 1..HeaderEnd(s) - 1 : s[i].kind # "blank"
  <1> DEFINE B == {i \in DOMAIN s : s[i].kind = "blank"}
  <1>1. s \in Seq(Unit)
    BY ServerAssumption DEF Sent, Range
  <1>2. B # {} /\ B \subseteq Nat /\ DOMAIN s = 1..Len(s) /\ Len(s) \in Nat
    BY <1>1, ServerAssumption DEF Sent
  <1> HIDE DEF B
  <1>3. PICK v \in B : \A y \in B : ~ (<<y, v>> \in OpToRel(<, Nat))
    BY <1>2, WFMin, NatLessThanWellFounded
  <1>4. \A y \in B : v <= y
    <2>1. OpToRel(<, Nat) = {ss \in Nat \X Nat : ss[1] < ss[2]}
      BY DEF OpToRel
    <2>2. ASSUME NEW y \in B, y < v PROVE FALSE
      <3>1. <<y, v>> \in {ss \in Nat \X Nat : ss[1] < ss[2]}
        BY <1>2, <2>2
      <3> QED
        BY <1>3, <2>1, <3>1
    <2> QED
      BY <1>2, <2>2
  <1>5. HeaderEnd(s) = v
    <2>1. B \in SUBSET Int
      BY <1>2
    <2>2. Min(B) = v
      BY <1>4, <2>1, MinIs
    <2> QED
      BY <2>2 DEF HeaderEnd, B
  <1> QED
    BY <1>1, <1>2, <1>4, <1>5 DEF B

(* The first empty line that the reader meets ends the headers.              *)
LEMMA HeaderEndIs ==
    ASSUME NEW s \in Sent, NEW k \in Nat, k < Len(s),
           \A i \in 1..k : s[i].kind # "blank", s[k + 1].kind = "blank"
    PROVE  HeaderEnd(s) = k + 1
  <1> DEFINE h == HeaderEnd(s)
  <1>1. /\ h \in 1..Len(s) /\ s[h].kind = "blank"
        /\ \A i \in 1..h - 1 : s[i].kind # "blank"
    BY HeaderEndExists
  <1>2. Len(s) \in Nat
    BY HeaderEndExists
  <1> HIDE DEF h
  <1>3. ~ h \in 1..k
    BY <1>1
  <1>4. ~ (k + 1 \in 1..h - 1)
    BY <1>1
  <1>5. h = k + 1
    BY <1>1, <1>2, <1>3, <1>4
  <1> QED
    BY <1>5 DEF h

(* The units of a stream.                                                    *)
LEMMA UnitsOfStreams ==
    ASSUME NEW s \in Sent, NEW i \in 1..Len(s)
    PROVE  /\ PathIn(s[i]) \in Paths
           /\ s[i].kind = "contentLength" => s[i].value \in Int \cup {None}
  <1>1. s[i] \in Unit
    BY HeaderEndExists
  <1> QED
    BY <1>1 DEF Unit, PathIn, Paths

(* One more line: a Content-Length replaces the one before.                  *)
LEMMA LastLengthGrows ==
    ASSUME NEW s \in Sent, NEW k \in Nat, k < Len(s)
    PROVE  LastLength(s, k + 1) = IF k > 0 /\ s[k + 1].kind = "contentLength"
                                  THEN s[k + 1].value ELSE LastLength(s, k)
  <1>1. CASE k > 0 /\ s[k + 1].kind = "contentLength"
    <2> DEFINE S == LengthFields(s, k + 1)
    <2>1. S \in SUBSET Int /\ k + 1 \in S /\ \A y \in S : k + 1 >= y
      BY <1>1 DEF LengthFields
    <2> HIDE DEF S
    <2>2. Max(S) = k + 1
      BY <2>1, MaxIs
    <2> QED
      BY <1>1, <2>1, <2>2 DEF LastLength, S
  <1>2. CASE ~ (k > 0 /\ s[k + 1].kind = "contentLength")
    <2>1. LengthFields(s, k + 1) = LengthFields(s, k)
      BY <1>2 DEF LengthFields
    <2> QED
      BY <1>2, <2>1 DEF LastLength
  <1> QED
    BY <1>1, <1>2

(* The length that a stream declares is that of the lines before the empty   *)
(* one.                                                                      *)
LEMMA DeclaredIs ==
    ASSUME NEW s \in Sent, NEW k \in Nat, HeaderEnd(s) = k + 1
    PROVE  Declared(s) = IF LastLength(s, k) = None THEN 0 ELSE LastLength(s, k)
  <1>1. s[k + 1].kind = "blank" /\ k < Len(s)
    BY HeaderEndExists
  <1>2. LastLength(s, k + 1) = LastLength(s, k)
    BY <1>1, LastLengthGrows
  <1>3. Declared(s) = IF LastLength(s, k + 1) = None THEN 0 ELSE LastLength(s, k + 1)
    <2> DEFINE F == LengthFields(s, k + 1)
    <2>1. Declared(s) = IF F = {} \/ s[Max(F)].value = None THEN 0 ELSE s[Max(F)].value
      BY DEF Declared, LengthFields
    <2>2. LastLength(s, k + 1) = IF F = {} THEN None ELSE s[Max(F)].value
      BY DEF LastLength
    <2> HIDE DEF F
    <2> QED
      BY <2>1, <2>2
  <1> QED
    BY <1>2, <1>3

-----------------------------------------------------------------------------
(* The steps.                                                                *)

(* A connection that a step leaves alone.                                    *)
LEMMA OthersKeep ==
    ASSUME NEW c, Connection(c),
           stream'[c] = stream[c], arrived'[c] = arrived[c], conn'[c] = conn[c],
           used'[c] = used[c], filled'[c] = filled[c], request'[c] = request[c],
           split'[c] = split[c]
    PROVE  Connection(c)'
  BY DEF Connection, LinesRead, HeadersRead, Handled, PiecesSeen, contentLen

(* Connections that step cannot tell from those before it.                   *)
LEMMA ConnectionsKeep ==
    ASSUME ServerInv,
           UNCHANGED <<clientVars, conn, used, filled, request>>
    PROVE  \A c \in Client : Connection(c)'
  BY OthersKeep DEF ServerInv, clientVars

(* The stream of a connection.                                               *)
LEMMA StreamOf ==
    ASSUME ServerInv, NEW c \in Client, conn[c] # "none"
    PROVE  /\ stream[c] \in Sent
           /\ Len(stream[c]) \in Nat
           /\ arrived[c] \in 0..Len(stream[c])
           /\ filled[c] \in 0..arrived[c]
           /\ used[c] \in 0..filled[c]
  <1>1. stream[c] \in Sent
    <2>1. stream[c] # None
      BY DEF ServerInv, Connection
    <2>2. stream[c] \in Sent \cup {None}
      BY DEF ServerInv, Types
    <2> QED
      BY <2>1, <2>2
  <1>2. Len(stream[c]) \in Nat
    BY <1>1, HeaderEndExists
  <1> QED
    BY <1>1, <1>2 DEF ServerInv, Types, Connection

LEMMA InitInv == Init => ServerInv
  <1> SUFFICES ASSUME Init PROVE ServerInv
    OBVIOUS
  <1>1. NoRequest \in Request
    BY DEF NoRequest, Request
  <1>2. [status |-> None, whole |-> FALSE] \in [status : {None, 200, 404}, whole : BOOLEAN]
    OBVIOUS
  <1>3. Types
    BY <1>1, <1>2 DEF Init, Types
  <1>4. ASSUME NEW c \in Client PROVE Connection(c)
    BY DEF Init, Connection
  <1> QED
    BY <1>3, <1>4 DEF ServerInv

LEMMA ExitInv == ServerInv /\ Exit => ServerInv'
  <1> SUFFICES ASSUME ServerInv, Exit PROVE ServerInv'
    OBVIOUS
  <1>1. \A c \in Client : Connection(c)'
    BY ConnectionsKeep DEF Exit
  <1> QED
    BY <1>1 DEF ServerInv, Types, Exit, clientVars

LEMMA ListenerInv == ServerInv /\ (Listen \/ ListenerFails) => ServerInv'
  <1> SUFFICES ASSUME ServerInv, Listen \/ ListenerFails PROVE ServerInv'
    OBVIOUS
  <1>1. \A c \in Client : Connection(c)'
    BY ConnectionsKeep DEF Listen, ListenerFails
  <1>2. CASE Listen
    BY <1>1, <1>2 DEF ServerInv, Types, Listen, clientVars
  <1>3. CASE ListenerFails
    BY <1>1, <1>3 DEF ServerInv, Types, ListenerFails, clientVars
  <1> QED
    BY <1>2, <1>3

LEMMA AcceptInv ==
    ASSUME ServerInv, NEW c \in Client, Accept(c)
    PROVE  ServerInv'
  <1>1. Connection(c)'
    BY DEF ServerInv, Types, Accept, Connection, LinesRead, PiecesSeen, clientVars
  <1>2. ASSUME NEW d \in Client, d # c PROVE Connection(d)'
    BY <1>2, OthersKeep DEF ServerInv, Types, Accept, clientVars
  <1>3. Types'
    BY DEF ServerInv, Types, Accept, clientVars, serverVars
  <1> QED
    BY <1>1, <1>2, <1>3 DEF ServerInv

LEMMA FillInv ==
    ASSUME ServerInv, NEW c \in Client, Fill(c)
    PROVE  ServerInv'
  <1> DEFINE f == Min({arrived[c], filled[c] + BufferSize})
  <1>0. conn[c] = "lines"
    BY DEF Fill, At
  <1>n. BufferSize \in Nat \ {0} /\ arrived[c] \in Nat /\ filled[c] \in Nat
    BY ServerAssumption DEF ServerInv, Types
  <1>1. f = IF arrived[c] <= filled[c] + BufferSize
            THEN arrived[c] ELSE filled[c] + BufferSize
    <2>1. arrived[c] \in Int /\ filled[c] + BufferSize \in Int
      BY <1>n
    <2> QED
      BY <2>1, MinOfTwo
  <1>2. filled' = [filled EXCEPT ![c] = f] /\ arrived[c] > filled[c]
    BY DEF Fill
  <1> HIDE DEF f
  <1>3. f \in Nat /\ filled[c] <= f /\ f <= arrived[c] /\ f > 0
    BY <1>n, <1>1, <1>2
  <1>4. f = arrived[c] \/ f >= BufferSize
    BY <1>n, <1>1
  <1>5. PiecesSeen(c)'
    BY <1>0, <1>2, <1>3, <1>4
       DEF ServerInv, Types, Fill, Connection, PiecesSeen, InsideBody, clientVars
  <1>6. LinesRead(c)'
    BY <1>0 DEF ServerInv, Fill, Connection, LinesRead, clientVars
  <1>7. Connection(c)'
    BY <1>0, <1>2, <1>3, <1>5, <1>6 DEF ServerInv, Types, Fill, Connection, clientVars
  <1>8. ASSUME NEW d \in Client, d # c PROVE Connection(d)'
    BY <1>2, <1>8, OthersKeep DEF ServerInv, Types, Fill, clientVars
  <1>9. Types'
    BY <1>2, <1>3 DEF ServerInv, Types, Fill, clientVars, serverVars
  <1> QED
    BY <1>7, <1>8, <1>9 DEF ServerInv

(* The assignments of a line, in one.                                        *)
LEMMA RequestUpdate ==
    ASSUME NEW f \in [Client -> Request], NEW c \in Client,
           NEW path, NEW kind, NEW value
    PROVE  [f EXCEPT
              ![c].line = @ + 1,
              ![c].path = IF f[c].line = 0 THEN path ELSE @,
              ![c].contentLength =
                  IF ~ (f[c].line = 0) /\ kind = "contentLength" THEN value ELSE @]
           = [f EXCEPT ![c] =
                [f[c] EXCEPT
                   !.line = f[c].line + 1,
                   !.path = IF f[c].line = 0 THEN path ELSE f[c].path,
                   !.contentLength = IF ~ (f[c].line = 0) /\ kind = "contentLength"
                                     THEN value ELSE f[c].contentLength]]
  OBVIOUS

(* A line that does not end the process, for what it does to the Request.    *)
LEMMA ReadLineInv ==
    ASSUME ServerInv, NEW c \in Client, ReadLine(c), ~ Exit
    PROVE  ServerInv'
  <1> DEFINE s == stream[c]
             k == used[c]
             line == s[k + 1]
             len == IF k > 0 /\ line.kind = "contentLength"
                    THEN line.value ELSE request[c].contentLength
             path == IF k = 0 THEN PathIn(line) ELSE request[c].path
             r == [request[c] EXCEPT !.line = k + 1, !.path = path, !.contentLength = len]
  <1>1. /\ conn[c] = "lines" /\ filled[c] - k > 0 /\ line.kind # "blank"
        /\ LinesRead(c) /\ PiecesSeen(c)
    BY DEF ReadLine, At, Buffered, ReadString, ServerInv, Connection
  <1>2. /\ s \in Sent /\ Len(s) \in Nat /\ arrived[c] \in 0..Len(s)
        /\ filled[c] \in 0..arrived[c] /\ k \in 0..filled[c]
    BY <1>1, StreamOf
  <1>3. k \in Nat /\ k + 1 <= filled[c] /\ k < Len(s) /\ k + 1 \in 1..Len(s)
    BY <1>1, <1>2
  <1>4. request[c] \in Request
    BY DEF ServerInv, Types
  <1>5. PathIn(line) \in Paths /\ (line.kind = "contentLength" => line.value \in Int \cup {None})
    BY <1>2, <1>3, UnitsOfStreams
  <1>6. /\ r \in Request /\ r.line = k + 1 /\ r.path = path /\ r.contentLength = len
        /\ r.body = request[c].body
    <2>1. path \in Paths \cup {None} /\ len \in Int \cup {None} /\ k + 1 \in Nat
      BY <1>3, <1>4, <1>5 DEF Request
    <2> DEFINE n == k + 1
               q == request[c]
    <2>2. n \in Nat /\ q \in Request
      BY <1>4, <2>1
    <2> HIDE DEF path, len, n, q
    <2>3. [q EXCEPT !.line = n] \in Request
      BY <2>2 DEF Request
    <2>4. [q EXCEPT !.line = n, !.path = path] \in Request
      BY <2>1, <2>3 DEF Request
    <2>5. [q EXCEPT !.line = n, !.path = path, !.contentLength = len] \in Request
      BY <2>1, <2>4 DEF Request
    <2>6. LET u == [q EXCEPT !.line = n, !.path = path, !.contentLength = len]
          IN  u.line = n /\ u.path = path /\ u.contentLength = len /\ u.body = q.body
      BY <2>2 DEF Request
    <2> QED
      BY <2>5, <2>6 DEF n, q
  <1>7. /\ used' = [used EXCEPT ![c] = k + 1]
        /\ request' = [request EXCEPT ![c] = r]
        /\ UNCHANGED <<serverVars, clientVars, conn, filled, response>>
    <2>1. request[c].line = k /\ request[c].body = 0
      BY <1>1 DEF LinesRead
    <2>2. request \in [Client -> Request]
      BY DEF ServerInv, Types
    <2>3. /\ used' = [used EXCEPT ![c] = k + 1]
          /\ UNCHANGED <<serverVars, clientVars, conn, filled, response>>
      BY DEF ReadLine
    <2>4. request' = [request EXCEPT ![c] = r]
      <3> DEFINE p == PathIn(line)
                 kind == line.kind
                 value == line.value
      <3>1. request' = [request EXCEPT
                ![c].line = @ + 1,
                ![c].path = IF request[c].line = 0 THEN p ELSE @,
                ![c].contentLength =
                    IF ~ (request[c].line = 0) /\ kind = "contentLength" THEN value ELSE @]
        BY DEF ReadLine, ReadString
      <3> HIDE DEF p, kind, value
      <3>2. request' = [request EXCEPT ![c] =
                [request[c] EXCEPT
                   !.line = request[c].line + 1,
                   !.path = IF request[c].line = 0 THEN p ELSE request[c].path,
                   !.contentLength = IF ~ (request[c].line = 0) /\ kind = "contentLength"
                                     THEN value ELSE request[c].contentLength]]
        BY <2>2, <3>1, RequestUpdate
      <3>3. /\ path = IF request[c].line = 0 THEN p ELSE request[c].path
            /\ len = IF ~ (request[c].line = 0) /\ kind = "contentLength"
                     THEN value ELSE request[c].contentLength
        BY <1>3, <2>1 DEF p, kind, value
      <3> HIDE DEF path, len
      <3> QED
        BY <2>1, <3>2, <3>3
    <2> QED
      BY <2>3, <2>4
  <1>8. LinesRead(c)'
    <2>1. \A i \in 1..k + 1 : s[i].kind # "blank"
      BY <1>1, <1>3 DEF LinesRead
    <2>2. r.line = k + 1 /\ r.path = path /\ r.contentLength = len /\ r.body = 0
      BY <1>1, <1>6 DEF LinesRead
    <2>3. path = PathOf(s, k + 1)
      BY <1>1, <1>3 DEF PathOf, LinesRead
    <2>4. len = LastLength(s, k + 1)
      <3>1. request[c].contentLength = LastLength(s, k)
        BY <1>1 DEF LinesRead
      <3> HIDE DEF s, k
      <3> QED
        BY <1>2, <1>3, <3>1, LastLengthGrows
    <2>5. used'[c] = k + 1 /\ request'[c] = r /\ stream'[c] = s
      BY <1>7 DEF ServerInv, Types, clientVars
    <2> HIDE DEF s, k, r, path, len
    <2> QED
      BY <2>1, <2>2, <2>3, <2>4, <2>5 DEF LinesRead
  <1>9. PiecesSeen(c)'
    BY <1>1, <1>7 DEF PiecesSeen, clientVars
  <1> HIDE DEF r
  <1>10. Connection(c)'
    BY <1>1, <1>2, <1>3, <1>7, <1>8, <1>9 DEF ServerInv, Types, Connection, clientVars
  <1>11. ASSUME NEW d \in Client, d # c PROVE Connection(d)'
    BY <1>7, <1>11, OthersKeep DEF ServerInv, Types, clientVars
  <1>12. Types'
    BY <1>3, <1>6, <1>7 DEF ServerInv, Types, clientVars, serverVars
  <1> QED
    BY <1>10, <1>11, <1>12 DEF ServerInv

(* At the empty line, what the lines have said is what the stream declares.  *)
LEMMA AtEndOfHeaders ==
    ASSUME ServerInv, NEW c \in Client, EndOfHeaders(c)
    PROVE  /\ conn[c] = "lines"
           /\ stream[c] \in Sent
           /\ used[c] \in Nat
           /\ used[c] + 1 <= filled[c]
           /\ HeaderEnd(stream[c]) = used[c] + 1
           /\ contentLen(c) = Declared(stream[c])
           /\ contentLen(c) \in Int
  <1> DEFINE s == stream[c]
             k == used[c]
  <1>1. /\ conn[c] = "lines" /\ filled[c] - k > 0 /\ s[k + 1].kind = "blank"
        /\ LinesRead(c)
    BY DEF EndOfHeaders, At, Buffered, ReadString, ServerInv, Connection
  <1>2. /\ s \in Sent /\ Len(s) \in Nat /\ arrived[c] \in 0..Len(s)
        /\ filled[c] \in 0..arrived[c] /\ k \in 0..filled[c]
    BY <1>1, StreamOf
  <1>3. k \in Nat /\ k + 1 <= filled[c] /\ k < Len(s)
    BY <1>1, <1>2
  <1>4. HeaderEnd(s) = k + 1
    <2>1. \A i \in 1..k : s[i].kind # "blank"
      BY <1>1 DEF LinesRead
    <2> HIDE DEF s, k
    <2> QED
      BY <1>1, <1>2, <1>3, <2>1, HeaderEndIs
  <1>5. contentLen(c) = Declared(s)
    <2>1. request[c].contentLength = LastLength(s, k)
      BY <1>1 DEF LinesRead
    <2> HIDE DEF s, k
    <2> QED
      BY <1>2, <1>3, <1>4, <2>1, DeclaredIs DEF contentLen
  <1>6. contentLen(c) \in Int
    <2>1. request[c].contentLength \in Int \cup {None}
      BY DEF ServerInv, Types, Request
    <2> QED
      BY <2>1 DEF contentLen
  <1> QED
    BY <1>1, <1>2, <1>3, <1>4, <1>5, <1>6

LEMMA EndOfHeadersInv ==
    ASSUME ServerInv, NEW c \in Client, EndOfHeaders(c), ~ Exit
    PROVE  ServerInv'
  <1> DEFINE s == stream[c]
             k == used[c]
             label == IF contentLen(c) > 0 THEN "body" ELSE "handle"
  <1>1. /\ conn[c] = "lines" /\ s \in Sent /\ k \in Nat /\ k + 1 <= filled[c]
        /\ HeaderEnd(s) = k + 1 /\ contentLen(c) = Declared(s) /\ contentLen(c) \in Int
    BY AtEndOfHeaders
  <1>2. /\ contentLen(c) \in 0..MaxMake
        /\ used' = [used EXCEPT ![c] = k + 1]
        /\ conn' = [conn EXCEPT ![c] = label]
        /\ UNCHANGED <<serverVars, clientVars, filled, request, response>>
    BY DEF EndOfHeaders
  <1>3. LinesRead(c) /\ PiecesSeen(c) /\ s # None /\ arrived[c] <= Len(s)
    BY <1>1 DEF ServerInv, Connection
  <1>4. /\ used'[c] = k + 1 /\ conn'[c] = label /\ stream'[c] = s
        /\ request'[c] = request[c] /\ contentLen(c)' = contentLen(c)
    BY <1>2 DEF ServerInv, Types, clientVars, contentLen
  <1>5. PiecesSeen(c)'
    BY <1>2, <1>3 DEF PiecesSeen, clientVars
  <1>6. request[c].path = PathOf(s, HeaderEnd(s) - 1) /\ request[c].body = 0
    BY <1>1, <1>3 DEF LinesRead
  <1>7. contentLen(c) > 0 => HeadersRead(c)'
    <2> HIDE DEF s, k
    <2> QED
      BY <1>1, <1>4, <1>6 DEF HeadersRead
  <1>8. contentLen(c) = 0 => Handled(c)'
    <2> HIDE DEF s, k
    <2> QED
      BY <1>1, <1>4, <1>6 DEF Handled
  <1>9. Connection(c)'
    BY <1>1, <1>2, <1>3, <1>4, <1>5, <1>7, <1>8
       DEF ServerInv, Types, Connection, clientVars
  <1>10. ASSUME NEW d \in Client, d # c PROVE Connection(d)'
    BY <1>2, <1>10, OthersKeep DEF ServerInv, Types, clientVars
  <1>11. Types'
    BY <1>1, <1>2 DEF ServerInv, Types, clientVars, serverVars
  <1> QED
    BY <1>9, <1>10, <1>11 DEF ServerInv

(* One Read of the body takes all of it, or stops where what the reader      *)
(* holds or what has arrived ends: inside the body.                          *)
LEMMA AtReadBody ==
    ASSUME ServerInv, NEW c \in Client, ReadBody(c)
    PROVE  /\ conn[c] = "body"
           /\ HeadersRead(c)
           /\ contentLen(c) \in Nat
           /\ Read(c) \in 1..contentLen(c)
           /\ used[c] + Read(c) <= arrived[c]
           /\ Read(c) # contentLen(c) => used[c] + Read(c) \in {filled[c], arrived[c]}
  <1> DEFINE n == contentLen(c)
             b == IF Buffered(c) > 0 THEN Buffered(c) ELSE arrived[c] - used[c]
  <1>1. conn[c] = "body" /\ HeadersRead(c) /\ Read(c) > 0
    BY DEF ReadBody, At, ServerInv, Connection
  <1>2. /\ arrived[c] \in Nat /\ filled[c] \in Nat /\ used[c] \in Nat
        /\ used[c] <= filled[c] /\ filled[c] <= arrived[c]
    BY DEF ServerInv, Types, Connection
  <1>3. n \in Nat
    <2>1. request[c].contentLength \in Int \cup {None}
      BY DEF ServerInv, Types, Request
    <2>2. n \in Int
      BY <2>1 DEF contentLen
    <2> QED
      BY <1>1, <2>2 DEF HeadersRead
  <1>4. b \in Int /\ used[c] + b \in {filled[c], arrived[c]} /\ used[c] + b <= arrived[c]
    BY <1>2 DEF Buffered
  <1>5. Read(c) = Min({n, b})
    BY DEF Read
  <1> HIDE DEF n, b
  <1>6. Read(c) = IF n <= b THEN n ELSE b
    BY <1>3, <1>4, <1>5, MinOfTwo
  <1>7. /\ Read(c) \in 1..n
        /\ used[c] + Read(c) <= arrived[c]
        /\ Read(c) # n => used[c] + Read(c) \in {filled[c], arrived[c]}
    BY <1>1, <1>2, <1>3, <1>4, <1>6
  <1> QED
    BY <1>1, <1>3, <1>7 DEF n

LEMMA ReadBodyInv ==
    ASSUME ServerInv, NEW c \in Client, ReadBody(c), ~ Exit
    PROVE  ServerInv'
  <1> DEFINE s == stream[c]
             n == Read(c)
             u == used[c] + n
             f == Max({filled[c], u})
  <1>1. /\ conn[c] = "body" /\ HeadersRead(c) /\ contentLen(c) \in Nat
        /\ n \in 1..contentLen(c) /\ u <= arrived[c]
    BY AtReadBody
  <1>2. /\ n = contentLen(c)
        /\ used' = [used EXCEPT ![c] = u]
        /\ filled' = [filled EXCEPT ![c] = f]
        /\ request' = [request EXCEPT ![c].body = n]
        /\ conn' = [conn EXCEPT ![c] = "handle"]
        /\ UNCHANGED <<serverVars, clientVars, response>>
    BY DEF ReadBody
  <1>3. n \in Nat /\ u \in Nat /\ used[c] \in Nat /\ filled[c] \in Nat /\ arrived[c] \in Nat
    BY <1>1 DEF ServerInv, Types
  <1>4. f = IF filled[c] >= u THEN filled[c] ELSE u
    <2> HIDE DEF u
    <2> QED
      BY <1>3, MaxOfTwo
  <1>5. PiecesSeen(c) /\ s # None /\ arrived[c] <= Len(s) /\ filled[c] <= arrived[c]
    BY <1>1 DEF ServerInv, Connection
  <1>6. u = HeaderEnd(s) + Declared(s)
    BY <1>1, <1>2 DEF HeadersRead
  <1> HIDE DEF f, u, n
  <1>7. f \in Nat /\ u <= f /\ f <= arrived[c]
    BY <1>1, <1>3, <1>4, <1>5
  <1>8. /\ used'[c] = u /\ filled'[c] = f /\ conn'[c] = "handle" /\ stream'[c] = s
        /\ arrived'[c] = arrived[c] /\ split'[c] = split[c]
    BY <1>2 DEF ServerInv, Types, clientVars
  <1>9. /\ request' \in [Client -> Request]
        /\ \A d \in Client : d # c => request'[d] = request[d]
        /\ request'[c].path = request[c].path /\ request'[c].body = n
    <2>1. request \in [Client -> Request]
      BY DEF ServerInv, Types
    <2>2. request' = [request EXCEPT ![c] = [request[c] EXCEPT !.body = n]]
      BY <1>2, <2>1
    <2>3. [request[c] EXCEPT !.body = n] \in Request
      BY <1>3, <2>1 DEF Request
    <2> QED
      BY <2>1, <2>2, <2>3 DEF Request
  <1>10. Handled(c)'
    <2> HIDE DEF s
    <2> QED
      BY <1>1, <1>2, <1>6, <1>8, <1>9 DEF Handled, HeadersRead, s
  <1>11. PiecesSeen(c)'
    <2>1. ~ InsideBody(s, u)
      BY <1>3, <1>6 DEF InsideBody
    <2>2. f = filled[c] \/ f = u
      BY <1>4
    <2> QED
      BY <1>5, <1>8, <2>1, <2>2 DEF PiecesSeen
  <1>12. Connection(c)'
    BY <1>5, <1>7, <1>8, <1>10, <1>11 DEF Connection
  <1>13. ASSUME NEW d \in Client, d # c PROVE Connection(d)'
    BY <1>2, <1>9, <1>13, OthersKeep DEF ServerInv, Types, clientVars
  <1>14. Types'
    BY <1>2, <1>3, <1>7, <1>9 DEF ServerInv, Types, clientVars, serverVars
  <1> QED
    BY <1>12, <1>13, <1>14 DEF ServerInv

LEMMA WriteInv ==
    ASSUME ServerInv, NEW c \in Client, WriteHead(c) \/ WriteBody(c)
    PROVE  ServerInv'
  <1>1. /\ conn[c] \in {"handle", "writeBody"}
        /\ conn'[c] \in {"writeBody", "closed"}
        /\ conn' = [conn EXCEPT ![c] = conn'[c]]
        /\ UNCHANGED <<serverVars, clientVars, used, filled, request>>
    BY DEF WriteHead, WriteBody, At, ServerInv, Types
  <1>c. conn' \in [Client -> {"none", "backlog", "lines", "body", "handle",
                              "writeBody", "closed"}]
    BY DEF WriteHead, WriteBody, ServerInv, Types
  <1>2. response' \in [Client -> [status : {None, 200, 404}, whole : BOOLEAN]]
    <2> DEFINE R == [status : {None, 200, 404}, whole : BOOLEAN]
    <2>1. response \in [Client -> R]
      BY DEF ServerInv, Types
    <2>2. CASE WriteHead(c)
      <3>1. PICK x \in {200, 404} : response' = [response EXCEPT ![c].status = x]
        BY <2>2 DEF WriteHead, Status
      <3>2. [response[c] EXCEPT !.status = x] \in R
        BY <2>1
      <3> QED
        BY <2>1, <3>1, <3>2
    <2>3. CASE WriteBody(c)
      <3>1. PICK b \in BOOLEAN : response' = [response EXCEPT ![c].whole = b]
        BY <2>3 DEF WriteBody
      <3>2. [response[c] EXCEPT !.whole = b] \in R
        BY <2>1
      <3> QED
        BY <2>1, <3>1, <3>2
    <2> QED
      BY <2>2, <2>3
  <1>3. Connection(c)'
    BY <1>1 DEF ServerInv, Types, Connection, Handled, PiecesSeen, clientVars
  <1>4. ASSUME NEW d \in Client, d # c PROVE Connection(d)'
    BY <1>1, <1>4, OthersKeep DEF ServerInv, Types, clientVars
  <1>5. Types'
    BY <1>1, <1>c, <1>2 DEF ServerInv, Types, clientVars, serverVars
  <1> QED
    BY <1>3, <1>4, <1>5 DEF ServerInv

LEMMA ConnectInv ==
    ASSUME ServerInv, NEW c \in Client, NEW s \in Streams[c], Connect(c, s)
    PROVE  ServerInv'
  <1>1. s \in Sent /\ s # None
    BY ServerAssumption DEF Sent, Range
  <1>2. Len(s) \in Nat
    BY <1>1, HeaderEndExists
  <1>3. /\ conn[c] = "none" /\ arrived[c] = 0 /\ filled[c] = 0 /\ used[c] = 0
        /\ request[c] = NoRequest
    BY DEF Connect, ServerInv, Types, Connection
  <1>4. stream'[c] = s /\ conn'[c] = "backlog"
    BY DEF Connect, ServerInv, Types
  <1>5. LinesRead(c)'
    <2>1. LastLength(s, 0) = None
      BY DEF LastLength, LengthFields
    <2> QED
      BY <1>3, <1>4, <2>1 DEF Connect, LinesRead, NoRequest, PathOf
  <1>6. PiecesSeen(c)'
    BY <1>3 DEF Connect, PiecesSeen
  <1>7. Connection(c)'
    BY <1>1, <1>2, <1>3, <1>4, <1>5, <1>6 DEF Connect, Connection
  <1>8. ASSUME NEW d \in Client, d # c PROVE Connection(d)'
    BY <1>8, OthersKeep DEF ServerInv, Types, Connect
  <1>9. Types'
    BY <1>1 DEF ServerInv, Types, Connect, serverVars
  <1> QED
    BY <1>7, <1>8, <1>9 DEF ServerInv

LEMMA ArriveInv ==
    ASSUME ServerInv, NEW c \in Client, NEW n \in Nat, Arrive(c, n)
    PROVE  ServerInv'
  <1>1. conn[c] # "none" /\ n \in 1..Len(stream[c]) - arrived[c]
    BY DEF Arrive, Open
  <1>2. /\ Len(stream[c]) \in Nat /\ arrived[c] \in 0..Len(stream[c])
        /\ filled[c] \in 0..arrived[c] /\ used[c] \in 0..filled[c]
    BY <1>1, StreamOf
  <1>3. /\ arrived' = [arrived EXCEPT ![c] = arrived[c] + n]
        /\ split' = [split EXCEPT ![c] =
               split[c] \/ InsideBody(stream[c], arrived[c] + n)]
        /\ UNCHANGED <<serverVars, stream, gone, conn, used, filled, request, response>>
    BY DEF Arrive
  <1>4. arrived'[c] = arrived[c] + n
        /\ split'[c] = (split[c] \/ InsideBody(stream[c], arrived[c] + n))
    BY <1>3 DEF ServerInv, Types
  <1>5. PiecesSeen(c)'
    BY <1>1, <1>3, <1>4 DEF ServerInv, Connection, PiecesSeen
  <1>6. Connection(c)'
    BY <1>1, <1>2, <1>3, <1>4, <1>5
       DEF ServerInv, Connection, LinesRead, HeadersRead, Handled, contentLen
  <1>7. ASSUME NEW d \in Client, d # c PROVE Connection(d)'
    BY <1>3, <1>7, OthersKeep DEF ServerInv, Types
  <1>8. Types'
    <2>1. split' \in [Client -> BOOLEAN]
      BY <1>3 DEF ServerInv, Types, InsideBody
    <2>2. arrived' \in [Client -> Nat]
      BY <1>2, <1>3 DEF ServerInv, Types
    <2> QED
      BY <1>3, <2>1, <2>2 DEF ServerInv, Types, serverVars
  <1> QED
    BY <1>6, <1>7, <1>8 DEF ServerInv

LEMMA LeaveInv ==
    ASSUME ServerInv, NEW c \in Client, Leave(c)
    PROVE  ServerInv'
  <1>1. \A d \in Client : Connection(d)'
    BY OthersKeep DEF ServerInv, Leave
  <1>2. Types'
    BY DEF ServerInv, Types, Leave, serverVars
  <1> QED
    BY <1>1, <1>2 DEF ServerInv

(* A goroutine that ends the process.                                        *)
Ends(c) == Exit /\ (handleConnection(c) \/ ReadFails(c) \/ WriteFails(c))

(* One that does has a client to blame.                                      *)
LEMMA ExitIsFatal ==
    ASSUME ServerInv, NEW c \in Client, Ends(c)
    PROVE  Fatal(c)
  <1> DEFINE s == stream[c]
  <1>1. server' = "exited"
    BY DEF Ends, Exit
  <1>2. ASSUME conn[c] # "none" PROVE s # None
    BY <1>2 DEF ServerInv, Connection
  <1>3. CASE ReadFails(c) \/ WriteFails(c)
    BY <1>2, <1>3 DEF ReadFails, WriteFails, At, Fatal
  <1>4. CASE ReadLine(c)
    <2>1. /\ conn[c] = "lines" /\ request[c].line = 0
          /\ s[used[c] + 1].kind = "noSpace"
      BY <1>1, <1>4 DEF ReadLine, At, ReadString, serverVars
    <2>2. used[c] = 0
      BY <2>1 DEF ServerInv, Connection, LinesRead
    <2> QED
      BY <1>2, <2>1, <2>2 DEF Fatal
  <1>5. CASE EndOfHeaders(c)
    <2>1. contentLen(c) \notin 0..MaxMake /\ conn[c] = "lines"
      BY <1>1, <1>5 DEF EndOfHeaders, At, serverVars
    <2>2. /\ contentLen(c) = Declared(s) /\ contentLen(c) \in Int
          /\ HeaderEnd(s) \in Nat
      BY <1>5, AtEndOfHeaders
    <2>3. BufferSize \in Nat /\ MaxMake \in Nat /\ MaxMake >= BufferSize
      BY ServerAssumption
    <2> HIDE DEF s
    <2>4. \/ Declared(s) < 0
          \/ Declared(s) > 0 /\ HeaderEnd(s) + Declared(s) > BufferSize
      BY <2>1, <2>2, <2>3
    <2> QED
      BY <1>2, <2>1, <2>4 DEF Fatal, s
  <1>6. CASE ReadBody(c)
    <2> DEFINE h == HeaderEnd(s)
               d == Declared(s)
               u == used[c] + Read(c)
    <2>1. /\ conn[c] = "body" /\ HeadersRead(c) /\ contentLen(c) \in Nat
          /\ Read(c) \in 1..contentLen(c)
          /\ Read(c) # contentLen(c) => u \in {filled[c], arrived[c]}
      BY <1>6, AtReadBody
    <2>2. Read(c) # contentLen(c)
      BY <1>1, <1>6 DEF ReadBody, At, serverVars
    <2>3. used[c] = h /\ contentLen(c) = d /\ d > 0 /\ used[c] \in Nat
      BY <2>1 DEF HeadersRead, ServerInv, Types
    <2>4. PiecesSeen(c) /\ BufferSize \in Nat
      BY <2>1, ServerAssumption DEF ServerInv, Connection
    <2> HIDE DEF h, d
    <2>5. h < u /\ u < h + d /\ u > 0 /\ u \in Nat /\ h \in Nat /\ d \in Nat
      BY <2>1, <2>2, <2>3
    <2>6. InsideBody(s, u)
      BY <2>5 DEF InsideBody, h, d
    <2>7. split[c] \/ u >= BufferSize
      <3> HIDE DEF u
      <3>1. u = filled[c] \/ u = arrived[c]
        BY <2>1, <2>2
      <3> QED
        BY <2>4, <2>5, <2>6, <3>1 DEF PiecesSeen
    <2>8. split[c] \/ (d > 0 /\ h + d > BufferSize)
      BY <2>3, <2>4, <2>5, <2>7
    <2> QED
      BY <1>2, <2>1, <2>8 DEF Fatal, h, d
  <1>7. CASE Fill(c) \/ WriteHead(c) \/ WriteBody(c)
    BY <1>1, <1>7 DEF Fill, WriteHead, WriteBody, At, serverVars
  <1> QED
    BY <1>3, <1>4, <1>5, <1>6, <1>7 DEF Ends, handleConnection

(* The steps that do not end the process leave it as it is.                  *)
LEMMA StepsOfGoroutine ==
    ASSUME NEW c \in Client,
           handleConnection(c) \/ ReadFails(c) \/ WriteFails(c)
    PROVE  \/ Ends(c)
           \/ ~ Exit /\ UNCHANGED serverVars /\ server = "serving" /\ handleConnection(c)
  <1>1. CASE ReadFails(c) \/ WriteFails(c)
    BY <1>1 DEF Ends, ReadFails, WriteFails
  <1>2. CASE handleConnection(c)
    <2>1. server = "serving"
      BY <1>2 DEF handleConnection, Fill, ReadLine, EndOfHeaders, ReadBody,
                  WriteHead, WriteBody, At
    <2>2. Exit \/ UNCHANGED serverVars
      BY <1>2 DEF handleConnection, Fill, ReadLine, EndOfHeaders, ReadBody,
                  WriteHead, WriteBody
    <2>3. Exit => Ends(c)
      BY <1>2 DEF Ends
    <2> QED
      BY <1>2, <2>1, <2>2, <2>3
  <1> QED
    BY <1>1, <1>2

LEMMA NextInv == ServerInv /\ [Next]_vars => ServerInv'
  <1> SUFFICES ASSUME ServerInv, [Next]_vars PROVE ServerInv'
    OBVIOUS
  <1>1. CASE Listen \/ ListenerFails
    BY <1>1, ListenerInv
  <1>2. ASSUME NEW c \in Client, Accept(c) PROVE ServerInv'
    BY <1>2, AcceptInv
  <1>3. ASSUME NEW c \in Client,
               handleConnection(c) \/ ReadFails(c) \/ WriteFails(c)
        PROVE  ServerInv'
    <2>1. CASE Ends(c)
      BY <2>1, ExitInv DEF Ends
    <2>2. CASE ~ Exit /\ handleConnection(c)
      BY <2>2, FillInv, ReadLineInv, EndOfHeadersInv, ReadBodyInv, WriteInv
         DEF handleConnection
    <2> QED
      BY <1>3, <2>1, <2>2, StepsOfGoroutine
  <1>4. ASSUME NEW c \in Client, NEW s \in Streams[c], Connect(c, s) PROVE ServerInv'
    BY <1>4, ConnectInv
  <1>5. ASSUME NEW c \in Client, stream[c] # None, NEW n \in 1..Len(stream[c]), Arrive(c, n)
        PROVE  ServerInv'
    <2>1. n \in Nat
      BY <1>5
    <2> QED
      BY <1>5, <2>1, ArriveInv
  <1>6. ASSUME NEW c \in Client, Leave(c) PROVE ServerInv'
    BY <1>6, LeaveInv
  <1>7. CASE UNCHANGED vars
    <2>1. \A c \in Client : Connection(c)'
      BY <1>7, ConnectionsKeep DEF vars
    <2> QED
      BY <1>7, <2>1 DEF ServerInv, Types, vars, serverVars, clientVars
  <1> QED
    BY <1>1, <1>2, <1>3, <1>4, <1>5, <1>6, <1>7 DEF Next

LEMMA ServerInvariant == Spec => []ServerInv
  BY InitInv, NextInv, PTL DEF Spec

-----------------------------------------------------------------------------
(* The theorems.                                                             *)

(* The process, the connections and the Requests always have the types of    *)
(* the code, and no reader hands out what has not arrived.                   *)
THEOREM TypeCorrect == Spec => []TypeOK
  <1>1. ServerInv => TypeOK
    <2> SUFFICES ASSUME ServerInv PROVE TypeOK
      OBVIOUS
    <2>1. ASSUME NEW c \in Client
          PROVE  /\ stream[c] # None => arrived[c] \in 0..Len(stream[c])
                 /\ used[c] \in 0..filled[c]
                 /\ filled[c] \in 0..arrived[c]
      <3>1. /\ used[c] \in Nat /\ filled[c] \in Nat /\ arrived[c] \in Nat
            /\ used[c] <= filled[c] /\ filled[c] <= arrived[c]
        BY DEF ServerInv, Types, Connection
      <3>2. stream[c] # None => conn[c] # "none"
        BY DEF ServerInv, Connection
      <3>3. conn[c] # "none" => arrived[c] \in 0..Len(stream[c])
        BY StreamOf
      <3> QED
        BY <3>1, <3>2, <3>3
    <2>2. \A c \in Client :
              request[c] \in [line : Nat, path : Paths \cup {None},
                              contentLength : Int \cup {None}, body : Nat]
      BY DEF ServerInv, Types, Request
    <2>3. /\ server \in {"new", "serving", "exited"}
          /\ listenerFailed \in BOOLEAN
          /\ stream \in [Client -> (UNION Range(Streams)) \cup {None}]
          /\ gone \in [Client -> BOOLEAN]
          /\ split \in [Client -> BOOLEAN]
          /\ conn \in [Client -> {"none", "backlog", "lines", "body", "handle",
                                  "writeBody", "closed"}]
          /\ response \in [Client -> [status : {None, 200, 404}, whole : BOOLEAN]]
      BY Zenon DEF ServerInv, Types, Sent
    <2> QED
      BY <2>1, <2>2, <2>3, Zenon DEF TypeOK
  <1> QED
    BY <1>1, ServerInvariant, PTL

(* However the network cuts what a client sends, handleConnection calls the  *)
(* handler with the path of the first line and with the whole body that the  *)
(* last Content-Length announces.                                            *)
THEOREM RequestsArriveAsSent == Spec => []RequestAsSent
  <1>1. ServerInv => RequestAsSent
    <2> SUFFICES ASSUME ServerInv, NEW c \in Client,
                        conn[c] \in {"handle", "writeBody", "closed"}
                 PROVE  /\ request[c].path = IF HeaderEnd(stream[c]) = 1
                                             THEN None ELSE PathIn(stream[c][1])
                        /\ request[c].body = Declared(stream[c])
                        /\ used[c] = HeaderEnd(stream[c]) + Declared(stream[c])
      BY DEF RequestAsSent
    <2>1. Handled(c)
      BY DEF ServerInv, Connection
    <2>2. HeaderEnd(stream[c]) \in 1..Len(stream[c]) /\ Len(stream[c]) \in Nat
      BY StreamOf, HeaderEndExists
    <2>3. PathOf(stream[c], HeaderEnd(stream[c]) - 1)
              = IF HeaderEnd(stream[c]) = 1 THEN None ELSE PathIn(stream[c][1])
      BY <2>2 DEF PathOf
    <2> QED
      BY <2>1, <2>3 DEF Handled
  <1> QED
    BY <1>1, ServerInvariant, PTL

(* The process ends only because its listener failed or because of one of    *)
(* the five things that a client can do to it: nothing else that a client    *)
(* sends, and no order of the goroutines' steps, reaches log.Fatal or the    *)
(* panic of make.                                                            *)
THEOREM ExitsHaveCause == Spec => []ExitNeedsCause
  <1>1. Init => ExitNeedsCause
    BY DEF Init, ExitNeedsCause
  <1>2. ServerInv /\ ExitNeedsCause /\ [Next]_vars => ExitNeedsCause'
    <2> SUFFICES ASSUME ServerInv, ExitNeedsCause, [Next]_vars, server' = "exited"
                 PROVE  listenerFailed' \/ \E c \in Client : Fatal(c)'
      BY DEF ExitNeedsCause
    <2>1. CASE Listen \/ ListenerFails
      BY <2>1 DEF Listen, ListenerFails
    <2>2. ASSUME NEW c \in Client,
                 handleConnection(c) \/ ReadFails(c) \/ WriteFails(c)
          PROVE  \E d \in Client : Fatal(d)'
      <3>1. Ends(c)
        BY <2>2, StepsOfGoroutine DEF serverVars
      <3>2. Fatal(c)
        BY <3>1, ExitIsFatal
      <3> QED
        BY <3>1, <3>2 DEF Ends, Exit, clientVars, Fatal
    <2>3. ASSUME NEW c \in Client, Accept(c) \/ Leave(c) PROVE FALSE
      BY <2>3 DEF Accept, Leave, Open, serverVars
    <2>4. ASSUME NEW c \in Client, NEW s, Connect(c, s) PROVE FALSE
      BY <2>4 DEF Connect, serverVars
    <2>5. ASSUME NEW c \in Client, NEW n, Arrive(c, n) PROVE FALSE
      BY <2>5 DEF Arrive, Open, serverVars
    <2>6. CASE UNCHANGED vars
      BY <2>6 DEF vars, serverVars, clientVars, ExitNeedsCause, Fatal
    <2> QED
      BY <2>1, <2>2, <2>3, <2>4, <2>5, <2>6 DEF Next
  <1> QED
    BY <1>1, <1>2, ServerInvariant, PTL DEF Spec

=============================================================================
