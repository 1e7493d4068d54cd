----------------------------- MODULE HttpServer -----------------------------
(***************************************************************************)
(* The HTTP server of internal/httpserver with the handler of              *)
(* cmd/httpserver: an accept loop and one goroutine per connection in one  *)
(* process, which log.Fatal or a panic in any of them ends.                *)
(*                                                                         *)
(* What a client sends is a sequence of units: whole lines, which          *)
(* ReadString puts together whatever their parts, and the single bytes of  *)
(* the body, of which one Read takes what there is.  The units arrive in   *)
(* pieces, and the client may close or reset its connection at any time.   *)
(*                                                                         *)
(* Sockets (external) lie between arrived, filled and used: a read of the  *)
(* connection returns what has arrived, as far as the reader has room.     *)
(***************************************************************************)
EXTENDS Integers, Sequences, FiniteSetsExt, Functions

CONSTANTS
    Client,         \* the clients, each with one connection
    Streams,        \* what each client may send: sequences of units
    BufferSize,     \* units that the bufio.Reader holds, 4096 bytes in the code
    MaxMake,        \* the largest slice of bytes that make allocates
    None            \* no stream, path, status or number

Paths == {"/json", "/text", "/other"}

(* A request line; a Content-Length, with a number or with something else;   *)
(* another header, or a line without a colon; a line without a space; the    *)
(* empty line; a byte of the body.                                           *)
Unit ==
    [kind : {"requestLine"}, path : Paths] \cup
    [kind : {"contentLength"}, value : Int \cup {None}] \cup
    [kind : {"otherLine", "noSpace", "blank", "byte"}]

ASSUME ServerAssumption ==
    /\ Streams \in [Client -> SUBSET Seq(Unit)]
    /\ \A s \in UNION Range(Streams) : \E i \in DOMAIN s : s[i].kind = "blank"
    /\ BufferSize \in Nat \ {0}
    /\ MaxMake \in Nat /\ MaxMake >= BufferSize
    /\ None \notin UNION Range(Streams)

-----------------------------------------------------------------------------
(* What a stream says, read as a whole.                                      *)

(* The path of a first line; that of a line which is no request line is none *)
(* that the handler knows.                                                   *)
PathIn(line) == IF line.kind = "requestLine" THEN line.path ELSE "/other"

HeaderEnd(s) == Min({i \in DOMAIN s : s[i].kind = "blank"})

(* The last Content-Length of the headers.                                   *)
Declared(s) ==
    LET fields == {i \in 2..HeaderEnd(s) : s[i].kind = "contentLength"}
        value  == s[Max(fields)].value
    IN  IF fields = {} \/ value = None THEN 0 ELSE value

InsideBody(s, i) == HeaderEnd(s) < i /\ i < HeaderEnd(s) + Declared(s)

VARIABLES
    server,         \* the process: "new", "serving" or "exited"
    listenerFailed, \* history: Listen or Accept returned an error
    stream,         \* what each client sends
    arrived,        \* how many units of it have arrived at the server
    gone,           \* the client has closed or reset its connection
    conn,           \* how far handleConnection is
    used,           \* units that the reader has handed out
    filled,         \* units that the reader has taken from the connection
    request,        \* the Request
    response,       \* the status the client has received, the body of it too
    split           \* history: a piece of the stream has ended inside the body

serverVars == <<server, listenerFailed>>
clientVars == <<stream, arrived, gone, split>>
vars == <<serverVars, clientVars, conn, used, filled, request, response>>

NoRequest == [line |-> 0, path |-> None, contentLength |-> None, body |-> 0]

TypeOK ==
    /\ server \in {"new", "serving", "exited"}
    /\ listenerFailed \in BOOLEAN
    /\ stream \in [Client -> (UNION Range(Streams)) \cup {None}]
    /\ gone \in [Client -> BOOLEAN]
    /\ split \in [Client -> BOOLEAN]
    /\ conn \in [Client -> {"none", "backlog", "lines", "body", "handle",
                            "writeBody", "closed"}]
    /\ response \in [Client -> [status : {None, 200, 404}, whole : BOOLEAN]]
    /\ \A c \in Client :
           /\ stream[c] # None => arrived[c] \in 0..Len(stream[c])
           /\ used[c] \in 0..filled[c]
           /\ filled[c] \in 0..arrived[c]
           /\ request[c] \in [line : Nat, path : Paths \cup {None},
                              contentLength : Int \cup {None},
                              body : Nat]

Init ==
    /\ server = "new"
    /\ listenerFailed = FALSE
    /\ stream = [c \in Client |-> None]
    /\ arrived = [c \in Client |-> 0]
    /\ gone = [c \in Client |-> FALSE]
    /\ conn = [c \in Client |-> "none"]
    /\ used = [c \in Client |-> 0]
    /\ filled = [c \in Client |-> 0]
    /\ request = [c \in Client |-> NoRequest]
    /\ response = [c \in Client |-> [status |-> None, whole |-> FALSE]]
    /\ split = [c \in Client |-> FALSE]

-----------------------------------------------------------------------------
(* The process.                                                              *)

(* log.Fatal, or a panic that nobody recovers.                               *)
Exit ==
    /\ server' = "exited"
    /\ UNCHANGED <<listenerFailed, clientVars, conn, used, filled, request, response>>

Listen ==
    /\ server = "new"
    /\ server' = "serving"
    /\ UNCHANGED <<listenerFailed, clientVars, conn, used, filled, request, response>>

(* Listen or Accept returns an error, so does Serve, and main ends.          *)
ListenerFails ==
    /\ server # "exited"
    /\ server' = "exited"
    /\ listenerFailed' = TRUE
    /\ UNCHANGED <<clientVars, conn, used, filled, request, response>>

(* Mutant: handleConnection is called without go.                            *)
Accept_Sequential(c) ==
    /\ server = "serving"
    /\ conn[c] = "backlog"
    /\ \A d \in Client : conn[d] \in {"none", "backlog", "closed"}
    /\ conn' = [conn EXCEPT ![c] = "lines"]
    /\ UNCHANGED <<serverVars, clientVars, used, filled, request, response>>

Accept(c) ==
    /\ server = "serving"
    /\ conn[c] = "backlog"
    /\ conn' = [conn EXCEPT ![c] = "lines"]
    /\ UNCHANGED <<serverVars, clientVars, used, filled, request, response>>

-----------------------------------------------------------------------------
(* Reading.                                                                  *)

(* c's goroutine is at label in a process that runs.                         *)
At(c, label) == server = "serving" /\ conn[c] = label

(* Units that the reader can hand out without reading the connection.        *)
Buffered(c) == filled[c] - used[c]

(* Mutant: a read of the connection is taken to fill the reader.             *)
Fill_WholeBuffer(c) ==
    /\ At(c, "lines")
    /\ Buffered(c) = 0
    /\ arrived[c] > filled[c]
    /\ filled' = [filled EXCEPT ![c] = Min({Len(stream[c]), @ + BufferSize})]
    /\ UNCHANGED <<serverVars, clientVars, conn, used, request, response>>

(* The reader is empty and reads the connection.                             *)
Fill(c) ==
    /\ At(c, "lines")
    /\ Buffered(c) = 0
    /\ arrived[c] > filled[c]
    /\ filled' = [filled EXCEPT ![c] = Min({arrived[c], @ + BufferSize})]
    /\ UNCHANGED <<serverVars, clientVars, conn, used, request, response>>

(* ReadString, or the Read of the body, returns an error: the connection has *)
(* ended or is reset.                                                        *)
ReadFails(c) ==
    /\ At(c, "lines") \/ At(c, "body")
    /\ Buffered(c) = 0
    /\ gone[c]
    /\ Exit

ReadString(c) == stream[c][used[c] + 1]

(* A line that is not empty: the path from the first one, which must have a  *)
(* space, a header from the others, which is skipped if it has no colon.     *)
ReadLine(c) ==
    LET line  == ReadString(c)
        first == request[c].line = 0
    IN  /\ At(c, "lines")
        /\ Buffered(c) > 0
        /\ line.kind # "blank"
        /\ \/ first /\ line.kind = "noSpace" /\ Exit
           \/ /\ ~ (first /\ line.kind = "noSpace")
              /\ used' = [used EXCEPT ![c] = @ + 1]
              /\ request' = [request EXCEPT
                    ![c].line = @ + 1,
                    ![c].path = IF first THEN PathIn(line) ELSE @,
                    ![c].contentLength =
                        IF ~ first /\ line.kind = "contentLength" THEN line.value ELSE @]
              /\ UNCHANGED <<serverVars, clientVars, conn, filled, response>>

(* The empty line.  A Content-Length that is no number counts as 0, which    *)
(* needs no byte, and make panics if it is negative or too large.            *)
contentLen(c) ==
    IF request[c].contentLength = None
    THEN 0 ELSE request[c].contentLength

EndOfHeaders(c) ==
    /\ At(c, "lines")
    /\ Buffered(c) > 0
    /\ ReadString(c).kind = "blank"
    /\ \/ contentLen(c) \notin 0..MaxMake /\ Exit
       \/ /\ contentLen(c) \in 0..MaxMake
          /\ used' = [used EXCEPT ![c] = @ + 1]
          /\ conn' = [conn EXCEPT ![c] = IF contentLen(c) > 0 THEN "body" ELSE "handle"]
          /\ UNCHANGED <<serverVars, clientVars, filled, request, response>>

(* Mutant: the body is whatever has arrived.                                 *)
Read_Everything(c) ==
    IF Buffered(c) > 0 THEN Buffered(c) ELSE arrived[c] - used[c]

(* reader.Read(bodyBytes): what the reader holds or, if that is nothing, one *)
(* read of the connection; never more than the body.                         *)
Read(c) ==
    Min({contentLen(c), IF Buffered(c) > 0 THEN Buffered(c)
                                           ELSE arrived[c] - used[c]})

(* Mutant: n is not compared with contentLen.                                *)
ReadBody_Short(c) ==
    LET n == Read(c)
    IN  /\ At(c, "body")
        /\ n > 0
        /\ used' = [used EXCEPT ![c] = @ + n]
        /\ filled' = [filled EXCEPT ![c] = Max({@, used[c] + n})]
        /\ request' = [request EXCEPT ![c].body = n]
        /\ conn' = [conn EXCEPT ![c] = "handle"]
        /\ UNCHANGED <<serverVars, clientVars, response>>

ReadBody(c) ==
    LET n == Read(c)
    IN  /\ At(c, "body")
        /\ n > 0
        /\ \/ n # contentLen(c) /\ Exit
           \/ /\ n = contentLen(c)
              /\ used' = [used EXCEPT ![c] = @ + n]
              /\ filled' = [filled EXCEPT ![c] = Max({@, used[c] + n})]
              /\ request' = [request EXCEPT ![c].body = n]
              /\ conn' = [conn EXCEPT ![c] = "handle"]
              /\ UNCHANGED <<serverVars, clientVars, response>>

-----------------------------------------------------------------------------
(* The handler and its ResponseWriter, which writes the head and then the    *)
(* body.                                                                     *)

Status(path) == IF path \in {"/json", "/text"} THEN 200 ELSE 404

WriteHead(c) ==
    /\ At(c, "handle")
    /\ response' = [response EXCEPT ![c].status = Status(request[c].path)]
    /\ conn' = [conn EXCEPT ![c] = "writeBody"]
    /\ UNCHANGED <<serverVars, clientVars, used, filled, request>>

(* The deferred Close follows.                                               *)
WriteBody(c) ==
    /\ At(c, "writeBody")
    /\ response' = [response EXCEPT ![c].whole = TRUE]
    /\ conn' = [conn EXCEPT ![c] = "closed"]
    /\ UNCHANGED <<serverVars, clientVars, used, filled, request>>

(* A Write to a connection that the client has left may fail.                *)
WriteFails(c) ==
    /\ At(c, "handle") \/ At(c, "writeBody")
    /\ gone[c]
    /\ Exit

-----------------------------------------------------------------------------
(* The clients and the network.                                              *)

Connect(c, s) ==
    /\ server = "serving"
    /\ conn[c] = "none"
    /\ stream' = [stream EXCEPT ![c] = s]
    /\ conn' = [conn EXCEPT ![c] = "backlog"]
    /\ UNCHANGED <<serverVars, arrived, gone, split, used, filled, request, response>>

Open(c) == server = "serving" /\ conn[c] \notin {"none", "closed"}

(* The next n units arrive together.                                         *)
Arrive(c, n) ==
    /\ Open(c)
    /\ ~ gone[c]
    /\ n \in 1..Len(stream[c]) - arrived[c]
    /\ arrived' = [arrived EXCEPT ![c] = @ + n]
    /\ split' = [split EXCEPT ![c] = @ \/ InsideBody(stream[c], arrived[c] + n)]
    /\ UNCHANGED <<serverVars, stream, gone, conn, used, filled, request, response>>

Leave(c) ==
    /\ Open(c)
    /\ ~ gone[c]
    /\ gone' = [gone EXCEPT ![c] = TRUE]
    /\ UNCHANGED <<serverVars, stream, arrived, split, conn, used, filled, request, response>>

-----------------------------------------------------------------------------

(* The steps of c's goroutine that need nobody else.                         *)
handleConnection(c) ==
    \/ Fill(c)
    \/ ReadLine(c)
    \/ EndOfHeaders(c)
    \/ ReadBody(c)
    \/ WriteHead(c)
    \/ WriteBody(c)

Next ==
    \/ Listen
    \/ ListenerFails
    \/ \E c \in Client : Accept(c)
    \/ \E c \in Client : handleConnection(c)
    \/ \E c \in Client : ReadFails(c)
    \/ \E c \in Client : WriteFails(c)
    \/ \E c \in Client : \E s \in Streams[c] : Connect(c, s)
    \/ \E c \in Client : stream[c] # None /\ \E n \in 1..Len(stream[c]) : Arrive(c, n)
    \/ \E c \in Client : Leave(c)

(* The accept loop and the goroutines go on.  Nothing is assumed about the   *)
(* clients: one may stall for good.                                          *)
Fairness ==
    /\ WF_vars(Listen)
    /\ \A c \in Client : WF_vars(Accept(c)) /\ WF_vars(handleConnection(c))

Spec == Init /\ [][Next]_vars /\ Fairness

-----------------------------------------------------------------------------
(* Properties.                                                               *)

(* The handler is called with what the client has sent, however its bytes    *)
(* were cut into pieces on the way: the path of the first line and the whole *)
(* body that the last Content-Length announces, never a part of it (line     *)
(* 134) and never the bytes after it.                                        *)
RequestAsSent ==
    \A c \in Client : conn[c] \in {"handle", "writeBody", "closed"} =>
        LET s == stream[c]
        IN  /\ request[c].path = IF HeaderEnd(s) = 1 THEN None ELSE PathIn(s[1])
            /\ request[c].body = Declared(s)
            /\ used[c] = HeaderEnd(s) + Declared(s)

(* What one connection can do to end the process and with it all others.     *)
Fatal(c) ==
    LET s == stream[c]
    IN  /\ s # None
        /\ \/ gone[c]
           \/ s[1].kind = "noSpace"
           \/ Declared(s) < 0
           \/ split[c]
           \/ Declared(s) > 0 /\ HeaderEnd(s) + Declared(s) > BufferSize

(* The process ends only for a cause: the listener fails, or a client leaves *)
(* before it has its answer, sends a first line without a space or a         *)
(* negative length, or a body that comes in two pieces or does not fit into  *)
(* the reader with its headers, be it in the Read or already in make (lines  *)
(* 113 to 150).  Bytes after the body, pieces that end elsewhere, headers    *)
(* without a colon, an invalid length and a request that is empty never do.  *)
ExitNeedsCause == server = "exited" => listenerFailed \/ \E c \in Client : Fatal(c)

(* A client that has sent all of its request is answered in full as long as  *)
(* the process lives, although others stall for good in the middle of        *)
(* theirs: no connection waits for another.                                  *)
CompleteRequestAnswered ==
    \A c \in Client :
        stream[c] # None /\ arrived[c] = Len(stream[c])
            ~> response[c].whole \/ server = "exited"

=============================================================================
