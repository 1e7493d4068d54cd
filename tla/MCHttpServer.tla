---------------------------- MODULE MCHttpServer ----------------------------
(* Streams for HttpServer, right and wrong.                                  *)
EXTENDS HttpServer

CONSTANT c1

RequestLine(path)    == [kind |-> "requestLine", path |-> path]
ContentLength(value) == [kind |-> "contentLength", value |-> value]
Line(kind)           == [kind |-> kind]

Bodyless(path) == <<RequestLine(path), Line("blank")>>

WithBody(path, length, bytes) ==
    <<RequestLine(path), ContentLength(length), Line("blank")>>
        \o [i \in 1..bytes |-> Line("byte")]

(* No body; a body; a byte too many; a length that the last one replaces; a  *)
(* body that does not fit into the reader; a negative length; one that make  *)
(* cannot allocate; a first line without a space; a first line that is a     *)
(* header; nothing at all.                                                   *)
MCAll ==
    {Bodyless("/json"),
     WithBody("/text", 2, 2),
     WithBody("/json", 1, 2),
     <<RequestLine("/other"), ContentLength(2), ContentLength(None),
       Line("blank")>>,
     WithBody("/text", 3, 3),
     WithBody("/json", -1, 0),
     WithBody("/json", 6, 0),
     <<Line("noSpace"), Line("blank")>>,
     <<Line("otherLine"), Line("blank")>>,
     <<Line("blank")>>}

(* One client sends any of them, the others a request with a body.           *)
MCStreams ==
    [c \in Client |-> IF c = c1 THEN MCAll ELSE {WithBody("/text", 2, 2)}]

=============================================================================
