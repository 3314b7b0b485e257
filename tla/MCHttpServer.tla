---------------------------- MODULE MCHttpServer ----------------------------
(* Instances of HttpServer: the requests clients have in mind. *)
EXTENDS HttpServer

Req(method, uri, enc, cl, body) ==
    [method |-> method, uri |-> uri, enc |-> enc, cl |-> cl, body |-> body, frames |-> <<>>,
     key |-> <<>>]

Api == Req("POST", "command", "plain", TRUE, 1)
Unknown == Req("POST", "unknown", "plain", TRUE, 1)
File == Req("GET", "file", "plain", FALSE, 0)
Page == Req("GET", "page", "plain", FALSE, 0)
Missing == Req("GET", "missing", "plain", FALSE, 0)
Endless == Req("POST", "command", "plain", FALSE, 1)
Chunked == Req("POST", "command", "chunked", FALSE, 1)
Junk == Req("junk", "missing", "plain", FALSE, 0)
Long == Req("long", "missing", "plain", FALSE, 0)

(* The sample of RFC 6455, section 1.3, and a key with which the text      *)
(* hashed (56 bytes) leaves no room for its length in the first block.     *)
(* The answers are the sample's and that of another SHA-1 implementation.  *)
Sample == <<100, 71, 104, 108, 73, 72, 78, 104, 98, 88, 66, 115, 90, 83, 66, 117, 98, 50,
            53, 106, 90, 81, 61, 61>>
Boundary == [i \in 1..20 |-> 48 + ((i - 1) % 10)]
MCPrescribed ==
    [key \in {Sample, Boundary} |->
        IF key = Sample
        THEN <<115, 51, 112, 80, 76, 77, 66, 105, 84, 120, 97, 81, 57, 107, 89, 71, 122, 122,
               104, 90, 82, 98, 75, 43, 120, 79, 111, 61>>
        ELSE <<98, 102, 111, 106, 77, 99, 122, 68, 103, 51, 100, 115, 73, 67, 99, 80, 66, 81,
               116, 50, 108, 103, 76, 97, 121, 86, 65, 61>>]

Socket ==
    [Req("GET", "missing", "ws", FALSE, 0) EXCEPT !.key = Sample, !.frames =
        <<<<"text", FALSE>>, <<"cont", TRUE>>, <<"text", TRUE>>, <<"close", TRUE>>>>]
Bare == [Req("GET", "missing", "ws", FALSE, 0) EXCEPT !.key = Boundary]

CONSTANTS c1, c2

Only(c, s) == [d \in Client |-> IF d = c THEN s ELSE <<>>]
Both(s, t) == [d \in Client |-> IF d = c1 THEN s ELSE t]

(* c1 does anything, c2 is polite, and both together share the loop. *)
MCScripts ==
    {Only(c1, s) : s \in {<<Api, File>>, <<File, Api>>, <<File, Page>>, <<Unknown, Api>>,
                          <<Endless>>, <<Chunked, Api>>, <<Junk>>, <<Long>>, <<Api, Socket>>, <<Api, Bare>>}}
    \union {Only(c2, s) : s \in {<<Api, File>>, <<File, Api>>, <<File, Missing>>, <<Api, Page>>}}
    \union {Both(<<Api>>, <<File>>), Both(<<File>>, <<Api>>)}
=============================================================================
