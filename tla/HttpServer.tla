----------------------------- MODULE HttpServer -----------------------------
(***************************************************************************)
(* The HTTP side of the server: mongoose's poll loop over select(), its    *)
(* connections with their receive and send buffers, the HTTP and websocket *)
(* protocol handlers, file transfers, and the front end's ev_handler.      *)
(* Bytes are abstracted to units: the method, the rest of a head, the end  *)
(* of a head, a piece of body, a chunk, a websocket frame; lengths count   *)
(* units.  One thread runs the loop, clients write, read and leave at any  *)
(* moment.                                                                 *)
(***************************************************************************)
EXTENDS Integers, SequencesExt, Handshake

CONSTANTS
    Client,      \* each makes one connection
    Polite,      \* those that wait for a reply before the next request
    Scripts,     \* what requests the clients have in mind, in which order
    RecvBuf,     \* MG_TCP_RECV_BUFFER_SIZE
    MaxRequest,  \* MG_MAX_HTTP_REQUEST_SIZE
    IoBuf,       \* MG_MAX_HTTP_SEND_IOBUF
    FileSize,    \* length of the file under web_root
    Prescribed   \* the answer RFC 6455 asks for, for each key the clients use

ASSUME SizesAssumption ==
    /\ Polite \subseteq Client
    /\ RecvBuf \in Nat \ {0}
    /\ MaxRequest \in Nat \ {0}
    /\ IoBuf \in Nat \ {0}
    /\ FileSize \in Nat

VARIABLES
    script,    \* what each client has in mind
    sent,      \* how many units of it the client has written
    fin,       \* clients that have closed their end
    wire,      \* written and not yet read by the server
    got,       \* what the client has received
    conn,      \* struct mg_connection
    active,    \* mgr->active_connections, the listener left out
    phase,     \* where mg_mgr_poll is
    todo,      \* connections its second loop has still to visit
    ready      \* the fd sets select() returned

vars == <<script, sent, fin, wire, got, conn, active, phase, todo, ready>>

----------------------------------------------------------------------------
(* What travels.  Frames of a websocket carry their two flags.             *)
Unit(is, n) == [is |-> is, of |-> n]
Frame(op, last, n) == [is |-> "frame", of |-> n, op |-> op, last |-> last]
FileUnit(n, at) == [is |-> "file", of |-> n, at |-> at]
Switching(n, key) == [is |-> "handshake", of |-> n, key |-> key]

Copies(u, k) == [i \in 1..k |-> u]

(* A request as the client writes it: its head, then its body, its chunks  *)
(* or, after an upgrade, its frames.                                       *)
Units(r, n) ==
    IF r.method = "junk" THEN <<Unit("method", n), Unit("junk", n)>>
    ELSE IF r.method = "long" THEN Copies(Unit("method", n), MaxRequest)
    ELSE <<Unit("method", n), Unit("rest", n), Unit("end", n)>> \o
         (CASE r.enc = "plain"   -> Copies(Unit("data", n), r.body)
            [] r.enc = "chunked" -> Copies(Unit("chunk", n), r.body) \o <<Unit("zero", n)>>
            [] r.enc = "ws"      -> [i \in DOMAIN r.frames |->
                                        Frame(r.frames[i][1], r.frames[i][2], n)])

Stream(s) == FlattenSeq([n \in DOMAIN s |-> Units(s[n], n)])

----------------------------------------------------------------------------
(* struct mbuf                                                             *)
mbuf_init == <<>>

mbuf_append(b, s) == b \o s

(* Mutant: what was handled stays in the buffer. *)
RemoveNothing(b, n) == b

mbuf_remove(b, n) ==
    IF n > 0 /\ n <= Len(b) THEN SubSeq(b, n + 1, Len(b)) ELSE b

mbuf_free(b) == mbuf_init

mg_if_tcp_send(k, s) == [k EXCEPT !.send = mbuf_append(@, s)]

mg_send(k, s) == mg_if_tcp_send(k, s)

(* mg_printf and mg_vprintf format into a buffer of their own. *)
mg_printf(k, s) == mg_send(k, s)

(* struct proto_data_http: a file transfer (DATA_FILE), or the offset up   *)
(* to which a chunked body has been put together (DATA_NONE).  NULL is a   *)
(* record of its own.                                                      *)
NoData == [set |-> FALSE, type |-> "none", of |-> 0, cl |-> 0, sent |-> 0, body_len |-> 0]
Transfer(n, cl) == [NoData EXCEPT !.set = TRUE, !.type = "file", !.of = n, !.cl = cl]
Offset(n) == [NoData EXCEPT !.set = TRUE, !.of = n]

(* struct mg_connection: its buffers, the flags MG_F_CLOSE_IMMEDIATELY     *)
(* (close), MG_F_SEND_AND_CLOSE (drain) and MG_F_IS_WEBSOCKET (ws), its    *)
(* proto_data, and what the user's handler has been given so far.          *)
mg_connection ==
    [state |-> "none", recv |-> mbuf_init, send |-> mbuf_init, close |-> FALSE,
     drain |-> FALSE, ws |-> FALSE, data |-> NoData,
     handled |-> <<>>, frames |-> <<>>]

mg_create_connection == [mg_connection EXCEPT !.state = "open"]

----------------------------------------------------------------------------
(* Sending a file: at most IoBuf units wait in the send buffer.            *)

(* Mutant: the buffer's fill is not taken into account. *)
ToReadAlways(k) == IoBuf

ToRead(k) == IF Len(k.send) < IoBuf THEN IoBuf - Len(k.send) ELSE 0

free_http_proto_data(k) == [k EXCEPT !.data = NoData]

(* Mutant: how much has been sent is not remembered. *)
TransferRestarts(k) ==
    IF ToRead(k) = 0 THEN k
    ELSE IF k.data.cl > 0
    THEN mg_send(k, [i \in 1..ToRead(k) |-> FileUnit(k.data.of, k.data.sent + i)])
    ELSE free_http_proto_data(k)

transfer_file_data(k) ==
    LET left == k.data.cl - k.data.sent
        n    == IF left > 0 /\ ToRead(k) > left THEN left ELSE ToRead(k)
    IN  IF n = 0 THEN k
        ELSE IF k.data.sent < k.data.cl
        THEN mg_send([k EXCEPT !.data.sent = @ + n],
                     [i \in 1..n |-> FileUnit(k.data.of, k.data.sent + i)])
        ELSE free_http_proto_data(k)

(* Mutant: events do not carry a transfer on. *)
TransferNever(k) == k

ContinueTransfer(k) == IF k.data.type = "file" THEN transfer_file_data(k) ELSE k

(* mg_serve_http, as far as the connection sees it: StaticFiles decides    *)
(* which of the three answers a URI gets.                                  *)
mg_serve_http(k, uri, n) ==
    CASE uri = "file"    -> transfer_file_data(
                                [mg_send(free_http_proto_data(k), <<Unit("reply", n)>>)
                                    EXCEPT !.data = Transfer(n, FileSize)])
      [] uri = "page"    -> [mg_send(k, <<Unit("reply", n)>>) EXCEPT !.drain = TRUE]
      [] OTHER           -> mg_send(k, <<Unit("reply", n)>>)

(* Whether the URI begins with /api/v1. *)
has_prefix(uri) == uri \in {"command", "unknown"}

is_equal(s1, s2) == s1 = s2

(* The front end: commands are answered, other requests under /api/v1 are  *)
(* ignored, the rest is static content.                                    *)
Command(k, m) ==
    IF is_equal(m.method, "POST") /\ m.uri = "command"
    THEN mg_printf(k, <<Unit("reply", m.n)>>) ELSE k

ServeStatic(k, m) == mg_serve_http(k, m.uri, m.n)

ev_handler(k, m, whole) ==
    LET h == [k EXCEPT !.handled = Append(@, [n |-> m.n, whole |-> whole])]
    IN  IF has_prefix(m.uri) THEN Command(h, m) ELSE ServeStatic(h, m)

----------------------------------------------------------------------------
(* Parsing.  A message without Content-Length has body.len and message.len *)
(* ~0 when its method is POST.                                             *)
Infinite == -1

get_request_len(b) ==
    LET Stops == {i \in DOMAIN b : b[i].is \in {"junk", "end"}}
    IN  IF Stops = {} THEN 0
        ELSE LET i == Min(Stops) IN IF b[i].is = "junk" THEN -1 ELSE i

(* Content-Length, if the head has one. *)
parse_http_headers(r) == IF r.cl THEN r.body ELSE Infinite

(* struct http_message; body and message are lengths, ~0 is Infinite. *)
http_message(len, n, method, enc, uri, body) ==
    [len |-> len, n |-> n, method |-> method, enc |-> enc, uri |-> uri, body |-> body,
     message |-> IF body = Infinite THEN Infinite ELSE len + body]

(* The two headers the handlers look for. *)
mg_get_http_header(m, name) ==
    CASE name = "Transfer-Encoding" -> m.enc = "chunked"
      [] name = "Sec-WebSocket-Key" -> m.enc = "ws"

(* A head whose first bytes were eaten, or that follows stray bytes, still *)
(* parses: its method and perhaps its URI are not the ones sent.           *)
mg_parse_http(s, b) ==
    LET len    == get_request_len(b)
        At     == {i \in 1..len : b[i].is = "rest"}
        n      == b[Min(At)].of
        whole  == b[1].is = "method"
        method == IF whole THEN s[n].method ELSE "other"
        head   == parse_http_headers(s[n])
        cl     == IF head = Infinite /\ method # "POST" THEN 0 ELSE head
    IN  IF len <= 0 THEN [len |-> len]
        ELSE IF At = {} THEN [len |-> -1]
        ELSE http_message(len, n, method, s[n].enc,
                          IF b[1].is = "rest" THEN "missing" ELSE s[n].uri, cl)

(* How many chunks with data are fully buffered. *)
parse_chunk(b) == Cardinality({i \in DOMAIN b : \A j \in 1..i : b[j].is = "chunk"})

(* Chunks fully buffered are put together behind the head; message.len is  *)
(* set once the zero chunk is there.                                       *)
mg_handle_chunked(k, m) ==
    LET data == IF k.data.set THEN k.data ELSE Offset(m.n)
        rest == mbuf_remove(k.recv, m.len + data.body_len)
        run  == parse_chunk(rest)
        zero == run < Len(rest) /\ rest[run + 1].is = "zero"
        body == data.body_len + run
        more == SubSeq(rest, run + (IF zero THEN 2 ELSE 1), Len(rest))
    IN  IF run = 0 /\ ~zero THEN [k |-> [k EXCEPT !.data = data], m |-> m]
        ELSE [k |-> [k EXCEPT !.data = [data EXCEPT !.body_len = body],
                              !.recv = SubSeq(k.recv, 1, m.len + data.body_len) \o
                                       Copies(Unit("data", m.n), run) \o more],
              m |-> [m EXCEPT !.body = body,
                              !.message = IF zero THEN body + Len(more) ELSE @]]

----------------------------------------------------------------------------
(* Websocket.  Fragments are collected at the front of the receive buffer; *)
(* "part" stands for the flag byte, the size and the data collected.  odd  *)
(* is what the first byte of a moved payload happens to look like: the     *)
(* test for a close frame reads it after the move.                         *)
Part(fs) == [is |-> "part", of |-> fs[1].of, got |-> fs]

(* Mutant: a fragment replaces what was collected before it. *)
KeepLast(fs, f) == <<f>>

Collected(fs, f) == Append(fs, f)

is_ws_fragment(u) == u.is = "part" \/ ~u.last

(* The front end's handler is called with the message and ignores it. *)
handle_incoming_websocket_frame(k, fs) == [k EXCEPT !.frames = Append(@, fs)]

deliver_websocket_data(k, odd) ==
    LET b     == k.recv
        reass == b # <<>> /\ is_ws_fragment(b[1])
        at    == IF b # <<>> /\ b[1].is = "part" THEN 2 ELSE 1
        f     == b[at]
        fs    == IF at = 2 THEN Collected(b[1].got, f) ELSE <<f>>
        rest  == SubSeq(b, at + 1, Len(b))
        byte  == IF rest # <<>> THEN Head(rest).op ELSE f.op
        done  == ~reass \/ f.last
        h     == IF done THEN handle_incoming_websocket_frame(k, fs) ELSE k
    IN  IF at > Len(b) THEN k
        ELSE [h EXCEPT !.recv  = IF done THEN rest ELSE <<Part(fs)>> \o rest,
                       !.drain = @ \/ (IF reass THEN odd ELSE byte = "close")]

(* The first byte of a frame: FIN and the opcode. *)
mg_send_ws_header(op) == Frame(op, TRUE, 0)

mg_send_websocket_frame(k, op) == mg_send(k, <<mg_send_ws_header(op)>>)

websocket_handler(k, ev, odd) ==
    CASE ev = "recv" -> FoldLeft(LAMBDA c, i : deliver_websocket_data(c, odd), k,
                                 [i \in 1..Len(k.recv) |-> i])
      [] ev = "ping" -> mg_send_websocket_frame(k, "ping")
      [] OTHER       -> k

(* The text sent for a key is AcceptValue(key). *)
ws_handshake(k, key, n) == mg_printf(k, <<Switching(n, key)>>)

(* The handshake is sent only when nothing else waits to be sent.          *)
Upgrade(s, k, m, odd) ==
    LET u == [k EXCEPT !.recv = mbuf_remove(@, m.len), !.ws = TRUE]
        h == IF u.send = <<>> THEN ws_handshake(u, s[m.n].key, m.n) ELSE u
    IN  websocket_handler(h, "recv", odd)

----------------------------------------------------------------------------
(* http_handler: one message at most is handled for each MG_EV_RECV.       *)
BodyLen(k, m) == Len(k.recv) - m.len

HandleMessage(s, k, odd) ==
    LET p == mg_parse_http(s, k.recv)
        q == IF p.len > 0 /\ mg_get_http_header(p, "Transfer-Encoding")
             THEN mg_handle_chunked(k, p)
             ELSE [k |-> k, m |-> p]
    IN  IF p.len < 0 \/ (p.len = 0 /\ Len(k.recv) >= MaxRequest)
        THEN [k EXCEPT !.close = TRUE]
        ELSE IF p.len = 0 THEN k
        ELSE IF mg_get_http_header(p, "Sec-WebSocket-Key") THEN Upgrade(s, k, p, odd)
        ELSE IF q.m.message # Infinite /\ q.m.message <= Len(q.k.recv)
        THEN [ev_handler(q.k, q.m, TRUE) EXCEPT !.recv = mbuf_remove(@, q.m.message)]
        ELSE q.k

(* Whatever parses is handled when the connection closes, with the body    *)
(* that has arrived.                                                       *)
HandleRest(s, k) ==
    LET m == mg_parse_http(s, k.recv)
    IN  IF Len(k.recv) > 0 /\ m.len > 0
        THEN ev_handler(k, m, BodyLen(k, m) >= s[m.n].body)
        ELSE k

http_handler(s, k, ev, odd) ==
    IF ev = "close" THEN free_http_proto_data(HandleRest(s, k))
    ELSE LET t == ContinueTransfer(k)
         IN  IF ev = "recv" THEN HandleMessage(s, t, odd) ELSE t

(* mg_call, for the protocol handler the connection has. *)
mg_call(s, k, ev, odd) ==
    IF k.ws THEN websocket_handler(k, ev, odd) ELSE http_handler(s, k, ev, odd)

----------------------------------------------------------------------------
(* Clients.  A polite one waits until it has the whole reply to the        *)
(* requests before the one it writes; any of them may leave at any time.   *)
Answer(r, n) ==
    CASE r.uri = "file"    -> <<Unit("reply", n)>> \o [i \in 1..FileSize |-> FileUnit(n, i)]
      [] r.uri = "unknown" -> <<>>
      [] OTHER             -> <<Unit("reply", n)>>

Answers(s, n) == FlattenSeq([i \in 1..n |-> Answer(s[i], i)])

Init ==
    /\ script \in Scripts
    /\ sent = [c \in Client |-> 0]
    /\ fin = {}
    /\ wire = [c \in Client |-> <<>>]
    /\ got = [c \in Client |-> <<>>]
    /\ conn = [c \in Client |-> mg_connection]
    /\ active = <<>>
    /\ phase = "select"
    /\ todo = <<>>
    /\ ready = [read |-> {}, write |-> {}, listener |-> FALSE]

Backlog == {c \in Client : conn[c].state = "backlog"}

server == <<active, phase, todo, ready>>

Connect(c) ==
    /\ conn[c].state = "none"
    /\ script[c] # <<>>
    /\ conn' = [conn EXCEPT ![c].state = "backlog"]
    /\ UNCHANGED <<script, sent, fin, wire, got, server>>

Write(c) ==
    LET s == Stream(script[c])
        u == s[sent[c] + 1]
    IN  /\ conn[c].state \in {"backlog", "open"}
        /\ c \notin fin
        /\ sent[c] < Len(s)
        /\ c \in Polite => Len(got[c]) >= Len(Answers(script[c], u.of - 1))
        /\ sent' = [sent EXCEPT ![c] = @ + 1]
        /\ wire' = [wire EXCEPT ![c] = Append(@, u)]
        /\ UNCHANGED <<script, fin, got, conn, server>>

Leave(c) ==
    /\ conn[c].state \in {"backlog", "open"}
    /\ c \notin fin
    /\ fin' = fin \union {c}
    /\ UNCHANGED <<script, sent, wire, got, conn, server>>

----------------------------------------------------------------------------
(* mg_mgr_poll.  Readability is what it is; whether a socket takes more    *)
(* output depends on the client.                                           *)
Readable == {c \in Range(active) : wire[c] # <<>> \/ c \in fin}
Sending == {c \in Range(active) : conn[c].send # <<>>}

Select(W) ==
    /\ phase = "select"
    /\ ready' = [read |-> Readable, write |-> W, listener |-> Backlog # {}]
    /\ todo' = active
    /\ phase' = "handle"
    /\ UNCHANGED <<script, sent, fin, wire, got, conn, active>>

(* mg_read_from_socket: data, or the end of the stream. *)

(* Mutant: the end of the stream is not an error. *)
EndIgnored(k) == k

EndOfStream(k) == [k EXCEPT !.close = TRUE]

mg_recv_common(s, k, data, odd) ==
    IF k.close THEN k
    ELSE mg_call(s, [k EXCEPT !.recv = mbuf_append(@, data)], "recv", odd)

(* recv_mbuf_limit is ~0: there is always room for a full read. *)
recv_avail_size(k, max) == max

(* What recv returns on a socket that select found readable. *)
mg_is_error(n) == n = 0

mg_read_from_socket(c, odd) ==
    LET n == Min({Len(wire[c]), recv_avail_size(conn[c], RecvBuf)})
    IN  IF mg_is_error(n) THEN EndOfStream(conn[c])
        ELSE mg_recv_common(script[c], conn[c], SubSeq(wire[c], 1, n), odd)

mg_if_sent_cb(s, k, n) ==
    mg_call(s, IF n < 0 THEN [k EXCEPT !.close = TRUE] ELSE k, "send", FALSE)

(* mg_write_to_socket: n units are taken, or none when the peer is gone.   *)
mg_write_to_socket(c, k, n) ==
    mg_if_sent_cb(script[c], IF n > 0 THEN [k EXCEPT !.send = mbuf_remove(@, n)] ELSE k, n)

mg_if_poll(s, k, idle) == mg_call(s, k, IF idle THEN "ping" ELSE "poll", FALSE)

Pinged(c) == \E u \in Range(got[c] \o conn[c].send) : u.is = "frame"

(* mg_mgr_handle_conn for a connection: read, write, or neither.  A ping   *)
(* goes out to an idle websocket; one for each connection is enough here.  *)
HandleConn(c, odd, n, idle) ==
    LET r == c \in ready.read
        w == c \in ready.write
        k == IF r THEN mg_read_from_socket(c, odd) ELSE conn[c]
        io == w /\ ~(r /\ k.close)
        m == IF n < Len(k.send) THEN n ELSE Len(k.send)
    IN  /\ phase = "handle"
        /\ todo # <<>>
        /\ c = Head(todo)
        /\ n < 0 => io /\ c \in fin
        /\ ~io => n = 1
        /\ odd => r /\ conn[c].recv \o wire[c] # <<>>
        /\ idle => ~r /\ ~w /\ k.ws /\ ~Pinged(c)
        /\ conn' = [conn EXCEPT ![c] =
               IF io THEN mg_write_to_socket(c, k, m)
               ELSE IF r \/ w THEN k
               ELSE mg_if_poll(script[c], k, idle)]
        /\ wire' = [wire EXCEPT ![c] =
               IF r THEN SubSeq(@, RecvBuf + 1, Len(@)) ELSE @]
        /\ got' = [got EXCEPT ![c] =
               IF io /\ n > 0 THEN @ \o SubSeq(k.send, 1, m) ELSE @]
        /\ todo' = Tail(todo)
        /\ UNCHANGED <<script, sent, fin, active, phase, ready>>

(* The newest connection is the first of the list. *)
mg_add_conn(list, c) == <<c>> \o list
mg_remove_conn(list, c) == SelectSeq(list, LAMBDA d : d # c)

mg_if_accept_tcp_cb == mg_create_connection

(* mg_accept_conn: one connection is accepted in each poll.                *)
Accept(c) ==
    /\ phase = "handle"
    /\ todo = <<>>
    /\ ready.listener
    /\ c \in Backlog
    /\ conn' = [conn EXCEPT ![c] = mg_if_accept_tcp_cb]
    /\ active' = mg_add_conn(active, c)
    /\ phase' = "reap"
    /\ UNCHANGED <<script, sent, fin, wire, got, todo, ready>>

NothingToAccept ==
    /\ phase = "handle"
    /\ todo = <<>>
    /\ ~ready.listener
    /\ phase' = "reap"
    /\ UNCHANGED <<script, sent, fin, wire, got, conn, active, todo, ready>>

(* The third loop: connections are closed at once or when drained.         *)
Doomed(k) == k.close \/ (k.send = <<>> /\ k.drain)

(* Mutant: the connection leaves the list and is not destroyed. *)
CloseForgets(s, k) == mg_call(s, k, "close", FALSE)

(* The socket is closed, and what the client has still to be read is lost. *)
mg_if_destroy_conn(w) == <<>>

mg_destroy_conn(k) ==
    [k EXCEPT !.state = "closed", !.recv = mbuf_free(@), !.send = mbuf_free(@)]

mg_close_conn(s, k) == mg_destroy_conn(mg_call(s, k, "close", FALSE))

Reap ==
    LET Closing == {c \in Range(active) : Doomed(conn[c])}
    IN  /\ phase = "reap"
        /\ conn' = [c \in Client |-> IF c \in Closing THEN mg_close_conn(script[c], conn[c])
                                     ELSE conn[c]]
        /\ active' = FoldLeft(LAMBDA l, c : IF c \in Closing THEN mg_remove_conn(l, c) ELSE l,
                             active, active)
        /\ wire' = [c \in Client |-> IF c \in Closing THEN mg_if_destroy_conn(wire[c]) ELSE wire[c]]
        /\ phase' = "select"
        /\ UNCHANGED <<script, sent, fin, got, todo, ready>>

Step ==
    \/ \E W \in SUBSET Sending : Select(W)
    \/ \E c \in Client, odd, idle \in BOOLEAN, n \in -1..IoBuf + 2 :
           n # 0 /\ HandleConn(c, odd, n, idle)
    \/ \E c \in Client : Accept(c)
    \/ NothingToAccept
    \/ Reap

Next == Step \/ \E c \in Client : Connect(c) \/ Write(c) \/ Leave(c)

Spec == Init /\ [][Next]_vars

(* How the control of mg_mgr_poll moves: every step of the loop is one of  *)
(* these, and one of them can always be taken.                             *)
LoopMoves ==
    \/ phase = "select" /\ phase' = "handle" /\ todo' = active
    \/ phase = "handle" /\ todo # <<>> /\ todo' = Tail(todo) /\ phase' = phase
    \/ phase = "handle" /\ todo = <<>> /\ phase' = "reap" /\ todo' = todo
    \/ phase = "reap" /\ phase' = "select" /\ todo' = todo

(* The loop of main never stops; a client that keeps reading makes its     *)
(* socket writable again and again, and a connection in the backlog is     *)
(* accepted in its turn.                                                   *)
FairSpec ==
    /\ Spec
    /\ WF_<<phase, todo>>(LoopMoves)
    /\ \A c \in Client :
           /\ SF_vars(\E W \in SUBSET Sending : c \in W /\ Select(W))
           /\ SF_vars(Accept(c))

----------------------------------------------------------------------------
(* Types, the list of active connections against their states, and that no *)
(* transfer sends more than the length it announced.                       *)
TypeOK ==
    /\ sent \in [Client -> Nat]
    /\ fin \subseteq Client
    /\ active \in Seq(Client)
    /\ Range(active) = {c \in Client : conn[c].state = "open"}
    /\ Len(active) = Cardinality(Range(active))
    /\ phase \in {"select", "handle", "reap"}
    /\ ready.read \union ready.write \subseteq Client
    /\ \A c \in Client :
           /\ conn[c].state \in {"none", "backlog", "open", "closed"}
           /\ {conn[c].ws, conn[c].close, conn[c].drain} \subseteq BOOLEAN
           /\ conn[c].data.sent <= conn[c].data.cl

(* Requests that http_handler cuts out of the stream as they were sent:    *)
(* after a chunked one the head stays behind and spoils the next.          *)
Plain(c) == \A n \in DOMAIN script[c] : script[c][n].enc # "chunked"

(* Each request on a connection is handled once, none is skipped, in the   *)
(* order of the stream however the reads cut it, and one whose body is     *)
(* incomplete only as the last thing before the connection is gone.        *)
HandledInOrder ==
    \A c \in Client : Plain(c) =>
        \A i \in DOMAIN conn[c].handled :
            /\ conn[c].handled[i].n = i
            /\ ~conn[c].handled[i].whole =>
                   i = Len(conn[c].handled) /\ conn[c].state = "closed"

(* A client that waits for each reply receives exactly the replies to its  *)
(* requests, whole and in order, or a part of them when it leaves: no unit *)
(* of a file is lost, repeated or mixed with another reply.                *)
PoliteReplies ==
    \A c \in Polite :
        (Plain(c) /\ \A n \in DOMAIN script[c] : script[c][n].enc # "ws") =>
            IsPrefix(got[c], Answers(script[c], Len(script[c])))

(* The units of a file go out in order without gap or repetition, even if  *)
(* other requests are handled during the transfer, and never more than     *)
(* IoBuf of them occupy the send buffer.                                   *)
TransfersSound ==
    \A c \in Client, n \in 1..2 :
        LET IsFile(u) == u.is = "file" /\ u.of = n
            out == SelectSeq(got[c] \o conn[c].send, IsFile)
        IN  /\ \A i \in DOMAIN out : out[i] = FileUnit(n, i)
            /\ Len(SelectSeq(conn[c].send, IsFile)) <= IoBuf

(* AcceptValue, computed once for each key. *)
Accepted == [key \in DOMAIN Prescribed |-> AcceptValue(key)]

(* A websocket opens with the answer that RFC 6455 prescribes for its key, *)
(* also where the text hashed ends near a block's boundary, and its        *)
(* messages are delivered whole and in order: each is the run of fragments *)
(* the client sent for it, wherever the reads cut the stream.              *)
MessagesWhole ==
    \A c \in Client :
        /\ \A u \in Range(got[c] \o conn[c].send) :
               u.is = "handshake" => Accepted[u.key] = Prescribed[script[c][u.of].key]
        /\ IsPrefix(FlattenSeq(conn[c].frames),
                    SelectSeq(Stream(script[c]), LAMBDA u : u.is = "frame"))
        /\ \A m \in Range(conn[c].frames) :
               \A j \in DOMAIN m : m[j].last <=> j = Len(m)

----------------------------------------------------------------------------
(* Requests that promise a reply while the connection stays open.          *)
Answerable(r) == r.uri # "unknown" /\ r.enc = "plain" /\ (r.method = "POST" => r.cl)

Written(c, n) == sent[c] >= Len(Stream(SubSeq(script[c], 1, n)))

(* A polite client that has written its request and stays gets the whole   *)
(* reply, however its bytes were cut and whatever the others do.           *)
PoliteAnswered ==
    \A c \in Polite, n \in 1..2 :
        (/\ n \in DOMAIN script[c]
         /\ \A i \in 1..n : Answerable(script[c][i])
         /\ Written(c, n))
        ~> (c \in fin \/ n \notin DOMAIN script[c] \/ Len(got[c]) >= Len(Answers(script[c], n)))

(* A connection whose client has left is closed and taken off the list,    *)
(* whatever it was doing.                                                  *)
Reaped == \A c \in Client : c \in fin ~> conn[c].state = "closed"
=============================================================================
