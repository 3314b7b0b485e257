------------------------------ MODULE Startup ------------------------------
(***************************************************************************)
(* The life of one server process: main reads the configuration, brings    *)
(* the log into memory, starts the gRPC thread and opens the HTTP port; a  *)
(* signal ends the event loop and main returns, under the feet of the      *)
(* detached gRPC thread.  The process may be killed at any moment and be   *)
(* started again, with another configuration, over the same device.        *)
(* An update is one element of the graph and of the log; what a log can    *)
(* lose by itself is in ServerLog and Durability.                          *)
(***************************************************************************)
EXTENDS Integers, SequencesExt

CONSTANTS
    Configs,   \* configuration files: sequences of lines, which are tokens
    Number,    \* the tokens that read as a number
    Hosts,     \* host names in /etc/hosts
    Devices,   \* names of devices that can be opened
    Foreign,   \* ports that other processes may hold
    Update,    \* updates that clients and predecessors send
    MaxStarts  \* bound on the number of starts

ASSUME StartupAssumption == Configs \subseteq Seq(Seq(STRING))

VARIABLES
    config,    \* the configuration file
    lines,     \* how many of its lines main has read
    cfg,       \* the locals of main the lines set
    pc,        \* where main is
    fd,        \* slog.fd is open
    graph,     \* graph
    service,   \* what rpc_service is bound to
    nc,        \* the listening mg_connection
    grpc,      \* the thread of RunRPCServer
    rpc,       \* a handler of rpc_service, and its update
    sig,       \* s_sig_num
    sigpipe,   \* what SIGPIPE does
    device,    \* the superblock's validity and the updates in the log
    taken,     \* ports other processes hold
    acked,     \* updates answered, and not given up by a format since
    starts

memory == <<cfg, lines, fd, graph, service, nc, grpc, rpc, sig, sigpipe>>
vars == <<config, memory, pc, device, taken, acked, starts>>

----------------------------------------------------------------------------
(* [PROTO://][HOST]:PORT.  len is -1 for an error, 0 for a host name that  *)
(* is not in the hosts file; 65535 is no port.                             *)
Text(str, k) == IF k <= Len(str) THEN str[k] ELSE "NUL"

Quad == "127.0.0.1"

mg_resolve_from_hosts_file(name) == IF name \in Hosts THEN 0 ELSE -1

mg_parse_address(str) ==
    LET s     == IF Text(str, 1) \in {"udp://", "tcp://"} THEN Tail(str) ELSE str
        named == Text(s, 1) # ":" /\ Text(s, 2) = ":" /\ Text(s, 3) \in DOMAIN Number
        len   == IF named THEN 3
                 ELSE IF Text(s, 1) = ":" /\ Text(s, 2) \in DOMAIN Number THEN 2
                 ELSE IF Text(s, 1) \in DOMAIN Number THEN 1
                 ELSE -1
        port  == IF len = -1 THEN 0 ELSE Number[s[len]]
        good  == len # -1 /\ port < 65535 /\ Text(s, len + 1) \in {"NUL", ",", " "}
        lost  == /\ named /\ Text(s, 1) # Quad
                 /\ mg_resolve_from_hosts_file(Text(s, 1)) # 0
    IN  [len   |-> IF lost THEN 0
                   ELSE IF good THEN len ELSE -1,
         proto |-> IF Text(str, 1) = "udp://" THEN "udp" ELSE "tcp",
         port  |-> port]

----------------------------------------------------------------------------
(* The process. *)
NoConnection == [set |-> FALSE]

Fresh ==
    /\ cfg = [format |-> FALSE, mongoose_port |-> <<>>, grpc_port |-> <<>>,
              devfile |-> <<>>, ip_next |-> <<>>, port_next |-> <<>>]
    /\ lines = 0
    /\ fd = FALSE
    /\ graph = {}
    /\ service = {}
    /\ nc = NoConnection
    /\ grpc = "none"
    /\ rpc = [at |-> "idle"]
    /\ sig = FALSE
    /\ sigpipe = "deadly"

Init ==
    /\ Fresh
    /\ config \in Configs
    /\ pc = "read"
    /\ device = [valid |-> FALSE, log |-> {}]
    /\ taken \in SUBSET Foreign
    /\ acked = {}
    /\ starts = 1

Running == pc # "dead"

(* Whatever ends the process: its memory and its ports are gone. *)
Die ==
    /\ pc' = "dead"
    /\ cfg' = [format |-> FALSE, mongoose_port |-> <<>>, grpc_port |-> <<>>,
               devfile |-> <<>>, ip_next |-> <<>>, port_next |-> <<>>]
    /\ lines' = 0
    /\ fd' = FALSE
    /\ graph' = {}
    /\ service' = {}
    /\ nc' = NoConnection
    /\ grpc' = "none"
    /\ rpc' = [at |-> "idle"]
    /\ sig' = FALSE
    /\ sigpipe' = "deadly"
    /\ UNCHANGED <<config, device, taken, acked, starts>>

Kill == Running /\ Die

Restart ==
    /\ pc = "dead"
    /\ starts < MaxStarts
    /\ starts' = starts + 1
    /\ config' \in Configs
    /\ pc' = "read"
    /\ UNCHANGED <<memory, device, taken, acked>>

(* Another process gives up a port. *)
Release(p) ==
    /\ p \in taken
    /\ taken' = taken \ {p}
    /\ UNCHANGED <<config, memory, pc, device, acked, starts>>

Goto(label) == pc' = label

GrpcPort ==
    IF Len(cfg.grpc_port) = 1 /\ cfg.grpc_port[1] \in DOMAIN Number
    THEN Number[cfg.grpc_port[1]] ELSE -1

(* TCP ports that cannot be bound. *)
InUse ==
    taken \cup (IF nc.set /\ nc.proto = "tcp" THEN {nc.port} ELSE {})
          \cup (IF grpc = "listening" THEN {GrpcPort} ELSE {})

----------------------------------------------------------------------------
(* main, up to the event loop. *)

(* Mutant: the first line for a key counts. *)
AssignFirst(c, key, value) == IF c[key] = <<>> THEN [c EXCEPT ![key] = value] ELSE c

Assign(c, key, value) == [c EXCEPT ![key] = value]

Keys ==
    [mongoose_port |-> <<"MONGOOSE_PORT">>, grpc_port |-> <<"GRPC_PORT">>,
     devfile |-> <<"DEVFILE">>, ip_next |-> <<"IP_NEXT">>, port_next |-> <<"PORT_NEXT">>]

(* A line is cut at its first "="; without one both parts are the line. *)
Left(line) ==
    LET pos == SelectInSeq(line, LAMBDA tok : tok = "=")
    IN  IF pos = 0 THEN line ELSE SubSeq(line, 1, pos - 1)

Right(line) ==
    LET pos == SelectInSeq(line, LAMBDA tok : tok = "=")
    IN  SubSeq(line, pos + 1, Len(line))

ReadLine ==
    LET line == config[lines + 1]
        Key  == {k \in DOMAIN Keys : Keys[k] = Left(line)}
    IN  /\ pc = "read"
        /\ lines < Len(config)
        /\ lines' = lines + 1
        /\ cfg' = IF Left(line) = <<"FORMAT">>
                  THEN [cfg EXCEPT !.format = Right(line) # <<"0">>]
                  ELSE IF Key = {} THEN cfg
                  ELSE Assign(cfg, CHOOSE k \in Key : TRUE, Right(line))
        /\ UNCHANGED <<config, pc, fd, graph, service, nc, grpc, rpc, sig, sigpipe, device,
                       taken, acked, starts>>

(* bind_graph and attach_log; a device that cannot be opened is reported   *)
(* and nothing else.                                                       *)
attach_log ==
    /\ pc = "read"
    /\ lines = Len(config)
    /\ fd' = (Text(cfg.devfile, 1) \in Devices)
    /\ Goto("log")
    /\ UNCHANGED <<config, cfg, lines, graph, service, nc, grpc, rpc, sig, sigpipe, device,
                   taken, acked, starts>>

(* format() or init_server_log(): both read the superblock through the     *)
(* mapping of fd, which kills the process if there is none.                *)
OpenLog ==
    /\ pc = "log"
    /\ \/ ~fd /\ Die
       \/ /\ fd
          /\ IF cfg.format \/ ~device.valid
             THEN /\ device' = [valid |-> TRUE, log |-> {}]
                  /\ acked' = {}
                  /\ UNCHANGED graph
             ELSE graph' = device.log /\ UNCHANGED <<device, acked>>
          /\ Goto("bind_service")
          /\ UNCHANGED <<config, cfg, lines, fd, service, nc, grpc, rpc, sig, sigpipe,
                         taken, starts>>

(* The client of the next server, if there is one, and the members of      *)
(* rpc_service.                                                            *)
BindService ==
    /\ pc = "bind_service"
    /\ service' = {"graph", "log"} \cup
                  (IF cfg.ip_next # <<"-1">> THEN {"client"} ELSE {})
    /\ Goto("thread")
    /\ UNCHANGED <<config, cfg, lines, fd, graph, nc, grpc, rpc, sig, sigpipe, device,
                   taken, acked, starts>>

StartThread ==
    /\ pc = "thread"
    /\ grpc' = "starting"
    /\ Goto("mgr")
    /\ UNCHANGED <<config, cfg, lines, fd, graph, service, nc, rpc, sig, sigpipe, device,
                   taken, acked, starts>>

mg_mgr_init ==
    /\ pc = "mgr"
    /\ sigpipe' = "ignored"
    /\ Goto("pair")
    /\ UNCHANGED <<config, cfg, lines, fd, graph, service, nc, grpc, rpc, sig, device,
                   taken, acked, starts>>

(* Whether each of the calls that make the pair succeeds is up to the      *)
(* system.                                                                 *)
mg_socketpair == BOOLEAN

(* A socket pair is asked for until there is one. *)
mg_ev_mgr_init(ok) ==
    /\ pc = "pair"
    /\ Goto(IF ok THEN "bind" ELSE "pair")
    /\ UNCHANGED <<config, memory, device, taken, acked, starts>>

mg_open_listening_socket(port, proto) == proto = "udp" \/ port \notin InUse

mg_if_listen_tcp(a) == mg_open_listening_socket(a.port, "tcp")

mg_if_listen_udp(a) == mg_open_listening_socket(a.port, "udp")

mg_bind ==
    LET a == mg_parse_address(cfg.mongoose_port)
    IN  /\ pc = "bind"
        /\ nc' = IF /\ a.len > 0
                    /\ IF a.proto = "udp" THEN mg_if_listen_udp(a) ELSE mg_if_listen_tcp(a)
                 THEN [set |-> TRUE, proto |-> a.proto, port |-> a.port, http |-> FALSE]
                 ELSE NoConnection
        /\ Goto("protocol")
        /\ UNCHANGED <<config, cfg, lines, fd, graph, service, grpc, rpc, sig, sigpipe, device,
                       taken, acked, starts>>

(* The result of mg_bind is not looked at: NULL ends the process here. *)
mg_set_protocol_http_websocket ==
    /\ pc = "protocol"
    /\ \/ ~nc.set /\ Die
       \/ /\ nc.set
          /\ nc' = [nc EXCEPT !.http = TRUE]
          /\ Goto("signals")
          /\ UNCHANGED <<config, cfg, lines, fd, graph, service, grpc, rpc, sig, sigpipe,
                         device, taken, acked, starts>>

InstallHandlers ==
    /\ pc = "signals"
    /\ Goto("loop")
    /\ UNCHANGED <<config, memory, device, taken, acked, starts>>

(* SIGINT or SIGTERM: deadly until the handlers are installed. *)
signal_handler ==
    /\ Running
    /\ IF pc \in {"loop", "exit", "closed"}
       THEN /\ ~sig
            /\ sig' = TRUE
            /\ UNCHANGED <<config, cfg, lines, pc, fd, graph, service, nc, grpc, rpc, sigpipe,
                           device, taken, acked, starts>>
       ELSE Die

----------------------------------------------------------------------------
(* The event loop.  An HTTP update is handled, logged and answered by the  *)
(* thread that will leave the loop.                                        *)
HandleHttp(u) ==
    /\ pc = "loop" /\ ~sig
    /\ u \notin graph
    /\ graph' = graph \cup {u}
    /\ device' = [device EXCEPT !.log = @ \cup {u}]
    /\ acked' = acked \cup {u}
    /\ UNCHANGED <<config, cfg, lines, pc, fd, service, nc, grpc, rpc, sig, sigpipe,
                   taken, starts>>

(* Mutant: the loop is only left when no handler is running. *)
LoopEndsIdle == sig /\ rpc.at = "idle"

LoopEnds == sig

LeaveLoop ==
    /\ pc = "loop" /\ LoopEnds
    /\ Goto("exit")
    /\ UNCHANGED <<config, memory, device, taken, acked, starts>>

(* main has returned: static objects are destroyed in the reverse of their *)
(* order, rpc_service, slog (which closes fd) and graph; then the process  *)
(* ends.                                                                   *)
close_log ==
    /\ pc = "exit"
    /\ fd' = FALSE
    /\ Goto("closed")
    /\ UNCHANGED <<config, cfg, lines, graph, service, nc, grpc, rpc, sig, sigpipe, device,
                   taken, acked, starts>>

Gone == pc = "closed" /\ Die

----------------------------------------------------------------------------
(* The gRPC thread.  BuildAndStart returns null when it cannot listen, and *)
(* the call of Wait() through it ends the process.                         *)
RunRPCServer ==
    /\ grpc = "starting"
    /\ \/ GrpcPort \in InUse \cup {-1} /\ Die
       \/ /\ GrpcPort \notin InUse \cup {-1}
          /\ grpc' = "listening"
          /\ UNCHANGED <<config, cfg, lines, pc, fd, graph, service, nc, rpc, sig, sigpipe,
                         device, taken, acked, starts>>

RpcReceive(u) ==
    /\ grpc = "listening"
    /\ rpc.at = "idle"
    /\ rpc' = [at |-> "method", u |-> u]
    /\ UNCHANGED <<config, cfg, lines, pc, fd, graph, service, nc, grpc, sig, sigpipe, device,
                   taken, acked, starts>>

(* Mutant: the change is not logged. *)
ReplyAtOnce(u) == "reply"

AfterMethod(u) == IF u \in graph THEN "reply" ELSE "append"

(* The graph method; only a change is logged.  A graph that is being       *)
(* destroyed may take the process with it.                                 *)
RpcMethod ==
    /\ rpc.at = "method"
    /\ \/ pc = "closed" /\ Die
       \/ /\ graph' = graph \cup {rpc.u}
          /\ rpc' = [rpc EXCEPT !.at = AfterMethod(rpc.u)]
          /\ UNCHANGED <<config, cfg, lines, pc, fd, service, nc, grpc, sig, sigpipe, device,
                         taken, acked, starts>>

(* The mapping of a closed fd fails, and the copy into it is the end. *)
RpcAppend ==
    /\ rpc.at = "append"
    /\ \/ ~fd /\ Die
       \/ /\ fd
          /\ device' = [device EXCEPT !.log = @ \cup {rpc.u}]
          /\ rpc' = [rpc EXCEPT !.at = "reply"]
          /\ UNCHANGED <<config, cfg, lines, pc, fd, graph, service, nc, grpc, sig, sigpipe,
                         taken, acked, starts>>

RpcReply ==
    /\ rpc.at = "reply"
    /\ acked' = acked \cup {rpc.u}
    /\ rpc' = [at |-> "idle"]
    /\ UNCHANGED <<config, cfg, lines, pc, fd, graph, service, nc, grpc, sig, sigpipe, device,
                   taken, starts>>

----------------------------------------------------------------------------
main ==
    \/ ReadLine \/ attach_log \/ OpenLog \/ BindService \/ StartThread
    \/ mg_mgr_init \/ \E ok \in mg_socketpair : mg_ev_mgr_init(ok)
    \/ mg_bind \/ mg_set_protocol_http_websocket \/ InstallHandlers
    \/ LeaveLoop \/ close_log \/ Gone

Handler == RpcMethod \/ RpcAppend \/ RpcReply

Next ==
    \/ main \/ RunRPCServer \/ Handler
    \/ \E u \in Update : HandleHttp(u) \/ RpcReceive(u)
    \/ signal_handler \/ Kill \/ Restart
    \/ \E p \in Foreign : Release(p)

Spec == Init /\ [][Next]_vars

(* main runs, and at some time there are sockets for the pair. *)
FairSpec == Spec /\ WF_vars(main) /\ SF_vars(mg_ev_mgr_init(TRUE))

----------------------------------------------------------------------------
(* What the file says: the last line for a key. *)
LinesFor(key) == {i \in DOMAIN config : Left(config[i]) = key}

Says(key) ==
    IF LinesFor(key) = {} THEN <<>> ELSE Right(config[Max(LinesFor(key))])

(* Requests are only handled by a server that is what its configuration    *)
(* says, in whatever order the lines stand: its log attached, opened and   *)
(* bound to the service, its successor known, HTTP spoken on the port that *)
(* the file names, by a process that a client cannot end by leaving.       *)
ServesAsConfigured ==
    /\ rpc.at # "idle" =>
           /\ {"graph", "log"} \subseteq service
           /\ "client" \in service <=> Says(<<"IP_NEXT">>) # <<"-1">>
           /\ GrpcPort = Number[Says(<<"GRPC_PORT">>)[1]]
    /\ pc = "loop" =>
           /\ nc.http /\ sigpipe = "ignored"
           /\ nc.port = mg_parse_address(Says(<<"MONGOOSE_PORT">>)).port
           /\ nc.proto = mg_parse_address(Says(<<"MONGOOSE_PORT">>)).proto
           /\ cfg.format <=>
                  LinesFor(<<"FORMAT">>) # {} /\ Says(<<"FORMAT">>) # <<"0">>

(* An answered update that no format has given up is in the log, whatever  *)
(* ended the process and whoever was handling a request at that moment;    *)
(* and requests are handled on a graph that has everything in the log.     *)
AckedKept ==
    /\ acked \subseteq device.log
    /\ (rpc.at # "idle" \/ pc = "loop") => device.log \subseteq graph

(* Every start ends in the event loop or in the end of the process, and a  *)
(* signal that the loop has seen ends the process.                         *)
StartsOrStops ==
    /\ pc = "read" ~> pc \in {"loop", "dead"}
    /\ (pc = "loop" /\ sig) ~> pc = "dead"
=============================================================================
