--------------------------- MODULE StartupProofs ---------------------------
(***************************************************************************)
(* What Startup promises, for every configuration file, every port another *)
(* process may hold, any number of starts and updates, and a process that  *)
(* may be signalled or killed at any moment.                               *)
(***************************************************************************)
EXTENDS Startup, TLAPS

(* Where main is, in its order. *)
Bound == {"thread", "mgr", "pair", "bind", "protocol", "signals", "loop",
          "exit", "closed"}

Opened == {"bind_service"} \cup Bound

Threaded == Bound \ {"thread"}

MgrReady == Threaded \ {"mgr"}

(* The invariant's parts. *)

(* main reads all of one of the configurations. *)
ConfigRead ==
    /\ config \in Configs
    /\ lines \in 0 .. Len(config)
    /\ pc \in {"dead", "read", "log"} \cup Opened
    /\ pc \in {"log"} \cup Opened => lines = Len(config)

(* Of the lines read, line i is the last one for the key. *)
LastLine(key, i) ==
    /\ i \in 1 .. lines
    /\ Left(config[i]) = key
    /\ \A j \in i + 1 .. lines : Left(config[j]) # key

NoLine(key) == \A j \in 1 .. lines : Left(config[j]) # key

(* Each local of main has what the last line read for its key says. *)
SettingsRead ==
    /\ DOMAIN cfg = {"format"} \cup DOMAIN Keys
    /\ cfg = [k \in DOMAIN cfg |-> cfg[k]]
    /\ \A k \in DOMAIN Keys :
          \/ NoLine(Keys[k]) /\ cfg[k] = <<>>
          \/ \E i \in 1 .. lines :
                LastLine(Keys[k], i) /\ cfg[k] = Right(config[i])
    /\ \/ NoLine(<<"FORMAT">>) /\ cfg.format = FALSE
       \/ \E i \in 1 .. lines :
             /\ LastLine(<<"FORMAT">>, i)
             /\ cfg.format = (Right(config[i]) # <<"0">>)

(* What the configuration makes of the service and of the HTTP port stays  *)
(* until the process ends.                                                 *)
ServiceBound ==
    pc \in Bound =>
        service = {"graph", "log"} \cup
                  (IF cfg.ip_next # <<"-1">> THEN {"client"} ELSE {})

Listening(http) ==
    LET a == mg_parse_address(cfg.mongoose_port)
    IN  nc = [set |-> TRUE, proto |-> a.proto, port |-> a.port, http |-> http]

PortOpened ==
    /\ pc \in MgrReady => sigpipe = "ignored"
    /\ pc = "protocol" => nc = NoConnection \/ Listening(FALSE)
    /\ pc \in {"signals", "loop"} => Listening(TRUE)

(* There is a gRPC thread once it was started, a handler while it listens, *)
(* and it listens on the port of the configuration.                        *)
RpcUnderThread ==
    /\ rpc \in [at : {"idle"}] \cup [at : {"method", "append", "reply"}, u : Update]
    /\ grpc # "none" => pc \in Threaded
    /\ rpc.at # "idle" => grpc = "listening"
    /\ grpc = "listening" => GrpcPort # -1

(* Before the log is read the graph is empty; from then on it has all that *)
(* is in the log, and nothing else but the update about to be appended.    *)
GraphIsLog ==
    /\ pc \in {"dead", "read", "log"} => graph = {}
    /\ pc \in Opened => device.log \subseteq graph
    /\ graph \subseteq device.log \cup (IF rpc.at = "append" THEN {rpc.u} ELSE {})
    /\ rpc.at \in {"append", "reply"} => rpc.u \in graph
    /\ acked \subseteq device.log
    /\ device = [valid |-> device.valid, log |-> device.log]

StartupInv ==
    /\ ConfigRead
    /\ pc = "dead" => Fresh
    /\ SettingsRead
    /\ ServiceBound
    /\ PortOpened
    /\ RpcUnderThread
    /\ GraphIsLog

----------------------------------------------------------------------------
(* A configuration is a sequence of lines, and its length a number. *)
LEMMA LinesOfConfig ==
    ASSUME ConfigRead
    PROVE  /\ config \in Seq(Seq(STRING))
           /\ Len(config) \in Nat
           /\ DOMAIN config = 1 .. Len(config)
           /\ lines \in Nat
  <1>1. config \in Seq(Seq(STRING))
    BY StartupAssumption DEF ConfigRead
  <1>. QED BY <1>1 DEF ConfigRead

(* What was read stays read. *)
LEMMA SettingsStay ==
    ASSUME SettingsRead, UNCHANGED <<config, cfg, lines>>
    PROVE  SettingsRead'
  BY DEF SettingsRead, NoLine, LastLine

(* Initially, and whenever a process has died, nothing has been read. *)
LEMMA FreshSettings ==
    ASSUME Fresh
    PROVE  SettingsRead
  <1>1. lines = 0
    BY DEF Fresh
  <1>2. \A key : NoLine(key)
    BY <1>1 DEF NoLine
  <1>3. DOMAIN cfg = {"format"} \cup DOMAIN Keys
    BY DEF Fresh, Keys
  <1>4. \A k \in DOMAIN Keys : cfg[k] = <<>>
    BY DEF Fresh, Keys
  <1>5. cfg.format = FALSE /\ cfg = [k \in DOMAIN cfg |-> cfg[k]]
    BY DEF Fresh
  <1>. QED BY <1>2, <1>3, <1>4, <1>5 DEF SettingsRead

(* Before the first process has read a line. *)
LEMMA InitStartup == Init => StartupInv
  <1>. SUFFICES ASSUME Init PROVE StartupInv
    OBVIOUS
  <1>1. Fresh /\ pc = "read"
    BY DEF Init
  <1>2. Len(config) \in Nat
    BY StartupAssumption DEF Init
  <1>3. ConfigRead
    BY <1>1, <1>2 DEF Init, Fresh, ConfigRead, Opened, Bound
  <1>4. SettingsRead
    BY <1>1, FreshSettings
  <1>5. ServiceBound /\ PortOpened
    BY <1>1 DEF ServiceBound, PortOpened, Bound, MgrReady, Threaded
  <1>6. RpcUnderThread
    BY <1>1 DEF RpcUnderThread, Fresh
  <1>7. GraphIsLog
    BY <1>1 DEF GraphIsLog, Fresh, Init, Opened, Bound
  <1>. QED BY <1>1, <1>3, <1>4, <1>5, <1>6, <1>7 DEF StartupInv

(* A process that ends leaves nothing but the device behind. *)
LEMMA DieKeeps ==
    ASSUME StartupInv, Die
    PROVE  StartupInv'
  <1>1. pc' = "dead" /\ Fresh'
    BY DEF Die, Fresh
  <1>2. ConfigRead'
    BY LinesOfConfig, <1>1 DEF StartupInv, ConfigRead, Die, Opened, Bound
  <1>3. SettingsRead'
    <2>1. lines' = 0
      BY <1>1 DEF Fresh
    <2>2. \A key : NoLine(key)'
      BY <2>1 DEF NoLine
    <2>3. DOMAIN cfg' = {"format"} \cup DOMAIN Keys
      BY <1>1 DEF Fresh, Keys
    <2>4. \A k \in DOMAIN Keys : cfg'[k] = <<>>
      BY <1>1 DEF Fresh, Keys
    <2>5. cfg'.format = FALSE /\ cfg' = [k \in DOMAIN cfg' |-> cfg'[k]]
      BY <1>1 DEF Fresh
    <2>. QED BY <2>2, <2>3, <2>4, <2>5 DEF SettingsRead
  <1>4. ServiceBound' /\ PortOpened'
    BY <1>1 DEF ServiceBound, PortOpened, Bound, MgrReady, Threaded
  <1>5. RpcUnderThread'
    BY <1>1 DEF RpcUnderThread, Fresh
  <1>6. GraphIsLog'
    BY <1>1 DEF StartupInv, GraphIsLog, Fresh, Die, Opened, Bound
  <1>. QED BY <1>1, <1>2, <1>3, <1>4, <1>5, <1>6 DEF StartupInv

----------------------------------------------------------------------------
(* One more line: it is the last one for its own key, and changes nothing  *)
(* for any other.                                                          *)
LEMMA OneMoreLine ==
    ASSUME NEW n \in Nat, lines = n, lines' = n + 1, config' = config, NEW key
    PROVE  /\ Left(config[n + 1]) = key => LastLine(key, n + 1)'
           /\ Left(config[n + 1]) # key =>
                 /\ NoLine(key) => NoLine(key)'
                 /\ \A i \in 1 .. n : LastLine(key, i) => LastLine(key, i)'
  <1>1. ASSUME Left(config[n + 1]) = key
        PROVE  LastLine(key, n + 1)'
    BY <1>1 DEF LastLine
  <1>2. ASSUME Left(config[n + 1]) # key
        PROVE  /\ NoLine(key) => NoLine(key)'
               /\ \A i \in 1 .. n : LastLine(key, i) => LastLine(key, i)'
    BY <1>2 DEF LastLine, NoLine
  <1>. QED BY <1>1, <1>2

(* The keys differ from each other and from FORMAT. *)
LEMMA KeysDiffer ==
    /\ DOMAIN Keys = {"mongoose_port", "grpc_port", "devfile", "ip_next", "port_next"}
    /\ "format" \notin DOMAIN Keys
    /\ \A k \in DOMAIN Keys : Keys[k] # <<"FORMAT">>
    /\ \A k, m \in DOMAIN Keys : Keys[k] = Keys[m] => k = m
  BY DEF Keys

(* A line sets the local of its key, and only that. *)
LEMMA ReadLineSets ==
    ASSUME SettingsRead, NEW n \in Nat, lines = n, ReadLine
    PROVE  SettingsRead'
  <1>. DEFINE line == config[n + 1]
              Key == {k \in DOMAIN Keys : Keys[k] = Left(line)}
  <1>1. /\ lines' = n + 1 /\ config' = config
        /\ cfg' = IF Left(line) = <<"FORMAT">>
                  THEN [cfg EXCEPT !.format = Right(line) # <<"0">>]
                  ELSE IF Key = {} THEN cfg
                  ELSE Assign(cfg, CHOOSE k \in Key : TRUE, Right(line))
    BY DEF ReadLine
  <1>2. DOMAIN cfg' = {"format"} \cup DOMAIN Keys /\ cfg' = [k \in DOMAIN cfg' |-> cfg'[k]]
    BY <1>1 DEF SettingsRead, Assign
  <1>3. ASSUME NEW k \in DOMAIN Keys
        PROVE  \/ NoLine(Keys[k])' /\ cfg'[k] = <<>>
               \/ \E i \in 1 .. lines' : LastLine(Keys[k], i)' /\ cfg'[k] = Right(config'[i])
    <2>1. CASE Left(line) = Keys[k]
      <3>1. Key = {k} /\ Left(line) # <<"FORMAT">>
        BY <2>1, KeysDiffer
      <3>2. cfg'[k] = Right(line)
        BY <1>1, <3>1 DEF SettingsRead, Assign
      <3>3. LastLine(Keys[k], n + 1)'
        BY <1>1, <2>1, OneMoreLine
      <3>4. n + 1 \in 1 .. lines' /\ config'[n + 1] = line
        BY <1>1
      <3>. QED BY <3>2, <3>3, <3>4
    <2>2. CASE Left(line) # Keys[k]
      <3>1. cfg'[k] = cfg[k]
        <4>1. k # "format"
          BY KeysDiffer
        <4>2. Key # {} => (CHOOSE m \in Key : TRUE) \in Key
          OBVIOUS
        <4>3. Key # {} => (CHOOSE m \in Key : TRUE) # k
          BY <2>2, <4>2
        <4>. QED BY <1>1, <4>1, <4>3 DEF SettingsRead, Assign
      <3>2. NoLine(Keys[k]) => NoLine(Keys[k])'
        BY <1>1, <2>2, OneMoreLine
      <3>3. \A i \in 1 .. n : LastLine(Keys[k], i) => LastLine(Keys[k], i)'
        BY <1>1, <2>2, OneMoreLine
      <3>4. CASE NoLine(Keys[k]) /\ cfg[k] = <<>>
        BY <3>1, <3>2, <3>4
      <3>5. CASE \E i \in 1 .. lines : LastLine(Keys[k], i) /\ cfg[k] = Right(config[i])
        <4>1. PICK i \in 1 .. n : LastLine(Keys[k], i) /\ cfg[k] = Right(config[i])
          BY <3>5
        <4>2. i \in 1 .. lines' /\ config'[i] = config[i]
          BY <1>1
        <4>. QED BY <3>1, <3>3, <4>1, <4>2
      <3>. QED BY <3>4, <3>5 DEF SettingsRead
    <2>. QED BY <2>1, <2>2
  <1>4. \/ NoLine(<<"FORMAT">>)' /\ cfg'.format = FALSE
        \/ \E i \in 1 .. lines' :
              /\ LastLine(<<"FORMAT">>, i)'
              /\ cfg'.format = (Right(config'[i]) # <<"0">>)
    <2>1. CASE Left(line) = <<"FORMAT">>
      <3>1. cfg'.format = (Right(line) # <<"0">>)
        BY <1>1, <2>1 DEF SettingsRead
      <3>2. LastLine(<<"FORMAT">>, n + 1)'
        BY <1>1, <2>1, OneMoreLine
      <3>3. n + 1 \in 1 .. lines' /\ config'[n + 1] = line
        BY <1>1
      <3>. QED BY <3>1, <3>2, <3>3
    <2>2. CASE Left(line) # <<"FORMAT">>
      <3>1. cfg'.format = cfg.format
        <4>1. Key # {} => (CHOOSE m \in Key : TRUE) \in DOMAIN Keys
          OBVIOUS
        <4>2. Key # {} => (CHOOSE m \in Key : TRUE) # "format"
          BY <4>1, KeysDiffer
        <4>. QED BY <1>1, <2>2, <4>2 DEF SettingsRead, Assign
      <3>2. NoLine(<<"FORMAT">>) => NoLine(<<"FORMAT">>)'
        BY <1>1, <2>2, OneMoreLine
      <3>3. \A i \in 1 .. n : LastLine(<<"FORMAT">>, i) => LastLine(<<"FORMAT">>, i)'
        BY <1>1, <2>2, OneMoreLine
      <3>4. CASE NoLine(<<"FORMAT">>) /\ cfg.format = FALSE
        BY <3>1, <3>2, <3>4
      <3>5. CASE \E i \in 1 .. lines : /\ LastLine(<<"FORMAT">>, i)
                                       /\ cfg.format = (Right(config[i]) # <<"0">>)
        <4>1. PICK i \in 1 .. n : /\ LastLine(<<"FORMAT">>, i)
                                 /\ cfg.format = (Right(config[i]) # <<"0">>)
          BY <3>5
        <4>2. i \in 1 .. lines' /\ config'[i] = config[i]
          BY <1>1
        <4>. QED BY <3>1, <3>3, <4>1, <4>2
      <3>. QED BY <3>4, <3>5 DEF SettingsRead
    <2>. QED BY <2>1, <2>2
  <1>. QED BY <1>2, <1>3, <1>4 DEF SettingsRead

(* main reads a line. *)
LEMMA ReadLineKeeps ==
    ASSUME StartupInv, ReadLine
    PROVE  StartupInv'
  <1>1. pc = "read" /\ UNCHANGED <<config, pc, fd, graph, service, nc, grpc, rpc, sig, sigpipe, device, taken, acked, starts>>
    BY DEF ReadLine
  <1>2. ConfigRead'
    BY <1>1, LinesOfConfig DEF StartupInv, ReadLine, ConfigRead, Opened, Bound
  <1>3. SettingsRead'
    BY ReadLineSets, LinesOfConfig DEF StartupInv
  <1>4. ServiceBound' /\ PortOpened'
    BY <1>1 DEF ServiceBound, PortOpened, Bound, MgrReady, Threaded
  <1>5. grpc = "none"
    BY <1>1 DEF StartupInv, RpcUnderThread, Threaded, Bound
  <1>6. RpcUnderThread'
    BY <1>1, <1>5 DEF StartupInv, RpcUnderThread
  <1>7. GraphIsLog'
    BY <1>1 DEF StartupInv, GraphIsLog
  <1>. QED BY <1>1, <1>2, <1>3, <1>4, <1>6, <1>7 DEF StartupInv

----------------------------------------------------------------------------
(* The steps that leave the settings alone. *)

(* The log is opened: the graph becomes what the log says, or a format     *)
(* gives up both.                                                          *)
LEMMA OpenLogKeeps ==
    ASSUME StartupInv, OpenLog
    PROVE  StartupInv'
  <1>1. CASE Die
    BY <1>1, DieKeeps
  <1>2. CASE ~Die
    <2>1. /\ pc = "log" /\ pc' = "bind_service"
          /\ UNCHANGED <<config, cfg, lines, fd, service, nc, grpc, rpc, sig, sigpipe,
                         taken, starts>>
      BY <1>2 DEF OpenLog, Goto
    <2>2. \/ /\ device' = [valid |-> TRUE, log |-> {}]
             /\ acked' = {} /\ graph' = graph
          \/ graph' = device.log /\ UNCHANGED <<device, acked>>
      BY <1>2 DEF OpenLog
    <2>3. ConfigRead'
      BY <2>1 DEF StartupInv, ConfigRead, Opened, Bound
    <2>4. SettingsRead'
      BY <2>1, SettingsStay DEF StartupInv
    <2>5. ServiceBound' /\ PortOpened'
      BY <2>1 DEF ServiceBound, PortOpened, Bound, MgrReady, Threaded
    <2>6. grpc = "none" /\ rpc.at = "idle"
      BY <2>1 DEF StartupInv, RpcUnderThread, Threaded, Bound
    <2>7. RpcUnderThread'
      BY <2>1, <2>6 DEF StartupInv, RpcUnderThread
    <2>8. GraphIsLog'
      <3>1. graph = {} /\ acked \subseteq device.log
        BY <2>1 DEF StartupInv, GraphIsLog
      <3>. QED BY <2>1, <2>2, <2>6, <3>1 DEF StartupInv, GraphIsLog, Opened, Bound
    <2>. QED BY <2>1, <2>3, <2>4, <2>5, <2>7, <2>8 DEF StartupInv
  <1>. QED BY <1>1, <1>2

(* The device is attached, and the service bound. *)
LEMMA AttachKeeps ==
    ASSUME StartupInv, attach_log \/ BindService
    PROVE  StartupInv'
  <1>1. /\ \/ pc = "read" /\ pc' = "log" /\ lines = Len(config)
           \/ pc = "bind_service" /\ pc' = "thread"
        /\ UNCHANGED <<config, cfg, lines, graph, nc, grpc, rpc, sig, sigpipe, device,
                       taken, acked, starts>>
    BY DEF attach_log, BindService, Goto
  <1>2. ConfigRead'
    BY <1>1 DEF StartupInv, ConfigRead, Opened, Bound
  <1>3. SettingsRead'
    BY <1>1, SettingsStay DEF StartupInv
  <1>4. ServiceBound'
    BY <1>1 DEF attach_log, BindService, Goto, ServiceBound, Bound
  <1>5. PortOpened'
    BY <1>1 DEF PortOpened, Bound, MgrReady, Threaded
  <1>6. grpc = "none" /\ rpc.at = "idle"
    BY <1>1 DEF StartupInv, RpcUnderThread, Threaded, Bound
  <1>7. RpcUnderThread'
    BY <1>1, <1>6 DEF StartupInv, RpcUnderThread
  <1>8. GraphIsLog'
    BY <1>1 DEF StartupInv, GraphIsLog, Opened, Bound
  <1>. QED BY <1>1, <1>2, <1>3, <1>4, <1>5, <1>7, <1>8 DEF StartupInv

(* Steps of main from the start of the gRPC thread on that leave the HTTP  *)
(* connection alone.                                                       *)
LEMMA MainKeeps ==
    ASSUME StartupInv,
           \/ StartThread \/ mg_mgr_init
           \/ \E ok \in mg_socketpair : mg_ev_mgr_init(ok)
           \/ InstallHandlers \/ LeaveLoop \/ close_log
    PROVE  StartupInv'
  <1>1. /\ UNCHANGED <<config, cfg, lines, graph, service, nc, rpc, device, acked>>
        /\ pc \in Bound /\ pc' \in Threaded
        /\ pc' \in MgrReady \/ pc = "thread"
        /\ pc \in MgrReady => UNCHANGED sigpipe
        /\ pc' \in MgrReady => pc \in MgrReady \/ sigpipe' = "ignored"
        /\ pc' # "protocol"
        /\ pc' \in {"signals", "loop"} => pc \in {"signals", "loop"}
        /\ UNCHANGED grpc \/ (pc = "thread" /\ grpc' = "starting")
    <2>1. CASE StartThread
      BY <2>1 DEF StartThread, Goto, Bound, Threaded, MgrReady
    <2>2. CASE mg_mgr_init
      BY <2>2 DEF mg_mgr_init, Goto, Bound, Threaded, MgrReady
    <2>3. CASE \E ok \in mg_socketpair : mg_ev_mgr_init(ok)
      <3>1. pc = "pair" /\ pc' \in {"pair", "bind"}
        BY <2>3 DEF mg_ev_mgr_init, Goto
      <3>. QED BY <2>3, <3>1 DEF mg_ev_mgr_init, memory, Bound, Threaded, MgrReady
    <2>4. CASE InstallHandlers
      BY <2>4 DEF InstallHandlers, Goto, memory, Bound, Threaded, MgrReady
    <2>5. CASE LeaveLoop
      BY <2>5 DEF LeaveLoop, Goto, memory, Bound, Threaded, MgrReady
    <2>6. CASE close_log
      BY <2>6 DEF close_log, Goto, Bound, Threaded, MgrReady
    <2>. QED BY <2>1, <2>2, <2>3, <2>4, <2>5, <2>6
  <1>2. ConfigRead' /\ pc' # "dead"
    BY <1>1 DEF StartupInv, ConfigRead, Opened, Bound, Threaded
  <1>3. SettingsRead'
    BY <1>1, SettingsStay DEF StartupInv
  <1>4. ServiceBound'
    BY <1>1 DEF StartupInv, ServiceBound, Threaded
  <1>5. PortOpened'
    BY <1>1 DEF StartupInv, PortOpened, Listening
  <1>6. RpcUnderThread'
    <2>1. pc = "thread" => grpc = "none" /\ rpc.at = "idle"
      BY DEF StartupInv, RpcUnderThread, Threaded
    <2>. QED BY <1>1, <2>1 DEF StartupInv, RpcUnderThread, GrpcPort
  <1>7. GraphIsLog'
    BY <1>1 DEF StartupInv, GraphIsLog, Opened, Bound, Threaded
  <1>. QED BY <1>2, <1>3, <1>4, <1>5, <1>6, <1>7 DEF StartupInv

(* The HTTP port is opened and made a web server's. *)
LEMMA PortKeeps ==
    ASSUME StartupInv, mg_bind \/ mg_set_protocol_http_websocket
    PROVE  StartupInv'
  <1>1. CASE Die
    BY <1>1, DieKeeps
  <1>2. CASE ~Die
    <2>1. /\ \/ pc = "bind" /\ pc' = "protocol"
             \/ pc = "protocol" /\ pc' = "signals"
          /\ UNCHANGED <<config, cfg, lines, fd, graph, service, grpc, rpc, sig, sigpipe,
                         device, taken, acked, starts>>
      BY <1>2 DEF mg_bind, mg_set_protocol_http_websocket, Goto
    <2>2. ConfigRead'
      BY <2>1 DEF StartupInv, ConfigRead, Opened, Bound
    <2>3. SettingsRead'
      BY <2>1, SettingsStay DEF StartupInv
    <2>4. ServiceBound'
      BY <2>1 DEF StartupInv, ServiceBound, Bound
    <2>5. PortOpened'
      <3>1. sigpipe' = "ignored"
        BY <2>1 DEF StartupInv, PortOpened, MgrReady, Threaded, Bound
      <3>2. CASE pc = "bind"
        BY <2>1, <3>1, <3>2 DEF mg_bind, mg_set_protocol_http_websocket, PortOpened, Listening
      <3>3. CASE pc = "protocol"
        <4>1. nc.set /\ nc' = [nc EXCEPT !.http = TRUE]
          BY <1>2, <3>3 DEF mg_bind, mg_set_protocol_http_websocket
        <4>2. Listening(FALSE)
          <5>1. nc = NoConnection \/ Listening(FALSE)
            BY <3>3 DEF StartupInv, PortOpened
          <5>2. nc # NoConnection
            BY <4>1 DEF NoConnection
          <5>. QED BY <5>1, <5>2
        <4>3. Listening(TRUE)'
          BY <2>1, <4>1, <4>2 DEF Listening
        <4>. QED BY <2>1, <3>1, <3>3, <4>3 DEF PortOpened
      <3>. QED BY <2>1, <3>2, <3>3
    <2>6. RpcUnderThread'
      BY <2>1 DEF StartupInv, RpcUnderThread, GrpcPort, Threaded, Bound
    <2>7. GraphIsLog'
      BY <2>1 DEF StartupInv, GraphIsLog, Opened, Bound
    <2>. QED BY <2>1, <2>2, <2>3, <2>4, <2>5, <2>6, <2>7 DEF StartupInv
  <1>. QED BY <1>1, <1>2

(* An HTTP update: the graph, the log and the answer in one step. *)
LEMMA HandleHttpKeeps ==
    ASSUME StartupInv, NEW u \in Update, HandleHttp(u)
    PROVE  StartupInv'
  <1>1. /\ UNCHANGED <<config, cfg, lines, pc, fd, service, nc, grpc, rpc, sig, sigpipe,
                       taken, starts>>
        /\ pc = "loop"
        /\ graph' = graph \cup {u}
        /\ device' = [device EXCEPT !.log = @ \cup {u}]
        /\ acked' = acked \cup {u}
    BY DEF HandleHttp
  <1>2. device' = [valid |-> device.valid, log |-> device.log \cup {u}]
    BY <1>1 DEF StartupInv, GraphIsLog
  <1>3. ConfigRead' /\ ServiceBound' /\ PortOpened' /\ RpcUnderThread'
    BY <1>1 DEF StartupInv, ConfigRead, ServiceBound, PortOpened, Listening,
                RpcUnderThread, GrpcPort
  <1>4. SettingsRead'
    BY <1>1, SettingsStay DEF StartupInv
  <1>5. GraphIsLog'
    BY <1>1, <1>2 DEF StartupInv, GraphIsLog, Opened, Bound
  <1>. QED BY <1>1, <1>3, <1>4, <1>5 DEF StartupInv

(* The gRPC thread, and a handler until it has run the graph method. *)
LEMMA RpcCallKeeps ==
    ASSUME StartupInv,
           \/ RunRPCServer \/ RpcMethod
           \/ \E u \in Update : RpcReceive(u)
    PROVE  StartupInv'
  <1>1. CASE Die
    BY <1>1, DieKeeps
  <1>2. CASE ~Die
    <2>1. UNCHANGED <<config, cfg, lines, pc, fd, service, nc, sig, sigpipe, device, taken,
                      acked, starts>>
      BY <1>2 DEF RunRPCServer, RpcMethod, RpcReceive
    <2>2. pc \in Threaded
      BY <1>2 DEF StartupInv, RpcUnderThread, RunRPCServer, RpcMethod, RpcReceive
    <2>3. ConfigRead' /\ ServiceBound' /\ PortOpened'
      BY <2>1 DEF StartupInv, ConfigRead, ServiceBound, PortOpened, Listening
    <2>4. SettingsRead'
      BY <2>1, SettingsStay DEF StartupInv
    <2>5. RpcUnderThread' /\ GraphIsLog'
      <3>1. CASE RunRPCServer
        <4>1. UNCHANGED <<graph, rpc>> /\ grpc = "starting" /\ GrpcPort # -1
          BY <1>2, <3>1 DEF RunRPCServer
        <4>2. RpcUnderThread'
          BY <2>1, <2>2, <4>1 DEF StartupInv, RpcUnderThread, GrpcPort
        <4>. QED BY <2>1, <4>1, <4>2 DEF StartupInv, GraphIsLog
      <3>2. CASE \E u \in Update : RpcReceive(u)
        <4>1. PICK u \in Update : RpcReceive(u)
          BY <3>2
        <4>2. /\ UNCHANGED <<graph, grpc>>
              /\ rpc.at = "idle" /\ rpc' = [at |-> "method", u |-> u]
              /\ grpc = "listening"
          BY <4>1 DEF RpcReceive
        <4>3. RpcUnderThread'
          BY <2>1, <4>2 DEF StartupInv, RpcUnderThread, GrpcPort
        <4>. QED BY <2>1, <4>2, <4>3 DEF StartupInv, GraphIsLog
      <3>3. CASE RpcMethod
        <4>1. /\ rpc.at = "method" /\ UNCHANGED grpc
              /\ graph' = graph \cup {rpc.u}
              /\ rpc' = [rpc EXCEPT !.at = AfterMethod(rpc.u)]
          BY <1>2, <3>3 DEF RpcMethod
        <4>2. rpc \in [at : {"idle", "method", "append", "reply"}, u : Update]
          BY <4>1 DEF StartupInv, RpcUnderThread
        <4>3. rpc' = [at |-> AfterMethod(rpc.u), u |-> rpc.u] /\ rpc.u \in Update
          BY <4>1, <4>2
        <4>4. AfterMethod(rpc.u) = IF rpc.u \in graph THEN "reply" ELSE "append"
          BY DEF AfterMethod
        <4>5. RpcUnderThread'
          BY <2>1, <4>1, <4>3, <4>4 DEF StartupInv, RpcUnderThread, GrpcPort
        <4>6. GraphIsLog'
          BY <2>1, <2>2, <4>1, <4>3, <4>4
             DEF StartupInv, GraphIsLog, Threaded, Bound, Opened
        <4>. QED BY <4>5, <4>6
      <3>. QED BY <3>1, <3>2, <3>3
    <2>. QED BY <2>1, <2>2, <2>3, <2>4, <2>5 DEF StartupInv, Threaded, Bound
  <1>. QED BY <1>1, <1>2

(* A handler appends to the log, if that is still open, and replies. *)
LEMMA RpcAppendKeeps ==
    ASSUME StartupInv, RpcAppend \/ RpcReply
    PROVE  StartupInv'
  <1>1. CASE Die
    BY <1>1, DieKeeps
  <1>2. CASE ~Die
    <2>1. UNCHANGED <<config, cfg, lines, pc, fd, graph, service, nc, grpc, sig, sigpipe,
                      taken, starts>>
      BY <1>2 DEF RpcAppend, RpcReply
    <2>2. pc \in Threaded
      BY <1>2 DEF StartupInv, RpcUnderThread, RpcAppend, RpcReply
    <2>3. ConfigRead' /\ ServiceBound' /\ PortOpened'
      BY <2>1 DEF StartupInv, ConfigRead, ServiceBound, PortOpened, Listening
    <2>4. SettingsRead'
      BY <2>1, SettingsStay DEF StartupInv
    <2>5. rpc \in [at : {"append", "reply"}, u : Update] /\ rpc.u \in graph
      BY <1>2 DEF StartupInv, RpcUnderThread, GraphIsLog, RpcAppend, RpcReply
    <2>6. RpcUnderThread' /\ GraphIsLog'
      <3>1. CASE RpcAppend
        <4>1. /\ device' = [device EXCEPT !.log = @ \cup {rpc.u}]
              /\ rpc' = [rpc EXCEPT !.at = "reply"] /\ rpc.at = "append"
              /\ UNCHANGED acked
          BY <1>2, <3>1 DEF RpcAppend
        <4>2. device' = [valid |-> device.valid, log |-> device.log \cup {rpc.u}]
          BY <4>1 DEF StartupInv, GraphIsLog
        <4>3. rpc' = [at |-> "reply", u |-> rpc.u]
          BY <2>5, <4>1
        <4>4. RpcUnderThread'
          BY <2>1, <2>5, <4>1, <4>3 DEF StartupInv, RpcUnderThread, GrpcPort
        <4>. QED BY <2>1, <2>2, <2>5, <4>1, <4>2, <4>3, <4>4
                 DEF StartupInv, GraphIsLog
      <3>2. CASE RpcReply
        <4>1. /\ acked' = acked \cup {rpc.u} /\ rpc' = [at |-> "idle"]
              /\ rpc.at = "reply" /\ UNCHANGED device
          BY <3>2 DEF RpcReply
        <4>2. rpc.u \in device.log
          BY <2>5, <4>1 DEF StartupInv, GraphIsLog
        <4>3. RpcUnderThread'
          BY <2>1, <4>1 DEF StartupInv, RpcUnderThread, GrpcPort
        <4>. QED BY <2>1, <2>2, <4>1, <4>2, <4>3 DEF StartupInv, GraphIsLog
      <3>. QED BY <3>1, <3>2
    <2>. QED BY <2>1, <2>2, <2>3, <2>4, <2>6 DEF StartupInv, Threaded, Bound
  <1>. QED BY <1>1, <1>2

(* A signal that does not end the process, or a port given up elsewhere,   *)
(* changes nothing the invariant speaks of.                                *)
LEMMA SignalKeeps ==
    ASSUME StartupInv, signal_handler \/ \E p \in Foreign : Release(p)
    PROVE  StartupInv'
  <1>1. CASE Die
    BY <1>1, DieKeeps
  <1>2. CASE ~Die
    <2>1. /\ UNCHANGED <<config, cfg, lines, pc, fd, graph, service, nc, grpc, rpc, sigpipe,
                         device, acked, starts>>
          /\ UNCHANGED sig \/ pc # "dead"
      BY <1>2 DEF signal_handler, Release, memory, Running
    <2>2. ConfigRead' /\ ServiceBound' /\ PortOpened' /\ RpcUnderThread'
      BY <2>1 DEF StartupInv, ConfigRead, ServiceBound, PortOpened, Listening,
                  RpcUnderThread, GrpcPort
    <2>3. SettingsRead'
      BY <2>1, SettingsStay DEF StartupInv
    <2>4. GraphIsLog'
      BY <2>1 DEF StartupInv, GraphIsLog
    <2>5. pc' = "dead" => Fresh'
      BY <2>1 DEF StartupInv, Fresh
    <2>. QED BY <2>2, <2>3, <2>4, <2>5 DEF StartupInv
  <1>. QED BY <1>1, <1>2

(* A new process starts with nothing but the device. *)
LEMMA RestartKeeps ==
    ASSUME StartupInv, Restart
    PROVE  StartupInv'
  <1>1. /\ pc = "dead" /\ pc' = "read" /\ config' \in Configs
        /\ UNCHANGED <<cfg, lines, fd, graph, service, nc, grpc, rpc, sig, sigpipe, device,
                       taken, acked>>
    BY DEF Restart, memory
  <1>2. Fresh
    BY <1>1 DEF StartupInv
  <1>3. ConfigRead'
    <2>1. Len(config') \in Nat
      BY <1>1, StartupAssumption
    <2>. QED BY <1>1, <1>2, <2>1 DEF Fresh, ConfigRead, Opened, Bound
  <1>4. SettingsRead'
    <2>1. Fresh'
      BY <1>1, <1>2 DEF Fresh
    <2>2. lines' = 0
      BY <2>1 DEF Fresh
    <2>3. \A key : NoLine(key) /\ NoLine(key)'
      BY <1>1, <2>2 DEF NoLine
    <2>4. DOMAIN cfg' = {"format"} \cup DOMAIN Keys
      BY <2>1 DEF Fresh, Keys
    <2>5. \A k \in DOMAIN Keys : cfg'[k] = <<>>
      BY <2>1 DEF Fresh, Keys
    <2>6. cfg'.format = FALSE /\ cfg' = [k \in DOMAIN cfg' |-> cfg'[k]]
      BY <2>1 DEF Fresh
    <2>. QED BY <2>3, <2>4, <2>5, <2>6 DEF SettingsRead
  <1>5. ServiceBound' /\ PortOpened'
    BY <1>1 DEF ServiceBound, PortOpened, Bound, MgrReady, Threaded
  <1>6. RpcUnderThread'
    BY <1>1, <1>2 DEF RpcUnderThread, Fresh
  <1>7. GraphIsLog'
    BY <1>1 DEF StartupInv, GraphIsLog, Opened, Bound
  <1>. QED BY <1>1, <1>3, <1>4, <1>5, <1>6, <1>7 DEF StartupInv

----------------------------------------------------------------------------
(* Every step of the process, its threads and its clients keeps it. *)
LEMMA StartupInvariance == Spec => []StartupInv
  <1>1. Init => StartupInv
    BY InitStartup
  <1>2. StartupInv /\ [Next]_vars => StartupInv'
    <2>. SUFFICES ASSUME StartupInv, [Next]_vars
                  PROVE  StartupInv'
      OBVIOUS
    <2>1. CASE main
      <3>1. CASE Gone
        BY <3>1, DieKeeps DEF Gone
      <3>. QED BY <2>1, <3>1, ReadLineKeeps, AttachKeeps, OpenLogKeeps, MainKeeps, PortKeeps
               DEF main
    <2>2. CASE RunRPCServer \/ Handler
      BY <2>2, RpcCallKeeps, RpcAppendKeeps DEF Handler
    <2>3. CASE \E u \in Update : HandleHttp(u) \/ RpcReceive(u)
      BY <2>3, HandleHttpKeeps, RpcCallKeeps
    <2>4. CASE signal_handler \/ \E p \in Foreign : Release(p)
      BY <2>4, SignalKeeps
    <2>5. CASE Kill \/ Restart
      BY <2>5, DieKeeps, RestartKeeps DEF Kill
    <2>6. CASE UNCHANGED vars
      <3>1. UNCHANGED <<config, cfg, lines, fd, graph, service, nc, grpc, rpc, sig, sigpipe,
                        pc, device, acked>>
        BY <2>6 DEF vars, memory
      <3>2. SettingsRead'
        BY <3>1, SettingsStay DEF StartupInv
      <3>3. ConfigRead' /\ ServiceBound' /\ PortOpened' /\ RpcUnderThread' /\ GraphIsLog'
        BY <3>1 DEF StartupInv, ConfigRead, ServiceBound, PortOpened, Listening,
                    RpcUnderThread, GrpcPort, GraphIsLog
      <3>4. pc' = "dead" => Fresh'
        BY <3>1 DEF StartupInv, Fresh
      <3>. QED BY <3>2, <3>3, <3>4 DEF StartupInv
    <2>. QED BY <2>1, <2>2, <2>3, <2>4, <2>5, <2>6 DEF Next
  <1>. QED BY <1>1, <1>2, PTL DEF Spec

(* What an answer promises survives the process, however it ends, and      *)
(* requests are handled on a graph that has everything in the log.         *)
THEOREM AnswersOutliveProcess == Spec => []AckedKept
  <1>1. StartupInv => AckedKept
    <2>. SUFFICES ASSUME StartupInv PROVE AckedKept
      OBVIOUS
    <2>1. rpc.at # "idle" \/ pc = "loop" => pc \in Opened
      BY DEF StartupInv, RpcUnderThread, Threaded, Bound, Opened
    <2>. QED BY <2>1 DEF StartupInv, GraphIsLog, AckedKept
  <1>. QED BY <1>1, StartupInvariance, PTL

(* Once the file has been read, the last line of the file for a key is the *)
(* one that Says looks for.                                                *)
LEMMA LastLineSays ==
    ASSUME ConfigRead, lines = Len(config), NEW key
    PROVE  /\ NoLine(key) => LinesFor(key) = {} /\ Says(key) = <<>>
           /\ \A i \in 1 .. lines :
                 LastLine(key, i) =>
                    LinesFor(key) # {} /\ Says(key) = Right(config[i])
  <1>1. DOMAIN config = 1 .. lines /\ lines \in Nat
    BY LinesOfConfig
  <1>2. LinesFor(key) = {i \in 1 .. lines : Left(config[i]) = key}
    BY <1>1 DEF LinesFor
  <1>3. ASSUME NoLine(key)
        PROVE  LinesFor(key) = {} /\ Says(key) = <<>>
    BY <1>2, <1>3 DEF NoLine, Says
  <1>4. ASSUME NEW i \in 1 .. lines, LastLine(key, i)
        PROVE  LinesFor(key) # {} /\ Says(key) = Right(config[i])
    <2>1. i \in LinesFor(key)
      BY <1>2, <1>4 DEF LastLine
    <2>2. \A j \in LinesFor(key) : i >= j
      BY <1>1, <1>2, <1>4 DEF LastLine
    <2>3. Max(LinesFor(key)) \in LinesFor(key)
      BY <2>1, <2>2 DEF Max
    <2>4. \A j \in LinesFor(key) : Max(LinesFor(key)) >= j
      BY <2>1, <2>2 DEF Max
    <2>5. Max(LinesFor(key)) = i
      <3>1. Max(LinesFor(key)) \in Int /\ i \in Int
        BY <1>2, <2>1, <2>3
      <3>. QED BY <2>1, <2>2, <2>3, <2>4, <3>1
    <2>. QED BY <2>1, <2>5 DEF Says
  <1>. QED BY <1>3, <1>4

(* Whoever handles a request is what the configuration file says: the last *)
(* line for each key, in whatever order they stand.                        *)
THEOREM ServesTheConfiguration == Spec => []ServesAsConfigured
  <1>1. StartupInv => ServesAsConfigured
    <2>. SUFFICES ASSUME StartupInv PROVE ServesAsConfigured
      OBVIOUS
    <2>1. ASSUME pc \in Opened
          PROVE  /\ \A k \in DOMAIN Keys : cfg[k] = Says(Keys[k])
                 /\ cfg.format <=>
                       LinesFor(<<"FORMAT">>) # {} /\ Says(<<"FORMAT">>) # <<"0">>
      <3>1. ConfigRead /\ lines = Len(config)
        BY <2>1 DEF StartupInv, ConfigRead
      <3>2. ASSUME NEW k \in DOMAIN Keys
            PROVE  cfg[k] = Says(Keys[k])
        BY <3>1, LastLineSays DEF StartupInv, SettingsRead
      <3>3. CASE NoLine(<<"FORMAT">>) /\ cfg.format = FALSE
        BY <3>1, <3>2, <3>3, LastLineSays
      <3>4. CASE \E i \in 1 .. lines :
                    /\ LastLine(<<"FORMAT">>, i)
                    /\ cfg.format = (Right(config[i]) # <<"0">>)
        <4>1. PICK i \in 1 .. lines :
                    /\ LastLine(<<"FORMAT">>, i)
                    /\ cfg.format = (Right(config[i]) # <<"0">>)
          BY <3>4
        <4>2. LinesFor(<<"FORMAT">>) # {} /\ Says(<<"FORMAT">>) = Right(config[i])
          BY <3>1, <4>1, LastLineSays
        <4>. QED BY <3>2, <4>1, <4>2
      <3>. QED BY <3>3, <3>4 DEF StartupInv, SettingsRead
    <2>2. /\ cfg.mongoose_port = cfg["mongoose_port"] /\ Keys["mongoose_port"] = <<"MONGOOSE_PORT">>
          /\ cfg.grpc_port = cfg["grpc_port"] /\ Keys["grpc_port"] = <<"GRPC_PORT">>
          /\ cfg.ip_next = cfg["ip_next"] /\ Keys["ip_next"] = <<"IP_NEXT">>
          /\ {"mongoose_port", "grpc_port", "ip_next"} \subseteq DOMAIN Keys
      BY DEF Keys
    <2>3. ASSUME rpc.at # "idle"
          PROVE  /\ {"graph", "log"} \subseteq service
                 /\ "client" \in service <=> Says(<<"IP_NEXT">>) # <<"-1">>
                 /\ GrpcPort = Number[Says(<<"GRPC_PORT">>)[1]]
      <3>1. pc \in Threaded /\ GrpcPort # -1
        BY <2>3 DEF StartupInv, RpcUnderThread
      <3>2. pc \in Bound /\ pc \in Opened
        BY <3>1 DEF Threaded, Opened
      <3>3. cfg.ip_next = Says(<<"IP_NEXT">>) /\ cfg.grpc_port = Says(<<"GRPC_PORT">>)
        BY <2>1, <2>2, <3>2
      <3>4. GrpcPort = Number[cfg.grpc_port[1]]
        BY <3>1 DEF GrpcPort
      <3>. QED BY <3>2, <3>3, <3>4 DEF StartupInv, ServiceBound
    <2>4. ASSUME pc = "loop"
          PROVE  /\ nc.http /\ sigpipe = "ignored"
                 /\ nc.port = mg_parse_address(Says(<<"MONGOOSE_PORT">>)).port
                 /\ nc.proto = mg_parse_address(Says(<<"MONGOOSE_PORT">>)).proto
                 /\ cfg.format <=>
                       LinesFor(<<"FORMAT">>) # {} /\ Says(<<"FORMAT">>) # <<"0">>
      <3>1. pc \in Opened /\ pc \in MgrReady
        BY <2>4 DEF Opened, Bound, MgrReady, Threaded
      <3>2. cfg.mongoose_port = Says(<<"MONGOOSE_PORT">>)
        BY <2>1, <2>2, <3>1
      <3>3. Listening(TRUE) /\ sigpipe = "ignored"
        BY <2>4, <3>1 DEF StartupInv, PortOpened
      <3>. QED BY <2>1, <3>1, <3>2, <3>3 DEF Listening
    <2>. QED BY <2>3, <2>4 DEF ServesAsConfigured
  <1>. QED BY <1>1, StartupInvariance, PTL

=============================================================================
