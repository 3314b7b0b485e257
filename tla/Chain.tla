------------------------------- MODULE Chain -------------------------------
(***************************************************************************)
(* Chain replication: the update handlers of ev_handler                    *)
(* (cs426_graph_server.cpp) and of rpcsenderServiceImpl                    *)
(* (rpcsender_server.cc), with the blocking stub of rpcsender_client.cc    *)
(* between them.  Server i forwards to i + 1 and applies an update only    *)
(* after i + 1 has answered; server N has no successor.                    *)
(*                                                                         *)
(* A handler that applies an update runs to its end in one step, and a     *)
(* server keeps its graph through a restart, as DurableGraph promises.  Of *)
(* the log only "is it full" is kept.                                      *)
(***************************************************************************)
EXTENDS Graph, Sequences

CONSTANTS
    N,        \* servers in the chain
    Op,       \* update requests, each sent once
    Request,  \* what they may ask for
    Writers   \* servers clients send updates to

Server == 1 .. N

ASSUME ChainAssumption ==
    /\ N \in Nat \ {0}
    /\ Writers \subseteq Server
    /\ \A e \in Request : e.opcode \in Opcodes

VARIABLES
    up,       \* the process of the server runs
    graph,    \* its graph->g
    full,     \* its log_is_full()
    ask,      \* ask[r]: the entry and the server of request r
    pc,       \* pc[r][i]: what the handler of r on server i is doing
    answer,   \* the HTTP status r was answered with, 0 before
    applied   \* history: for each server the requests its handlers applied

vars == <<up, graph, full, ask, pc, answer, applied>>

Unsent == [home |-> 0, entry |-> "none"]

(* "called": the RPC is on its way to the server.  "wait": the handler is  *)
(* blocked in its own RPC.  "ok", "failed": it returned.  "dead": it never *)
(* will, and the caller's RPC fails.                                       *)
HandlerStates == {"idle", "called", "wait", "ok", "failed", "dead"}

(* The keys of status_code_mp. *)
StatusCodes == {200, 204, 400, 500, 507}

Init ==
    /\ up = [i \in Server |-> TRUE]
    /\ graph = [i \in Server |-> EmptyGraph]
    /\ full = [i \in Server |-> FALSE]
    /\ ask = [r \in Op |-> Unsent]
    /\ pc = [r \in Op |-> [i \in Server |-> "idle"]]
    /\ answer = [r \in Op |-> 0]
    /\ applied = [i \in Server |-> <<>>]

----------------------------------------------------------------------------
(* The handlers' common part; q is the request's entry and home server.    *)

(* The HTTP status sent when the handler on the home server returns. *)
Respond(r, i, q, code) ==
    answer' = IF q.home = i THEN [answer EXCEPT ![r] = code] ELSE answer

(* Mutant: log_is_full is asked after the call. *)
RefuseTooLate(r, i, q) ==
    /\ full[i]
    /\ pc' = [pc EXCEPT ![r] = [j \in Server |->
                 CASE j = i -> "failed"
                   [] j = i + 1 -> "called"
                   [] OTHER -> @[j]]]
    /\ Respond(r, i, q, 507)
    /\ UNCHANGED <<graph, full, applied>>

(* log_is_full: 507 to an HTTP client, Status::CANCELLED to an RPC. *)
Refuse(r, i, q) ==
    /\ full[i]
    /\ pc' = [pc EXCEPT ![r][i] = "failed"]
    /\ Respond(r, i, q, 507)
    /\ UNCHANGED <<graph, full, applied>>

(* The blocking RPC to the successor; it fails at once if nothing listens. *)
Forward(r, i) ==
    /\ ~full[i] /\ i < N
    /\ pc' = [pc EXCEPT ![r] = [@ EXCEPT ![i] = "wait",
                  ![i + 1] = IF up[i + 1] THEN "called" ELSE "dead"]]
    /\ UNCHANGED <<graph, full, answer, applied>>

(* The graph method and, on 200, add_log_entry, which may fill the log.    *)
(* An RPC handler returns Status::OK whatever the method returned.         *)
ApplyLocally(r, i, q) ==
    LET res == Execute(graph[i], q.entry)
    IN  /\ graph' = [graph EXCEPT ![i] = res.g]
        /\ full' \in {full} \cup
              (IF res.status = 200 THEN {[full EXCEPT ![i] = TRUE]} ELSE {})
        /\ applied' = [applied EXCEPT ![i] = Append(@, r)]
        /\ pc' = [pc EXCEPT ![r][i] = "ok"]
        /\ Respond(r, i, q, res.status)

Enter(r, i, q) ==
    \/ Refuse(r, i, q)
    \/ Forward(r, i)
    \/ ~full[i] /\ i = N /\ ApplyLocally(r, i, q)

----------------------------------------------------------------------------
(* Mutant: the RPC does not block the event loop. *)
HttpNeverBusy(i) == FALSE

(* The event loop is one thread: it is busy while an HTTP handler waits. *)
HttpBusy(i) == \E r \in Op : ask[r].home = i /\ pc[r][i] = "wait"

(* A client posts an update to server i. *)
ev_handler(r, i, e) ==
    /\ ask[r] = Unsent
    /\ up[i] /\ ~HttpBusy(i)
    /\ LET q == [home |-> i, entry |-> e]
       IN  ask' = [ask EXCEPT ![r] = q] /\ Enter(r, i, q)
    /\ UNCHANGED up

(* SendAddNode, SendAddEdge, SendRemoveNode, SendRemoveEdge of the service *)
SendUpdate(r, i) ==
    /\ pc[r][i] = "called"
    /\ Enter(r, i, ask[r])
    /\ UNCHANGED <<up, ask>>

(* The stub returns the reply of the successor. *)
ReplyOk(r, i) ==
    /\ pc[r][i] = "wait"
    /\ pc[r][i + 1] = "ok"
    /\ ApplyLocally(r, i, ask[r])
    /\ UNCHANGED <<up, ask>>

(* Mutant: a status that has no reason phrase. *)
FailUnknownCode(r, i) ==
    /\ pc' = [pc EXCEPT ![r][i] = "failed"]
    /\ Respond(r, i, ask[r], 503)
    /\ UNCHANGED <<up, graph, full, ask, applied>>

Fail(r, i) ==
    /\ pc' = [pc EXCEPT ![r][i] = "failed"]
    /\ Respond(r, i, ask[r], 500)
    /\ UNCHANGED <<up, graph, full, ask, applied>>

(* Mutant: the reply is not compared with "RPC failed". *)
ReplyUnchecked(r, i) ==
    /\ pc[r][i] = "wait"
    /\ pc[r][i + 1] \in {"failed", "dead"}
    /\ ApplyLocally(r, i, ask[r])
    /\ UNCHANGED <<up, ask>>

(* Mutant: the death of the successor goes unnoticed. *)
ReplyCancelledOnly(r, i) ==
    /\ pc[r][i] = "wait"
    /\ pc[r][i + 1] = "failed"
    /\ Fail(r, i)

(* The stub returns "RPC failed". *)
ReplyFailed(r, i) ==
    /\ pc[r][i] = "wait"
    /\ pc[r][i + 1] \in {"failed", "dead"}
    /\ Fail(r, i)

----------------------------------------------------------------------------
(* The network and the processes. *)

(* The connection breaks before the request reaches the successor. *)
LoseRequest(r, i) ==
    /\ pc[r][i] = "called"
    /\ pc' = [pc EXCEPT ![r][i] = "dead"]
    /\ UNCHANGED <<up, graph, full, ask, answer, applied>>

(* It breaks before the reply arrives: the stub returns "RPC failed" while *)
(* the handler on the successor goes on, or has already returned.          *)
LoseReply(r, i) ==
    /\ pc[r][i] = "wait"
    /\ pc[r][i + 1] \in {"called", "wait", "ok"}
    /\ Fail(r, i)

(* The process ends, its handlers with it. *)
Crash(i) ==
    /\ up[i]
    /\ up' = [up EXCEPT ![i] = FALSE]
    /\ pc' = [r \in Op |-> [j \in Server |->
                 IF j = i /\ pc[r][j] \in {"called", "wait"}
                    THEN "dead" ELSE pc[r][j]]]
    /\ UNCHANGED <<graph, full, ask, answer, applied>>

(* Started again with FORMAT=0.  play_log computes block_offset anew, from *)
(* how full the last block is.                                             *)
Restart(i) ==
    /\ ~up[i]
    /\ up' = [up EXCEPT ![i] = TRUE]
    /\ \E b \in BOOLEAN : full' = [full EXCEPT ![i] = b]
    /\ UNCHANGED <<graph, ask, pc, answer, applied>>

----------------------------------------------------------------------------
(* What a handler does by itself once it has been called. *)
Step(r, i) ==
    \/ SendUpdate(r, i)
    \/ ReplyOk(r, i)
    \/ ReplyFailed(r, i)

Next ==
    \/ \E r \in Op, i \in Writers, e \in Request : ev_handler(r, i, e)
    \/ \E r \in Op, i \in Server : Step(r, i)
    \/ \E r \in Op, i \in Server : LoseRequest(r, i) \/ LoseReply(r, i)
    \/ \E i \in Server : Crash(i) \/ Restart(i)

Spec == Init /\ [][Next]_vars

(* Handlers run on threads of their own and a broken connection ends the   *)
(* RPC, so a handler that can go on does.                                  *)
FairSpec == Spec /\ \A r \in Op, i \in Server : WF_vars(Step(r, i))

(* A step that abandons a call: the caller is told that it failed, or      *)
(* dies, while the successor has applied the update or still may.          *)
Abandons ==
    \E r \in Op, i \in 1 .. N - 1 :
        /\ pc[r][i] = "wait"
        /\ pc'[r][i] \in {"failed", "dead"}
        /\ pc[r][i + 1] \in {"called", "wait", "ok"}

(* Behaviours in which no call is abandoned.  Servers still crash and      *)
(* restart, requests get lost and logs fill up.                            *)
SpecKept == Init /\ [][Next /\ ~Abandons]_vars

----------------------------------------------------------------------------
(* Every variable has its type; in particular each answer is a code that   *)
(* status_code_mp has a reason phrase for.                                 *)
TypeOK ==
    /\ up \in [Server -> BOOLEAN]
    /\ DOMAIN graph = Server
    /\ full \in [Server -> BOOLEAN]
    /\ ask \in [Op -> {Unsent} \cup [home : Writers, entry : Request]]
    /\ pc \in [Op -> [Server -> HandlerStates]]
    /\ answer \in [Op -> {0} \cup StatusCodes]
    /\ applied \in [Server -> Seq(Op)]

(* No server is ever ahead of its successor: what it applied, the          *)
(* successor applied before, whatever was lost and whoever crashed.        *)
(* (Every handler calls its successor before graph->..., and returns       *)
(* without applying on "RPC failed".)                                      *)
AppliedDownstream ==
    \A i \in 1 .. N - 1 : \A k \in DOMAIN applied[i] :
        \E m \in DOMAIN applied[i + 1] : applied[i + 1][m] = applied[i][k]

(* What a server has applied is a beginning of what its successor has: the *)
(* same requests, in the same order, with nothing in between.              *)
ChainOrder ==
    \A i \in 1 .. N - 1 :
        /\ Len(applied[i]) <= Len(applied[i + 1])
        /\ \A k \in DOMAIN applied[i] : applied[i][k] = applied[i + 1][k]

(* While the event loop of the head is not inside an update, all servers   *)
(* hold the same graph: a log that is full anywhere in the chain, a server *)
(* that is down and a request that is lost stop an update everywhere.      *)
ReplicasAgree == ~HttpBusy(1) => \A i \in Server : graph[i] = graph[1]

(* A graph in which an update has taken effect. *)
TookEffect(g, e) ==
    CASE e.opcode = OP_ADD_NODE    -> e.node1 \in DOMAIN g
      [] e.opcode = OP_REMOVE_NODE -> e.node1 \notin DOMAIN g
      [] e.opcode = OP_ADD_EDGE    -> e.node2 \in At(g, e.node1)
      [] e.opcode = OP_REMOVE_EDGE -> e.node2 \notin At(g, e.node1)

(* A client that is answered 200 has its update on every server of the     *)
(* chain (the replies of the RPCs read "Successfully added ...").          *)
AckedReplicated ==
    [][\A r \in Op : answer[r] = 0 /\ answer'[r] = 200 =>
          \A i \in Server : TookEffect(graph'[i], ask'[r].entry)]_vars

(* No handler waits for ever: whatever crashes or is lost, the RPC it      *)
(* waits for returns.                                                      *)
Answered ==
    \A r \in Op, i \in Server : pc[r][i] = "wait" ~> pc[r][i] # "wait"
============================================================================
