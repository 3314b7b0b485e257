---------------------------- MODULE ChainProofs ----------------------------
(***************************************************************************)
(* No server of a chain is ahead of its successor and every variable keeps *)
(* its type: for a chain of any length, any requests, clients at any of    *)
(* its servers, and any crashes, restarts and broken connections.  The     *)
(* second half is about chains that no call is abandoned in.               *)
(***************************************************************************)
EXTENDS Chain, TLAPS

(* The parts of TypeOK the argument needs. *)
HandlersTyped ==
    /\ pc \in [Op -> [Server -> HandlerStates]]
    /\ applied \in [Server -> Seq(Op)]
    /\ ask \in [Op -> {Unsent} \cup [home : Writers, entry : Request]]

(* A request nobody sent has no handler, and a handler that was called has *)
(* not called anyone yet: so no "ok" is ever taken back.                   *)
IdleAhead ==
    /\ \A r \in Op, i \in Server : ask[r] = Unsent => pc[r][i] = "idle"
    /\ \A r \in Op, i \in Server, j \in Server :
          pc[r][i] = "called" /\ i < j => pc[r][j] = "idle"

(* applied is the history of the handlers that returned "ok". *)
OkIsApplied ==
    /\ \A i \in Server : \A k \in DOMAIN applied[i] :
          pc[applied[i][k]][i] = "ok"
    /\ \A r \in Op, i \in Server : pc[r][i] = "ok" =>
          \E k \in DOMAIN applied[i] : applied[i][k] = r

(* A handler that returned "ok" had the "ok" of its successor. *)
OkDownstream ==
    \A r \in Op, i \in Server :
        pc[r][i] = "ok" /\ i < N => pc[r][i + 1] = "ok"

(* The last server waits for nobody. *)
TailNeverWaits == \A r \in Op : pc[r][N] # "wait"

CInv ==
    /\ HandlersTyped
    /\ IdleAhead
    /\ OkIsApplied
    /\ OkDownstream
    /\ TailNeverWaits

----------------------------------------------------------------------------
(* The invariant says what the property asks for. *)
LEMMA CInvMeaning == CInv => AppliedDownstream
  <1> SUFFICES ASSUME CInv, NEW i \in 1 .. N - 1, NEW k \in DOMAIN applied[i]
               PROVE  \E m \in DOMAIN applied[i + 1] :
                         applied[i + 1][m] = applied[i][k]
    BY DEF AppliedDownstream
  <1> DEFINE r == applied[i][k]
  <1>1. i \in Server /\ i + 1 \in Server /\ i < N
    BY ChainAssumption DEF Server
  <1>2. r \in Op
    BY <1>1 DEF CInv, HandlersTyped
  <1>3. pc[r][i] = "ok"
    BY <1>1 DEF CInv, OkIsApplied
  <1>4. pc[r][i + 1] = "ok"
    BY <1>1, <1>2, <1>3 DEF CInv, OkDownstream
  <1> QED
    BY <1>1, <1>2, <1>4 DEF CInv, OkIsApplied

(* Initially there are no handlers. *)
LEMMA InitCInv == Init => CInv
  <1> SUFFICES ASSUME Init PROVE CInv
    OBVIOUS
  <1> USE ChainAssumption DEF Init
  <1>1. HandlersTyped
    BY DEF HandlersTyped, HandlerStates
  <1>2. \A r \in Op, i \in Server : pc[r][i] = "idle"
    OBVIOUS
  <1>3. IdleAhead /\ OkDownstream
    BY <1>2 DEF IdleAhead, OkDownstream
  <1>4. OkIsApplied
    BY <1>2 DEF OkIsApplied
  <1>5. TailNeverWaits
    BY <1>2 DEF TailNeverWaits, Server
  <1> QED
    BY <1>1, <1>3, <1>4, <1>5 DEF CInv

----------------------------------------------------------------------------
(* A step that moves one handler, to a state other than "ok", "called" and *)
(* "idle", or several of them to "dead", and applies nothing.              *)
LEMMA QuietStep ==
    ASSUME CInv, UNCHANGED applied,
           ask' \in [Op -> {Unsent} \cup [home : Writers, entry : Request]],
           pc' \in [Op -> [Server -> HandlerStates]],
           \A r \in Op, i \in Server :
               \/ pc'[r][i] = pc[r][i]
               \/ /\ pc[r][i] # "ok"
                  /\ pc'[r][i] \in {"wait", "failed", "dead"}
                  /\ \A j \in Server : j < i => pc[r][j] # "called"
                  /\ ask'[r] # Unsent
                  /\ i = N => pc'[r][i] # "wait",
           \A r \in Op : ask'[r] = Unsent => ask[r] = Unsent
    PROVE  CInv'
  <1> USE ChainAssumption
  <1>1. HandlersTyped'
    BY DEF CInv, HandlersTyped
  <1>2. IdleAhead'
    BY DEF CInv, IdleAhead, Server
  <1>3. OkIsApplied'
    <2>1. \A i \in Server : \A k \in DOMAIN applied[i] : applied[i][k] \in Op
      BY DEF CInv, HandlersTyped
    <2>2. \A r \in Op, i \in Server : pc'[r][i] = "ok" <=> pc[r][i] = "ok"
      OBVIOUS
    <2> QED
      BY <2>1, <2>2 DEF CInv, OkIsApplied
  <1>4. OkDownstream'
    BY DEF CInv, OkDownstream, Server
  <1>5. TailNeverWaits'
    BY DEF CInv, TailNeverWaits, Server
  <1> QED
    BY <1>1, <1>2, <1>3, <1>4, <1>5 DEF CInv

(* Request r has been sent after the step, and the others are unchanged. *)
SentBy(r) ==
    /\ ask' \in [Op -> {Unsent} \cup [home : Writers, entry : Request]]
    /\ ask'[r] # Unsent
    /\ \A x \in Op \ {r} : ask'[x] = ask[x]

(* Handler i of r may run: nobody before it is about to be called. *)
Reached(r, i) == \A j \in Server : j < i => pc[r][j] # "called"

(* A handler calls its successor. *)
LEMMA ForwardStep ==
    ASSUME CInv, NEW r \in Op, NEW i \in Server, Forward(r, i),
           SentBy(r), Reached(r, i),
           pc[r][i] # "ok", \A j \in Server : i < j => pc[r][j] = "idle"
    PROVE  CInv'
  <1> USE ChainAssumption
  <1>1. i + 1 \in Server /\ i < N
    BY DEF Forward, Server
  <1>2. pc \in [Op -> [Server -> HandlerStates]]
    BY DEF CInv, HandlersTyped
  <1>3. PICK s \in {"called", "dead"} :
           pc' = [pc EXCEPT ![r] = [@ EXCEPT ![i] = "wait", ![i + 1] = s]]
    BY DEF Forward
  <1>4. /\ pc'[r][i] = "wait" /\ pc'[r][i + 1] = s
        /\ \A j \in Server : j \notin {i, i + 1} => pc'[r][j] = pc[r][j]
        /\ \A x \in Op \ {r} : pc'[x] = pc[x]
    <2>1. i # i + 1
      BY DEF Server
    <2> QED
      BY <1>1, <1>2, <1>3, <2>1
  <1>5. pc' \in [Op -> [Server -> HandlerStates]]
    <2>1. [pc[r] EXCEPT ![i] = "wait", ![i + 1] = s] \in
             [Server -> HandlerStates]
      BY <1>2 DEF HandlerStates
    <2> QED
      BY <1>2, <1>3, <2>1
  <1>6. HandlersTyped'
    BY <1>5 DEF CInv, HandlersTyped, Forward, SentBy
  <1>7. pc[r][i + 1] = "idle"
    BY <1>1 DEF Server
  <1>8. \A x \in Op, j \in Server : pc'[x][j] = "ok" <=> pc[x][j] = "ok"
    BY <1>4, <1>7
  <1>9. IdleAhead'
    <2>1. ASSUME NEW x \in Op, NEW j \in Server, ask'[x] = Unsent
          PROVE  pc'[x][j] = "idle"
      BY <2>1, <1>4 DEF SentBy, CInv, IdleAhead
    <2>2. ASSUME NEW x \in Op, NEW j \in Server, NEW m \in Server,
                 pc'[x][j] = "called", j < m
          PROVE  pc'[x][m] = "idle"
      <3>1. CASE x # r
        BY <2>2, <3>1, <1>4 DEF CInv, IdleAhead
      <3>2. CASE x = r /\ j < i
        BY <2>2, <3>2, <1>4 DEF Reached, Server
      <3>3. CASE x = r /\ j >= i
        <4>1. m > i + 1
          BY <2>2, <3>3, <1>4 DEF Server
        <4>2. pc'[r][m] = pc[r][m]
          BY <4>1, <1>4 DEF Server
        <4> QED
          BY <3>3, <4>1, <4>2 DEF Server
      <3> QED
        BY <3>1, <3>2, <3>3 DEF Server
    <2> QED
      BY <2>1, <2>2 DEF IdleAhead
  <1>10. OkIsApplied'
    <2>1. \A j \in Server : \A k \in DOMAIN applied[j] : applied[j][k] \in Op
      BY DEF CInv, HandlersTyped
    <2>2. UNCHANGED applied
      BY DEF Forward
    <2> QED
      BY <2>1, <2>2, <1>8 DEF CInv, OkIsApplied
  <1>11. OkDownstream'
    BY <1>8 DEF CInv, OkDownstream, Server
  <1>12. TailNeverWaits'
    BY <1>1, <1>4 DEF CInv, TailNeverWaits, Server
  <1> QED
    BY <1>6, <1>9, <1>10, <1>11, <1>12 DEF CInv

(* A handler applies its update after the "ok" of its successor. *)
LEMMA ApplyStep ==
    ASSUME CInv, NEW r \in Op, NEW i \in Server, NEW q, ApplyLocally(r, i, q),
           SentBy(r), Reached(r, i),
           pc[r][i] # "ok", i < N => pc[r][i + 1] = "ok"
    PROVE  CInv'
  <1> USE ChainAssumption
  <1>1. pc \in [Op -> [Server -> HandlerStates]]
        /\ applied \in [Server -> Seq(Op)]
    BY DEF CInv, HandlersTyped
  <1>2. /\ pc' \in [Op -> [Server -> HandlerStates]]
        /\ pc'[r][i] = "ok"
        /\ \A j \in Server \ {i} : pc'[r][j] = pc[r][j]
        /\ \A x \in Op \ {r} : pc'[x] = pc[x]
    BY <1>1 DEF ApplyLocally, HandlerStates
  <1>3. /\ applied' \in [Server -> Seq(Op)]
        /\ applied'[i] = Append(applied[i], r)
        /\ \A j \in Server \ {i} : applied'[j] = applied[j]
    BY <1>1 DEF ApplyLocally
  <1>4. HandlersTyped'
    BY <1>2, <1>3 DEF HandlersTyped, SentBy
  <1>5. IdleAhead'
    <2>1. ASSUME NEW x \in Op, NEW j \in Server, ask'[x] = Unsent
          PROVE  pc'[x][j] = "idle"
      BY <2>1, <1>2 DEF SentBy, CInv, IdleAhead
    <2>2. ASSUME NEW x \in Op, NEW j \in Server, NEW m \in Server,
                 pc'[x][j] = "called", j < m
          PROVE  pc'[x][m] = "idle"
      <3>1. pc[x][j] = "called" /\ pc[x][m] = "idle"
        BY <2>2, <1>2 DEF CInv, IdleAhead
      <3>2. ~(x = r /\ m = i)
        BY <2>2, <3>1 DEF Reached
      <3> QED
        BY <3>1, <3>2, <1>2
    <2> QED
      BY <2>1, <2>2 DEF IdleAhead
  <1>6. OkIsApplied'
    <2>1. ASSUME NEW j \in Server, NEW k \in DOMAIN applied'[j]
          PROVE  pc'[applied'[j][k]][j] = "ok"
      <3>1. CASE j # i
        <4>1. applied[j][k] \in Op /\ applied'[j] = applied[j]
          BY <2>1, <3>1, <1>1, <1>3
        <4> QED
          BY <2>1, <3>1, <4>1, <1>2 DEF CInv, OkIsApplied
      <3>2. CASE j = i /\ k = Len(applied[i]) + 1
        BY <3>2, <1>1, <1>2, <1>3
      <3>3. CASE j = i /\ k # Len(applied[i]) + 1
        <4>1. k \in DOMAIN applied[i] /\ applied'[i][k] = applied[i][k]
          BY <2>1, <3>3, <1>1, <1>3
        <4>2. applied[i][k] \in Op /\ pc[applied[i][k]][i] = "ok"
          BY <4>1, <1>1 DEF CInv, OkIsApplied
        <4> QED
          BY <3>3, <4>1, <4>2, <1>2
      <3> QED
        BY <3>1, <3>2, <3>3
    <2>2. ASSUME NEW x \in Op, NEW j \in Server, pc'[x][j] = "ok"
          PROVE  \E k \in DOMAIN applied'[j] : applied'[j][k] = x
      <3>1. CASE x = r /\ j = i
        <4>1. Len(applied[i]) + 1 \in DOMAIN applied'[i]
              /\ applied'[i][Len(applied[i]) + 1] = r
          BY <1>1, <1>3
        <4> QED
          BY <3>1, <4>1
      <3>2. CASE ~(x = r /\ j = i)
        <4>1. pc[x][j] = "ok"
          BY <2>2, <3>2, <1>2
        <4>2. PICK k \in DOMAIN applied[j] : applied[j][k] = x
          BY <4>1 DEF CInv, OkIsApplied
        <4>3. k \in DOMAIN applied'[j] /\ applied'[j][k] = x
          <5>1. CASE j # i
            BY <5>1, <4>2, <1>3
          <5>2. CASE j = i
            BY <5>2, <4>2, <1>1, <1>3
          <5> QED
            BY <5>1, <5>2
        <4> QED
          BY <4>3
      <3> QED
        BY <3>1, <3>2
    <2> QED
      BY <2>1, <2>2 DEF OkIsApplied
  <1>7. OkDownstream'
    BY <1>2 DEF CInv, OkDownstream, Server
  <1>8. TailNeverWaits'
    BY <1>2 DEF CInv, TailNeverWaits, Server
  <1> QED
    BY <1>4, <1>5, <1>6, <1>7, <1>8 DEF CInv

----------------------------------------------------------------------------
(* The part the HTTP and the RPC handlers share. *)
LEMMA EnterStep ==
    ASSUME CInv, NEW r \in Op, NEW i \in Server, NEW q, Enter(r, i, q),
           SentBy(r), Reached(r, i),
           pc[r][i] # "ok", \A j \in Server : i < j => pc[r][j] = "idle"
    PROVE  CInv'
  <1> USE ChainAssumption
  <1>1. CASE Refuse(r, i, q)
    <2>1. pc \in [Op -> [Server -> HandlerStates]]
      BY DEF CInv, HandlersTyped
    <2>2. /\ pc' \in [Op -> [Server -> HandlerStates]]
          /\ pc'[r][i] = "failed"
          /\ \A j \in Server \ {i} : pc'[r][j] = pc[r][j]
          /\ \A x \in Op \ {r} : pc'[x] = pc[x]
          /\ UNCHANGED applied
      BY <1>1, <2>1 DEF Refuse, HandlerStates
    <2> QED
      BY <2>2, QuietStep DEF SentBy, Reached
  <1>2. CASE Forward(r, i)
    BY <1>2, ForwardStep
  <1>3. CASE i = N /\ ApplyLocally(r, i, q)
    BY <1>3, ApplyStep
  <1> QED
    BY <1>1, <1>2, <1>3 DEF Enter

(* A handler that has been called was sent and nobody before it is about   *)
(* to be called.                                                           *)
LEMMA ActiveReached ==
    ASSUME CInv, UNCHANGED ask, NEW r \in Op, NEW i \in Server,
           pc[r][i] # "idle"
    PROVE  SentBy(r) /\ Reached(r, i)
  BY DEF CInv, HandlersTyped, IdleAhead, SentBy, Reached

(* The inductive step. *)
LEMMA NextCInv == ASSUME CInv, [Next]_vars PROVE CInv'
  <1> USE ChainAssumption
  <1>0. pc \in [Op -> [Server -> HandlerStates]]
        /\ ask \in [Op -> {Unsent} \cup [home : Writers, entry : Request]]
    BY DEF CInv, HandlersTyped
  <1>1. ASSUME NEW r \in Op, NEW i \in Writers, NEW e \in Request,
               ev_handler(r, i, e)
        PROVE  CInv'
    <2> DEFINE q == [home |-> i, entry |-> e]
    <2>1. i \in Server /\ q # Unsent
          /\ q \in [home : Writers, entry : Request]
      <3>1. i \in Server /\ i # 0
        BY DEF Server
      <3>2. q.home = i /\ Unsent.home = 0
        BY DEF Unsent
      <3> QED
        BY <3>1, <3>2
    <2>2. ask' = [ask EXCEPT ![r] = q] /\ Enter(r, i, q) /\ ask[r] = Unsent
      BY <1>1 DEF ev_handler
    <2>3. SentBy(r)
      BY <1>0, <2>1, <2>2 DEF SentBy
    <2>4. \A j \in Server : pc[r][j] = "idle"
      BY <2>2 DEF CInv, IdleAhead
    <2> QED
      BY <2>1, <2>2, <2>3, <2>4, EnterStep DEF Reached
  <1>2. ASSUME NEW r \in Op, NEW i \in Server, SendUpdate(r, i)
        PROVE  CInv'
    <2>1. pc[r][i] = "called" /\ Enter(r, i, ask[r]) /\ UNCHANGED ask
      BY <1>2 DEF SendUpdate
    <2>2. \A j \in Server : i < j => pc[r][j] = "idle"
      BY <2>1 DEF CInv, IdleAhead
    <2>3. SentBy(r) /\ Reached(r, i)
      BY <2>1, ActiveReached
    <2> QED
      BY <2>1, <2>2, <2>3, EnterStep
  <1>3. ASSUME NEW r \in Op, NEW i \in Server, ReplyOk(r, i)
        PROVE  CInv'
    <2>1. pc[r][i] = "wait" /\ pc[r][i + 1] = "ok" /\ UNCHANGED ask
          /\ ApplyLocally(r, i, ask[r])
      BY <1>3 DEF ReplyOk
    <2>2. SentBy(r) /\ Reached(r, i)
      BY <2>1, ActiveReached
    <2> QED
      BY <2>1, <2>2, ApplyStep
  <1>4. ASSUME NEW r \in Op, NEW i \in Server,
               ReplyFailed(r, i) \/ LoseReply(r, i) \/ LoseRequest(r, i)
        PROVE  CInv'
    <2>1. pc[r][i] \in {"wait", "called"} /\ UNCHANGED <<ask, applied>>
      BY <1>4 DEF ReplyFailed, LoseReply, LoseRequest, Fail
    <2>2. SentBy(r) /\ Reached(r, i)
      BY <2>1, ActiveReached
    <2>3. /\ pc' \in [Op -> [Server -> HandlerStates]]
          /\ pc'[r][i] \in {"failed", "dead"}
          /\ \A j \in Server \ {i} : pc'[r][j] = pc[r][j]
          /\ \A x \in Op \ {r} : pc'[x] = pc[x]
      BY <1>0, <1>4 DEF ReplyFailed, LoseReply, LoseRequest, Fail,
                        HandlerStates
    <2> QED
      BY <2>1, <2>2, <2>3, QuietStep DEF SentBy, Reached
  <1>5. ASSUME NEW i \in Server, Crash(i)
        PROVE  CInv'
    <2>1. UNCHANGED <<ask, applied>>
      BY <1>5 DEF Crash
    <2>2. pc' = [r \in Op |-> [j \in Server |->
                    IF j = i /\ pc[r][j] \in {"called", "wait"}
                       THEN "dead" ELSE pc[r][j]]]
      BY <1>5 DEF Crash
    <2>3. pc' \in [Op -> [Server -> HandlerStates]]
      BY <1>0, <2>2 DEF HandlerStates
    <2>4. ASSUME NEW r \in Op, NEW j \in Server, pc'[r][j] # pc[r][j]
          PROVE  /\ pc[r][j] # "ok" /\ pc'[r][j] = "dead"
                 /\ Reached(r, j) /\ ask'[r] # Unsent
      <3>1. pc[r][j] \in {"called", "wait"} /\ pc'[r][j] = "dead"
        BY <2>2, <2>4
      <3> QED
        BY <2>1, <3>1, ActiveReached DEF SentBy
    <2> QED
      BY <1>0, <2>1, <2>3, <2>4, QuietStep DEF Reached
  <1>6. ASSUME NEW i \in Server, Restart(i)
        PROVE  CInv'
    <2>1. UNCHANGED <<pc, ask, applied>>
      BY <1>6 DEF Restart
    <2> QED
      BY <1>0, <2>1, QuietStep
  <1>7. CASE UNCHANGED vars
    <2>1. UNCHANGED <<pc, ask, applied>>
      BY <1>7 DEF vars
    <2> QED
      BY <1>0, <2>1, QuietStep
  <1> QED
    BY <1>1, <1>2, <1>3, <1>4, <1>5, <1>6, <1>7 DEF Next, Step

(* In a chain of any length no server is ahead of its successor, whatever  *)
(* crashes, restarts and is lost, and wherever clients send their updates. *)
THEOREM NoServerAhead == Spec => []AppliedDownstream
  <1>1. Init => CInv
    BY InitCInv
  <1>2. CInv /\ [Next]_vars => CInv'
    BY NextCInv
  <1>3. CInv => AppliedDownstream
    BY CInvMeaning
  <1> QED
    BY <1>1, <1>2, <1>3, PTL DEF Spec

----------------------------------------------------------------------------
(* A method that returns 200 has done what the update asks for, and every  *)
(* status it returns has a reason phrase.                                  *)
LEMMA ExecuteTakesEffect ==
    ASSUME NEW g, NEW e, e.opcode \in Opcodes
    PROVE  /\ Execute(g, e).status \in StatusCodes
           /\ Execute(g, e).status = 200 => TookEffect(Execute(g, e).g, e)
  <1> USE DEF StatusCodes, TookEffect, Result, OP_ADD_NODE, OP_ADD_EDGE,
              OP_REMOVE_NODE, OP_REMOVE_EDGE
  <1> DEFINE a == e.node1
             b == e.node2
  <1>1. CASE e.opcode = OP_ADD_NODE
    <2>1. Execute(g, e) = addNode(g, a)
      BY <1>1 DEF Execute
    <2> QED
      BY <1>1, <2>1 DEF addNode, Assign
  <1>2. CASE e.opcode = OP_ADD_EDGE
    <2>1. Execute(g, e) = addEdge(g, a, b)
      BY <1>2 DEF Execute
    <2>2. addEdge(g, a, b).status \in {200, 204, 400}
      BY DEF addEdge
    <2>3. ASSUME addEdge(g, a, b).status = 200
          PROVE  b \in At(addEdge(g, a, b).g, a)
      <3>1. a # b /\ addEdge(g, a, b).g = Insert(Insert(g, a, b), b, a)
        BY <2>3 DEF addEdge
      <3>2. a \in DOMAIN Insert(g, a, b) /\ b \in Insert(g, a, b)[a]
        BY DEF Insert, Assign
      <3>3. \A h : a \in DOMAIN h =>
                a \in DOMAIN Insert(h, b, a) /\ Insert(h, b, a)[a] = h[a]
        BY <3>1 DEF Insert, Assign
      <3> QED
        BY <3>1, <3>2, <3>3 DEF At
    <2> QED
      BY <1>2, <2>1, <2>2, <2>3
  <1>3. CASE e.opcode = OP_REMOVE_NODE
    <2>1. Execute(g, e) = removeNode(g, a)
      BY <1>3 DEF Execute
    <2> QED
      BY <1>3, <2>1 DEF removeNode
  <1>4. CASE e.opcode = OP_REMOVE_EDGE
    <2>1. Execute(g, e) = removeEdge(g, a, b)
      BY <1>4 DEF Execute
    <2>2. removeEdge(g, a, b).status \in {200, 400}
      BY DEF removeEdge
    <2>3. ASSUME removeEdge(g, a, b).status = 200
          PROVE  b \notin At(removeEdge(g, a, b).g, a)
      <3>1. removeEdge(g, a, b).g = Erase(Erase(g, a, b), b, a)
        BY <2>3 DEF removeEdge
      <3>2. a \in DOMAIN Erase(g, a, b) /\ b \notin Erase(g, a, b)[a]
        BY DEF Erase, Assign
      <3>3. \A h : a \in DOMAIN h =>
                /\ a \in DOMAIN Erase(h, b, a)
                /\ Erase(h, b, a)[a] \subseteq h[a]
        BY DEF Erase, Assign, At
      <3> QED
        BY <3>1, <3>2, <3>3 DEF At
    <2> QED
      BY <1>4, <2>1, <2>2, <2>3
  <1> QED
    BY <1>1, <1>2, <1>3, <1>4 DEF Opcodes

(* Initially every variable has its type. *)
LEMMA InitTypeOK == Init => TypeOK
  BY DEF Init, TypeOK, Unsent, HandlerStates

(* What applying an update does to the variables that CInv leaves out. *)
LEMMA ApplyTypes ==
    ASSUME TypeOK, NEW r \in Op, NEW i \in Server, NEW q,
           q.entry \in Request, ApplyLocally(r, i, q)
    PROVE  /\ DOMAIN graph' = Server
           /\ full' \in [Server -> BOOLEAN]
           /\ answer' \in [Op -> {0} \cup StatusCodes]
  <1>1. DOMAIN graph' = Server
    BY DEF TypeOK, ApplyLocally
  <1>2. full' \in [Server -> BOOLEAN]
    <2>1. full' = full \/ full' = [full EXCEPT ![i] = TRUE]
      BY DEF ApplyLocally
    <2> QED
      BY <2>1 DEF TypeOK
  <1>3. answer' \in [Op -> {0} \cup StatusCodes]
    <2>1. Execute(graph[i], q.entry).status \in StatusCodes
      BY ChainAssumption, ExecuteTakesEffect
    <2> QED
      BY <2>1 DEF TypeOK, ApplyLocally, Respond
  <1> QED
    BY <1>1, <1>2, <1>3

(* The same for the part the HTTP and the RPC handlers share. *)
LEMMA EnterTypes ==
    ASSUME TypeOK, NEW r \in Op, NEW i \in Server, NEW q,
           q.entry \in Request, Enter(r, i, q)
    PROVE  /\ DOMAIN graph' = Server
           /\ full' \in [Server -> BOOLEAN]
           /\ answer' \in [Op -> {0} \cup StatusCodes]
  <1>1. CASE Refuse(r, i, q)
    BY <1>1 DEF Refuse, Respond, TypeOK, StatusCodes
  <1>2. CASE Forward(r, i)
    BY <1>2 DEF Forward, TypeOK
  <1>3. CASE ApplyLocally(r, i, q)
    BY <1>3, ApplyTypes
  <1> QED
    BY <1>1, <1>2, <1>3 DEF Enter

(* The entry of a request that has a handler. *)
LEMMA EntryTyped ==
    ASSUME CInv, NEW r \in Op, NEW i \in Server, pc[r][i] # "idle"
    PROVE  ask[r].entry \in Request
  BY DEF CInv, HandlersTyped, IdleAhead

(* Every step keeps the types. *)
LEMMA NextTypeOK == ASSUME CInv, TypeOK, [Next]_vars PROVE TypeOK'
  <1>0. HandlersTyped'
    BY NextCInv DEF CInv
  <1> SUFFICES /\ up' \in [Server -> BOOLEAN]
               /\ DOMAIN graph' = Server
               /\ full' \in [Server -> BOOLEAN]
               /\ answer' \in [Op -> {0} \cup StatusCodes]
    BY <1>0 DEF TypeOK, HandlersTyped
  <1> DEFINE Typed == /\ up' \in [Server -> BOOLEAN]
                      /\ DOMAIN graph' = Server
                      /\ full' \in [Server -> BOOLEAN]
                      /\ answer' \in [Op -> {0} \cup StatusCodes]
  <1>1. ASSUME NEW r \in Op, NEW i \in Writers, NEW e \in Request,
               ev_handler(r, i, e)
        PROVE  Typed
    <2> DEFINE q == [home |-> i, entry |-> e]
    <2>1. q.entry \in Request /\ i \in Server
      BY ChainAssumption
    <2>2. Enter(r, i, q) /\ UNCHANGED up
      BY <1>1 DEF ev_handler
    <2> QED
      BY <2>1, <2>2, EnterTypes DEF TypeOK
  <1>2. ASSUME NEW r \in Op, NEW i \in Server, SendUpdate(r, i)
        PROVE  Typed
    <2>1. ask[r].entry \in Request
      BY <1>2, EntryTyped DEF SendUpdate
    <2>2. Enter(r, i, ask[r]) /\ UNCHANGED up
      BY <1>2 DEF SendUpdate
    <2> QED
      BY <2>1, <2>2, EnterTypes DEF TypeOK
  <1>3. ASSUME NEW r \in Op, NEW i \in Server, ReplyOk(r, i)
        PROVE  Typed
    <2>1. ask[r].entry \in Request
      BY <1>3, EntryTyped DEF ReplyOk
    <2>2. ApplyLocally(r, i, ask[r]) /\ UNCHANGED up
      BY <1>3 DEF ReplyOk
    <2> QED
      BY <2>1, <2>2, ApplyTypes DEF TypeOK
  <1>4. ASSUME NEW r \in Op, NEW i \in Server,
               ReplyFailed(r, i) \/ LoseReply(r, i)
        PROVE  Typed
    <2>1. Respond(r, i, ask[r], 500) /\ UNCHANGED <<up, graph, full>>
      BY <1>4 DEF ReplyFailed, LoseReply, Fail
    <2>2. answer' = answer \/ answer' = [answer EXCEPT ![r] = 500]
      BY <2>1 DEF Respond
    <2>3. 500 \in StatusCodes
      BY DEF StatusCodes
    <2> QED
      BY <2>1, <2>2, <2>3 DEF TypeOK
  <1>5. ASSUME NEW r \in Op, NEW i \in Server, LoseRequest(r, i)
        PROVE  Typed
    BY <1>5 DEF LoseRequest, TypeOK
  <1>6. ASSUME NEW i \in Server, Crash(i) PROVE Typed
    BY <1>6 DEF Crash, TypeOK
  <1>7. ASSUME NEW i \in Server, Restart(i) PROVE Typed
    BY <1>7 DEF Restart, TypeOK
  <1>8. CASE UNCHANGED vars
    BY <1>8 DEF vars, TypeOK
  <1> QED
    BY <1>1, <1>2, <1>3, <1>4, <1>5, <1>6, <1>7, <1>8 DEF Next, Step

(* In a chain of any length every variable keeps its type; above all, no   *)
(* handler answers with a status that has no reason phrase.                *)
THEOREM ChainTypeCorrect == Spec => []TypeOK
  <1>1. Init => CInv /\ TypeOK
    BY InitCInv, InitTypeOK
  <1>2. CInv /\ TypeOK /\ [Next]_vars => (CInv /\ TypeOK)'
    BY NextCInv, NextTypeOK
  <1> QED
    BY <1>1, <1>2, PTL DEF Spec

----------------------------------------------------------------------------
(***************************************************************************)
(* A chain of any length whose clients write to the head, under crashes,   *)
(* restarts, lost requests and full logs, as long as no call is abandoned  *)
(* (SpecKept): between updates all servers hold the same graph, they apply *)
(* requests in one order, and an answer of 200 means that the update is in *)
(* force on all of them.                                                   *)
(***************************************************************************)

Active == {"called", "wait"}
Ended == {"failed", "dead"}

(* The handlers of a request.  Those in front of one that is at work wait; *)
(* those behind one that applied have applied; where one has failed, none  *)
(* has applied; and who waits has called.                                  *)
CallsInOrder ==
    /\ \A r \in Op, i \in Server, j \in Server :
          /\ pc[r][j] \in Active /\ i < j => pc[r][i] = "wait"
          /\ pc[r][i] = "ok" /\ i < j => pc[r][j] = "ok"
          /\ pc[r][i] \in Ended => pc[r][j] # "ok"
    /\ \A r \in Op, i \in Server : pc[r][i] = "wait" /\ i < N => pc[r][i + 1] # "idle"
    /\ \A r \in Op : pc[r][1] # "called"

(* The event loop of the head is inside one update at most. *)
OneAtATime ==
    \A r \in Op, s \in Op : pc[r][1] = "wait" /\ pc[s][1] = "wait" => r = s

(* During an update its "ok" tells which servers are one step ahead of the *)
(* head; between updates none is.                                          *)
GraphsInStep ==
    /\ graph = [i \in Server |-> graph[i]]
    /\ (\A r \in Op : pc[r][1] # "wait") => \A i \in Server : graph[i] = graph[1]
    /\ \A r \in Op, i \in Server : pc[r][1] = "wait" =>
          graph[i] = IF pc[r][i] = "ok" THEN Execute(graph[1], ask[r].entry).g
                     ELSE graph[1]

(* So do the histories of what the servers applied.                        *)
HistoriesInStep ==
    /\ (\A r \in Op : pc[r][1] # "wait") =>
          \A i \in Server : applied[i] = applied[1]
    /\ \A r \in Op, i \in Server : pc[r][1] = "wait" =>
          applied[i] = IF pc[r][i] = "ok" THEN Append(applied[1], r)
                       ELSE applied[1]

InStep == CallsInOrder /\ OneAtATime /\ GraphsInStep /\ HistoriesInStep

KInv == CInv /\ InStep

----------------------------------------------------------------------------
(* What the step lemmas have in common.                                    *)
LEMMA HeadIsServer == 1 \in Server
  BY ChainAssumption DEF Server

LEMMA InitKInv == Init => KInv
  <1> SUFFICES ASSUME Init PROVE KInv
    OBVIOUS
  <1>1. \A r \in Op, i \in Server : pc[r][i] = "idle"
    BY DEF Init
  <1>2. graph = [i \in Server |-> EmptyGraph]
    BY DEF Init
  <1>3. CallsInOrder /\ OneAtATime
    BY <1>1, HeadIsServer DEF CallsInOrder, OneAtATime, Active, Ended
  <1>4. GraphsInStep
    BY <1>1, <1>2, HeadIsServer DEF GraphsInStep
  <1>5. HistoriesInStep
    BY <1>1, HeadIsServer DEF HistoriesInStep, Init
  <1> QED
    BY <1>3, <1>4, <1>5, InitCInv DEF KInv, InStep

(* Handlers of requests that nobody has applied end, behind those at work; *)
(* no graph or history changes, and no request whose update is under way.  *)
LEMMA EndStep ==
    ASSUME CallsInOrder, OneAtATime, GraphsInStep, HistoriesInStep,
           UNCHANGED <<graph, applied>>,
           \A r \in Op : pc[r][1] = "wait" => ask'[r] = ask[r],
           \A r \in Op, i \in Server :
               \/ pc'[r][i] = pc[r][i]
               \/ /\ pc'[r][i] \in Ended
                  /\ \A j \in Server : /\ pc[r][j] # "ok"
                                       /\ i < j => pc[r][j] \notin Active
    PROVE  InStep'
  <1> USE HeadIsServer
  <1>1. \A r \in Op, i \in Server :
           /\ pc'[r][i] = "ok" <=> pc[r][i] = "ok"
           /\ pc'[r][i] \in Active => pc'[r][i] = pc[r][i]
           /\ pc'[r][i] = "wait" => pc[r][i] = "wait"
           /\ pc'[r][i] = "idle" => pc[r][i] = "idle"
           /\ pc'[r][i] = "called" => pc[r][i] = "called"
    BY DEF Active, Ended
  <1>2. CallsInOrder'
    <2>1. ASSUME NEW r \in Op, NEW i \in Server, NEW j \in Server,
                 pc'[r][j] \in Active, i < j
          PROVE  pc'[r][i] = "wait"
      <3>1. pc[r][j] \in Active
        BY <2>1, <1>1
      <3>2. pc[r][i] = "wait"
        BY <2>1, <3>1 DEF CallsInOrder
      <3> QED
        BY <2>1, <3>1, <3>2
    <2>2. ASSUME NEW r \in Op, NEW i \in Server, NEW j \in Server,
                 pc'[r][i] = "ok", i < j
          PROVE  pc'[r][j] = "ok"
      BY <2>2, <1>1 DEF CallsInOrder
    <2>3. ASSUME NEW r \in Op, NEW i \in Server, NEW j \in Server,
                 pc'[r][i] \in Ended
          PROVE  pc'[r][j] # "ok"
      BY <2>3, <1>1 DEF CallsInOrder
    <2>4. ASSUME NEW r \in Op, NEW i \in Server, pc'[r][i] = "wait", i < N
          PROVE  pc'[r][i + 1] # "idle"
      <3>1. i + 1 \in Server
        BY <2>4, ChainAssumption DEF Server
      <3> QED
        BY <2>4, <3>1, <1>1 DEF CallsInOrder
    <2>5. \A r \in Op : pc'[r][1] # "called"
      BY <1>1 DEF CallsInOrder
    <2> QED
      BY <2>1, <2>2, <2>3, <2>4, <2>5 DEF CallsInOrder
  <1>3. OneAtATime'
    BY <1>1 DEF OneAtATime
  <1>4. GraphsInStep'
    <2>1. ASSUME \A r \in Op : pc'[r][1] # "wait", NEW i \in Server
          PROVE  graph[i] = graph[1]
      <3>1. CASE \A r \in Op : pc[r][1] # "wait"
        BY <3>1 DEF GraphsInStep
      <3>2. CASE \E r \in Op : pc[r][1] = "wait"
        <4>1. PICK r \in Op : pc[r][1] = "wait"
          BY <3>2
        <4>2. pc[r][i] # "ok"
          BY <2>1, <4>1
        <4> QED
          BY <4>1, <4>2 DEF GraphsInStep
      <3> QED
        BY <3>1, <3>2
    <2>2. ASSUME NEW r \in Op, NEW i \in Server, pc'[r][1] = "wait"
          PROVE  graph[i] = IF pc'[r][i] = "ok"
                            THEN Execute(graph[1], ask'[r].entry).g ELSE graph[1]
      <3>1. pc[r][1] = "wait" /\ ask'[r] = ask[r]
        BY <2>2, <1>1
      <3> QED
        BY <3>1, <1>1 DEF GraphsInStep
    <2>3. graph = [i \in Server |-> graph[i]]
      BY DEF GraphsInStep
    <2> QED
      BY <2>1, <2>2, <2>3 DEF GraphsInStep
  <1>5. HistoriesInStep'
    <2>1. ASSUME \A r \in Op : pc'[r][1] # "wait", NEW i \in Server
          PROVE  applied[i] = applied[1]
      <3>1. CASE \A r \in Op : pc[r][1] # "wait"
        BY <3>1 DEF HistoriesInStep
      <3>2. CASE \E r \in Op : pc[r][1] = "wait"
        <4>1. PICK r \in Op : pc[r][1] = "wait"
          BY <3>2
        <4>2. pc[r][i] # "ok"
          BY <2>1, <4>1
        <4> QED
          BY <4>1, <4>2 DEF HistoriesInStep
      <3> QED
        BY <3>1, <3>2
    <2>2. ASSUME NEW r \in Op, NEW i \in Server, pc'[r][1] = "wait"
          PROVE  applied[i] = IF pc'[r][i] = "ok" THEN Append(applied[1], r)
                              ELSE applied[1]
      <3>1. pc[r][1] = "wait"
        BY <2>2, <1>1
      <3> QED
        BY <3>1, <1>1 DEF HistoriesInStep
    <2> QED
      BY <2>1, <2>2 DEF HistoriesInStep
  <1> QED
    BY <1>2, <1>3, <1>4, <1>5 DEF InStep

(* The handler of r on i is the only one at work, and those in front wait. *)
InFront(r, i) ==
    /\ \A j \in Server : j < i => pc[r][j] = "wait"
    /\ i = 1 => \A s \in Op : s # r => pc[s][1] # "wait"
    /\ \A s \in Op : pc[s][1] = "wait" => ask'[s] = ask[s]

(* A handler calls its successor. *)
LEMMA ForwardInOrder ==
    ASSUME CInv, CallsInOrder, OneAtATime, GraphsInStep, HistoriesInStep,
           NEW r \in Op, NEW i \in Server, Forward(r, i), InFront(r, i),
           pc[r][i] \in {"idle", "called"},
           i = 1 => pc[r][i] = "idle",
           \A j \in Server : i < j => pc[r][j] = "idle"
    PROVE  InStep'
  <1> USE HeadIsServer
  <1>1. i + 1 \in Server /\ i < N /\ i \in Nat /\ N \in Nat
    BY ChainAssumption DEF Forward, Server
  <1>2. pc \in [Op -> [Server -> HandlerStates]]
    BY DEF CInv, HandlersTyped
  <1>3. PICK s \in {"called", "dead"} :
           pc' = [pc EXCEPT ![r] = [@ EXCEPT ![i] = "wait", ![i + 1] = s]]
    BY DEF Forward
  <1>4. /\ pc'[r][i] = "wait" /\ pc'[r][i + 1] = s
        /\ \A j \in Server : j \notin {i, i + 1} => pc'[r][j] = pc[r][j]
        /\ \A x \in Op \ {r} : pc'[x] = pc[x]
    <2>1. i # i + 1
      BY <1>1
    <2> QED
      BY <1>1, <1>2, <1>3, <2>1
  <1>5. /\ \A j \in Server : j < i => pc'[r][j] = "wait"
        /\ \A j \in Server : i + 1 < j => pc'[r][j] = "idle"
    BY <1>1, <1>4 DEF InFront, Server
  <1>6. \A j \in Server : pc[r][j] # "ok" /\ pc'[r][j] # "ok"
    <2>1. ASSUME NEW j \in Server
          PROVE  pc[r][j] # "ok" /\ pc'[r][j] # "ok"
      <3>1. j < i \/ j = i \/ j = i + 1 \/ i + 1 < j
        BY <1>1 DEF Server
      <3>2. i < i + 1 /\ (i + 1 < j => i < j)
        BY <1>1 DEF Server
      <3> QED
        BY <1>1, <1>4, <1>5, <3>1, <3>2 DEF InFront
    <2> QED
      BY <2>1
  <1>7. CallsInOrder'
    <2>1. ASSUME NEW x \in Op, NEW k \in Server, NEW j \in Server
          PROVE  /\ pc'[x][j] \in Active /\ k < j => pc'[x][k] = "wait"
                 /\ pc'[x][k] = "ok" /\ k < j => pc'[x][j] = "ok"
                 /\ pc'[x][k] \in Ended => pc'[x][j] # "ok"
      <3>1. CASE x # r
        BY <3>1, <1>4 DEF CallsInOrder
      <3>2. CASE x = r
        <4>1. pc'[r][j] \in Active => j <= i + 1
          BY <1>1, <1>5 DEF Active, Server
        <4>2. k < j /\ j <= i + 1 => k < i \/ k = i
          BY <1>1 DEF Server
        <4> QED
          BY <3>2, <4>1, <4>2, <1>4, <1>5, <1>6
      <3> QED
        BY <3>1, <3>2
    <2>2. ASSUME NEW x \in Op, NEW k \in Server, pc'[x][k] = "wait", k < N
          PROVE  pc'[x][k + 1] # "idle"
      <3>1. k + 1 \in Server
        BY <2>2, ChainAssumption DEF Server
      <3>2. CASE x # r
        BY <2>2, <3>1, <3>2, <1>4 DEF CallsInOrder
      <3>3. CASE x = r
        <4>1. k <= i
          BY <2>2, <3>3, <1>1, <1>4, <1>5 DEF Server
        <4>2. k = i \/ k + 1 = i \/ k + 1 < i
          BY <4>1, <1>1 DEF Server
        <4> QED
          BY <3>1, <3>3, <4>2, <1>4, <1>5
      <3> QED
        BY <3>2, <3>3
    <2>3. ASSUME NEW x \in Op
          PROVE  pc'[x][1] # "called"
      <3>1. 1 # i + 1
        BY <1>1 DEF Server
      <3> QED
        BY <3>1, <1>4 DEF CallsInOrder
    <2> QED
      BY <2>1, <2>2, <2>3 DEF CallsInOrder
  <1>8. \A x \in Op : x # r => (pc'[x][1] = "wait" <=> pc[x][1] = "wait")
    BY <1>4
  <1>9. i # 1 => pc[r][1] = "wait"
    BY <1>1 DEF InFront, Server
  <1>10. pc'[r][1] = "wait"
    BY <1>1, <1>4, <1>5 DEF Server
  <1>11. \A x \in Op : x # r => pc'[x][1] # "wait"
    BY <1>8, <1>9 DEF OneAtATime, InFront
  <1>12. OneAtATime'
    BY <1>11 DEF OneAtATime
  <1>13. \A j \in Server : graph[j] = graph[1]
    <2>1. CASE i = 1
      <3>1. \A x \in Op : pc[x][1] # "wait"
        BY <2>1 DEF InFront
      <3> QED
        BY <3>1 DEF GraphsInStep
    <2>2. CASE i # 1
      BY <2>2, <1>6, <1>9 DEF GraphsInStep
    <2> QED
      BY <2>1, <2>2
  <1>14. GraphsInStep'
    <2>1. UNCHANGED graph
      BY DEF Forward
    <2> QED
      BY <2>1, <1>6, <1>10, <1>11, <1>13 DEF GraphsInStep
  <1>15. \A j \in Server : applied[j] = applied[1]
    <2>1. CASE i = 1
      <3>1. \A x \in Op : pc[x][1] # "wait"
        BY <2>1 DEF InFront
      <3> QED
        BY <3>1 DEF HistoriesInStep
    <2>2. CASE i # 1
      BY <2>2, <1>6, <1>9 DEF HistoriesInStep
    <2> QED
      BY <2>1, <2>2
  <1>16. HistoriesInStep'
    <2>1. UNCHANGED applied
      BY DEF Forward
    <2> QED
      BY <2>1, <1>6, <1>10, <1>11, <1>15 DEF HistoriesInStep
  <1> QED
    BY <1>7, <1>12, <1>14, <1>16 DEF InStep

(* A handler applies its update behind the "ok" of all its successors. *)
LEMMA ApplyInOrder ==
    ASSUME CInv, CallsInOrder, OneAtATime, GraphsInStep, HistoriesInStep,
           NEW r \in Op, NEW i \in Server, NEW q, ApplyLocally(r, i, q), InFront(r, i),
           pc[r][i] # "ok",
           \A j \in Server : i < j => pc[r][j] = "ok",
           pc[r][1] = "wait" => q = ask[r],
           pc[r][1] # "wait" => N = 1
    PROVE  InStep'
  <1> USE HeadIsServer
  <1> DEFINE g == Execute(graph[i], q.entry).g
  <1>0. \A j \in Server : j \in Nat /\ j >= 1 /\ (j < i \/ j = i \/ i < j)
    BY ChainAssumption DEF Server
  <1>1. pc \in [Op -> [Server -> HandlerStates]]
    BY DEF CInv, HandlersTyped
  <1>2. /\ pc'[r][i] = "ok"
        /\ \A j \in Server \ {i} : pc'[r][j] = pc[r][j]
        /\ \A x \in Op \ {r} : pc'[x] = pc[x]
    BY <1>1 DEF ApplyLocally
  <1>3. /\ graph' = [graph EXCEPT ![i] = g]
        /\ graph'[i] = g /\ \A j \in Server \ {i} : graph'[j] = graph[j]
    BY DEF ApplyLocally, GraphsInStep
  <1>a. /\ applied'[i] = Append(applied[i], r)
        /\ \A j \in Server \ {i} : applied'[j] = applied[j]
    BY DEF ApplyLocally, CInv, HandlersTyped
  <1>4. /\ \A j \in Server : j < i => pc'[r][j] = "wait"
        /\ \A j \in Server : ~(j < i) => pc'[r][j] = "ok"
    BY <1>0, <1>2 DEF InFront
  <1>5. CallsInOrder'
    <2>1. ASSUME NEW x \in Op, NEW k \in Server, NEW j \in Server
          PROVE  /\ pc'[x][j] \in Active /\ k < j => pc'[x][k] = "wait"
                 /\ pc'[x][k] = "ok" /\ k < j => pc'[x][j] = "ok"
                 /\ pc'[x][k] \in Ended => pc'[x][j] # "ok"
      <3>1. CASE x # r
        BY <3>1, <1>2 DEF CallsInOrder
      <3>2. CASE x = r
        <4>1. k < j /\ j < i => k < i
          BY <1>0
        <4>2. k < j /\ ~(k < i) => ~(j < i)
          BY <1>0
        <4>3. pc'[r][j] \in Active => j < i
          BY <1>4 DEF Active
        <4>4. pc'[r][k] = "ok" => ~(k < i)
          BY <1>4
        <4>5. pc'[r][k] \notin Ended
          BY <1>4 DEF Ended
        <4> QED
          BY <3>2, <4>1, <4>2, <4>3, <4>4, <4>5, <1>4
      <3> QED
        BY <3>1, <3>2
    <2>2. ASSUME NEW x \in Op, NEW k \in Server, pc'[x][k] = "wait", k < N
          PROVE  pc'[x][k + 1] # "idle"
      <3>1. k + 1 \in Server
        BY <2>2, ChainAssumption DEF Server
      <3>2. CASE x # r
        BY <2>2, <3>1, <3>2, <1>2 DEF CallsInOrder
      <3>3. CASE x = r
        BY <3>1, <3>3, <1>4
      <3> QED
        BY <3>2, <3>3
    <2>3. ASSUME NEW x \in Op
          PROVE  pc'[x][1] # "called"
      <3>1. CASE x # r
        BY <3>1, <1>2 DEF CallsInOrder
      <3>2. CASE x = r
        BY <3>2, <1>4
      <3> QED
        BY <3>1, <3>2
    <2> QED
      BY <2>1, <2>2, <2>3 DEF CallsInOrder
  <1>6. \A x \in Op : x # r => (pc'[x][1] = "wait" <=> pc[x][1] = "wait")
    BY <1>2
  <1>7. \A x \in Op : x # r => pc'[x][1] # "wait"
    <2>1. CASE i = 1
      BY <2>1, <1>6 DEF InFront
    <2>2. CASE i # 1
      <3>1. pc[r][1] = "wait"
        BY <2>2, <1>0 DEF InFront
      <3> QED
        BY <3>1, <1>6 DEF OneAtATime
    <2> QED
      BY <2>1, <2>2
  <1>8. OneAtATime'
    BY <1>7 DEF OneAtATime
  <1>9. CASE i # 1
    <2>1. pc[r][1] = "wait" /\ pc'[r][1] = "wait" /\ q = ask[r] /\ ask'[r] = ask[r]
      BY <1>9, <1>0, <1>4 DEF InFront
    <2>2. graph[i] = graph[1] /\ graph'[1] = graph[1]
      BY <1>9, <2>1, <1>3 DEF GraphsInStep
    <2>3. ASSUME NEW j \in Server
          PROVE  graph'[j] = IF pc'[r][j] = "ok"
                             THEN Execute(graph'[1], ask'[r].entry).g ELSE graph'[1]
      <3>1. CASE j = i
        BY <3>1, <2>1, <2>2, <1>2, <1>3
      <3>2. CASE j # i
        BY <3>2, <2>1, <2>2, <1>2, <1>3 DEF GraphsInStep
      <3> QED
        BY <3>1, <3>2
    <2>4. graph' = [j \in Server |-> graph'[j]]
      BY <1>3 DEF GraphsInStep
    <2>5. GraphsInStep'
      BY <2>1, <2>3, <2>4, <1>7 DEF GraphsInStep
    <2>6. applied[i] = applied[1] /\ applied'[1] = applied[1]
      BY <1>9, <2>1, <1>a DEF HistoriesInStep
    <2>7. ASSUME NEW j \in Server
          PROVE  applied'[j] = IF pc'[r][j] = "ok" THEN Append(applied'[1], r)
                               ELSE applied'[1]
      <3>1. CASE j = i
        BY <3>1, <2>6, <1>2, <1>a
      <3>2. CASE j # i
        BY <3>2, <2>1, <2>6, <1>2, <1>a DEF HistoriesInStep
      <3> QED
        BY <3>1, <3>2
    <2>8. HistoriesInStep'
      BY <2>1, <2>7, <1>7 DEF HistoriesInStep
    <2> QED
      BY <2>5, <2>8, <1>5, <1>8 DEF InStep
  <1>10. CASE i = 1
    <2>1. \A x \in Op : pc'[x][1] # "wait"
      BY <1>10, <1>2, <1>7
    <2>2. ASSUME NEW j \in Server
          PROVE  graph'[j] = graph'[1]
      <3>1. CASE j = 1
        BY <3>1
      <3>2. CASE j # 1
        <4>1. 1 < j /\ N # 1
          BY <3>2, <1>0, ChainAssumption DEF Server
        <4>2. pc[r][1] = "wait" /\ pc[r][j] = "ok" /\ q = ask[r]
          BY <4>1, <1>10
        <4>3. graph[j] = Execute(graph[1], ask[r].entry).g
          BY <4>2 DEF GraphsInStep
        <4> QED
          BY <3>2, <4>2, <4>3, <1>3, <1>10
      <3> QED
        BY <3>1, <3>2
    <2>3. graph' = [j \in Server |-> graph'[j]]
      BY <1>3 DEF GraphsInStep
    <2>4. GraphsInStep'
      BY <2>1, <2>2, <2>3 DEF GraphsInStep
    <2>5. ASSUME NEW j \in Server
          PROVE  applied'[j] = applied'[1]
      <3>1. CASE j = 1
        BY <3>1
      <3>2. CASE j # 1
        <4>1. 1 < j /\ N # 1
          BY <3>2, <1>0, ChainAssumption DEF Server
        <4>2. pc[r][1] = "wait" /\ pc[r][j] = "ok"
          BY <4>1, <1>10
        <4>3. applied[j] = Append(applied[1], r)
          BY <4>2 DEF HistoriesInStep
        <4> QED
          BY <3>2, <4>3, <1>a, <1>10
      <3> QED
        BY <3>1, <3>2
    <2>6. HistoriesInStep'
      BY <2>1, <2>5 DEF HistoriesInStep
    <2> QED
      BY <2>4, <2>6, <1>5, <1>8 DEF InStep
  <1> QED
    BY <1>9, <1>10

(* The part the HTTP and the RPC handlers share. *)
LEMMA EnterInOrder ==
    ASSUME CInv, CallsInOrder, OneAtATime, GraphsInStep, HistoriesInStep,
           NEW r \in Op, NEW i \in Server, NEW q, Enter(r, i, q), InFront(r, i),
           pc[r][i] \in {"idle", "called"},
           i = 1 => pc[r][i] = "idle",
           \A j \in Server : i < j => pc[r][j] = "idle",
           pc[r][1] = "wait" => q = ask[r]
    PROVE  InStep'
  <1> USE HeadIsServer
  <1>0. \A j \in Server : j \in Nat /\ j >= 1 /\ j <= N /\ (j < i \/ j = i \/ i < j)
    BY ChainAssumption DEF Server
  <1>1. CASE Refuse(r, i, q)
    <2>1. pc \in [Op -> [Server -> HandlerStates]]
      BY DEF CInv, HandlersTyped
    <2>2. /\ pc'[r][i] = "failed"
          /\ \A j \in Server \ {i} : pc'[r][j] = pc[r][j]
          /\ \A x \in Op \ {r} : pc'[x] = pc[x]
          /\ UNCHANGED <<graph, applied>>
      BY <1>1, <2>1 DEF Refuse
    <2>3. \A j \in Server : pc[r][j] # "ok" /\ (i < j => pc[r][j] \notin Active)
      BY <1>0 DEF InFront, Active
    <2>4. \A x \in Op, k \in Server :
              \/ pc'[x][k] = pc[x][k]
              \/ /\ pc'[x][k] \in Ended
                 /\ \A j \in Server : /\ pc[x][j] # "ok"
                                      /\ k < j => pc[x][j] \notin Active
      BY <2>2, <2>3 DEF Ended
    <2>5. \A x \in Op : pc[x][1] = "wait" => ask'[x] = ask[x]
      BY DEF InFront
    <2> QED
      BY <2>2, <2>4, <2>5, EndStep
  <1>2. CASE Forward(r, i)
    BY <1>2, ForwardInOrder
  <1>3. CASE i = N /\ ApplyLocally(r, i, q)
    <2>1. \A j \in Server : ~(i < j)
      BY <1>0, <1>3
    <2>2. pc[r][1] # "wait" => N = 1
      BY <1>0, <1>3 DEF InFront
    <2> QED
      BY <1>3, <2>1, <2>2, ApplyInOrder
  <1> QED
    BY <1>1, <1>2, <1>3 DEF Enter

(* Clients write to the head only. *)
HeadOnly == Writers \subseteq {1}

(* Who sent the update the head is inside of. *)
LEMMA WaitsForClient ==
    ASSUME HeadOnly, CInv
    PROVE  HttpBusy(1) <=> \E r \in Op : pc[r][1] = "wait"
  <1>1. ASSUME NEW r \in Op, pc[r][1] = "wait"
        PROVE  ask[r].home = 1
    <2>1. ask[r] # Unsent
      BY <1>1, HeadIsServer DEF CInv, IdleAhead
    <2>2. ask[r] \in [home : Writers, entry : Request]
      BY <2>1 DEF CInv, HandlersTyped
    <2> QED
      BY <2>2 DEF HeadOnly
  <1> QED
    BY <1>1 DEF HttpBusy

(* Who is called is reached by nobody else: a called handler is at work,   *)
(* and so are, waiting, those in front of it.                              *)
LEMMA WorkInFront ==
    ASSUME CallsInOrder, OneAtATime, UNCHANGED ask,
           NEW r \in Op, NEW i \in Server, pc[r][i] \in Active
    PROVE  InFront(r, i)
  BY DEF CallsInOrder, OneAtATime, InFront, Active

(* The inductive step. *)
LEMMA NextKInv == ASSUME HeadOnly, KInv, [Next /\ ~Abandons]_vars PROVE KInv'
  <1> USE HeadIsServer
  <1>0. CInv /\ CallsInOrder /\ OneAtATime /\ GraphsInStep /\ HistoriesInStep
        /\ pc \in [Op -> [Server -> HandlerStates]]
    BY DEF KInv, InStep, CInv, HandlersTyped
  <1>a. CInv'
    BY <1>0, NextCInv
  <1> SUFFICES InStep'
    BY <1>a DEF KInv
  <1>1. ASSUME NEW r \in Op, NEW i \in Writers, NEW e \in Request,
               ev_handler(r, i, e)
        PROVE  InStep'
    <2> DEFINE q == [home |-> i, entry |-> e]
    <2>1. i = 1
      BY DEF HeadOnly
    <2>2. /\ ask' = [ask EXCEPT ![r] = q] /\ Enter(r, i, q) /\ ask[r] = Unsent
          /\ ~HttpBusy(1)
      BY <1>1, <2>1 DEF ev_handler
    <2>3. \A j \in Server : pc[r][j] = "idle"
      BY <1>0, <2>2 DEF CInv, IdleAhead
    <2>4. \A s \in Op : pc[s][1] # "wait"
      BY <1>0, <2>2, WaitsForClient
    <2>5. InFront(r, i)
      <3>1. \A j \in Server : ~(j < i)
        BY <2>1, ChainAssumption DEF Server
      <3> QED
        BY <3>1, <2>4 DEF InFront
    <2> QED
      BY <1>0, <2>1, <2>2, <2>3, <2>4, <2>5, EnterInOrder
  <1>2. ASSUME NEW r \in Op, NEW i \in Server, SendUpdate(r, i)
        PROVE  InStep'
    <2>1. pc[r][i] = "called" /\ Enter(r, i, ask[r]) /\ UNCHANGED ask
      BY <1>2 DEF SendUpdate
    <2>2. \A j \in Server : i < j => pc[r][j] = "idle"
      BY <1>0, <2>1 DEF CInv, IdleAhead
    <2>3. i # 1
      BY <1>0, <2>1 DEF CallsInOrder
    <2>4. InFront(r, i)
      BY <1>0, <2>1, WorkInFront DEF Active
    <2> QED
      BY <1>0, <2>1, <2>2, <2>3, <2>4, EnterInOrder
  <1>3. ASSUME NEW r \in Op, NEW i \in Server, ReplyOk(r, i)
        PROVE  InStep'
    <2>1. pc[r][i] = "wait" /\ pc[r][i + 1] = "ok" /\ UNCHANGED ask
          /\ ApplyLocally(r, i, ask[r])
      BY <1>3 DEF ReplyOk
    <2>2. i # N
      BY <1>0, <2>1 DEF CInv, TailNeverWaits
    <2>3. i + 1 \in Server
      BY <2>2, ChainAssumption DEF Server
    <2>4. \A j \in Server : i < j => pc[r][j] = "ok"
      <3>1. \A j \in Server : i < j => j = i + 1 \/ i + 1 < j
        BY ChainAssumption DEF Server
      <3> QED
        BY <1>0, <2>1, <2>3, <3>1 DEF CallsInOrder
    <2>5. InFront(r, i)
      BY <1>0, <2>1, WorkInFront DEF Active
    <2>6. pc[r][1] = "wait"
      <3>1. i = 1 \/ 1 < i
        BY DEF Server
      <3> QED
        BY <2>1, <2>5, <3>1 DEF InFront
    <2> QED
      BY <1>0, <2>1, <2>4, <2>5, <2>6, ApplyInOrder
  <1>4. ASSUME UNCHANGED <<ask, graph, applied>>,
               \A r \in Op, i \in Server :
                   \/ pc'[r][i] = pc[r][i]
                   \/ /\ pc[r][i] \in Active /\ pc'[r][i] \in Ended
                      /\ ~Abandons
        PROVE  InStep'
    <2>1. ASSUME NEW r \in Op, NEW i \in Server, NEW j \in Server,
                 pc'[r][i] # pc[r][i]
          PROVE  pc[r][j] # "ok" /\ (i < j => pc[r][j] \notin Active)
      <3>1. pc[r][i] \in Active /\ pc'[r][i] \in Ended /\ ~Abandons
        BY <1>4, <2>1
      <3>2. CASE pc[r][i] = "called"
        <4>1. i < j => pc[r][j] = "idle"
          BY <1>0, <3>2 DEF CInv, IdleAhead
        <4>2. j < i => pc[r][j] = "wait"
          BY <1>0, <3>1 DEF CallsInOrder
        <4>3. j < i \/ j = i \/ i < j
          BY DEF Server
        <4> QED
          BY <3>2, <4>1, <4>2, <4>3 DEF Active
      <3>3. CASE pc[r][i] = "wait"
        <4>1. i # N
          BY <1>0, <3>3 DEF CInv, TailNeverWaits
        <4>2. i \in 1 .. N - 1 /\ i < N /\ i + 1 \in Server
          BY <4>1, ChainAssumption DEF Server
        <4>3. pc[r][i + 1] \notin {"called", "wait", "ok"}
          BY <3>1, <3>3, <4>2 DEF Abandons, Ended
        <4>4. pc[r][i + 1] \in Ended
          <5>1. pc[r][i + 1] \in HandlerStates
            BY <1>0, <4>2
          <5>2. pc[r][i + 1] # "idle"
            BY <1>0, <3>3, <4>2 DEF CallsInOrder
          <5> QED
            BY <4>3, <5>1, <5>2 DEF HandlerStates, Ended
        <4>5. pc[r][j] # "ok"
          BY <1>0, <4>2, <4>4 DEF CallsInOrder
        <4>6. ASSUME i < j PROVE pc[r][j] \notin Active
          <5>1. j = i + 1 \/ i + 1 < j
            BY <4>6 DEF Server
          <5>2. pc[r][i + 1] \notin Active /\ pc[r][i + 1] # "wait"
            BY <4>4 DEF Active, Ended
          <5> QED
            BY <1>0, <4>2, <5>1, <5>2 DEF CallsInOrder
        <4> QED
          BY <4>5, <4>6
      <3> QED
        BY <3>1, <3>2, <3>3 DEF Active
    <2>2. \A r \in Op, i \in Server :
              \/ pc'[r][i] = pc[r][i]
              \/ /\ pc'[r][i] \in Ended
                 /\ \A j \in Server : /\ pc[r][j] # "ok"
                                      /\ i < j => pc[r][j] \notin Active
      BY <1>4, <2>1
    <2> QED
      BY <1>0, <1>4, <2>2, EndStep
  <1>5. ASSUME ~Abandons, NEW r \in Op, NEW i \in Server,
               ReplyFailed(r, i) \/ LoseReply(r, i) \/ LoseRequest(r, i)
        PROVE  InStep'
    <2>1. pc[r][i] \in Active /\ UNCHANGED <<ask, graph, applied>>
      BY <1>5 DEF ReplyFailed, LoseReply, LoseRequest, Fail, Active
    <2>2. /\ pc'[r][i] \in Ended
          /\ \A j \in Server \ {i} : pc'[r][j] = pc[r][j]
          /\ \A x \in Op \ {r} : pc'[x] = pc[x]
      BY <1>0, <1>5 DEF ReplyFailed, LoseReply, LoseRequest, Fail, Ended
    <2> QED
      BY <1>4, <1>5, <2>1, <2>2
  <1>6. ASSUME ~Abandons, NEW i \in Server, Crash(i)
        PROVE  InStep'
    <2>1. UNCHANGED <<ask, graph, applied>>
          /\ pc' = [r \in Op |-> [j \in Server |->
                       IF j = i /\ pc[r][j] \in {"called", "wait"}
                          THEN "dead" ELSE pc[r][j]]]
      BY <1>6 DEF Crash
    <2> QED
      BY <1>4, <1>6, <2>1 DEF Active, Ended
  <1>7. ASSUME NEW i \in Server, Restart(i)
        PROVE  InStep'
    BY <1>4, <1>7 DEF Restart
  <1>8. CASE UNCHANGED vars
    BY <1>4, <1>8 DEF vars
  <1> QED
    BY <1>1, <1>2, <1>3, <1>5, <1>6, <1>7, <1>8 DEF Next, Step

(* In a chain of any length whose clients write to the head, all servers   *)
(* hold the same graph whenever the event loop of the head is not inside   *)
(* an update: a full log, a server that is down and a lost request stop an *)
(* update on all servers or on none, as long as no call is abandoned.      *)
THEOREM ReplicasInStep == ASSUME HeadOnly PROVE SpecKept => []ReplicasAgree
  <1>1. Init => KInv
    BY InitKInv
  <1>2. KInv /\ [Next /\ ~Abandons]_vars => KInv'
    BY NextKInv
  <1>3. KInv => ReplicasAgree
    <2>1. ASSUME KInv, ~HttpBusy(1)
          PROVE  \A i \in Server : graph[i] = graph[1]
      <3>1. \A r \in Op : pc[r][1] # "wait"
        BY <2>1, WaitsForClient DEF KInv
      <3> QED
        BY <2>1, <3>1 DEF KInv, InStep, GraphsInStep
    <2> QED
      BY <2>1 DEF ReplicasAgree
  <1> QED
    BY <1>1, <1>2, <1>3, PTL DEF SpecKept

(* In a chain of any length whose clients write to the head, what a server *)
(* has applied is always a beginning of what its successor has, in the     *)
(* same order, as long as no call is abandoned.                            *)
THEOREM OneOrder == ASSUME HeadOnly PROVE SpecKept => []ChainOrder
  <1>1. Init => KInv
    BY InitKInv
  <1>2. KInv /\ [Next /\ ~Abandons]_vars => KInv'
    BY NextKInv
  <1>3. KInv => ChainOrder
    <2> SUFFICES ASSUME KInv, NEW i \in 1 .. N - 1
                 PROVE  /\ Len(applied[i]) <= Len(applied[i + 1])
                        /\ \A k \in DOMAIN applied[i] :
                              applied[i][k] = applied[i + 1][k]
      BY DEF ChainOrder
    <2>1. i \in Server /\ i + 1 \in Server /\ i < i + 1
      BY ChainAssumption DEF Server
    <2>2. /\ CallsInOrder /\ HistoriesInStep
          /\ applied[1] \in Seq(Op) /\ applied[i] \in Seq(Op)
      BY <2>1, HeadIsServer DEF KInv, InStep, CInv, HandlersTyped
    <2>3. CASE applied[i + 1] = applied[i]
      BY <2>2, <2>3
    <2>4. CASE applied[i + 1] # applied[i]
      <3>1. PICK r \in Op : pc[r][1] = "wait"
        BY <2>1, <2>2, <2>4 DEF HistoriesInStep
      <3>2. pc[r][i] = "ok" => pc[r][i + 1] = "ok"
        BY <2>1, <2>2 DEF CallsInOrder
      <3>3. applied[i] = applied[1] /\ applied[i + 1] = Append(applied[1], r)
        BY <2>1, <2>2, <2>4, <3>1, <3>2 DEF HistoriesInStep
      <3> QED
        BY <2>2, <3>3
    <2> QED
      BY <2>3, <2>4
  <1> QED
    BY <1>1, <1>2, <1>3, PTL DEF SpecKept

----------------------------------------------------------------------------
(* Only a handler that applies its update answers 200, and with clients at *)
(* the head only, only the handler of the head answers.                    *)
LEMMA AnswerStep ==
    ASSUME HeadOnly, KInv, TypeOK, Next /\ ~Abandons,
           NEW r \in Op, answer[r] = 0, answer'[r] = 200
    PROVE  /\ ApplyLocally(r, 1, ask'[r])
           /\ Execute(graph[1], ask'[r].entry).status = 200
           /\ ask'[r].entry \in Request
           /\ \A s \in Op : pc'[s][1] # "wait"
  <1> USE HeadIsServer
  <1>0. /\ CInv /\ CInv' /\ CallsInOrder /\ OneAtATime /\ GraphsInStep
        /\ pc \in [Op -> [Server -> HandlerStates]]
        /\ answer \in [Op -> {0} \cup StatusCodes]
        /\ ask \in [Op -> {Unsent} \cup [home : Writers, entry : Request]]
        /\ ask' \in [Op -> {Unsent} \cup [home : Writers, entry : Request]]
    BY NextCInv DEF KInv, InStep, CInv, HandlersTyped, TypeOK
  <1>1. ASSUME NEW x \in Op, NEW i \in Server, NEW q,
               ApplyLocally(x, i, q), q = ask'[x],
               \A s \in Op \ {x} : pc[s][1] # "wait" \/ i # 1
        PROVE  /\ ApplyLocally(r, 1, ask'[r])
               /\ Execute(graph[1], ask'[r].entry).status = 200
               /\ ask'[r].entry \in Request
               /\ \A s \in Op : pc'[s][1] # "wait"
    <2>1. /\ q.home = i
          /\ answer' = [answer EXCEPT ![x] = Execute(graph[i], q.entry).status]
      BY <1>1 DEF ApplyLocally, Respond
    <2>2. x = r /\ Execute(graph[i], q.entry).status = 200
      BY <1>0, <2>1
    <2>3. q # Unsent
      <3>1. Unsent.home = 0 /\ i # 0
        BY DEF Unsent, Server
      <3> QED
        BY <2>1, <3>1
    <2>4. q \in [home : Writers, entry : Request]
      BY <1>0, <1>1, <2>3
    <2>5. i = 1 /\ q.entry \in Request
      BY <2>1, <2>4 DEF HeadOnly
    <2>6. \A s \in Op : pc'[s][1] # "wait"
      BY <1>0, <1>1, <2>5 DEF ApplyLocally
    <2> QED
      BY <1>1, <2>2, <2>5, <2>6
  <1>2. ASSUME NEW x \in Op, NEW i \in Server, NEW q, Enter(x, i, q)
        PROVE  ApplyLocally(x, i, q)
    <2>1. ~Refuse(x, i, q)
      BY <1>0 DEF Refuse, Respond
    <2>2. ~Forward(x, i)
      BY DEF Forward
    <2> QED
      BY <1>2, <2>1, <2>2 DEF Enter
  <1>3. ASSUME NEW x \in Op, NEW i \in Writers, NEW e \in Request,
               ev_handler(x, i, e)
        PROVE  /\ ApplyLocally(x, 1, ask'[x])
               /\ \A s \in Op \ {x} : pc[s][1] # "wait"
    <2> DEFINE q == [home |-> i, entry |-> e]
    <2>1. i = 1
      BY DEF HeadOnly
    <2>2. ask' = [ask EXCEPT ![x] = q] /\ Enter(x, 1, q) /\ ~HttpBusy(1)
      BY <1>3, <2>1 DEF ev_handler
    <2>3. ask'[x] = q
      BY <1>0, <2>2
    <2>4. ApplyLocally(x, 1, q)
      BY <1>2, <2>2
    <2> QED
      BY <1>0, <2>2, <2>3, <2>4, WaitsForClient
  <1>4. ASSUME NEW x \in Op, NEW i \in Server, SendUpdate(x, i)
        PROVE  ApplyLocally(x, i, ask'[x]) /\ i # 1
    <2>1. Enter(x, i, ask[x]) /\ UNCHANGED ask /\ pc[x][i] = "called"
      BY <1>4 DEF SendUpdate
    <2> QED
      BY <1>0, <1>2, <2>1 DEF CallsInOrder
  <1>5. ASSUME NEW x \in Op, NEW i \in Server, ReplyOk(x, i)
        PROVE  /\ ApplyLocally(x, i, ask'[x])
               /\ \A s \in Op \ {x} : pc[s][1] # "wait" \/ i # 1
    BY <1>0, <1>5 DEF ReplyOk, OneAtATime
  <1>6. ASSUME NEW x \in Op, NEW i \in Server,
               ReplyFailed(x, i) \/ LoseReply(x, i) \/ LoseRequest(x, i)
        PROVE  FALSE
    BY <1>0, <1>6 DEF ReplyFailed, LoseReply, LoseRequest, Fail, Respond
  <1>7. ASSUME NEW i \in Server, Crash(i) \/ Restart(i)
        PROVE  FALSE
    BY <1>7 DEF Crash, Restart
  <1>8. CASE \E x \in Op, i \in Writers, e \in Request : ev_handler(x, i, e)
    BY <1>8, <1>3, <1>1
  <1>9. CASE \E x \in Op, i \in Server : SendUpdate(x, i)
    BY <1>9, <1>4, <1>1
  <1>10. CASE \E x \in Op, i \in Server : ReplyOk(x, i)
    BY <1>10, <1>5, <1>1
  <1> QED
    BY <1>6, <1>7, <1>8, <1>9, <1>10 DEF Next, Step

(* In a chain of any length whose clients write to the head, an update     *)
(* answered 200 is in force on every server at the moment of the answer,   *)
(* as long as no call is abandoned.                                        *)
THEOREM AckMeansReplicated == ASSUME HeadOnly PROVE SpecKept => AckedReplicated
  <1>1. Init => KInv
    BY InitKInv
  <1>2. KInv /\ [Next /\ ~Abandons]_vars => KInv'
    BY NextKInv
  <1>3. ASSUME KInv, TypeOK, [Next /\ ~Abandons]_vars, NEW r \in Op,
               answer[r] = 0, answer'[r] = 200, NEW i \in Server
        PROVE  TookEffect(graph'[i], ask'[r].entry)
    <2>1. Next /\ ~Abandons
      BY <1>3 DEF vars
    <2> DEFINE e == ask'[r].entry
    <2>2. /\ ApplyLocally(r, 1, ask'[r]) /\ Execute(graph[1], e).status = 200
          /\ e \in Request /\ \A s \in Op : pc'[s][1] # "wait"
      BY <1>3, <2>1, AnswerStep
    <2>3. graph'[1] = Execute(graph[1], e).g
      BY <1>3, <2>2, HeadIsServer DEF ApplyLocally, KInv, InStep, GraphsInStep
    <2>4. TookEffect(graph'[1], e)
      BY <2>2, <2>3, ExecuteTakesEffect, ChainAssumption
    <2>5. graph'[i] = graph'[1]
      <3>1. KInv'
        BY <1>3, NextKInv
      <3> QED
        BY <2>2, <3>1 DEF KInv, InStep, GraphsInStep
    <2> QED
      BY <2>4, <2>5
  <1>4. KInv /\ TypeOK /\ [Next /\ ~Abandons]_vars =>
           [\A r \in Op : answer[r] = 0 /\ answer'[r] = 200 =>
               \A i \in Server : TookEffect(graph'[i], ask'[r].entry)]_vars
    BY <1>3
  <1>5. Init => TypeOK
    BY InitTypeOK
  <1>6. KInv /\ TypeOK /\ [Next /\ ~Abandons]_vars => TypeOK'
    BY NextTypeOK DEF KInv
  <1> QED
    BY <1>1, <1>2, <1>4, <1>5, <1>6, PTL DEF SpecKept, AckedReplicated
============================================================================
