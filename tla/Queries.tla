------------------------------ MODULE Queries ------------------------------
(***************************************************************************)
(* The read requests: getNode, getEdge, getNeighbors and the breadth-first *)
(* search shortestPath of graph.cpp, and the replies ev_handler makes of   *)
(* them.  The search is a state machine because its result must not depend *)
(* on the order in which an unordered_set is traversed, and because g[n]   *)
(* inserts n when it is missing: a query could change the store.           *)
(***************************************************************************)
EXTENDS Graph, Sequences, FiniteSets

CONSTANT Id   \* ids of nodes

ASSUME IdAssumption == Id \subseteq Nat /\ IsFiniteSet(Id)

VARIABLES
    g,        \* graph.g
    ask,      \* the request: from and to
    q,        \* queue of pairs of node and distance
    visited,  \* set of nodes
    front,    \* the pair popped last
    rest,     \* neighbours of front the inner loop has still to look at
    pc,       \* where shortestPath is
    res       \* what it returns

vars == <<g, ask, q, visited, front, rest, pc, res>>

(* A pair<int, int> default-constructed is <0, 0>. *)
Pair(first, second) == [first |-> first, second |-> second]

----------------------------------------------------------------------------
(* The queries that look at one node or edge. *)
getNode(h, n) == Pair(200, IF n \in DOMAIN h THEN 1 ELSE 0)

(* Mutant: the edge is looked up the wrong way round in one direction. *)
GetEdgeUnordered(h, a, b) ==
    IF a \notin DOMAIN h \/ b \notin DOMAIN h THEN Pair(400, 0)
    ELSE Pair(200, IF a < b /\ b \in h[a] THEN 1 ELSE 0)

getEdge(h, a, b) ==
    IF a \notin DOMAIN h \/ b \notin DOMAIN h THEN Pair(400, 0)
    ELSE Pair(200, IF b \in h[a] THEN 1 ELSE 0)

getNeighbors(h, n) ==
    IF n \notin DOMAIN h THEN Pair(400, {}) ELSE Pair(200, h[n])

----------------------------------------------------------------------------
(* The stores a server can hold: undirected graphs over Id. *)
EdgesOver(D) == {{x[1], x[2]} : x \in {y \in D \X D : y[1] < y[2]}}

Stores ==
    UNION {{[n \in D |-> {m \in D : {n, m} \in E}] : E \in SUBSET EdgesOver(D)} :
               D \in SUBSET Id}

(* shortestPath is called: its locals. *)
Called ==
    /\ g \in Stores
    /\ q = <<>>
    /\ visited = {}
    /\ front = Pair(0, 0)
    /\ rest = {}
    /\ pc = "call"
    /\ res = Pair(0, 0)

Init == Called /\ ask \in [from : Id, to : Id]

(* Mutant: one node in the store is enough. *)
EitherPresent == ask.from \in DOMAIN g \/ ask.to \in DOMAIN g

BothPresent == ask.from \in DOMAIN g /\ ask.to \in DOMAIN g

Missing ==
    /\ pc = "call"
    /\ ~BothPresent
    /\ res' = [res EXCEPT !.first = 400]
    /\ pc' = "return"
    /\ UNCHANGED <<g, ask, q, visited, front, rest>>

Start ==
    /\ pc = "call"
    /\ BothPresent
    /\ q' = <<Pair(ask.from, 0)>>
    /\ visited' = {ask.from}
    /\ pc' = "loop"
    /\ UNCHANGED <<g, ask, front, rest, res>>

(* q.front(), q.pop() and the test for the goal. *)
Found ==
    /\ pc = "loop" /\ q # <<>>
    /\ Head(q).first = ask.to
    /\ res' = Pair(200, Head(q).second)
    /\ pc' = "return"
    /\ UNCHANGED <<g, ask, q, visited, front, rest>>

(* Mutant: the front is read and not removed. *)
PeekOnly(s) == s

Popped(s) == Tail(s)

Pop ==
    /\ pc = "loop" /\ q # <<>>
    /\ Head(q).first # ask.to
    /\ front' = Head(q)
    /\ q' = Popped(q)
    /\ g' = Assign(g, front'.first, At(g, front'.first))
    /\ rest' = At(g, front'.first)
    /\ pc' = "scan"
    /\ UNCHANGED <<ask, visited, res>>

Seen(v, n) == n \in v

(* Mutant: the distance of a neighbour is that of the node itself. *)
NextSame(p, n) == Pair(n, p.second)

NextPair(p, n) == Pair(n, p.second + 1)

Push(s, p) == Append(s, p)

(* One iteration over the neighbours, in any order. *)
Scan(n) ==
    /\ pc = "scan"
    /\ n \in rest
    /\ rest' = rest \ {n}
    /\ IF Seen(visited, n) THEN UNCHANGED <<visited, q>>
       ELSE /\ visited' = visited \cup {n}
            /\ q' = Push(q, NextPair(front, n))
    /\ UNCHANGED <<g, ask, front, pc, res>>

EndScan ==
    /\ pc = "scan"
    /\ rest = {}
    /\ pc' = "loop"
    /\ UNCHANGED <<g, ask, q, visited, front, rest, res>>

(* The queue is empty: 204, and second is what the pair started with. *)
NoPathResult(r) == [r EXCEPT !.first = 204]

NoPath ==
    /\ pc = "loop" /\ q = <<>>
    /\ res' = NoPathResult(res)
    /\ pc' = "return"
    /\ UNCHANGED <<g, ask, q, visited, front, rest>>

shortestPath ==
    \/ Missing \/ Start \/ Found \/ Pop \/ EndScan \/ NoPath
    \/ \E n \in rest : Scan(n)

----------------------------------------------------------------------------
(* The reply of ev_handler: a body only goes with 200, and the header      *)
(* announces its length.  get_node answers 200 for any id.                 *)
Body(kind, value) == [kind |-> kind, value |-> value]
NoBody == Body("none", 0)

ReplyOf(kind, p) ==
    [code |-> p.first,
     body |-> IF p.first = 200 THEN Body(kind, p.second) ELSE NoBody]

Reply == ReplyOf("distance", res)

Spec == Init /\ [][shortestPath]_vars

(* The event loop thread runs the search to its end. *)
FairSpec == Spec /\ WF_vars(shortestPath)

----------------------------------------------------------------------------
(* The reference: is there a walk of k edges from a to b? *)
Walk(h, a, b, k) ==
    \E p \in [0 .. k -> DOMAIN h] :
        p[0] = a /\ p[k] = b /\ \A i \in 1 .. k : p[i] \in h[p[i - 1]]

(* The lengths of walks that may be shortest: these meet no node twice. *)
Lengths(h, a, b) == {k \in 0 .. Cardinality(DOMAIN h) - 1 : Walk(h, a, b, k)}

(* The answer is right for every traversal order: 400 when a node is       *)
(* missing, 204 when there is no path, else 200 and the least number of    *)
(* edges between the nodes.                                                *)
ShortestIsShortest ==
    pc = "return" =>
        IF ask.from \notin DOMAIN g \/ ask.to \notin DOMAIN g
           THEN res.first = 400
        ELSE LET ks == Lengths(g, ask.from, ask.to)
             IN  IF ks = {} THEN res.first = 204
                 ELSE /\ res.first = 200
                      /\ res.second \in ks
                      /\ \A k \in ks : res.second <= k

(* The queries agree: an edge and a path of length one are the same thing, *)
(* from either end, and a reply has a body exactly when it is 200.         *)
QueriesAgree ==
    pc = "return" =>
        LET edge == getEdge(g, ask.from, ask.to) IN
        /\ (edge = Pair(200, 1)) <=> (res = Pair(200, 1))
        /\ edge = getEdge(g, ask.to, ask.from)
        /\ edge.first = 400 <=> res.first = 400
        /\ edge.first = 400 <=> 0 \in {getNode(g, ask.from).second,
                                       getNode(g, ask.to).second}
        /\ edge.second = 1 => ask.to \in getNeighbors(g, ask.from).second
        /\ Reply.body = NoBody <=> Reply.code # 200

(* A query leaves the store as it is, though it reads it with operator[].  *)
QueryReadsOnly == [][g' = g]_vars

(* The search ends. *)
SearchEnds == <>(pc = "return")
============================================================================
