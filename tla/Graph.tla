------------------------------- MODULE Graph -------------------------------
(***************************************************************************)
(* The in-memory graph of graph.hpp / graph.cpp: an undirected graph kept  *)
(* as a map from node ids to the set of their neighbours.  A graph is a    *)
(* function g whose DOMAIN is the set of nodes present.  Every method that *)
(* changes the map is an operator that returns the status code of the C++  *)
(* method and the map it leaves behind.                                    *)
(***************************************************************************)
EXTENDS Integers

(* The map of a process that has just started. *)
EmptyGraph == [n \in {} |-> {}]

(* std::unordered_map::operator[], which inserts an empty set on a miss.   *)
(* At is the set the reference denotes, Assign the map after storing s.    *)
At(g, n) == IF n \in DOMAIN g THEN g[n] ELSE {}

Assign(g, n, s) ==
    [m \in DOMAIN g \cup {n} |-> IF m = n THEN s ELSE g[m]]

(* g[a].insert(b) and g[a].erase(b). *)
Insert(g, a, b) == Assign(g, a, At(g, a) \cup {b})

Erase(g, a, b) == Assign(g, a, At(g, a) \ {b})

Result(code, g) == [status |-> code, g |-> g]

----------------------------------------------------------------------------
addNode(g, n) ==
    IF n \notin DOMAIN g THEN Result(200, Assign(g, n, {}))
                         ELSE Result(204, g)

(* Mutant: the test for a self loop is dropped. *)
AddEdgeSelf(g, a, b) ==
    IF a \notin DOMAIN g \/ b \notin DOMAIN g THEN Result(400, g)
    ELSE IF b \in g[a] THEN Result(204, g)
    ELSE Result(200, Insert(Insert(g, a, b), b, a))

addEdge(g, a, b) ==
    IF a \notin DOMAIN g \/ b \notin DOMAIN g \/ a = b THEN Result(400, g)
    ELSE IF b \in g[a] THEN Result(204, g)
    ELSE Result(200, Insert(Insert(g, a, b), b, a))

(* The loop erases n from the set of each neighbour through operator[], so *)
(* a neighbour missing from the map would be inserted by it.               *)
removeNode(g, n) ==
    IF n \notin DOMAIN g THEN Result(400, g)
    ELSE Result(200, [m \in (DOMAIN g \cup g[n]) \ {n} |->
                         IF m \in g[n] THEN At(g, m) \ {n} ELSE g[m]])

removeEdge(g, a, b) ==
    IF a \notin DOMAIN g \/ b \notin At(g, a) THEN Result(400, g)
    ELSE Result(200, Erase(Erase(g, a, b), b, a))

----------------------------------------------------------------------------
(* The operation codes of types.hpp. *)
OP_ADD_NODE    == "add_node"
OP_ADD_EDGE    == "add_edge"
OP_REMOVE_NODE == "remove_node"
OP_REMOVE_EDGE == "remove_edge"

Opcodes == {OP_ADD_NODE, OP_ADD_EDGE, OP_REMOVE_NODE, OP_REMOVE_EDGE}

(* The method an update request or a log entry names. *)
Execute(g, e) ==
    CASE e.opcode = OP_ADD_NODE    -> addNode(g, e.node1)
      [] e.opcode = OP_ADD_EDGE    -> addEdge(g, e.node1, e.node2)
      [] e.opcode = OP_REMOVE_NODE -> removeNode(g, e.node1)
      [] e.opcode = OP_REMOVE_EDGE -> removeEdge(g, e.node1, e.node2)

----------------------------------------------------------------------------
(* All maps over a set of ids, the malformed ones included. *)
GraphOver(S) == UNION {[D -> SUBSET S] : D \in SUBSET S}

(* No node is its own neighbour. *)
Irreflexive(g) == \A n \in DOMAIN g : n \notin g[n]

(* Each neighbour is a node that has the back edge. *)
Symmetric(g) ==
    \A n \in DOMAIN g : \A m \in g[n] : m \in DOMAIN g /\ n \in g[m]

Undirected(g) == Irreflexive(g) /\ Symmetric(g)
============================================================================
