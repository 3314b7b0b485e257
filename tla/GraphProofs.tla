---------------------------- MODULE GraphProofs ----------------------------
(***************************************************************************)
(* What the graph operators preserve, for every set of ids and every       *)
(* graph.  The proofs about the server rest on these lemmas.               *)
(***************************************************************************)
EXTENDS Graph, TLAPS

(* A graph over S is a map whose nodes and neighbours are in S. *)
LEMMA GraphOverMeaning ==
    ASSUME NEW S, NEW g
    PROVE  g \in GraphOver(S) <=>
              /\ DOMAIN g \subseteq S
              /\ g \in [DOMAIN g -> SUBSET S]
  BY DEF GraphOver

(* The empty map is an undirected graph over any set. *)
LEMMA EmptyGraphOK ==
    ASSUME NEW S
    PROVE  EmptyGraph \in GraphOver(S) /\ Undirected(EmptyGraph)
  BY DEF EmptyGraph, GraphOver, Undirected, Irreflexive, Symmetric

(* Storing a set of ids under an id (unordered_map::operator[]). *)
LEMMA AssignType ==
    ASSUME NEW S, NEW g \in GraphOver(S), NEW n \in S, NEW s \in SUBSET S
    PROVE  Assign(g, n, s) \in GraphOver(S)
  <1>1. DOMAIN g \subseteq S /\ g \in [DOMAIN g -> SUBSET S]
    BY GraphOverMeaning
  <1>2. Assign(g, n, s) \in [DOMAIN g \cup {n} -> SUBSET S]
    BY <1>1 DEF Assign
  <1>3. DOMAIN g \cup {n} \in SUBSET S
    BY <1>1
  <1> QED
    BY <1>2, <1>3 DEF GraphOver

(* insert and erase on the set of an id stay within the ids. *)
LEMMA InsertEraseType ==
    ASSUME NEW S, NEW g \in GraphOver(S), NEW a \in S, NEW b \in S
    PROVE  Insert(g, a, b) \in GraphOver(S) /\ Erase(g, a, b) \in GraphOver(S)
  <1>1. At(g, a) \in SUBSET S
    BY GraphOverMeaning DEF At
  <1>2. At(g, a) \cup {b} \in SUBSET S /\ At(g, a) \ {b} \in SUBSET S
    BY <1>1
  <1> QED
    BY <1>2, AssignType DEF Insert, Erase

(* Every update leaves a graph over the same ids. *)
LEMMA ExecuteType ==
    ASSUME NEW S, NEW g \in GraphOver(S), NEW e,
           e.opcode \in Opcodes, e.node1 \in S
    PROVE  Execute(g, e).g \in GraphOver(S)
  <1> DEFINE a == e.node1
             b == e.node2
  <1>0. DOMAIN g \subseteq S /\ g \in [DOMAIN g -> SUBSET S]
    BY GraphOverMeaning
  <1>1. addNode(g, a).g \in GraphOver(S)
    BY AssignType DEF addNode, Result
  <1>2. addEdge(g, a, b).g \in GraphOver(S)
    <2>1. CASE a \in DOMAIN g /\ b \in DOMAIN g
      <3>1. Insert(g, a, b) \in GraphOver(S) /\ b \in S
        BY <2>1, <1>0, InsertEraseType
      <3>2. Insert(Insert(g, a, b), b, a) \in GraphOver(S)
        BY <3>1, InsertEraseType
      <3> QED
        BY <3>2 DEF addEdge, Result
    <2>2. CASE ~(a \in DOMAIN g /\ b \in DOMAIN g)
      BY <2>2 DEF addEdge, Result
    <2> QED
      BY <2>1, <2>2
  <1>3. removeNode(g, a).g \in GraphOver(S)
    <2>1. CASE a \in DOMAIN g
      <3> DEFINE h == [m \in (DOMAIN g \cup g[a]) \ {a} |->
                          IF m \in g[a] THEN At(g, m) \ {a} ELSE g[m]]
      <3>1. \A m \in S : At(g, m) \in SUBSET S
        BY <1>0 DEF At
      <3>2. (DOMAIN g \cup g[a]) \ {a} \in SUBSET S
        BY <1>0, <2>1
      <3>3. h \in [(DOMAIN g \cup g[a]) \ {a} -> SUBSET S]
        BY <3>1, <3>2, <1>0
      <3>4. h \in GraphOver(S)
        BY <3>2, <3>3 DEF GraphOver
      <3> QED
        BY <3>4, <2>1 DEF removeNode, Result
    <2>2. CASE a \notin DOMAIN g
      BY <2>2 DEF removeNode, Result
    <2> QED
      BY <2>1, <2>2
  <1>4. removeEdge(g, a, b).g \in GraphOver(S)
    <2>1. CASE a \in DOMAIN g /\ b \in At(g, a)
      <3>1. b \in S
        BY <2>1, <1>0 DEF At
      <3>2. Erase(g, a, b) \in GraphOver(S)
        BY <3>1, InsertEraseType
      <3>3. Erase(Erase(g, a, b), b, a) \in GraphOver(S)
        BY <3>1, <3>2, InsertEraseType
      <3> QED
        BY <3>3, <2>1 DEF removeEdge, Result
    <2>2. CASE ~(a \in DOMAIN g /\ b \in At(g, a))
      BY <2>2 DEF removeEdge, Result
    <2> QED
      BY <2>1, <2>2
  <1> QED
    BY <1>1, <1>2, <1>3, <1>4
    DEF Execute, Opcodes, OP_ADD_NODE, OP_ADD_EDGE, OP_REMOVE_NODE,
        OP_REMOVE_EDGE

(* No update makes a node its own neighbour. *)
LEMMA ExecuteIrreflexive ==
    ASSUME NEW g, NEW e, e.opcode \in Opcodes, Irreflexive(g)
    PROVE  Irreflexive(Execute(g, e).g)
  <1> DEFINE a == e.node1
             b == e.node2
  <1>1. Irreflexive(addNode(g, a).g)
    BY DEF addNode, Result, Assign, Irreflexive
  <1>2. Irreflexive(addEdge(g, a, b).g)
    BY DEF addEdge, Result, Insert, Assign, At, Irreflexive
  <1>3. Irreflexive(removeNode(g, a).g)
    BY DEF removeNode, Result, At, Irreflexive
  <1>4. Irreflexive(removeEdge(g, a, b).g)
    BY DEF removeEdge, Result, Erase, Assign, At, Irreflexive
  <1> QED
    BY <1>1, <1>2, <1>3, <1>4
    DEF Execute, Opcodes, OP_ADD_NODE, OP_ADD_EDGE, OP_REMOVE_NODE,
        OP_REMOVE_EDGE

(* Every update keeps the back edges: addEdge and removeEdge work on both  *)
(* ends, removeNode erases the node from each neighbour.                   *)
LEMMA ExecuteSymmetric ==
    ASSUME NEW g, NEW e, e.opcode \in Opcodes, Symmetric(g)
    PROVE  Symmetric(Execute(g, e).g)
  <1> DEFINE a == e.node1
             b == e.node2
  <1>1. Symmetric(addNode(g, a).g)
    BY DEF addNode, Result, Assign, Symmetric
  <1>2. Symmetric(addEdge(g, a, b).g)
    BY DEF addEdge, Result, Insert, Assign, At, Symmetric
  <1>3. Symmetric(removeNode(g, a).g)
    BY DEF removeNode, Result, At, Symmetric
  <1>4. Symmetric(removeEdge(g, a, b).g)
    BY DEF removeEdge, Result, Erase, Assign, At, Symmetric
  <1> QED
    BY <1>1, <1>2, <1>3, <1>4
    DEF Execute, Opcodes, OP_ADD_NODE, OP_ADD_EDGE, OP_REMOVE_NODE,
        OP_REMOVE_EDGE

(* Every update keeps an undirected graph undirected. *)
LEMMA ExecuteUndirected ==
    ASSUME NEW g, NEW e, e.opcode \in Opcodes, Undirected(g)
    PROVE  Undirected(Execute(g, e).g)
  BY ExecuteIrreflexive, ExecuteSymmetric DEF Undirected

----------------------------------------------------------------------------
(* What an update that is answered 200 does: addNode adds a node without   *)
(* edges.                                                                  *)
LEMMA AddNodeEffect ==
    ASSUME NEW g, NEW n, addNode(g, n).status = 200
    PROVE  /\ n \notin DOMAIN g
           /\ DOMAIN addNode(g, n).g = DOMAIN g \cup {n}
           /\ \A m : At(addNode(g, n).g, m) = At(g, m)
  BY DEF addNode, Result, Assign, At

(* A new edge is there from both ends. *)
LEMMA AddEdgeEffect ==
    ASSUME NEW g, NEW a, NEW b, addEdge(g, a, b).status = 200
    PROVE  /\ a \in DOMAIN g /\ b \in DOMAIN g /\ a # b
           /\ DOMAIN addEdge(g, a, b).g = DOMAIN g
           /\ \A m : At(addEdge(g, a, b).g, m) =
                        At(g, m) \cup (IF m = a THEN {b} ELSE {})
                                 \cup (IF m = b THEN {a} ELSE {})
  BY DEF addEdge, Result, Insert, Assign, At

(* h is g without the node n and the edges at it. *)
Without(h, g, n) ==
    /\ DOMAIN h = DOMAIN g \ {n}
    /\ \A m : At(h, m) = IF m = n THEN {} ELSE At(g, m) \ {n}

(* removeNode takes away the node and every edge at it. *)
LEMMA RemoveNodeEffect ==
    ASSUME NEW g, Undirected(g), NEW n, removeNode(g, n).status = 200
    PROVE  n \in DOMAIN g /\ Without(removeNode(g, n).g, g, n)
  <1>1. n \in DOMAIN g
    BY DEF removeNode, Result
  <1>2. g[n] \subseteq DOMAIN g /\ \A m \in DOMAIN g : n \in g[m] <=> m \in g[n]
    BY <1>1 DEF Undirected, Symmetric
  <1> DEFINE h == [m \in (DOMAIN g \cup g[n]) \ {n} |->
                       IF m \in g[n] THEN At(g, m) \ {n} ELSE g[m]]
  <1>3. removeNode(g, n).g = h
    BY <1>1 DEF removeNode, Result
  <1>4. DOMAIN h = DOMAIN g \ {n}
    BY <1>2
  <1>5. ASSUME NEW m
        PROVE  At(h, m) = IF m = n THEN {} ELSE At(g, m) \ {n}
    BY <1>2 DEF At
  <1> QED
    BY <1>1, <1>3, <1>4, <1>5 DEF Without

(* removeEdge takes away both ends of an edge and no node. *)
LEMMA RemoveEdgeEffect ==
    ASSUME NEW g, Undirected(g), NEW a, NEW b, removeEdge(g, a, b).status = 200
    PROVE  /\ a \in DOMAIN g /\ b \in DOMAIN g /\ b \in At(g, a)
           /\ DOMAIN removeEdge(g, a, b).g = DOMAIN g
           /\ \A m : At(removeEdge(g, a, b).g, m) =
                        (At(g, m) \ (IF m = a THEN {b} ELSE {}))
                                  \ (IF m = b THEN {a} ELSE {})
  <1>1. a \in DOMAIN g /\ b \in At(g, a) /\ b \in DOMAIN g
    BY DEF removeEdge, Result, At, Undirected, Symmetric
  <1> QED
    BY <1>1 DEF removeEdge, Result, Erase, Assign, At

(* A method that does not answer 200 changes nothing. *)
LEMMA RefusalEffect ==
    ASSUME NEW g, NEW e, e.opcode \in Opcodes, Execute(g, e).status # 200
    PROVE  Execute(g, e).g = g
  BY DEF Execute, addNode, addEdge, removeNode, removeEdge, Result, Opcodes,
         OP_ADD_NODE, OP_ADD_EDGE, OP_REMOVE_NODE, OP_REMOVE_EDGE

(* An update that has just been executed has nothing left to do. *)
LEMMA ExecuteAgain ==
    ASSUME NEW g, NEW e, e.opcode \in Opcodes
    PROVE  Execute(Execute(g, e).g, e).status # 200
  <1> DEFINE a == e.node1
             b == e.node2
  <1>1. addNode(addNode(g, a).g, a).status # 200
    BY DEF addNode, Result, Assign
  <1>2. addEdge(addEdge(g, a, b).g, a, b).status # 200
    BY DEF addEdge, Result, Insert, Assign, At
  <1>3. removeNode(removeNode(g, a).g, a).status # 200
    BY DEF removeNode, Result
  <1>4. removeEdge(removeEdge(g, a, b).g, a, b).status # 200
    <2>1. CASE a \in DOMAIN g /\ b \in At(g, a)
      <3> DEFINE h == Erase(Erase(g, a, b), b, a)
      <3>1. b \notin At(h, a)
        BY <2>1 DEF Erase, Assign, At
      <3>2. removeEdge(g, a, b).g = h
        BY <2>1 DEF removeEdge, Result
      <3> HIDE DEF h
      <3> QED
        BY <3>1, <3>2 DEF removeEdge, Result
    <2>2. CASE ~(a \in DOMAIN g /\ b \in At(g, a))
      BY <2>2 DEF removeEdge, Result
    <2> QED
      BY <2>1, <2>2
  <1> QED
    BY <1>1, <1>2, <1>3, <1>4
    DEF Execute, Opcodes, OP_ADD_NODE, OP_ADD_EDGE, OP_REMOVE_NODE,
        OP_REMOVE_EDGE

----------------------------------------------------------------------------
(* Every node and every edge is in h if it is in both f and g, and only if *)
(* it is in one of them.                                                   *)
Between(h, f, g) ==
    /\ DOMAIN f \cap DOMAIN g \subseteq DOMAIN h
    /\ DOMAIN h \subseteq DOMAIN f \cup DOMAIN g
    /\ \A n : /\ At(f, n) \cap At(g, n) \subseteq At(h, n)
              /\ At(h, n) \subseteq At(f, n) \cup At(g, n)

(* Between a graph and itself there is only that graph. *)
LEMMA BetweenEnds ==
    ASSUME NEW S, NEW g \in GraphOver(S), NEW h \in GraphOver(S),
           Between(h, g, g)
    PROVE  h = g
  <1>1. DOMAIN h = DOMAIN g /\ \A n \in DOMAIN g : h[n] = g[n]
    BY DEF Between, At
  <1>2. h = [n \in DOMAIN h |-> h[n]] /\ g = [n \in DOMAIN g |-> g[n]]
    BY GraphOverMeaning
  <1> QED
    BY <1>1, <1>2

(* If an update does its work on f, executing it on a graph between f and  *)
(* g gives one between its result and g: what the update finds done there  *)
(* already, or cannot do, g has undone since.                              *)
LEMMA BetweenStep ==
    ASSUME NEW f, NEW g, NEW h, Undirected(f), Undirected(g), Undirected(h),
           NEW e, e.opcode \in Opcodes,
           Between(h, f, g), Execute(f, e).status = 200
    PROVE  Between(Execute(h, e).g, Execute(f, e).g, g)
  <1> DEFINE a == e.node1
             b == e.node2
  <1>0. \A k : Undirected(k) =>
           /\ \A n, m : m \in At(k, n) => n \in DOMAIN k /\ m \in DOMAIN k
                                          /\ n \in At(k, m)
           /\ \A n : n \notin At(k, n)
    BY DEF Undirected, Symmetric, Irreflexive, At
  <1>1. ASSUME addNode(f, a).status = 200
        PROVE  Between(addNode(h, a).g, addNode(f, a).g, g)
    <2>1. CASE addNode(h, a).status = 200
      BY <1>1, <2>1, AddNodeEffect DEF Between
    <2>2. CASE addNode(h, a).status # 200
      <3>1. a \in DOMAIN h /\ addNode(h, a).g = h
        BY <2>2 DEF addNode, Result
      <3> QED
        BY <1>1, <3>1, AddNodeEffect DEF Between
    <2> QED
      BY <2>1, <2>2
  <1>2. ASSUME addEdge(f, a, b).status = 200
        PROVE  Between(addEdge(h, a, b).g, addEdge(f, a, b).g, g)
    <2>1. CASE addEdge(h, a, b).status = 200
      BY <1>2, <2>1, AddEdgeEffect DEF Between
    <2>2. CASE addEdge(h, a, b).status # 200
      <3>1. addEdge(h, a, b).g = h /\ (a \notin DOMAIN h \/ b \notin DOMAIN h \/ b \in At(h, a))
        BY <1>2, <2>2, AddEdgeEffect DEF addEdge, Result, At
      <3>2. CASE b \in At(h, a)
        <4>1. a \in At(h, b)
          BY <1>0, <3>2
        <4> QED
          BY <1>2, <3>1, <3>2, <4>1, AddEdgeEffect DEF Between
      <3>3. CASE a \notin DOMAIN h \/ b \notin DOMAIN h
        <4>1. a \notin DOMAIN g \/ b \notin DOMAIN g
          BY <1>2, <3>3, AddEdgeEffect DEF Between
        <4>2. b \notin At(g, a) /\ a \notin At(g, b)
          BY <4>1, <1>0
        <4> QED
          BY <1>2, <3>1, <4>2, AddEdgeEffect DEF Between
      <3> QED
        BY <3>1, <3>2, <3>3
    <2> QED
      BY <2>1, <2>2
  <1>3. ASSUME removeNode(f, a).status = 200
        PROVE  Between(removeNode(h, a).g, removeNode(f, a).g, g)
    <2> DEFINE k == removeNode(h, a).g
               l == removeNode(f, a).g
    <2>1. Without(l, f, a)
      BY <1>3, RemoveNodeEffect
    <2>2. Without(k, h, a)
      <3>1. CASE removeNode(h, a).status = 200
        BY <3>1, RemoveNodeEffect
      <3>2. CASE removeNode(h, a).status # 200
        <4>1. a \notin DOMAIN h /\ k = h
          BY <3>2 DEF removeNode, Result
        <4>2. At(h, a) = {} /\ \A m : a \notin At(h, m)
          BY <4>1, <1>0 DEF At
        <4> HIDE DEF k
        <4> QED
          BY <4>1, <4>2 DEF Without
      <3> QED
        BY <3>1, <3>2
    <2> HIDE DEF k, l
    <2>3. DOMAIN l \cap DOMAIN g \subseteq DOMAIN k
      BY <2>1, <2>2 DEF Between, Without
    <2>4. DOMAIN k \subseteq DOMAIN l \cup DOMAIN g
      BY <2>1, <2>2 DEF Between, Without
    <2>5. ASSUME NEW n
          PROVE  /\ At(l, n) \cap At(g, n) \subseteq At(k, n)
                 /\ At(k, n) \subseteq At(l, n) \cup At(g, n)
      <3>1. /\ At(f, n) \cap At(g, n) \subseteq At(h, n)
            /\ At(h, n) \subseteq At(f, n) \cup At(g, n)
        BY DEF Between
      <3>2. CASE n = a
        BY <2>1, <2>2, <3>2 DEF Without
      <3>3. CASE n # a
        <4>1. At(l, n) = At(f, n) \ {a} /\ At(k, n) = At(h, n) \ {a}
          BY <2>1, <2>2, <3>3 DEF Without
        <4> QED
          BY <3>1, <4>1
      <3> QED
        BY <3>2, <3>3
    <2> QED
      BY <2>3, <2>4, <2>5 DEF Between, k, l
  <1>4. ASSUME removeEdge(f, a, b).status = 200
        PROVE  Between(removeEdge(h, a, b).g, removeEdge(f, a, b).g, g)
    <2>1. CASE removeEdge(h, a, b).status = 200
      BY <1>4, <2>1, RemoveEdgeEffect DEF Between
    <2>2. CASE removeEdge(h, a, b).status # 200
      <3>1. b \notin At(h, a) /\ removeEdge(h, a, b).g = h
        BY <2>2 DEF removeEdge, Result, At
      <3>2. a \notin At(h, b)
        BY <3>1, <1>0
      <3> QED
        BY <1>4, <3>1, <3>2, RemoveEdgeEffect DEF Between
    <2> QED
      BY <2>1, <2>2
  <1> QED
    BY <1>1, <1>2, <1>3, <1>4
    DEF Execute, Opcodes, OP_ADD_NODE, OP_ADD_EDGE, OP_REMOVE_NODE,
        OP_REMOVE_EDGE
============================================================================
