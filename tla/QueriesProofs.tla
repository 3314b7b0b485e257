--------------------------- MODULE QueriesProofs ---------------------------
(***************************************************************************)
(* The breadth-first search of graph.cpp answers the least number of edges *)
(* for every undirected graph, every pair of nodes and every order in      *)
(* which sets of neighbours are traversed, agrees with getEdge, and leaves *)
(* the store alone.                                                        *)
(***************************************************************************)
EXTENDS Queries, Iteration, FiniteSetTheorems

----------------------------------------------------------------------------
(* The inductive invariant, in its parts. *)

(* The store is an undirected graph over finitely many nodes. *)
StoreOK ==
    /\ g = [n \in DOMAIN g |-> g[n]]
    /\ \A n \in DOMAIN g : g[n] \subseteq DOMAIN g
    /\ Undirected(g)
    /\ IsFiniteSet(DOMAIN g)

(* Nodes are looked for only when both are there. *)
Searching == pc \in {"loop", "scan"}

QueuePair == [first : DOMAIN g, second : Nat]

SearchOK ==
    /\ pc \in {"call", "loop", "scan", "return"}
    /\ pc # "return" => res = Pair(0, 0)
    /\ Searching =>
          /\ ask.from \in DOMAIN g /\ ask.to \in DOMAIN g
          /\ visited \subseteq DOMAIN g
          /\ ask.from \in visited
          /\ q \in Seq(QueuePair)
    /\ pc = "scan" =>
          /\ front \in QueuePair
          /\ front.first # ask.to
          /\ rest \subseteq g[front.first]

(* A pair holds a node in v and its distance from a. *)
Exact(h, a, v, p) ==
    /\ p.first \in v
    /\ Walk(h, a, p.first, p.second)
    /\ \A k \in 0 .. p.second - 1 : ~Walk(h, a, p.first, k)
    /\ p.second < Cardinality(v)

AllExact ==
    /\ Searching => \A i \in DOMAIN q : Exact(g, ask.from, visited, q[i])
    /\ pc = "scan" => Exact(g, ask.from, visited, front)

(* Distances do not decrease along the queue, and differ by one at most. *)
Levels ==
    /\ Searching => \A i, j \in DOMAIN q :
          i <= j => q[i].second <= q[j].second /\ q[j].second <= q[i].second + 1
    /\ pc = "scan" => \A i \in DOMAIN q :
          front.second <= q[i].second /\ q[i].second <= front.second + 1

(* A visited node that is not queued any more is not the goal, and its     *)
(* neighbours have been visited; those in rest will be.                    *)
Queued(n) == \E i \in DOMAIN q : q[i].first = n

Closed ==
    Searching => \A n \in visited :
        \/ Queued(n)
        \/ /\ n # ask.to
           /\ \A m \in g[n] :
                 m \in visited \/ (pc = "scan" /\ n = front.first /\ m \in rest)

(* What is no farther than front has been visited. *)
Near ==
    pc = "scan" =>
        \A k \in 0 .. front.second : \A n \in DOMAIN g :
            Walk(g, ask.from, n, k) => n \in visited

(* The answer, with walks of any length. *)
Answered ==
    pc = "return" =>
        IF ask.from \notin DOMAIN g \/ ask.to \notin DOMAIN g
           THEN res = Pair(400, 0)
        ELSE \/ /\ res = Pair(204, 0)
                /\ \A k \in Nat : ~Walk(g, ask.from, ask.to, k)
             \/ /\ res = Pair(200, res.second)
                /\ res.second \in 0 .. Cardinality(DOMAIN g) - 1
                /\ Walk(g, ask.from, ask.to, res.second)
                /\ \A k \in 0 .. res.second - 1 : ~Walk(g, ask.from, ask.to, k)

QInv ==
    /\ StoreOK
    /\ SearchOK
    /\ AllExact
    /\ Levels
    /\ Closed
    /\ Near
    /\ Answered

----------------------------------------------------------------------------
(* Walks. *)

(* The walk of no edge leads from a node to itself. *)
LEMMA WalkOfNone ==
    ASSUME NEW h, NEW a, NEW b
    PROVE  /\ a \in DOMAIN h => Walk(h, a, a, 0)
           /\ Walk(h, a, b, 0) => a = b
  <1>1. ASSUME a \in DOMAIN h PROVE Walk(h, a, a, 0)
    <2>. DEFINE p == [i \in 0 .. 0 |-> a]
    <2>1. p \in [0 .. 0 -> DOMAIN h] /\ p[0] = a /\ \A i \in 1 .. 0 : p[i] \in h[p[i - 1]]
      BY <1>1
    <2>. HIDE DEF p
    <2>. QED BY <2>1 DEF Walk
  <1>2. Walk(h, a, b, 0) => a = b
    BY DEF Walk
  <1>. QED BY <1>1, <1>2

(* An edge at the end of a walk makes it one longer. *)
LEMMA WalkOn ==
    ASSUME NEW h, NEW a, NEW b, NEW k \in Nat, Walk(h, a, b, k),
           NEW c \in DOMAIN h, c \in h[b]
    PROVE  Walk(h, a, c, k + 1)
  <1>1. PICK p \in [0 .. k -> DOMAIN h] :
           p[0] = a /\ p[k] = b /\ \A i \in 1 .. k : p[i] \in h[p[i - 1]]
    BY DEF Walk
  <1>. DEFINE r == [i \in 0 .. k + 1 |-> IF i = k + 1 THEN c ELSE p[i]]
  <1>2. r \in [0 .. k + 1 -> DOMAIN h]
    BY <1>1
  <1>3. r[0] = a /\ r[k + 1] = c
    BY <1>1
  <1>4. ASSUME NEW i \in 1 .. k + 1
        PROVE  r[i] \in h[r[i - 1]]
    <2>1. CASE i = k + 1
      <3>1. r[i] = c /\ r[i - 1] = p[k]
        BY <2>1
      <3>. QED BY <1>1, <3>1
    <2>2. CASE i # k + 1
      <3>1. i \in 1 .. k /\ r[i] = p[i] /\ r[i - 1] = p[i - 1]
        BY <2>2
      <3>. QED BY <1>1, <3>1
    <2>. QED BY <2>1, <2>2
  <1>. HIDE DEF r
  <1>. QED BY <1>2, <1>3, <1>4 DEF Walk

(* A walk of k edges from a, and an edge to c. *)
WalkAndEdge(h, a, c, k) == \E b \in DOMAIN h : Walk(h, a, b, k) /\ c \in h[b]

(* A walk with an edge has one before its last edge. *)
LEMMA WalkBack ==
    ASSUME NEW h, NEW a, NEW c, NEW k \in Nat, Walk(h, a, c, k + 1)
    PROVE  WalkAndEdge(h, a, c, k)
  <1>1. PICK p \in [0 .. k + 1 -> DOMAIN h] :
           p[0] = a /\ p[k + 1] = c /\ \A i \in 1 .. k + 1 : p[i] \in h[p[i - 1]]
    BY DEF Walk
  <1>. DEFINE r == [i \in 0 .. k |-> p[i]]
  <1>2. r \in [0 .. k -> DOMAIN h] /\ r[0] = a /\ r[k] = p[k]
    BY <1>1
  <1>3. \A i \in 1 .. k : r[i] \in h[r[i - 1]]
    <2>. TAKE i \in 1 .. k
    <2>1. i \in 1 .. k + 1 /\ r[i] = p[i] /\ r[i - 1] = p[i - 1]
      OBVIOUS
    <2>. QED BY <1>1, <2>1
  <1>. HIDE DEF r
  <1>4. Walk(h, a, p[k], k)
    BY <1>2, <1>3 DEF Walk
  <1>5. k \in 0 .. k + 1 /\ k + 1 \in 1 .. k + 1 /\ (k + 1) - 1 = k
    OBVIOUS
  <1>6. p[k] \in DOMAIN h /\ c \in h[p[k]]
    BY <1>1, <1>5
  <1>. QED BY <1>4, <1>6 DEF WalkAndEdge

----------------------------------------------------------------------------
(* What the queue tells. *)

(* Outside the inner loop, everything nearer than the pairs in the queue,  *)
(* and everything as near as them, has been visited.                       *)
LEMMA NearVisited ==
    ASSUME StoreOK, SearchOK, AllExact, Closed, pc = "loop",
           NEW d \in Nat, \A i \in DOMAIN q : d <= q[i].second
    PROVE  \A k \in 0 .. d : \A n \in DOMAIN g :
              Walk(g, ask.from, n, k) => n \in visited
  <1>. DEFINE Visited(k) == \A n \in DOMAIN g : Walk(g, ask.from, n, k) => n \in visited
              S == {k \in Nat : k <= d => Visited(k)}
  <1>1. 0 \in S
    BY WalkOfNone DEF SearchOK, Searching
  <1>2. ASSUME NEW k \in S
        PROVE  k + 1 \in S
    <2>1. k \in Nat
      OBVIOUS
    <2>2. ASSUME k + 1 <= d, NEW n \in DOMAIN g, Walk(g, ask.from, n, k + 1)
          PROVE  n \in visited
      <3>1. PICK b \in DOMAIN g : Walk(g, ask.from, b, k) /\ n \in g[b]
        BY <2>1, <2>2, WalkBack DEF WalkAndEdge
      <3>2. b \in visited
        BY <2>1, <2>2, <3>1
      <3>3. ~Queued(b)
        <4>. SUFFICES ASSUME NEW i \in DOMAIN q, q[i].first = b
                      PROVE  FALSE
          BY DEF Queued
        <4>1. q[i].second \in Nat
          <5>1. q[i] \in QueuePair
            BY DEF SearchOK, Searching
          <5>. QED BY <5>1 DEF QueuePair
        <4>2. k \in 0 .. q[i].second - 1
          BY <2>1, <2>2, <4>1
        <4>. QED BY <3>1, <4>2 DEF AllExact, Searching, Exact
      <3>. QED BY <3>1, <3>2, <3>3 DEF Closed, Searching
    <2>. QED BY <2>1, <2>2
  <1>3. Nat \subseteq S
    <2>. HIDE DEF S
    <2>. QED BY <1>1, <1>2, NatInduct
  <1>. QED BY <1>3

(* Initially. *)
LEMMA InitQueries == Init => QInv
  <1>. SUFFICES ASSUME Init PROVE QInv
    OBVIOUS
  <1>0. PICK D \in SUBSET Id :
           g \in {[n \in D |-> {m \in D : {n, m} \in E}] : E \in SUBSET EdgesOver(D)}
    BY DEF Init, Called, Stores
  <1>1. PICK E \in SUBSET EdgesOver(D) : g = [n \in D |-> {m \in D : {n, m} \in E}]
    BY <1>0
  <1>2. DOMAIN g = D /\ \A n \in D : g[n] = {m \in D : {n, m} \in E}
    BY <1>1
  <1>3. IsFiniteSet(D)
    BY IdAssumption, FS_Subset
  <1>4. Irreflexive(g)
    <2>. SUFFICES ASSUME NEW n \in D, {n, n} \in E
                  PROVE  FALSE
      BY <1>2 DEF Irreflexive
    <2>1. PICK p \in D \X D : p[1] < p[2] /\ {n, n} = {p[1], p[2]}
      BY DEF EdgesOver
    <2>2. p[1] = n /\ p[2] = n
      BY <2>1
    <2>3. n \in Nat
      BY IdAssumption
    <2>. QED BY <2>1, <2>2, <2>3
  <1>5. Symmetric(g)
    <2>. SUFFICES ASSUME NEW n \in D, NEW m \in g[n]
                  PROVE  m \in D /\ n \in g[m]
      BY <1>2 DEF Symmetric
    <2>1. m \in D /\ {n, m} \in E
      BY <1>2
    <2>2. {m, n} = {n, m}
      OBVIOUS
    <2>3. {m, n} \in E
      BY <2>1, <2>2
    <2>. QED BY <1>2, <2>1, <2>3
  <1>6. StoreOK
    <2>1. g = [n \in DOMAIN g |-> g[n]]
      BY <1>1
    <2>2. \A n \in DOMAIN g : g[n] \subseteq DOMAIN g
      BY <1>2
    <2>. QED BY <1>2, <1>3, <1>4, <1>5, <2>1, <2>2 DEF StoreOK, Undirected
  <1>. QED BY <1>6 DEF Init, Called, QInv, SearchOK, AllExact, Levels, Closed, Near, Answered,
           Searching

(* The store is as it was. *)
LEMMA StoreStays ==
    ASSUME StoreOK, SearchOK, shortestPath
    PROVE  g' = g
  <1>1. ASSUME Pop PROVE g' = g
    <2>1. Head(q) = q[1] /\ 1 \in DOMAIN q
      BY <1>1 DEF Pop, SearchOK, Searching
    <2>2. Head(q).first \in DOMAIN g
      <3>1. q[1] \in QueuePair
        BY <1>1, <2>1 DEF Pop, SearchOK, Searching
      <3>. QED BY <2>1, <3>1 DEF QueuePair
    <2>3. \A n \in DOMAIN g : Assign(g, n, g[n]) = g
      BY DEF StoreOK, Assign
    <2>. QED BY <1>1, <2>2, <2>3 DEF Pop, At
  <1>. QED BY <1>1 DEF shortestPath, Missing, Start, Found, EndScan, NoPath, Scan

(* shortestPath is entered, and the first node queued. *)
LEMMA EnterKeeps ==
    ASSUME QInv, Missing \/ Start
    PROVE  QInv'
  <1>1. g' = g /\ ask' = ask /\ front' = front /\ rest' = rest
    BY DEF Missing, Start
  <1>2. StoreOK'
    BY <1>1 DEF QInv, StoreOK, Undirected, Irreflexive, Symmetric
  <1>3. CASE Missing
    <2>1. pc' = "return" /\ res' = Pair(400, 0)
      BY <1>3 DEF Missing, QInv, SearchOK, Pair
    <2>2. ask.from \notin DOMAIN g \/ ask.to \notin DOMAIN g
      BY <1>3 DEF Missing, BothPresent
    <2>. QED BY <1>1, <1>2, <2>1, <2>2
             DEF QInv, SearchOK, AllExact, Levels, Closed, Near, Answered, Searching
  <1>4. CASE Start
    <2>1. /\ pc = "call" /\ pc' = "loop" /\ res' = res
          /\ q' = <<Pair(ask.from, 0)>> /\ visited' = {ask.from}
          /\ ask.from \in DOMAIN g /\ ask.to \in DOMAIN g
      BY <1>4 DEF Start, BothPresent
    <2>2. DOMAIN q' = {1} /\ q'[1] = Pair(ask.from, 0)
      BY <2>1
    <2>3. Pair(ask.from, 0) \in QueuePair
      BY <2>1 DEF Pair, QueuePair
    <2>4. SearchOK'
      <3>1. q' \in Seq(QueuePair)
        BY <2>1, <2>3
      <3>2. QueuePair' = QueuePair
        BY <1>1 DEF QueuePair
      <3>. QED BY <1>1, <2>1, <3>1, <3>2 DEF QInv, SearchOK, Searching
    <2>5. Cardinality({ask.from}) = 1
      BY FS_Singleton
    <2>6. AllExact'
      <3>1. Exact(g, ask.from, {ask.from}, Pair(ask.from, 0))
        BY <2>1, <2>5, WalkOfNone DEF Exact, Pair
      <3>. QED BY <1>1, <2>1, <2>2, <3>1 DEF AllExact
    <2>7. Levels'
      BY <2>1, <2>2 DEF Levels, Pair
    <2>8. Closed'
      <3>1. \E i \in DOMAIN q' : q'[i].first = ask.from
        BY <2>2 DEF Pair
      <3>. QED BY <2>1, <3>1 DEF Closed, Queued
    <2>. QED BY <1>2, <2>1, <2>4, <2>6, <2>7, <2>8 DEF QInv, Near, Answered
  <1>. QED BY <1>3, <1>4

(* The search ends at its goal, or with an empty queue. *)
LEMMA AnswerKeeps ==
    ASSUME QInv, Found \/ NoPath
    PROVE  QInv'
  <1>1. /\ g' = g /\ ask' = ask /\ pc = "loop" /\ pc' = "return"
    BY DEF Found, NoPath
  <1>2. StoreOK'
    BY <1>1 DEF QInv, StoreOK, Undirected, Irreflexive, Symmetric
  <1>3. /\ ask.from \in DOMAIN g /\ ask.to \in DOMAIN g
        /\ visited \subseteq DOMAIN g /\ q \in Seq(QueuePair)
    BY <1>1 DEF QInv, SearchOK, Searching
  <1>4. Answered'
    <2>1. CASE Found
      <3>1. /\ q # <<>> /\ Head(q).first = ask.to
            /\ res' = Pair(200, Head(q).second)
        BY <2>1 DEF Found
      <3>2. 1 \in DOMAIN q /\ Head(q) = q[1] /\ q[1] \in QueuePair
        BY <1>3, <3>1
      <3>. DEFINE d == q[1].second
      <3>3. d \in Nat /\ q[1].first = ask.to /\ res' = Pair(200, d)
        BY <3>1, <3>2 DEF QueuePair
      <3>4. Exact(g, ask.from, visited, q[1])
        BY <1>1, <3>2 DEF QInv, AllExact, Searching
      <3>5. d < Cardinality(DOMAIN g)
        <4>1. IsFiniteSet(DOMAIN g)
          BY DEF QInv, StoreOK
        <4>2. Cardinality(visited) <= Cardinality(DOMAIN g) /\ IsFiniteSet(visited)
          BY <1>3, <4>1, FS_Subset
        <4>3. Cardinality(visited) \in Nat /\ Cardinality(DOMAIN g) \in Nat
          BY <4>1, <4>2, FS_CardinalityType
        <4>4. d < Cardinality(visited)
          BY <3>4 DEF Exact
        <4>. QED BY <3>3, <4>2, <4>3, <4>4
      <3>6. Cardinality(DOMAIN g) \in Nat
        BY FS_CardinalityType DEF QInv, StoreOK
      <3>7. /\ Walk(g, ask.from, ask.to, d)
            /\ \A k \in 0 .. d - 1 : ~Walk(g, ask.from, ask.to, k)
        BY <3>3, <3>4 DEF Exact
      <3>. HIDE DEF d
      <3>8. res'.second = d /\ d \in 0 .. Cardinality(DOMAIN g) - 1
        BY <3>3, <3>5, <3>6 DEF Pair
      <3>. QED BY <1>1, <1>3, <3>3, <3>7, <3>8 DEF Answered
    <2>2. CASE NoPath
      <3>1. q = <<>> /\ res' = Pair(204, 0)
        BY <1>1, <2>2 DEF NoPath, NoPathResult, QInv, SearchOK, Pair
      <3>2. DOMAIN q = {}
        BY <3>1
      <3>3. ask.to \notin visited
        BY <1>1, <3>2 DEF QInv, Closed, Queued, Searching
      <3>4. ASSUME NEW k \in Nat, Walk(g, ask.from, ask.to, k)
            PROVE  FALSE
        <4>1. \A i \in DOMAIN q : k <= q[i].second
          BY <3>2
        <4>2. k \in 0 .. k
          OBVIOUS
        <4>3. ask.to \in visited
          BY <1>1, <1>3, <3>4, <4>1, <4>2, NearVisited DEF QInv
        <4>. QED BY <3>3, <4>3
      <3>. QED BY <1>1, <1>3, <3>1, <3>4 DEF Answered
    <2>. QED BY <2>1, <2>2
  <1>. QED BY <1>1, <1>2, <1>4
           DEF QInv, SearchOK, AllExact, Levels, Closed, Near, Searching

(* A pair is popped: everything as near as its node has been visited. *)
LEMMA PopKeeps ==
    ASSUME QInv, Pop
    PROVE  QInv'
  <1>0. g' = g
    BY StoreStays DEF QInv, shortestPath
  <1>1. /\ ask' = ask /\ visited' = visited /\ res' = res
        /\ pc = "loop" /\ pc' = "scan" /\ q # <<>>
        /\ Head(q).first # ask.to /\ front' = Head(q) /\ q' = Tail(q)
        /\ rest' = At(g, front'.first)
    BY DEF Pop, Popped
  <1>2. StoreOK'
    BY <1>0 DEF QInv, StoreOK, Undirected, Irreflexive, Symmetric
  <1>3. /\ ask.from \in DOMAIN g /\ ask.to \in DOMAIN g /\ ask.from \in visited
        /\ visited \subseteq DOMAIN g /\ q \in Seq(QueuePair)
        /\ QueuePair' = QueuePair
    BY <1>0, <1>1 DEF QInv, SearchOK, Searching, QueuePair
  <1>4. /\ 1 \in DOMAIN q /\ Head(q) = q[1] /\ q[1] \in QueuePair
        /\ q' \in Seq(QueuePair) /\ Len(q') = Len(q) - 1
        /\ \A i \in DOMAIN q' : i + 1 \in DOMAIN q /\ q'[i] = q[i + 1]
    BY <1>1, <1>3
  <1>5. front' = q[1] /\ front'.first \in DOMAIN g /\ front'.second \in Nat
    BY <1>1, <1>4 DEF QueuePair
  <1>6. rest' = g[front'.first]
    BY <1>1, <1>5 DEF At
  <1>7. SearchOK'
    BY <1>0, <1>1, <1>3, <1>4, <1>5, <1>6 DEF QInv, SearchOK, Searching
  <1>8. AllExact'
    BY <1>0, <1>1, <1>4, <1>5 DEF QInv, AllExact, Searching
  <1>9. Levels'
    <2>1. \A i, j \in DOMAIN q :
             i <= j => q[i].second <= q[j].second /\ q[j].second <= q[i].second + 1
      BY <1>1 DEF QInv, Levels, Searching
    <2>2. \A i \in DOMAIN q' : i \in Nat /\ 1 <= i + 1
      BY <1>4
    <2>3. \A i, j \in DOMAIN q' : i <= j =>
             q'[i].second <= q'[j].second /\ q'[j].second <= q'[i].second + 1
      BY <1>4, <2>1, <2>2
    <2>4. \A i \in DOMAIN q' :
             front'.second <= q'[i].second /\ q'[i].second <= front'.second + 1
      BY <1>4, <1>5, <2>1, <2>2
    <2>. QED BY <2>3, <2>4 DEF Levels
  <1>10. Closed'
    <2>. SUFFICES ASSUME NEW n \in visited
                  PROVE  \/ \E i \in DOMAIN q' : q'[i].first = n
                         \/ /\ n # ask.to
                            /\ \A m \in g[n] : m \in visited \/ (n = front'.first /\ m \in rest')
      BY <1>0, <1>1 DEF Closed, Queued
    <2>1. CASE n = front'.first
      BY <1>1, <1>6, <2>1
    <2>2. CASE n # front'.first /\ Queued(n)
      <3>1. PICK i \in DOMAIN q : q[i].first = n
        BY <2>2 DEF Queued
      <3>2. i # 1
        BY <1>5, <2>2, <3>1
      <3>3. i - 1 \in DOMAIN q' /\ (i - 1) + 1 = i
        BY <1>3, <1>4, <3>2
      <3>. QED BY <1>4, <3>1, <3>3
    <2>3. CASE ~Queued(n)
      BY <1>1, <2>3 DEF QInv, Closed, Searching
    <2>. QED BY <2>1, <2>2, <2>3
  <1>11. Near'
    <2>. DEFINE d == q[1].second
    <2>1. d \in Nat /\ front'.second = d
      BY <1>5
    <2>2. \A i \in DOMAIN q : d <= q[i].second
      <3>1. \A i \in DOMAIN q : 1 <= i
        BY <1>3
      <3>. QED BY <1>1, <1>4, <3>1 DEF QInv, Levels, Searching
    <2>. HIDE DEF d
    <2>3. \A k \in 0 .. d : \A n \in DOMAIN g :
             Walk(g, ask.from, n, k) => n \in visited
      BY <1>1, <2>1, <2>2, NearVisited DEF QInv
    <2>. QED BY <1>0, <1>1, <2>1, <2>3 DEF Near
  <1>. QED BY <1>1, <1>2, <1>7, <1>8, <1>9, <1>10, <1>11 DEF QInv, Answered

(* A turn of the inner loop: a neighbour not visited yet is one edge       *)
(* farther than front, since all that is nearer has been visited.          *)
LEMMA ScanKeeps ==
    ASSUME QInv, NEW n \in rest, Scan(n)
    PROVE  QInv'
  <1>1. /\ g' = g /\ ask' = ask /\ front' = front /\ res' = res
        /\ pc = "scan" /\ pc' = "scan" /\ rest' = rest \ {n}
    BY DEF Scan
  <1>2. StoreOK'
    BY <1>1 DEF QInv, StoreOK, Undirected, Irreflexive, Symmetric
  <1>3. /\ ask.from \in DOMAIN g /\ ask.to \in DOMAIN g /\ ask.from \in visited
        /\ visited \subseteq DOMAIN g /\ q \in Seq(QueuePair)
        /\ front \in QueuePair /\ front.first # ask.to /\ rest \subseteq g[front.first]
        /\ QueuePair' = QueuePair
    BY <1>1 DEF QInv, SearchOK, Searching, QueuePair
  <1>. DEFINE d == front.second
  <1>4. /\ d \in Nat /\ front.first \in DOMAIN g
        /\ n \in DOMAIN g /\ n \in g[front.first]
    BY <1>3 DEF QueuePair, QInv, StoreOK
  <1>5. CASE n \in visited
    <2>1. visited' = visited /\ q' = q
      BY <1>5 DEF Scan, Seen
    <2>2. SearchOK'
      BY <1>1, <1>3, <2>1 DEF QInv, SearchOK, Searching
    <2>3. AllExact' /\ Levels' /\ Near'
      BY <1>1, <2>1 DEF QInv, AllExact, Levels, Near, Searching
    <2>4. Closed'
      BY <1>1, <1>5, <2>1 DEF QInv, Closed, Queued, Searching
    <2>. QED BY <1>1, <1>2, <2>2, <2>3, <2>4 DEF QInv, Answered
  <1>6. CASE n \notin visited
    <2>. DEFINE new == Pair(n, d + 1)
    <2>1. visited' = visited \cup {n} /\ q' = Append(q, new)
      BY <1>6 DEF Scan, Seen, Push, NextPair
    <2>2. new \in QueuePair /\ new.first = n /\ new.second = d + 1
      BY <1>4 DEF Pair, QueuePair
    <2>. HIDE DEF new
    <2>3. /\ q' \in Seq(QueuePair) /\ Len(q') = Len(q) + 1 /\ Len(q) \in Nat
          /\ q'[Len(q) + 1] = new
          /\ \A i \in DOMAIN q : i \in DOMAIN q' /\ q'[i] = q[i]
          /\ \A i \in DOMAIN q' : i \in DOMAIN q \/ i = Len(q) + 1
          /\ Len(q) + 1 \in DOMAIN q'
      BY <1>3, <2>1, <2>2
    <2>4. /\ IsFiniteSet(visited)
          /\ Cardinality(visited) \in Nat
          /\ Cardinality(visited \cup {n}) = Cardinality(visited) + 1
      <3>1. IsFiniteSet(visited)
        BY <1>3, FS_Subset DEF QInv, StoreOK
      <3>. QED BY <1>6, <3>1, FS_CardinalityType, FS_AddElement
    <2>5. SearchOK'
      BY <1>1, <1>3, <1>4, <2>1, <2>3 DEF QInv, SearchOK, Searching
    <2>6. Exact(g, ask.from, visited, front) /\ \A i \in DOMAIN q : Exact(g, ask.from, visited, q[i])
      BY <1>1 DEF QInv, AllExact, Searching
    <2>7. ASSUME NEW p \in QueuePair, Exact(g, ask.from, visited, p)
          PROVE  Exact(g, ask.from, visited \cup {n}, p)
      BY <2>4, <2>7 DEF Exact, QueuePair
    <2>8. Exact(g, ask.from, visited \cup {n}, new)
      <3>1. Walk(g, ask.from, n, d + 1)
        BY <1>4, <2>6, WalkOn DEF Exact
      <3>2. \A k \in 0 .. d : ~Walk(g, ask.from, n, k)
        BY <1>1, <1>4, <1>6 DEF QInv, Near
      <3>3. d + 1 < Cardinality(visited \cup {n})
        BY <1>4, <2>4, <2>6 DEF Exact
      <3>4. (d + 1) - 1 = d
        BY <1>4
      <3>. QED BY <2>2, <3>1, <3>2, <3>3, <3>4 DEF Exact
    <2>9. AllExact'
      <3>1. \A i \in DOMAIN q : q[i] \in QueuePair
        BY <1>3
      <3>2. \A i \in DOMAIN q' : Exact(g, ask.from, visited \cup {n}, q'[i])
        BY <2>3, <2>6, <2>7, <2>8, <3>1
      <3>3. Exact(g, ask.from, visited \cup {n}, front)
        BY <1>3, <2>6, <2>7
      <3>. QED BY <1>1, <2>1, <3>2, <3>3 DEF AllExact
    <2>10. Levels'
      <3>1. \A i \in DOMAIN q : q[i].second \in Nat /\ d <= q[i].second /\ q[i].second <= d + 1
        <4>1. \A i \in DOMAIN q : q[i] \in QueuePair
          BY <1>3
        <4>. QED BY <1>1, <4>1 DEF QInv, Levels, QueuePair
      <3>2. \A i, j \in DOMAIN q :
               i <= j => q[i].second <= q[j].second /\ q[j].second <= q[i].second + 1
        BY <1>1 DEF QInv, Levels, Searching
      <3>3. \A i \in DOMAIN q : i \in Nat /\ i <= Len(q)
        BY <1>3
      <3>4. ASSUME NEW i \in DOMAIN q', NEW j \in DOMAIN q', i <= j
            PROVE  q'[i].second <= q'[j].second /\ q'[j].second <= q'[i].second + 1
        <4>1. CASE i \in DOMAIN q /\ j \in DOMAIN q
          BY <2>3, <3>2, <3>4, <4>1
        <4>2. CASE i \in DOMAIN q /\ j = Len(q) + 1
          <5>1. q'[i].second = q[i].second /\ q'[j].second = d + 1
            BY <2>2, <2>3, <4>2
          <5>2. q[i].second \in Nat /\ d <= q[i].second /\ q[i].second <= d + 1
            BY <3>1, <4>2
          <5>. QED BY <1>4, <5>1, <5>2
        <4>3. CASE i = Len(q) + 1
          <5>1. j = i
            BY <2>3, <3>3, <3>4, <4>3
          <5>2. q'[i].second = d + 1
            BY <2>2, <2>3, <4>3
          <5>. QED BY <1>4, <5>1, <5>2
        <4>. QED BY <2>3, <4>1, <4>2, <4>3
      <3>5. ASSUME NEW i \in DOMAIN q'
            PROVE  d <= q'[i].second /\ q'[i].second <= d + 1
        BY <1>4, <2>2, <2>3, <3>1
      <3>. QED BY <1>1, <3>4, <3>5 DEF Levels
    <2>11. Closed'
      <3>. SUFFICES ASSUME NEW m \in visited'
                    PROVE  \/ \E i \in DOMAIN q' : q'[i].first = m
                           \/ /\ m # ask.to
                              /\ \A l \in g[m] : l \in visited' \/ (m = front.first /\ l \in rest')
        BY <1>1 DEF Closed, Queued
      <3>1. CASE m = n
        BY <2>2, <2>3, <3>1
      <3>2. CASE m # n
        <4>1. m \in visited
          BY <2>1, <3>2
        <4>2. CASE Queued(m)
          BY <2>3, <4>2 DEF Queued
        <4>3. CASE ~Queued(m)
          <5>1. /\ m # ask.to
                /\ \A l \in g[m] : l \in visited \/ (m = front.first /\ l \in rest)
            BY <1>1, <4>1, <4>3 DEF QInv, Closed, Searching
          <5>. QED BY <1>1, <2>1, <5>1
        <4>. QED BY <4>2, <4>3
      <3>. QED BY <3>1, <3>2
    <2>12. Near'
      BY <1>1, <2>1 DEF QInv, Near
    <2>. QED BY <1>1, <1>2, <2>5, <2>9, <2>10, <2>11, <2>12 DEF QInv, Answered
  <1>. QED BY <1>5, <1>6

(* All neighbours of front have been visited. *)
LEMMA EndScanKeeps ==
    ASSUME QInv, EndScan
    PROVE  QInv'
  <1>1. /\ UNCHANGED <<g, ask, q, visited, front, rest, res>>
        /\ pc = "scan" /\ pc' = "loop" /\ rest = {}
    BY DEF EndScan
  <1>2. StoreOK' /\ SearchOK'
    BY <1>1 DEF QInv, StoreOK, Undirected, Irreflexive, Symmetric, SearchOK, Searching, QueuePair
  <1>3. AllExact' /\ Levels' /\ Near' /\ Answered'
    BY <1>1 DEF QInv, AllExact, Levels, Near, Answered, Searching
  <1>4. Closed'
    BY <1>1 DEF QInv, Closed, Queued, Searching
  <1>. QED BY <1>2, <1>3, <1>4 DEF QInv

(* Every step of the search keeps the invariant. *)
LEMMA QueriesInvariance == Spec => []QInv
  <1>1. QInv /\ [shortestPath]_vars => QInv'
    <2>. SUFFICES ASSUME QInv, [shortestPath]_vars
                  PROVE  QInv'
      OBVIOUS
    <2>1. CASE shortestPath
      BY <2>1, EnterKeeps, AnswerKeeps, PopKeeps, ScanKeeps, EndScanKeeps DEF shortestPath
    <2>2. CASE UNCHANGED vars
      BY <2>2 DEF vars, QInv, StoreOK, Undirected, Irreflexive, Symmetric, SearchOK, QueuePair,
         AllExact, Levels, Closed, Queued, Near, Answered, Searching
    <2>. QED BY <2>1, <2>2
  <1>. QED BY <1>1, InitQueries, PTL DEF Spec

----------------------------------------------------------------------------
(* The search answers the least number of edges between the nodes, 204     *)
(* when no walk of any length leads from one to the other (Answered), and  *)
(* 400 when a node is missing: in every graph and order of traversal.      *)
THEOREM SearchFindsShortest == Spec => [](ShortestIsShortest /\ Answered)
  <1>1. QInv => ShortestIsShortest
    <2>. SUFFICES ASSUME QInv, pc = "return",
                         ask.from \in DOMAIN g, ask.to \in DOMAIN g
                  PROVE  LET ks == Lengths(g, ask.from, ask.to)
                         IN  IF ks = {} THEN res.first = 204
                             ELSE /\ res.first = 200
                                  /\ res.second \in ks
                                  /\ \A k \in ks : res.second <= k
      BY DEF ShortestIsShortest, QInv, Answered, Pair
    <2>. DEFINE ks == Lengths(g, ask.from, ask.to)
    <2>0. ks \subseteq Nat /\ \A k \in ks : Walk(g, ask.from, ask.to, k)
      BY DEF Lengths
    <2>1. CASE res = Pair(204, 0) /\ \A k \in Nat : ~Walk(g, ask.from, ask.to, k)
      <3>1. ks = {}
        BY <2>0, <2>1
      <3>. QED BY <2>1, <3>1 DEF Pair
    <2>2. CASE /\ res = Pair(200, res.second)
               /\ res.second \in 0 .. Cardinality(DOMAIN g) - 1
               /\ Walk(g, ask.from, ask.to, res.second)
               /\ \A k \in 0 .. res.second - 1 : ~Walk(g, ask.from, ask.to, k)
      <3>1. res.second \in ks
        BY <2>2 DEF Lengths
      <3>2. ASSUME NEW k \in ks PROVE res.second <= k
        <4>1. k \in Nat /\ res.second \in Nat /\ k \notin 0 .. res.second - 1
          BY <2>0, <2>2
        <4>. QED BY <4>1
      <3>3. res.first = 200
        BY <2>2 DEF Pair
      <3>. QED BY <3>1, <3>2, <3>3
    <2>. QED BY <2>1, <2>2 DEF QInv, Answered
  <1>2. QInv => Answered
    BY DEF QInv
  <1>. QED BY <1>1, <1>2, QueriesInvariance, PTL

(* getEdge, getNode, getNeighbors and the search tell the same story of    *)
(* every store: an edge is a path of length one, from either end.          *)
THEOREM QueriesTellTheSame == Spec => []QueriesAgree
  <1>1. QInv => QueriesAgree
    <2>. SUFFICES ASSUME QInv, pc = "return"
                  PROVE  QueriesAgree
      BY DEF QueriesAgree
    <2>. DEFINE a == ask.from
                b == ask.to
    <2>0. Undirected(g) /\ Answered
      BY DEF QInv, StoreOK
    <2>1. CASE a \notin DOMAIN g \/ b \notin DOMAIN g
      <3>1. res = Pair(400, 0)
        BY <2>0, <2>1 DEF Answered
      <3>. QED BY <2>1, <3>1 DEF QueriesAgree, getEdge, getNode, getNeighbors, Pair, Reply,
               ReplyOf, Body, NoBody
    <2>2. CASE a \in DOMAIN g /\ b \in DOMAIN g
      <3>1. b \in g[a] <=> a \in g[b]
        BY <2>0, <2>2 DEF Undirected, Symmetric
      <3>2. a \notin g[a]
        BY <2>0, <2>2 DEF Undirected, Irreflexive
      <3>3. Walk(g, a, b, 1) <=> b \in g[a]
        <4>1. ASSUME Walk(g, a, b, 1) PROVE b \in g[a]
          BY <4>1, WalkBack, WalkOfNone DEF WalkAndEdge
        <4>2. ASSUME b \in g[a] PROVE Walk(g, a, b, 0 + 1)
          <5>1. Walk(g, a, a, 0)
            BY <2>2, WalkOfNone
          <5>. QED BY <2>2, <4>2, <5>1, WalkOn
        <4>. QED BY <4>1, <4>2
      <3>4. Walk(g, a, b, 0) <=> a = b
        BY <2>2, WalkOfNone
      <3>5. res = Pair(200, 1) <=> b \in g[a]
        <4>1. CASE res = Pair(204, 0) /\ \A k \in Nat : ~Walk(g, a, b, k)
          BY <3>3, <4>1 DEF Pair
        <4>2. CASE /\ res = Pair(200, res.second)
                   /\ res.second \in 0 .. Cardinality(DOMAIN g) - 1
                   /\ Walk(g, a, b, res.second)
                   /\ \A k \in 0 .. res.second - 1 : ~Walk(g, a, b, k)
          <5>1. res.second \in Nat
            BY <4>2
          <5>2. ASSUME b \in g[a] PROVE res.second = 1
            <6>1. res.second # 0
              BY <3>2, <3>4, <4>2, <5>2
            <6>2. ~(1 \in 0 .. res.second - 1)
              BY <3>3, <4>2, <5>2
            <6>. QED BY <5>1, <6>1, <6>2
          <5>3. ASSUME res = Pair(200, 1) PROVE b \in g[a]
            BY <3>3, <4>2, <5>3 DEF Pair
          <5>. QED BY <4>2, <5>2, <5>3
        <4>. QED BY <2>0, <2>2, <4>1, <4>2 DEF Answered
      <3>6. res.first \in {200, 204}
        BY <2>0, <2>2 DEF Answered, Pair
      <3>. HIDE DEF a, b
      <3>7. getEdge(g, a, b) = Pair(200, IF b \in g[a] THEN 1 ELSE 0)
        BY <2>2 DEF getEdge
      <3>8. getEdge(g, b, a) = getEdge(g, a, b)
        BY <2>2, <3>1 DEF getEdge
      <3>9. /\ getNode(g, a) = Pair(200, 1) /\ getNode(g, b) = Pair(200, 1)
            /\ getNeighbors(g, a) = Pair(200, g[a])
        BY <2>2 DEF getNode, getNeighbors
      <3>10. Reply.body = NoBody <=> Reply.code # 200
        BY DEF Reply, ReplyOf, Body, NoBody
      <3>. QED BY <3>5, <3>6, <3>7, <3>8, <3>9, <3>10 DEF QueriesAgree, Pair, a, b
    <2>. QED BY <2>1, <2>2
  <1>. QED BY <1>1, QueriesInvariance, PTL

(* A query leaves the store alone: operator[] only meets nodes that exist. *)
THEOREM QueriesOnlyRead == Spec => QueryReadsOnly
  <1>1. QInv /\ [shortestPath]_vars => [g' = g]_vars
    BY StoreStays DEF QInv, vars
  <1>. QED BY <1>1, QueriesInvariance, PTL DEF Spec, QueryReadsOnly

=============================================================================
