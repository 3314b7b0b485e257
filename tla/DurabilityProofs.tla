-------------------------- MODULE DurabilityProofs --------------------------
(***************************************************************************)
(* The server implements DurableGraph: as long as none of the lapses of    *)
(* Durability happens, a restart rebuilds the graph clients were answered  *)
(* from, after any number of updates, checkpoints, crashes (in the middle  *)
(* of a block write, too) and restarts, on every device whose byte offsets *)
(* fit in 32 bits.                                                         *)
(***************************************************************************)
EXTENDS ServerLogProofs

----------------------------------------------------------------------------
(* Entries that did their work. *)

(* The entries s, executed on h, were all answered 200 and gave g. *)
Replays(h, s, g) ==
    /\ h \in GraphOver(Id) /\ Undirected(h)
    /\ g = Replayed(h, s, Len(s))
    /\ \A i \in 1 .. Len(s) :
          Execute(Replayed(h, s, i - 1), s[i]).status = 200

(* No entry at all gives the graph it started from. *)
LEMMA ReplaysNothing ==
    ASSUME NEW g \in GraphOver(Id), Undirected(g)
    PROVE  Replays(g, <<>>, g) /\ Replayed(g, <<>>, 0) = g
  <1>1. <<>> \in Seq(Entry) /\ Len(<<>>) = 0
    OBVIOUS
  <1>2. Replayed(g, <<>>, 0) = g
    BY <1>1, ReplayedZero
  <1> QED
    BY <1>1, <1>2 DEF Replays

(* t is s with the entry e after the others, and is executed like that. *)
Extends(t, s, e) == t = Append(s, e)

ReplaysOneMore(g, t, s, e) ==
    /\ Replayed(g, t, Len(t)) = Execute(Replayed(g, s, Len(s)), e).g
    /\ \A i \in 0 .. Len(s) : Replayed(g, t, i) = Replayed(g, s, i)

(* Executing a block with one entry more is executing that entry after. *)
LEMMA ReplayedAppend ==
    ASSUME NEW g \in GraphOver(Id), NEW s \in Seq(Entry), NEW e \in Entry,
           NEW t, Extends(t, s, e)
    PROVE  ReplaysOneMore(g, t, s, e)
  <1> DEFINE n == Len(s)
  <1>1. /\ t \in Seq(Entry) /\ n \in Nat /\ Len(t) = n + 1 /\ t[n + 1] = e
        /\ \A i \in 1 .. n : t[i] = s[i]
    BY DEF Extends
  <1>2. n + 1 \in 1 .. Len(t) /\ (n + 1) - 1 = n /\ n \in 0 .. Len(s)
    BY <1>1
  <1>3. \A i \in 0 .. n : Replayed(g, s, i) = Replayed(g, t, i)
    <2> TAKE i \in 0 .. n
    <2>1. \A j \in 1 .. i : s[j] = t[j]
      BY <1>1
    <2> QED
      BY <2>1, ReplayedAgree
  <1>4. Replayed(g, t, n + 1) = Execute(Replayed(g, t, n), t[n + 1]).g
    BY <1>1, <1>2, ReplayedNext
  <1>5. Replayed(g, t, n) = Replayed(g, s, n)
    BY <1>2, <1>3
  <1> QED
    BY <1>1, <1>3, <1>4, <1>5 DEF ReplaysOneMore

(* An entry that is answered 200 on top of others makes them one more. *)
LEMMA ReplaysAppend ==
    ASSUME NEW h, NEW g, NEW s \in Seq(Entry), NEW e \in Entry,
           Replays(h, s, g), Execute(g, e).status = 200
    PROVE  Replays(h, Append(s, e), Execute(g, e).g)
  <1> DEFINE t == Append(s, e)
             n == Len(s)
  <1>1. /\ n \in Nat /\ Len(t) = n + 1 /\ t[n + 1] = e
        /\ \A i \in 1 .. n : t[i] = s[i]
    OBVIOUS
  <1>2. h \in GraphOver(Id) /\ Undirected(h) /\ g = Replayed(h, s, n)
    BY DEF Replays
  <1>3. /\ Replayed(h, t, Len(t)) = Execute(Replayed(h, s, n), e).g
        /\ \A i \in 0 .. n : Replayed(h, t, i) = Replayed(h, s, i)
    <2>1. Extends(t, s, e)
      BY DEF Extends
    <2> HIDE DEF t
    <2>2. ReplaysOneMore(h, t, s, e)
      BY <1>2, <2>1, ReplayedAppend
    <2> QED
      BY <2>2 DEF ReplaysOneMore
  <1> HIDE DEF t
  <1>4. ASSUME NEW i \in 1 .. Len(t)
        PROVE  Execute(Replayed(h, t, i - 1), t[i]).status = 200
    <2>1. Replayed(h, t, i - 1) = Replayed(h, s, i - 1)
      BY <1>1, <1>3
    <2>2. CASE i = n + 1
      <3>1. i - 1 = n
        BY <1>1, <2>2
      <3> QED
        BY <1>1, <1>2, <2>1, <2>2, <3>1
    <2>3. CASE i # n + 1
      <3>1. i \in 1 .. n
        BY <1>1, <2>3
      <3> QED
        BY <1>1, <2>1, <3>1 DEF Replays
    <2> QED
      BY <2>2, <2>3
  <1> QED
    BY <1>2, <1>3, <1>4 DEF Replays, t

(* Executed once more, on the graph they gave, they change nothing: what   *)
(* one of them adds and g lacks, or removes and g has, a later one undid   *)
(* and undoes again.  The graph stays between the replay from h and g.     *)
LEMMA ReplaysAgain ==
    ASSUME NEW h, NEW g \in GraphOver(Id), Undirected(g),
           NEW s \in Seq(Entry), Replays(h, s, g)
    PROVE  Replayed(g, s, Len(s)) = g
  <1> DEFINE f(n) == Replayed(h, s, n)
             k(n) == Replayed(g, s, n)
             Reached(n) == /\ Undirected(f(n)) /\ Undirected(k(n))
                           /\ Between(k(n), f(n), g)
             S == {n \in Nat : n <= Len(s) => Reached(n)}
  <1>0. h \in GraphOver(Id) /\ Undirected(h) /\ Len(s) \in Nat
    BY DEF Replays
  <1>1. 0 \in S
    <2>1. f(0) = h /\ k(0) = g
      BY <1>0, ReplayedZero
    <2>2. Between(g, h, g)
      BY DEF Between
    <2> QED
      BY <1>0, <2>1, <2>2
  <1>2. ASSUME NEW n \in S PROVE n + 1 \in S
    <2>1. n \in Nat
      OBVIOUS
    <2>2. ASSUME n + 1 <= Len(s) PROVE Reached(n + 1)
      <3>0. n <= Len(s)
        BY <1>0, <2>1, <2>2
      <3>1. Undirected(f(n)) /\ Undirected(k(n)) /\ Between(k(n), f(n), g)
        BY <3>0
      <3> DEFINE m == n + 1
      <3>2. m \in 1 .. Len(s) /\ m - 1 = n
        BY <1>0, <2>1, <2>2
      <3>3. s[m] \in Entry
        BY <3>2
      <3> HIDE DEF m
      <3>4. s[m].opcode \in Opcodes
        BY <3>3 DEF Entry
      <3>5. f(m) = Execute(f(n), s[m]).g /\ k(m) = Execute(k(n), s[m]).g
        BY <1>0, <3>2, ReplayedNext
      <3>6. Execute(f(n), s[m]).status = 200
        BY <3>2 DEF Replays
      <3> HIDE DEF f, k
      <3>7. Between(Execute(k(n), s[m]).g, Execute(f(n), s[m]).g, g)
        BY <3>1, <3>4, <3>6, BetweenStep
      <3>8. Undirected(f(m)) /\ Undirected(k(m))
        BY <3>1, <3>4, <3>5, ExecuteUndirected
      <3>9. Reached(m)
        BY <3>5, <3>7, <3>8
      <3> QED
        BY <3>9 DEF m
    <2> QED
      BY <2>1, <2>2
  <1>3. Nat \subseteq S
    <2> HIDE DEF S
    <2> QED
      BY <1>1, <1>2, NatInduct
  <1>4. Between(k(Len(s)), f(Len(s)), g)
    BY <1>0, <1>3
  <1>5. f(Len(s)) = g
    BY DEF Replays
  <1>6. k(Len(s)) \in GraphOver(Id)
    <2>1. Len(s) \in 0 .. Len(s)
      BY <1>0
    <2> QED
      BY <2>1, ReplayedType
  <1> HIDE DEF f, k
  <1>7. k(Len(s)) = g
    BY <1>4, <1>5, <1>6, BetweenEnds
  <1> QED
    BY <1>7 DEF k

----------------------------------------------------------------------------
(* Devices and what a restart reads of them. *)

LiveCount(d) == Cardinality(LiveBlocks(d))

(* The live blocks are the first LiveCount blocks of the log, and the one  *)
(* after them, if there is one, is not live.                               *)
LEMMA LiveCountIs ==
    ASSUME NEW d
    PROVE  /\ LiveCount(d) \in 0 .. LogSize - 1
           /\ \A j \in 1 .. LiveCount(d) : IsLive(d, j)
           /\ LiveCount(d) + 1 < LogSize => ~IsLive(d, LiveCount(d) + 1)
  <1> DEFINE Run(k) == \A j \in LogStart .. k : IsLive(d, j)
             Stops(k) == k + 1 < LogSize => ~IsLive(d, k + 1)
             S == {n \in Nat : n <= LogSize - 1 =>
                      Run(n) \/ \E k \in 0 .. LogSize - 1 : Run(k) /\ Stops(k)}
  <1> USE LayoutAssumption
  <1>1. 0 \in S
    BY DEF LogStart
  <1>2. ASSUME NEW n \in S PROVE n + 1 \in S
    <2>1. n \in Nat
      OBVIOUS
    <2>2. ASSUME n + 1 <= LogSize - 1, Run(n)
          PROVE  Run(n + 1) \/ \E k \in 0 .. LogSize - 1 : Run(k) /\ Stops(k)
      <3>1. CASE IsLive(d, n + 1)
        <4>1. \A j \in 1 .. n + 1 : j \in 1 .. n \/ j = n + 1
          BY <2>1
        <4> QED
          BY <2>2, <3>1, <4>1 DEF LogStart
      <3>2. CASE ~IsLive(d, n + 1)
        <4>1. n \in 0 .. LogSize - 1 /\ Stops(n)
          BY <2>1, <2>2, <3>2
        <4> QED
          BY <2>2, <4>1
      <3> QED
        BY <3>1, <3>2
    <2> QED
      BY <2>1, <2>2
  <1>3. Nat \subseteq S
    <2> HIDE DEF S
    <2> QED
      BY <1>1, <1>2, NatInduct
  <1>4. PICK k \in 0 .. LogSize - 1 : Run(k) /\ Stops(k)
    <2>1. LogSize - 1 \in S
      BY <1>3
    <2>2. LogSize - 1 \in 0 .. LogSize - 1 /\ Stops(LogSize - 1)
      OBVIOUS
    <2> QED
      BY <2>1, <2>2
  <1>5. LiveCount(d) = k
    BY <1>4, LiveBlocksAre DEF LiveCount
  <1> QED
    BY <1>4, <1>5 DEF LogStart

(* No block behind the live ones is live. *)
Contiguous(d) ==
    \A b \in LogStart .. LogSize - 1 : IsLive(d, b) => b <= LiveCount(d)

(* A device with exactly k live blocks, the first ones. *)
LEMMA LiveCountFrom ==
    ASSUME NEW d, NEW k \in 0 .. LogSize - 1,
           \A b \in 1 .. LogSize - 1 : IsLive(d, b) <=> b <= k
    PROVE  LiveCount(d) = k /\ Contiguous(d)
  <1>1. \A j \in LogStart .. k : IsLive(d, j)
    BY LayoutAssumption DEF LogStart
  <1>2. k + 1 < LogSize => ~IsLive(d, k + 1)
    BY LayoutAssumption
  <1>3. LiveCount(d) = k
    BY <1>1, <1>2, LiveBlocksAre DEF LiveCount
  <1> QED
    BY <1>3 DEF Contiguous, LogStart

(* The live blocks are log blocks that hold entries. *)
LEMMA LiveEntries ==
    ASSUME NoWrap, NEW d, DeviceOK(d)
    PROVE  /\ LogBlocks(d, LiveCount(d))
           /\ \A i \in 1 .. LiveCount(d) : Entries(d, i) \in Seq(Entry)
  <1>1. /\ LiveCount(d) \in 0 .. LogSize - 1
        /\ \A j \in 1 .. LiveCount(d) : IsLive(d, j)
    BY LiveCountIs
  <1>2. LogBlocks(d, LiveCount(d))
    BY <1>1, LayoutAssumption DEF LogBlocks, IsLive
  <1>3. ASSUME NEW i \in 1 .. LiveCount(d) PROVE Entries(d, i) \in Seq(Entry)
    <2>1. i \in 1 .. LogSize - 1 /\ d[Addr(i)].kind = "log"
      BY <1>1, LayoutAssumption DEF IsLive
    <2> QED
      BY <2>1, EntriesType DEF DeviceOK
  <1> QED
    BY <1>2, <1>3

(* A restart rebuilds a graph over the ids. *)
LEMMA RecoveredType ==
    ASSUME NoWrap, NEW d, DeviceOK(d)
    PROVE  RecoveredFrom(d) \in GraphOver(Id)
  <1>1. LiveCount(d) \in Nat
    BY LiveCountIs, LayoutAssumption
  <1>2. LogThrough(d, LiveCount(d)) \in GraphOver(Id)
    BY <1>1, LiveEntries, LogThroughType
  <1>3. EmptyGraph \in GraphOver(Id)
    BY EmptyGraphOK
  <1> QED
    BY <1>2, <1>3 DEF RecoveredFrom, LiveCount

(* c and d agree on the first n blocks of the checkpoint area. *)
SameCheckpt(c, d, n) == \A a \in LogSize .. LogSize + n - 1 : c[a] = d[a]

(* Then their checkpoints agree that far. *)
LEMMA SameCheckptThrough ==
    ASSUME NoWrap, NEW c \in [Address -> Blocks],
           NEW d \in [Address -> Blocks],
           NEW n \in 0 .. DevBlocks - LogSize, SameCheckpt(c, d, n)
    PROVE  CheckptThrough(c, n) = CheckptThrough(d, n)
  <1>1. ASSUME NEW i \in 1 .. n PROVE Edges(c, i) = Edges(d, i)
    <2>1. i \in 1 .. DevBlocks - LogSize
      BY LayoutAssumption
    <2>2. Addr(LogSize + i - 1) = LogSize + i - 1
      BY <2>1, EdgesType
    <2>3. LogSize + i - 1 \in LogSize .. LogSize + n - 1
      BY LayoutAssumption
    <2> QED
      BY <2>2, <2>3 DEF SameCheckpt, Edges
  <1> QED
    BY <1>1, CheckptThroughAgree

(* Devices with the same checkpoint and the same live blocks rebuild the   *)
(* same graph.                                                             *)
LEMMA RecoveredAgree ==
    ASSUME NoWrap, NEW c, DeviceOK(c), NEW d, DeviceOK(d),
           d[0] = c[0],
           SameCheckpt(c, d, DevBlocks - LogSize),
           LiveCount(d) = LiveCount(c),
           \A i \in 1 .. LiveCount(c) : Entries(c, i) = Entries(d, i)
    PROVE  RecoveredFrom(d) = RecoveredFrom(c)
  <1> DEFINE k == LiveCount(c)
  <1>1. k \in Nat /\ LogBlocks(c, k)
    BY LiveCountIs, LiveEntries, LayoutAssumption
  <1>2. CheckptSize(d) = CheckptSize(c) /\ (HasSuper(d) <=> HasSuper(c))
    BY DEF CheckptSize, HasSuper
  <1> DEFINE n == CheckptSize(c)
  <1>3. n \in 0 .. DevBlocks - LogSize
    BY LayoutAssumption DEF DeviceOK
  <1>4. SameCheckpt(c, d, n)
    <2> SUFFICES ASSUME NEW a \in LogSize .. LogSize + n - 1
                 PROVE  a \in LogSize .. LogSize + (DevBlocks - LogSize) - 1
      BY DEF SameCheckpt
    <2> HIDE DEF n
    <2> QED
      BY <1>3, LayoutAssumption
  <1> HIDE DEF n
  <1>5. CheckptThrough(c, n) = CheckptThrough(d, n)
    BY <1>3, <1>4, SameCheckptThrough DEF DeviceOK
  <1>6. CheckptThrough(c, CheckptSize(c)) = CheckptThrough(d, CheckptSize(d))
    BY <1>2, <1>5 DEF n
  <1> HIDE DEF k
  <1>7. \A i \in 1 .. k : Entries(c, i) = Entries(d, i)
    BY DEF k
  <1>8. LogThrough(c, k) = LogThrough(d, k)
    BY <1>1, <1>6, <1>7, LogThroughAgree
  <1> QED
    BY <1>2, <1>8 DEF RecoveredFrom, LiveCount, k

----------------------------------------------------------------------------
(* The inductive invariant, in the parts the handlers keep. *)

(* Only checkpoint() writes to the checkpoint area. *)
CheckptAreaClean ==
    \A a \in LogSize .. DevBlocks - 1 : dev[a].kind \in {"checkpt", "blank"}

(* A server that takes requests appends behind the last live block, or to  *)
(* the last live block, whose entries cur_block holds, or (after play_log) *)
(* to the last live block with cur_block empty: the state in which an      *)
(* append would overwrite entries.                                         *)
TailKnown ==
    phase = "serve" =>
        \/ block_offset = LiveCount(dev) + 1
        \/ /\ block_offset = LiveCount(dev)
           /\ LiveCount(dev) >= LogStart
           /\ \/ cur_block = Entries(dev, LiveCount(dev))
              \/ cur_block = <<>> /\ Entries(dev, LiveCount(dev)) # <<>>

(* The entries of cur_block led to the graph.  They outlive a checkpoint,  *)
(* and are then written to the new log once more.                          *)
CurReplays ==
    phase \in {"serve", "checkpoint"} => \E h : Replays(h, cur_block, graph)

(* What a restart would rebuild while no checkpoint is being written, and  *)
(* in the middle of one as long as none of it can be read.                 *)
Kept == phase = "serve" => Recovered = graph

StoredUndirected == ~Serving => Undirected(Recovered)

(* The graph in the part of the checkpoint written so far, or in what      *)
(* checkpt_block and the first block hold when nothing is written yet.     *)
Pending ==
    IF todo # CheckptEntries(graph)
    THEN CheckptThrough(dev, block_offset - LogSize + 1)
    ELSE IF CheckptIsFull THEN CheckptThrough(dev, 1)
    ELSE Restored(EmptyGraph, checkpt_block, Len(checkpt_block))

(* The entry checkpoint() stores for an edge. *)
Pair(n, m) == IF n < m THEN <<n, m>> ELSE <<m, n>>

(* checkpt_block is the block at block_offset. *)
BlockInStep ==
    IF todo = CheckptEntries(graph)
    THEN block_offset = LogSize
    ELSE dev[block_offset] = CheckptBlock(checkpt_block)

(* The entries T not yet stored: nodes come before edges. *)
NodesFirst(g, T) ==
    /\ T \subseteq CheckptEntries(g)
    /\ (\E q \in T : q[1] = q[2]) =>
          \A p \in CheckptEntries(g) : p[1] # p[2] => p \in T

(* h has the nodes of g stored so far, each with its edges stored so far.  *)
(* Nodes still to be stored may be there with anything.                    *)
StoredPart(h, g, T) ==
    /\ h \in GraphOver(Id)
    /\ DOMAIN h \subseteq DOMAIN g
    /\ \A n \in DOMAIN g : <<n, n>> \notin T =>
          /\ n \in DOMAIN h
          /\ h[n] = {m \in g[n] : Pair(n, m) \notin T}

CheckptProgress ==
    phase = "checkpoint" =>
        /\ CheckptSize(dev) = 0 \/ todo = CheckptEntries(graph) =>
              Recovered = graph
        /\ NodesFirst(graph, todo)
        /\ StoredPart(Pending, graph, todo)
        /\ BlockInStep

DInv ==
    /\ CheckptAreaClean
    /\ Contiguous(dev)
    /\ TailKnown
    /\ CurReplays
    /\ Kept
    /\ GraphUndirected
    /\ StoredUndirected
    /\ CheckptProgress

(* The parts that only a running server's handlers are about. *)
LEMMA NotServing ==
    ASSUME ~Serving
    PROVE  TailKnown /\ CurReplays /\ Kept /\ GraphUndirected /\ CheckptProgress
  BY DEF Serving, TailKnown, CurReplays, Kept, GraphUndirected, CheckptProgress

(* A clean checkpoint area can be read. *)
LEMMA AreaReadable ==
    ASSUME NoWrap, IInv, CheckptAreaClean
    PROVE  CheckptReadable
  <1>1. CheckptSize(dev) \in Nat /\ LogSize + CheckptSize(dev) <= DevBlocks
    BY ServerDeviceOK DEF DeviceOK
  <1> SUFFICES ASSUME NEW i \in 0 .. CheckptSize(dev) - 1
               PROVE  dev[Addr(LogSize + i)].kind \in {"checkpt", "blank"}
    BY DEF CheckptReadable
  <1>2. LogSize + i \in LogSize .. DevBlocks - 1
    BY <1>1, LayoutAssumption
  <1>3. Addr(LogSize + i) = LogSize + i
    BY <1>2, LayoutAssumption, AddrOnDevice
  <1> QED
    BY <1>2, <1>3 DEF CheckptAreaClean

(* None of the lapses. *)
NoLapse ==
    /\ ~TailOverwritten /\ ~TailTorn /\ ~BlockSkipped /\ ~LogOverrun
    /\ ~CheckptStale /\ ~CheckptEmpty /\ ~CheckptCut

(* A step that may not be a lapse is a step without one. *)
LEMMA NoneAllowed ==
    ASSUME Allowed = {}, NextAllowed
    PROVE  Next /\ NoLapse
  <1>1. \A name \in LapseNames : ~Lapse(name)
    BY DEF NextAllowed
  <1>2. ~Lapse("tail") /\ ~Lapse("torn") /\ ~Lapse("skip") /\ ~Lapse("overrun")
    BY <1>1 DEF LapseNames
  <1>3. ~Lapse("stale") /\ ~Lapse("empty") /\ ~Lapse("cut")
    BY <1>1 DEF LapseNames
  <1>4. ~TailOverwritten /\ ~TailTorn /\ ~BlockSkipped /\ ~LogOverrun
    BY <1>2, Zenon DEF Lapse
  <1>5. ~CheckptStale /\ ~CheckptEmpty /\ ~CheckptCut
    BY <1>3, Zenon DEF Lapse
  <1> QED
    BY <1>4, <1>5 DEF NoLapse, NextAllowed

----------------------------------------------------------------------------
(* Steps that leave the device alone, and steps that write its superblock. *)

(* What the device holds does not change when nothing is written. *)
LEMMA DeviceSame ==
    ASSUME CheckptAreaClean, Contiguous(dev), UNCHANGED dev
    PROVE  CheckptAreaClean' /\ Contiguous(dev') /\ Recovered' = Recovered
  <1>1. CheckptAreaClean'
    BY DEF CheckptAreaClean
  <1> QED
    BY <1>1 DEF Recovered

(* The device after a step. *)
LEMMA NextDeviceOK ==
    ASSUME IInv'
    PROVE  DeviceOK(dev')
  <1>1. 0 \in Address /\ dev'[0] \in Blocks
    BY LayoutAssumption DEF IInv, TypeOK, Address
  <1> QED
    BY <1>1, BlockFields, LayoutAssumption
    DEF IInv, TypeOK, DeviceOK, CheckptSize, HasSuper, CheckptOnDevice,
        SuperIsValid

(* format, init_superblock and the end of checkpoint() leave a device      *)
(* without live blocks: a restart rebuilds what the checkpoint holds.      *)
LEMMA NewSuperBlock ==
    ASSUME NoWrap, IInv, CheckptAreaClean,
           format \/ init_superblock \/ checkpoint_end
    PROVE  /\ CheckptAreaClean' /\ Contiguous(dev') /\ LiveCount(dev') = 0
           /\ DeviceOK(dev') /\ HasSuper(dev') /\ dev'[0] = super_block'
           /\ \A a \in LogSize .. DevBlocks - 1 : dev'[a] = dev[a]
           /\ Recovered' = CheckptThrough(dev', CheckptSize(dev'))
  <1>1. /\ IInv'
        /\ \A i \in LogStart .. LogSize - 1 :
              ~(/\ dev'[i].kind = "log"
                /\ dev'[i].generation_num = dev'[0].generation_num)
    BY SuperWriters
  <1>2. DeviceOK(dev')
    BY <1>1, NextDeviceOK
  <1>3. \E sb : dev' = [dev EXCEPT ![0] = sb]
    BY DEF format, init_superblock, checkpoint_end, write_super_block
  <1>4. \A a \in LogSize .. DevBlocks - 1 : dev'[a] = dev[a]
    <2> SUFFICES ASSUME NEW a \in LogSize .. DevBlocks - 1
                 PROVE  dev'[a] = dev[a]
      OBVIOUS
    <2>1. a \in Address /\ a # 0 /\ dev \in [Address -> Blocks]
      BY LayoutAssumption DEF Address, IInv, TypeOK
    <2> QED
      BY <1>3, <2>1
  <1>5. CheckptAreaClean'
    BY <1>4 DEF CheckptAreaClean
  <1>6. phase' # "down"
    BY DEF format, init_superblock, checkpoint_end
  <1>7. dev'[0] = super_block' /\ HasSuper(dev')
    BY <1>1, <1>6 DEF IInv, TypeOK, SuperInStep, HasSuper
  <1>8. \A b \in 1 .. LogSize - 1 : ~IsLive(dev', b)
    <2> TAKE b \in 1 .. LogSize - 1
    <2>1. Addr(b) = b
      BY LayoutAssumption, AddrOnDevice
    <2>2. Generation(dev') = dev'[0].generation_num
      BY <1>7 DEF Generation
    <2> QED
      BY <1>1, <2>1, <2>2 DEF IsLive, LogStart
  <1>9. LiveCount(dev') = 0 /\ Contiguous(dev')
    <2>1. 0 \in 0 .. LogSize - 1
      BY LayoutAssumption
    <2>2. \A b \in 1 .. LogSize - 1 : IsLive(dev', b) <=> b <= 0
      BY <1>8
    <2> QED
      BY <2>1, <2>2, LiveCountFrom
  <1>10. Recovered' = CheckptThrough(dev', CheckptSize(dev'))
    <2>1. LogThrough(dev', 0) = CheckptThrough(dev', CheckptSize(dev'))
      BY <1>2, LogThroughZero
    <2> QED
      BY <1>7, <1>9, <2>1 DEF Recovered, RecoveredFrom, LiveCount
  <1> QED
    BY <1>2, <1>4, <1>5, <1>7, <1>9, <1>10

(* The first start of a device and its formatting: the empty graph. *)
LEMMA FreshStart ==
    ASSUME NoWrap, IInv, RecoveryInv, CheckptAreaClean,
           format \/ init_superblock
    PROVE  /\ DInv' /\ graph' = EmptyGraph /\ ~Serving /\ Serving'
           /\ init_superblock => Recovered = EmptyGraph
  <1>1. /\ phase = "down" /\ phase' = "serve" /\ graph' = graph
        /\ block_offset' = 1 /\ cur_block' = cur_block
    BY DEF format, init_superblock, LogStart
  <1>2. graph' = EmptyGraph /\ cur_block' = <<>>
    BY <1>1 DEF RecoveryInv, MemoryFresh
  <1>3. /\ CheckptAreaClean' /\ Contiguous(dev') /\ LiveCount(dev') = 0
        /\ DeviceOK(dev') /\ HasSuper(dev') /\ dev'[0] = super_block'
        /\ Recovered' = CheckptThrough(dev', CheckptSize(dev'))
    BY NewSuperBlock
  <1>4. CheckptSize(dev') = 0
    <2>1. super_block'.checkpoint_size = 0
      BY DEF format, init_superblock, write_super_block, Super
    <2> QED
      BY <1>3, <2>1 DEF CheckptSize
  <1>5. Recovered' = EmptyGraph
    BY <1>3, <1>4, CheckptThroughZero DEF DeviceOK
  <1>6. EmptyGraph \in GraphOver(Id) /\ Undirected(EmptyGraph)
    BY EmptyGraphOK
  <1>7. CurReplays'
    <2>1. Replays(EmptyGraph, <<>>, EmptyGraph)
      BY <1>6, ReplaysNothing
    <2> QED
      BY <1>2, <2>1 DEF CurReplays
  <1>8. TailKnown' /\ Kept' /\ GraphUndirected' /\ StoredUndirected'
    BY <1>1, <1>2, <1>3, <1>5, <1>6
    DEF TailKnown, Kept, GraphUndirected, StoredUndirected, Serving
  <1>9. CheckptProgress'
    BY <1>1 DEF CheckptProgress
  <1>10. init_superblock => Recovered = EmptyGraph
    BY DEF init_superblock, SuperIsValid, HasSuper, Recovered, RecoveredFrom
  <1> QED
    BY <1>1, <1>2, <1>3, <1>7, <1>8, <1>9, <1>10 DEF DInv, Serving

(* Recovery ends: the server takes requests on the graph the device holds. *)
LEMMA RecoveryEnds ==
    ASSUME NoWrap, IInv, RecoveryInv, DInv, play_done
    PROVE  DInv' /\ graph' = Recovered /\ ~Serving /\ Serving'
  <1> DEFINE k == LiveCount(dev)
  <1>1. /\ phase = "play" /\ phase' = "serve"
        /\ UNCHANGED <<dev, graph, cur_block>>
        /\ block_offset' = TailOffset
    BY DEF play_done
  <1>2. PlayProgress
    BY AreaReadable DEF RecoveryInv, DInv
  <1>3. graph = Recovered /\ scan.i - 1 = k
    BY <1>2, PlayDone DEF LiveCount
  <1>4. CheckptAreaClean' /\ Contiguous(dev') /\ Recovered' = Recovered
    BY <1>1, DeviceSame DEF DInv
  <1>5. cur_block = <<>>
    BY <1>1 DEF RecoveryInv, MemoryFresh
  <1>6. Undirected(graph)
    BY <1>1, <1>3 DEF DInv, StoredUndirected, Serving
  <1>7. CurReplays'
    <2>1. Replays(graph, <<>>, graph)
      BY <1>6, ReplaysNothing DEF IInv, TypeOK
    <2> QED
      BY <1>1, <1>5, <2>1 DEF CurReplays
  <1>8. TailKnown'
    <2>1. scan.i \in 1 .. LogSize /\ k = scan.i - 1
      BY <1>1, <1>3 DEF IInv, ScanInLog, LogStart
    <2>2. CASE 0 < scan.lastsize /\ scan.lastsize < EntriesPerBlock
      <3>1. block_offset' = k
        BY <1>1, <2>1, <2>2 DEF TailOffset
      <3>2. scan.i # 1 /\ scan.lastsize = Len(Entries(dev, scan.i - 1))
        BY <1>1, <1>2, <2>2 DEF PlayProgress, LogStart
      <3>3. k >= 1
        BY <2>1, <3>2
      <3>4. Entries(dev, k) # <<>>
        BY <2>1, <2>2, <3>2
      <3> QED
        BY <1>1, <1>5, <3>1, <3>3, <3>4 DEF TailKnown, LogStart
    <2>3. CASE ~(0 < scan.lastsize /\ scan.lastsize < EntriesPerBlock)
      <3>1. block_offset' = k + 1
        BY <1>1, <2>1, <2>3 DEF TailOffset
      <3> QED
        BY <1>1, <3>1 DEF TailKnown
    <2> QED
      BY <2>2, <2>3
  <1>9. Kept' /\ GraphUndirected' /\ StoredUndirected'
    BY <1>1, <1>3, <1>4, <1>6 DEF Kept, GraphUndirected, StoredUndirected, Serving
  <1>10. CheckptProgress'
    BY <1>1 DEF CheckptProgress
  <1> QED
    BY <1>1, <1>3, <1>4, <1>7, <1>8, <1>9, <1>10 DEF DInv, Serving

(* The other steps of recovery. *)
LEMMA Recovering ==
    ASSUME DInv, ~Serving, ~Serving', UNCHANGED dev
    PROVE  DInv' /\ Recovered' = Recovered
  <1>1. CheckptAreaClean' /\ Contiguous(dev') /\ Recovered' = Recovered
    BY DeviceSame DEF DInv
  <1>2. StoredUndirected'
    BY <1>1 DEF DInv, StoredUndirected
  <1>3. TailKnown' /\ CurReplays' /\ Kept' /\ GraphUndirected' /\ CheckptProgress'
    BY NotServing
    DEF Serving, TailKnown, CurReplays, Kept, GraphUndirected, CheckptProgress
  <1> QED
    BY <1>1, <1>2, <1>3 DEF DInv

----------------------------------------------------------------------------
(* Updates. *)

(* d is c with block o of the log rewritten. *)
Rewrites(c, d, o) ==
    /\ c \in [Address -> Blocks] /\ d \in [Address -> Blocks]
    /\ o \in LogStart .. LogSize - 1
    /\ \A a \in Address \ {o} : d[a] = c[a]

(* Everything but that block is read as before. *)
LEMMA RewriteKeeps ==
    ASSUME NoWrap, NEW c, NEW d, NEW o, Rewrites(c, d, o)
    PROVE  /\ c[0] = d[0] /\ Addr(o) = o
           /\ SameCheckpt(c, d, DevBlocks - LogSize)
           /\ \A b \in 1 .. LogSize - 1 : b # o =>
                 (IsLive(d, b) <=> IsLive(c, b)) /\ Entries(d, b) = Entries(c, b)
  <1>1. Addr(o) = o
    BY LayoutAssumption, AddrOnDevice DEF Rewrites, LogStart
  <1>2. c[0] = d[0]
    BY LayoutAssumption DEF Rewrites, LogStart, Address
  <1>3. SameCheckpt(c, d, DevBlocks - LogSize)
    <2> SUFFICES ASSUME NEW a \in LogSize .. LogSize + (DevBlocks - LogSize) - 1
                 PROVE  c[a] = d[a]
      BY DEF SameCheckpt
    <2>1. a \in Address /\ a # o
      BY LayoutAssumption DEF Address, Rewrites
    <2> QED
      BY <2>1 DEF Rewrites
  <1>4. ASSUME NEW b \in 1 .. LogSize - 1, b # o
        PROVE  (IsLive(d, b) <=> IsLive(c, b)) /\ Entries(d, b) = Entries(c, b)
    <2>1. Addr(b) = b /\ b \in Address
      BY LayoutAssumption, AddrOnDevice DEF Address
    <2>2. d[b] = c[b]
      BY <1>4, <2>1 DEF Rewrites
    <2> QED
      BY <1>2, <2>1, <2>2 DEF IsLive, Entries, Generation, HasSuper
  <1> QED
    BY <1>1, <1>2, <1>3, <1>4

(* Rewriting a block that is not live with one that is not: the log is     *)
(* played as before.                                                       *)
LEMMA RewriteDead ==
    ASSUME NoWrap, NEW c, DeviceOK(c), NEW d, DeviceOK(d), NEW o,
           Rewrites(c, d, o), Contiguous(c), ~IsLive(c, o), ~IsLive(d, o)
    PROVE  RecoveredFrom(d) = RecoveredFrom(c) /\ Contiguous(d)
  <1> DEFINE k == LiveCount(c)
  <1>1. /\ k \in 0 .. LogSize - 1
        /\ \A j \in 1 .. k : IsLive(c, j)
    BY LiveCountIs
  <1>2. \A b \in 1 .. LogSize - 1 : IsLive(d, b) <=> b <= k
    <2> TAKE b \in 1 .. LogSize - 1
    <2>1. IsLive(c, b) <=> b <= k
      BY <1>1 DEF Contiguous, LogStart
    <2>2. IsLive(d, b) <=> IsLive(c, b)
      BY RewriteKeeps
    <2> QED
      BY <2>1, <2>2
  <1>3. LiveCount(d) = k /\ Contiguous(d)
    BY <1>1, <1>2, LiveCountFrom
  <1>4. \A i \in 1 .. k : Entries(c, i) = Entries(d, i)
    <2> TAKE i \in 1 .. k
    <2>1. i \in 1 .. LogSize - 1 /\ i # o
      BY <1>1, LayoutAssumption
    <2> QED
      BY <2>1, RewriteKeeps
  <1>5. c[0] = d[0] /\ SameCheckpt(c, d, DevBlocks - LogSize)
    BY RewriteKeeps
  <1> QED
    BY <1>3, <1>4, <1>5, RecoveredAgree

(* Rewriting a block with a live one, the last or the one behind the last: *)
(* what is played then is the blocks in front of it and its new entries.   *)
LEMMA RewriteLive ==
    ASSUME NoWrap, NEW c, DeviceOK(c), NEW d, DeviceOK(d), NEW o,
           Rewrites(c, d, o), Contiguous(c), HasSuper(c), IsLive(d, o),
           o = LiveCount(c) \/ o = LiveCount(c) + 1
    PROVE  /\ LiveCount(d) = o /\ Contiguous(d)
           /\ LogThrough(c, o - 1) \in GraphOver(Id)
           /\ Entries(d, o) \in Seq(Entry)
           /\ RecoveredFrom(d) =
                 Replayed(LogThrough(c, o - 1), Entries(d, o),
                          Len(Entries(d, o)))
           /\ LogBlocks(c, o - 1)
  <1> DEFINE k == LiveCount(c)
  <1>1. /\ k \in 0 .. LogSize - 1
        /\ \A j \in 1 .. k : IsLive(c, j)
    BY LiveCountIs
  <1>2. o \in 1 .. LogSize - 1 /\ o - 1 \in Nat /\ o \in 0 .. LogSize - 1
    BY LayoutAssumption DEF Rewrites, LogStart
  <1>3. \A b \in 1 .. LogSize - 1 : IsLive(d, b) <=> b <= o
    <2> TAKE b \in 1 .. LogSize - 1
    <2>1. IsLive(c, b) <=> b <= k
      BY <1>1 DEF Contiguous, LogStart
    <2>2. b # o => (IsLive(d, b) <=> IsLive(c, b))
      BY RewriteKeeps
    <2> QED
      BY <1>1, <1>2, <2>1, <2>2
  <1>4. LiveCount(d) = o /\ Contiguous(d)
    BY <1>2, <1>3, LiveCountFrom
  <1>5. LogBlocks(d, o) /\ Entries(d, o) \in Seq(Entry)
    <2>1. o \in 1 .. o
      BY <1>2
    <2> QED
      BY <1>4, <2>1, LiveEntries
  <1>6. LogBlocks(c, o - 1)
    <2>1. \A i \in 1 .. o - 1 : i \in 1 .. k /\ i < LogSize
      BY <1>1, <1>2, LayoutAssumption
    <2> QED
      BY <1>1, <2>1 DEF LogBlocks, IsLive
  <1>7. LogThrough(c, o - 1) = LogThrough(d, o - 1)
    <2>1. \A i \in 1 .. o - 1 : Entries(c, i) = Entries(d, i)
      <3> TAKE i \in 1 .. o - 1
      <3>1. i \in 1 .. LogSize - 1 /\ i # o
        BY <1>2, LayoutAssumption
      <3> QED
        BY <3>1, RewriteKeeps
    <2>2. CheckptThrough(c, CheckptSize(c)) = CheckptThrough(d, CheckptSize(d))
      <3>1. c[0] = d[0] /\ SameCheckpt(c, d, DevBlocks - LogSize)
        BY RewriteKeeps
      <3>2. CheckptSize(d) = CheckptSize(c)
        BY <3>1 DEF CheckptSize, HasSuper
      <3> DEFINE n == CheckptSize(c)
      <3>3. n \in 0 .. DevBlocks - LogSize
        BY LayoutAssumption DEF DeviceOK
      <3> HIDE DEF n
      <3>4. SameCheckpt(c, d, n)
        BY <3>1, <3>3, LayoutAssumption DEF SameCheckpt
      <3>5. CheckptThrough(c, n) = CheckptThrough(d, n)
        BY <3>3, <3>4, SameCheckptThrough DEF DeviceOK
      <3> QED
        BY <3>2, <3>5 DEF n
    <2> DEFINE m == o - 1
    <2>3. m \in Nat /\ LogBlocks(c, m) /\ \A i \in 1 .. m : Entries(c, i) = Entries(d, i)
      BY <1>2, <1>6, <2>1
    <2> HIDE DEF m
    <2>4. LogThrough(c, m) = LogThrough(d, m)
      BY <2>2, <2>3, LogThroughAgree
    <2> QED
      BY <2>4 DEF m
  <1>8. LogThrough(c, o - 1) \in GraphOver(Id)
    BY <1>2, <1>6, LogThroughType
  <1>9. LogThrough(d, o) =
           Replayed(LogThrough(d, o - 1), Entries(d, o), Len(Entries(d, o)))
    <2>1. o \in Nat /\ o > 0
      BY <1>2
    <2> QED
      BY <1>5, <2>1, LogThroughNext
  <1>10. RecoveredFrom(d) = LogThrough(d, o)
    <2>1. HasSuper(d)
      BY RewriteKeeps DEF HasSuper
    <2> QED
      BY <1>4, <2>1 DEF RecoveredFrom, LiveCount
  <1> QED
    BY <1>4, <1>5, <1>6, <1>7, <1>8, <1>9, <1>10

(* Where an accepted update writes. *)
LEMMA AppendInLog ==
    ASSUME NoWrap, IInv, NEW e, Accepts(e)
    PROVE  /\ AppendOffset \in LogStart .. LogSize
           /\ AppendOffset \in {block_offset, block_offset + 1}
           /\ AppendOffset \in Address /\ Addr(AppendOffset) = AppendOffset
  <1>1. block_offset \in 1 .. LogSize - 1
    BY LayoutAssumption DEF Accepts, log_is_full, IInv, OffsetInArea, LogStart
  <1>2. AppendOffset \in 1 .. LogSize /\ AppendOffset \in {block_offset, block_offset + 1}
    BY <1>1, LayoutAssumption DEF AppendOffset
  <1>3. AppendOffset \in Address
    BY <1>2, LayoutAssumption DEF Address
  <1>4. Addr(AppendOffset) = AppendOffset
    BY <1>2, LayoutAssumption, AddrOnDevice
  <1> QED
    BY <1>2, <1>3, <1>4 DEF LogStart

(* Without an overrun and without a skipped block an update writes a live  *)
(* block: one of those there, or the next.                                 *)
LEMMA UpdateWrites ==
    ASSUME NoWrap, IInv, CheckptAreaClean, Contiguous(dev), NoLapse,
           NEW e \in Request, Update(e)
    PROVE  /\ Rewrites(dev, dev', AppendOffset)
           /\ IsLive(dev', AppendOffset)
           /\ Entries(dev', AppendOffset) = AppendBlock(e)
           /\ AppendOffset <= LiveCount(dev) + 1
           /\ CheckptAreaClean'
           /\ dev'[AppendOffset].kind = "log"
  <1> DEFINE o == AppendOffset
             b == LogBlock(super_block.generation_num, AppendBlock(e))
  <1>1. Accepts(e) /\ dev' = [dev EXCEPT ![Addr(o)] = b]
    BY DEF Update, add_log_entry
  <1>2. o \in 1 .. LogSize /\ o \in Address /\ Addr(o) = o
    BY <1>1, AppendInLog DEF LogStart
  <1>3. IInv' /\ dev'[0] = dev[0]
    BY UpdateIInv
  <1>4. /\ dev \in [Address -> Blocks] /\ dev' \in [Address -> Blocks]
        /\ LiveCount(dev) \in 0 .. LogSize - 1
    BY <1>3, LiveCountIs DEF IInv, TypeOK
  <1> HIDE DEF o
  <1>5. dev'[o] = b /\ \A a \in Address \ {o} : dev'[a] = dev[a]
    BY <1>1, <1>2, <1>4
  <1>6. /\ b.kind = "log" /\ b.generation_num = super_block.generation_num
        /\ b.entries = AppendBlock(e)
    BY DEF LogBlock
  <1> HIDE DEF b
  <1>7. o \in 1 .. LogSize - 1
    <2>1. ASSUME o = LogSize PROVE FALSE
      <3>1. dev[LogSize].kind \in {"checkpt", "blank"}
        BY LayoutAssumption DEF CheckptAreaClean
      <3>2. dev'[LogSize].kind = "log"
        BY <1>5, <1>6, <2>1
      <3> QED
        BY <3>1, <3>2 DEF NoLapse, LogOverrun
    <2> QED
      BY <1>2, <2>1, LayoutAssumption
  <1>8. Rewrites(dev, dev', o)
    BY <1>4, <1>5, <1>7 DEF Rewrites, LogStart
  <1>9. IsLive(dev', o)
    <2>1. Generation(dev') = super_block.generation_num
      <3>1. Generation(dev) = super_block.generation_num
        BY <1>1, SuperOnDevice DEF Accepts
      <3> QED
        BY <1>3, <3>1 DEF Generation, HasSuper
    <2> QED
      BY <1>2, <1>5, <1>6, <2>1 DEF IsLive
  <1>10. Entries(dev', o) = AppendBlock(e)
    BY <1>2, <1>5, <1>6 DEF Entries
  <1>11. o <= LiveCount(dev) + 1
    <2>1. CASE dev'[o] = dev[o]
      <3>1. IsLive(dev, o)
        BY <1>3, <1>9, <2>1, <1>2 DEF IsLive, Generation, HasSuper
      <3> QED
        BY <1>4, <1>7, <3>1, LayoutAssumption DEF Contiguous, LogStart
    <2>2. CASE dev'[o] # dev[o]
      <3>1. \A c \in 1 .. o - 1 : IsLive(dev, c)
        BY <1>5, <1>6, <1>7, <2>2 DEF NoLapse, BlockSkipped, LogStart
      <3>2. CASE o = 1
        BY <1>4, <3>2, LayoutAssumption
      <3>3. CASE o # 1
        <4>1. o - 1 \in 1 .. LogSize - 1 /\ o - 1 \in 1 .. o - 1
          BY <1>7, <3>3, LayoutAssumption
        <4>2. o - 1 <= LiveCount(dev)
          BY <3>1, <4>1 DEF Contiguous, LogStart
        <4> QED
          BY <1>4, <1>7, <4>2, LayoutAssumption
      <3> QED
        BY <3>2, <3>3
    <2> QED
      BY <2>1, <2>2
  <1>12. CheckptAreaClean'
    <2> SUFFICES ASSUME NEW a \in LogSize .. DevBlocks - 1
                 PROVE  dev'[a].kind \in {"checkpt", "blank"}
      BY DEF CheckptAreaClean
    <2>1. a \in Address \ {o}
      BY <1>7, LayoutAssumption DEF Address
    <2> QED
      BY <1>5, <2>1 DEF CheckptAreaClean
  <1> QED
    BY <1>5, <1>6, <1>8, <1>9, <1>10, <1>11, <1>12 DEF o

(* What add_log_entry appends to led to the graph, too, and changes        *)
(* nothing when it is executed on it.                                      *)
LEMMA AppendedTo ==
    ASSUME IInv, CurReplays, GraphUndirected, NEW e \in Request, Accepts(e)
    PROVE  \E h, s : /\ s \in Seq(Entry) /\ Replays(h, s, graph)
                     /\ AppendBlock(e) = Append(s, e)
                     /\ s = (IF CurIsFull THEN <<>> ELSE cur_block)
                     /\ Replayed(graph, s, Len(s)) = graph
  <1>1. /\ phase = "serve" /\ graph \in GraphOver(Id) /\ Undirected(graph)
        /\ cur_block \in Seq(Entry)
    BY DEF Accepts, IInv, TypeOK, GraphUndirected, Serving
  <1>2. CASE CurIsFull
    <2>1. AppendBlock(e) = Append(<<>>, e) /\ <<>> \in Seq(Entry)
      BY <1>2 DEF AppendBlock
    <2>2. Replays(graph, <<>>, graph) /\ Replayed(graph, <<>>, Len(<<>>)) = graph
      BY <1>1, <2>1, ReplaysNothing, ReplaysAgain
    <2> QED
      BY <1>2, <2>1, <2>2
  <1>3. CASE ~CurIsFull
    <2>1. AppendBlock(e) = Append(cur_block, e)
      BY <1>3 DEF AppendBlock
    <2>2. PICK h : Replays(h, cur_block, graph)
      BY <1>1 DEF CurReplays
    <2>3. Replayed(graph, cur_block, Len(cur_block)) = graph
      BY <1>1, <2>2, ReplaysAgain
    <2> QED
      BY <1>1, <1>3, <2>1, <2>2, <2>3
  <1> QED
    BY <1>2, <1>3

(* After an update a restart rebuilds the graph with the update. *)
LEMMA UpdateKept ==
    ASSUME NoWrap, IInv, DInv, NoLapse, NEW e \in Request, Update(e)
    PROVE  /\ Recovered' = Execute(graph, e).g
           /\ Contiguous(dev')
           /\ LiveCount(dev') = AppendOffset
  <1> DEFINE o == AppendOffset
             k == LiveCount(dev)
             t == AppendBlock(e)
  <1>0. /\ CheckptAreaClean /\ Contiguous(dev) /\ TailKnown /\ CurReplays
        /\ Kept /\ GraphUndirected
    BY DEF DInv
  <1>1. /\ Accepts(e) /\ phase = "serve" /\ e \in Entry
        /\ graph \in GraphOver(Id) /\ Execute(graph, e).status = 200
    BY RequestAssumption DEF Update, Accepts, IInv, TypeOK
  <1>2. /\ Rewrites(dev, dev', o) /\ IsLive(dev', o) /\ Entries(dev', o) = t
        /\ o <= k + 1 /\ dev'[o].kind = "log"
    BY <1>0, UpdateWrites
  <1>3. /\ o \in {block_offset, block_offset + 1} /\ o \in 1 .. LogSize
        /\ k \in 0 .. LogSize - 1 /\ (\A j \in 1 .. k : IsLive(dev, j))
    BY <1>1, AppendInLog, LiveCountIs DEF LogStart
  <1>4. DeviceOK(dev) /\ DeviceOK(dev') /\ HasSuper(dev)
    <2>1. IInv'
      BY UpdateIInv
    <2> QED
      BY <1>1, <2>1, ServerDeviceOK, NextDeviceOK, SuperOnDevice
  <1>5. graph = LogThrough(dev, k)
    BY <1>0, <1>1, <1>4 DEF Kept, Recovered, RecoveredFrom, LiveCount
  <1>6. PICK h, s : /\ s \in Seq(Entry) /\ Replays(h, s, graph)
                    /\ t = Append(s, e)
                    /\ s = (IF CurIsFull THEN <<>> ELSE cur_block)
                    /\ Replayed(graph, s, Len(s)) = graph
    BY <1>0, <1>1, AppendedTo
  <1> HIDE DEF o, k, t
  <1>7. CASE o = k + 1
    <2>1. /\ LiveCount(dev') = o /\ Contiguous(dev')
          /\ RecoveredFrom(dev') =
                Replayed(LogThrough(dev, o - 1), Entries(dev', o),
                         Len(Entries(dev', o)))
      BY <1>0, <1>2, <1>4, <1>7, RewriteLive DEF k
    <2>2. o - 1 = k
      BY <1>3, <1>7
    <2>3. RecoveredFrom(dev') = Replayed(graph, t, Len(t))
      BY <1>2, <1>5, <2>1, <2>2
    <2>4. Replayed(graph, t, Len(t)) = Execute(graph, e).g
      <3>1. s \in Seq(Entry) /\ Extends(t, s, e)
        BY <1>6 DEF Extends
      <3>2. ReplaysOneMore(graph, t, s, e)
        BY <1>1, <3>1, ReplayedAppend
      <3> QED
        BY <1>6, <3>2 DEF ReplaysOneMore
    <2> QED
      BY <2>1, <2>3, <2>4 DEF Recovered, o
  <1>8. CASE o # k + 1
    <2>1. /\ o = k /\ block_offset = k /\ ~CurIsFull
          /\ \/ cur_block = Entries(dev, k)
             \/ cur_block = <<>> /\ Entries(dev, k) # <<>>
      BY <1>0, <1>1, <1>2, <1>3, <1>8, LayoutAssumption
      DEF TailKnown, AppendOffset, o, k
    <2> DEFINE base == LogThrough(dev, o - 1)
               u == Entries(dev, o)
    <2>2. /\ LiveCount(dev') = o /\ Contiguous(dev')
          /\ base \in GraphOver(Id)
          /\ RecoveredFrom(dev') = Replayed(base, t, Len(t))
          /\ LogBlocks(dev, o - 1)
      BY <1>0, <1>2, <1>4, <2>1, RewriteLive DEF k
    <2>3. u \in Seq(Entry) /\ graph = Replayed(base, u, Len(u))
      <3>1. o \in Nat /\ o > 0 /\ o \in 1 .. k /\ LogBlocks(dev, k)
        BY <1>3, <1>4, <2>1, LiveEntries DEF k
      <3>2. LogThrough(dev, o) = Replayed(base, u, Len(u))
        BY <1>4, <2>1, <3>1, LogThroughNext
      <3> QED
        BY <1>4, <1>5, <2>1, <3>1, <3>2, LiveEntries DEF k
    <2>4. s = cur_block
      BY <1>6, <2>1
    <2>5. CASE cur_block = u
      <3> HIDE DEF base
      <3>1. s \in Seq(Entry) /\ Extends(t, s, e)
        BY <1>6 DEF Extends
      <3>2. ReplaysOneMore(base, t, s, e)
        BY <1>1, <2>2, <3>1, ReplayedAppend
      <3>3. s = u
        BY <2>4, <2>5
      <3> QED
        BY <2>2, <2>3, <3>2, <3>3 DEF ReplaysOneMore, Recovered, o
    <2>6. CASE cur_block # u
      <3>1. cur_block = <<>> /\ u # <<>> /\ t = <<e>>
        <4>1. cur_block = <<>> /\ u # <<>>
          BY <2>1, <2>6
        <4>2. t = Append(<<>>, e) /\ Append(<<>>, e) = <<e>>
          BY <1>6, <2>4, <4>1
        <4> QED
          BY <4>1, <4>2
      <3>2. u = <<e>>
        <4>1. IsLive(dev, o) /\ SuperIsValid /\ o \in LogStart .. LogSize - 1
          BY <1>2, <1>3, <1>4, <2>1 DEF HasSuper, SuperIsValid, Rewrites
        <4>2. Addr(o) = o
          BY <1>2, RewriteKeeps
        <4>3. u = dev[o].entries /\ t = dev'[o].entries
          BY <1>2, <4>2 DEF Entries
        <4>4. dev'[o] = dev[o] \/ IsPrefix(dev[o].entries, dev'[o].entries)
          BY <1>2, <4>1 DEF NoLapse, TailOverwritten
        <4>5. u = t \/ IsPrefix(u, <<e>>)
          BY <3>1, <4>3, <4>4
        <4> HIDE DEF u
        <4>6. ASSUME IsPrefix(u, <<e>>) PROVE u = <<e>>
          <5>1. /\ Len(u) <= Len(<<e>>)
                /\ \A i \in 1 .. Len(u) : u[i] = <<e>>[i]
            BY <4>6 DEF IsPrefix
          <5>2. Len(u) = 1 /\ u[1] = e
            BY <2>3, <3>1, <5>1
          <5> QED
            BY <2>3, <5>2
        <4> QED
          BY <3>1, <4>5, <4>6
      <3>3. graph = Execute(base, e).g
        <4> HIDE DEF base
        <4>1. <<>> \in Seq(Entry) /\ Extends(t, <<>>, e) /\ Len(<<>>) = 0
          BY <3>1 DEF Extends
        <4>2. ReplaysOneMore(base, t, <<>>, e)
          BY <1>1, <2>2, <4>1, ReplayedAppend
        <4>3. Replayed(base, <<>>, 0) = base
          BY <2>2, <4>1, ReplayedZero
        <4> QED
          BY <2>3, <3>1, <3>2, <4>1, <4>2, <4>3 DEF ReplaysOneMore
      <3>4. Execute(graph, e).status # 200
        BY <1>1, <3>3, ExecuteAgain DEF Entry
      <3> QED
        BY <1>1, <3>4
    <2> QED
      BY <2>5, <2>6
  <1> QED
    BY <1>7, <1>8

(* An accepted update keeps the whole invariant. *)
LEMMA UpdateKeeps ==
    ASSUME NoWrap, IInv, DInv, NoLapse, NEW e \in Request, Update(e)
    PROVE  DInv'
  <1> DEFINE o == AppendOffset
             t == AppendBlock(e)
  <1>0. /\ CheckptAreaClean /\ Contiguous(dev) /\ CurReplays
        /\ GraphUndirected
    BY DEF DInv
  <1>1. /\ Accepts(e) /\ phase = "serve" /\ phase' = "serve" /\ e \in Entry
        /\ graph' = Execute(graph, e).g /\ Execute(graph, e).status = 200
        /\ block_offset' = o /\ cur_block' = t /\ Undirected(graph)
    BY <1>0, RequestAssumption
    DEF Update, add_log_entry, Accepts, GraphUndirected, Serving
  <1>2. /\ Recovered' = Execute(graph, e).g /\ Contiguous(dev')
        /\ LiveCount(dev') = o
    BY UpdateKept
  <1>3. /\ CheckptAreaClean' /\ Entries(dev', o) = t
        /\ Rewrites(dev, dev', o)
    BY <1>0, UpdateWrites
  <1>4. Undirected(graph')
    BY <1>1, ExecuteUndirected DEF Entry
  <1>5. CurReplays'
    <2>1. PICK h, s : /\ s \in Seq(Entry) /\ Replays(h, s, graph)
                      /\ t = Append(s, e)
      BY <1>0, <1>1, AppendedTo
    <2>2. Replays(h, Append(s, e), Execute(graph, e).g)
      BY <1>1, <2>1, ReplaysAppend
    <2> QED
      BY <1>1, <2>1, <2>2 DEF CurReplays
  <1> HIDE DEF o, t
  <1>6. TailKnown'
    <2>1. o >= LogStart
      BY <1>3, LayoutAssumption DEF Rewrites, LogStart
    <2> QED
      BY <1>1, <1>2, <1>3, <2>1 DEF TailKnown
  <1>7. Kept' /\ GraphUndirected' /\ StoredUndirected'
    BY <1>1, <1>2, <1>4 DEF Kept, GraphUndirected, StoredUndirected, Serving
  <1>8. CheckptProgress'
    BY <1>1 DEF CheckptProgress
  <1> QED
    BY <1>2, <1>3, <1>5, <1>6, <1>7, <1>8 DEF DInv

----------------------------------------------------------------------------
(* The end of a process. *)

(* A write torn by it hits a block that is not live. *)
LEMMA TornKeeps ==
    ASSUME NoWrap, IInv, CheckptAreaClean, Contiguous(dev), NoLapse,
           NEW e \in Request, UpdateTorn(e)
    PROVE  CheckptAreaClean' /\ Contiguous(dev') /\ Recovered' = Recovered
  <1> DEFINE o == AppendOffset
  <1>1. /\ Accepts(e) /\ dev' = [dev EXCEPT ![Addr(o)] = Torn]
        /\ phase = "serve"
    BY DEF UpdateTorn, Accepts
  <1>2. o \in 1 .. LogSize /\ o \in Address /\ Addr(o) = o
    BY <1>1, AppendInLog DEF LogStart
  <1>3. IInv' /\ dev \in [Address -> Blocks] /\ dev' \in [Address -> Blocks]
    <2>1. IInv'
      BY DeathIInv
    <2> QED
      BY <2>1 DEF IInv, TypeOK
  <1> HIDE DEF o
  <1>4. dev'[o] = Torn /\ \A a \in Address \ {o} : dev'[a] = dev[a]
    BY <1>1, <1>2, <1>3
  <1>5. o \in 1 .. LogSize - 1
    <2>1. ASSUME o = LogSize PROVE FALSE
      <3>1. dev[LogSize].kind \in {"checkpt", "blank"}
        BY LayoutAssumption DEF CheckptAreaClean
      <3>2. dev'[LogSize].kind = "torn"
        BY <1>4, <2>1 DEF Torn
      <3> QED
        BY <3>1, <3>2 DEF NoLapse, LogOverrun
    <2> QED
      BY <1>2, <2>1, LayoutAssumption
  <1>6. Rewrites(dev, dev', o)
    BY <1>3, <1>4, <1>5 DEF Rewrites, LogStart
  <1>7. ~IsLive(dev, o)
    <2>1. SuperIsValid
      BY <1>1, SuperOnDevice
    <2> QED
      BY <1>4, <1>5, <2>1 DEF NoLapse, TailTorn, LogStart
  <1>8. ~IsLive(dev', o)
    BY <1>2, <1>4 DEF IsLive, Torn
  <1>9. Recovered' = Recovered /\ Contiguous(dev')
    <2>1. DeviceOK(dev) /\ DeviceOK(dev')
      BY <1>3, ServerDeviceOK, NextDeviceOK
    <2>2. RecoveredFrom(dev') = RecoveredFrom(dev) /\ Contiguous(dev')
      BY <1>6, <1>7, <1>8, <2>1, RewriteDead
    <2> QED
      BY <2>2 DEF Recovered
  <1>10. CheckptAreaClean'
    <2> SUFFICES ASSUME NEW a \in LogSize .. DevBlocks - 1
                 PROVE  dev'[a].kind \in {"checkpt", "blank"}
      BY DEF CheckptAreaClean
    <2>1. a \in Address \ {o}
      BY <1>5, LayoutAssumption DEF Address
    <2> QED
      BY <1>4, <2>1 DEF CheckptAreaClean
  <1> QED
    BY <1>9, <1>10

(* Whenever a server dies, in the middle of a checkpoint or of an append,  *)
(* too, the device holds the graph it answered from.                       *)
LEMMA Dies ==
    ASSUME NoWrap, IInv, DInv, NoLapse,
           Crash \/ checkpt_beyond_device \/ \E e \in Request : UpdateTorn(e)
    PROVE  /\ DInv' /\ ~Serving'
           /\ Recovered' = IF Serving THEN graph ELSE Recovered
  <1>0. CheckptAreaClean /\ Contiguous(dev)
    BY DEF DInv
  <1>1. phase' = "down" /\ ~Serving'
    BY DEF Crash, checkpt_beyond_device, UpdateTorn, PowerOff, Serving
  <1>2. /\ CheckptAreaClean' /\ Contiguous(dev')
        /\ Recovered' = Recovered
    <2>1. CASE Crash \/ checkpt_beyond_device
      <3>1. UNCHANGED dev
        BY <2>1 DEF Crash, checkpt_beyond_device
      <3> QED
        BY <1>0, <3>1, DeviceSame
    <2>2. CASE \E e \in Request : UpdateTorn(e)
      BY <1>0, <2>2, TornKeeps
    <2> QED
      BY <2>1, <2>2
  <1>3. Serving => Recovered = graph
    <2>1. CASE phase = "serve"
      BY <2>1 DEF DInv, Kept
    <2>2. CASE phase = "checkpoint"
      <3>1. ~(CheckptSize(dev) > 0) \/ todo = CheckptEntries(graph)
        BY <1>1, <2>2 DEF NoLapse, CheckptCut
      <3>2. CheckptSize(dev) \in Nat
        BY ServerDeviceOK DEF DeviceOK
      <3>3. CheckptSize(dev) = 0 \/ todo = CheckptEntries(graph)
        BY <3>1, <3>2
      <3> QED
        BY <2>2, <3>3 DEF DInv, CheckptProgress
    <2> QED
      BY <2>1, <2>2 DEF Serving
  <1>4. Undirected(Recovered)
    <2>1. CASE Serving
      BY <1>3, <2>1 DEF DInv, GraphUndirected
    <2>2. CASE ~Serving
      BY <2>2 DEF DInv, StoredUndirected
    <2> QED
      BY <2>1, <2>2
  <1>5. StoredUndirected'
    BY <1>2, <1>4 DEF StoredUndirected
  <1>6. TailKnown' /\ CurReplays' /\ Kept' /\ GraphUndirected' /\ CheckptProgress'
    BY <1>1 DEF Serving, TailKnown, CurReplays, Kept, GraphUndirected, CheckptProgress
  <1> QED
    BY <1>1, <1>2, <1>3, <1>5, <1>6 DEF DInv

----------------------------------------------------------------------------
(* checkpoint(). *)

(* Restoring entries adds no node but their ends. *)
LEMMA RestoredDomain ==
    ASSUME NEW s \in Seq(Id \X Id), NEW D,
           \A i \in 1 .. Len(s) : s[i][1] \in D /\ s[i][2] \in D
    PROVE  DOMAIN Restored(EmptyGraph, s, Len(s)) \subseteq D
  <1> DEFINE r(n) == Restored(EmptyGraph, s, n)
             S == {n \in Nat : n <= Len(s) => DOMAIN r(n) \subseteq D}
  <1>0. EmptyGraph \in GraphOver(Id) /\ Len(s) \in Nat
    BY EmptyGraphOK
  <1>1. 0 \in S
    <2>1. r(0) = EmptyGraph
      BY <1>0, RestoredZero
    <2> QED
      BY <2>1 DEF EmptyGraph
  <1>2. ASSUME NEW n \in S PROVE n + 1 \in S
    <2>1. n \in Nat
      OBVIOUS
    <2>2. ASSUME n + 1 <= Len(s) PROVE DOMAIN r(n + 1) \subseteq D
      <3> DEFINE m == n + 1
      <3>1. m \in 1 .. Len(s) /\ m - 1 = n /\ n <= Len(s)
        BY <1>0, <2>1, <2>2
      <3>2. s[m][1] \in D /\ s[m][2] \in D
        BY <3>1
      <3> HIDE DEF m
      <3>3. r(m) = Restore(r(n), s[m])
        BY <1>0, <3>1, RestoredNext
      <3>4. DOMAIN r(n) \subseteq D
        BY <3>1
      <3> HIDE DEF r
      <3>5. DOMAIN Restore(r(n), s[m]) \subseteq D
        BY <3>2, <3>4 DEF Restore, Insert, Assign
      <3> QED
        BY <3>3, <3>5 DEF m
    <2> QED
      BY <2>1, <2>2
  <1>3. Nat \subseteq S
    <2> HIDE DEF S
    <2> QED
      BY <1>1, <1>2, NatInduct
  <1> QED
    BY <1>0, <1>3

(* The first block of the checkpoint area. *)
LEMMA FirstCheckptBlock ==
    ASSUME NoWrap, NEW d \in [Address -> Blocks]
    PROVE  /\ Edges(d, 1) \in Seq(Id \X Id)
           /\ CheckptThrough(d, 1) =
                 Restored(EmptyGraph, Edges(d, 1), Len(Edges(d, 1)))
           /\ Edges(d, 1) = IF d[LogSize].kind = "checkpt"
                            THEN d[LogSize].edges ELSE <<>>
           /\ 1 \in 0 .. DevBlocks - LogSize
  <1>1. 1 \in 1 .. DevBlocks - LogSize /\ 1 - 1 = 0 /\ LogSize + 1 - 1 = LogSize
    BY LayoutAssumption
  <1>2. Edges(d, 1) \in Seq(Id \X Id) /\ Addr(LogSize) = LogSize
    BY <1>1, EdgesType
  <1>3. CheckptThrough(d, 1) =
           Restored(CheckptThrough(d, 0), Edges(d, 1), Len(Edges(d, 1)))
    BY <1>1, CheckptThroughNext
  <1>4. CheckptThrough(d, 0) = EmptyGraph
    BY CheckptThroughZero
  <1>5. Edges(d, 1) = IF d[LogSize].kind = "checkpt"
                      THEN d[LogSize].edges ELSE <<>>
    BY <1>1, <1>2 DEF Edges
  <1> QED
    BY <1>1, <1>2, <1>3, <1>4, <1>5

(* A checkpoint begins: what it appends to are nodes of the graph. *)
LEMMA CheckpointBegins ==
    ASSUME NoWrap, IInv, DInv, NoLapse, checkpoint_begin
    PROVE  DInv'
  <1>1. /\ phase = "serve" /\ phase' = "checkpoint"
        /\ UNCHANGED <<dev, graph, cur_block, checkpt_block>>
        /\ todo' = CheckptEntries(graph) /\ block_offset' = LogSize
    BY DEF checkpoint_begin
  <1>2. /\ dev \in [Address -> Blocks] /\ checkpt_block \in Seq(Id \X Id)
        /\ graph \in GraphOver(Id)
    BY DEF IInv, TypeOK
  <1>3. CheckptAreaClean' /\ Contiguous(dev') /\ Recovered' = Recovered
    BY <1>1, DeviceSame DEF DInv
  <1>4. CurReplays'
    BY <1>1 DEF DInv, CurReplays
  <1>5. TailKnown' /\ Kept' /\ GraphUndirected' /\ StoredUndirected'
    BY <1>1 DEF DInv, TailKnown, Kept, GraphUndirected, StoredUndirected, Serving
  <1>6. \A p \in LeftOver : p[1] \in DOMAIN graph /\ p[2] \in DOMAIN graph
    BY <1>1 DEF NoLapse, CheckptStale
  <1>7. /\ Pending' \in GraphOver(Id)
        /\ DOMAIN Pending' \subseteq DOMAIN graph
    <2>1. CASE CheckptIsFull
      <3>1. Pending' = CheckptThrough(dev, 1)
        BY <1>1, <2>1 DEF Pending, CheckptIsFull
      <3> DEFINE s == Edges(dev, 1)
      <3>2. /\ s \in Seq(Id \X Id) /\ 1 \in 0 .. DevBlocks - LogSize
            /\ CheckptThrough(dev, 1) = Restored(EmptyGraph, s, Len(s))
            /\ s = IF dev[LogSize].kind = "checkpt"
                   THEN dev[LogSize].edges ELSE <<>>
        BY <1>2, FirstCheckptBlock
      <3>3. ASSUME NEW i \in 1 .. Len(s)
            PROVE  s[i][1] \in DOMAIN graph /\ s[i][2] \in DOMAIN graph
        <4> HIDE DEF s
        <4>1. dev[LogSize].kind = "checkpt" /\ s = dev[LogSize].edges
          BY <3>2
        <4>2. i \in DOMAIN dev[LogSize].edges
          BY <3>2, <4>1
        <4>3. s[i] \in LeftOver
          BY <2>1, <4>1, <4>2 DEF LeftOver, Range
        <4> QED
          BY <1>6, <4>3
      <3> HIDE DEF s
      <3>4. DOMAIN Restored(EmptyGraph, s, Len(s)) \subseteq DOMAIN graph
        BY <3>2, <3>3, RestoredDomain
      <3>5. CheckptThrough(dev, 1) \in GraphOver(Id)
        BY <1>2, <3>2, CheckptThroughType
      <3> QED
        BY <3>1, <3>2, <3>4, <3>5
    <2>2. CASE ~CheckptIsFull
      <3> DEFINE s == checkpt_block
      <3>1. Pending' = Restored(EmptyGraph, s, Len(s))
        BY <1>1, <2>2 DEF Pending, CheckptIsFull
      <3>2. ASSUME NEW i \in 1 .. Len(s)
            PROVE  s[i][1] \in DOMAIN graph /\ s[i][2] \in DOMAIN graph
        <4>1. i \in DOMAIN checkpt_block
          BY <1>2
        <4>2. s[i] \in LeftOver
          BY <4>1 DEF LeftOver, Range
        <4> QED
          BY <1>6, <4>2
      <3>3. DOMAIN Restored(EmptyGraph, s, Len(s)) \subseteq DOMAIN graph
        BY <1>2, <3>2, RestoredDomain
      <3>4. Restored(EmptyGraph, s, Len(s)) \in GraphOver(Id)
        <4>1. EmptyGraph \in GraphOver(Id) /\ Len(s) \in 0 .. Len(s)
          BY <1>2, EmptyGraphOK
        <4> QED
          BY <1>2, <4>1, RestoredType
      <3> QED
        BY <3>1, <3>3, <3>4
    <2> QED
      BY <2>1, <2>2
  <1>8. StoredPart(Pending', graph', todo')
    <2>1. \A n \in DOMAIN graph : <<n, n>> \in todo'
      BY <1>1 DEF CheckptEntries
    <2> QED
      BY <1>1, <1>7, <2>1 DEF StoredPart
  <1>9. NodesFirst(graph', todo') /\ BlockInStep'
    BY <1>1 DEF NodesFirst, BlockInStep
  <1>10. Recovered' = graph'
    BY <1>1, <1>3 DEF DInv, Kept
  <1>11. CheckptProgress'
    BY <1>8, <1>9, <1>10 DEF CheckptProgress
  <1> QED
    BY <1>3, <1>4, <1>5, <1>11 DEF DInv

(* A node is stored, with no edge: its edges are all still to come. *)
LEMMA StoreNode ==
    ASSUME NEW g \in GraphOver(Id), Undirected(g), NEW h, NEW T,
           StoredPart(h, g, T), NodesFirst(g, T),
           NEW a, <<a, a>> \in T
    PROVE  StoredPart(Restore(h, <<a, a>>), g, T \ {<<a, a>>})
  <1>1. a \in DOMAIN g
    BY DEF NodesFirst, CheckptEntries
  <1>2. a \in Id
    BY <1>1, GraphOverMeaning
  <1>3. Restore(h, <<a, a>>) = Assign(h, a, {})
    BY DEF Restore
  <1> DEFINE k == Assign(h, a, {})
  <1>4. k \in GraphOver(Id) /\ DOMAIN k \subseteq DOMAIN g
    BY <1>1, <1>2, AssignType DEF StoredPart, Assign
  <1>5. ASSUME NEW n \in DOMAIN g, <<n, n>> \notin T \ {<<a, a>>}
        PROVE  /\ n \in DOMAIN k
               /\ k[n] = {m \in g[n] : Pair(n, m) \notin T \ {<<a, a>>}}
    <2>0. \A m \in g[n] : Pair(n, m) # <<a, a>>
      BY DEF Undirected, Irreflexive, Pair
    <2>1. CASE n = a
      <3>1. n \in DOMAIN k /\ k[n] = {}
        BY <2>1 DEF Assign
      <3>2. ASSUME NEW m \in g[n] PROVE Pair(n, m) \in T
        <4>1. m \in DOMAIN g /\ n \in g[m] /\ m # n
          BY DEF Undirected, Symmetric, Irreflexive
        <4>2. n \in Int /\ m \in Int
          BY <4>1, GraphOverMeaning, IdAssumption
        <4>3. Pair(n, m) \in CheckptEntries(g)
          BY <4>1, <4>2 DEF Pair, CheckptEntries
        <4>4. Pair(n, m)[1] # Pair(n, m)[2]
          BY <4>1 DEF Pair
        <4> QED
          BY <4>3, <4>4 DEF NodesFirst
      <3> QED
        BY <2>0, <3>1, <3>2
    <2>2. CASE n # a
      <3>1. <<n, n>> \notin T
        BY <1>5, <2>2
      <3>2. n \in DOMAIN h /\ h[n] = {m \in g[n] : Pair(n, m) \notin T}
        BY <3>1 DEF StoredPart
      <3>3. n \in DOMAIN k /\ k[n] = h[n]
        BY <2>2, <3>2 DEF Assign
      <3> QED
        BY <2>0, <3>2, <3>3
    <2> QED
      BY <2>1, <2>2
  <1> HIDE DEF k
  <1>6. StoredPart(k, g, T \ {<<a, a>>})
    BY <1>4, <1>5 DEF StoredPart
  <1> QED
    BY <1>3, <1>6 DEF k

(* An edge is stored, when all nodes are. *)
LEMMA StoreEdge ==
    ASSUME NEW g \in GraphOver(Id), Undirected(g), NEW h, NEW T,
           StoredPart(h, g, T), NodesFirst(g, T),
           NEW a, NEW b, <<a, b>> \in T, a # b,
           \A q \in T : q[1] # q[2]
    PROVE  StoredPart(Restore(h, <<a, b>>), g, T \ {<<a, b>>})
  <1> DEFINE p == <<a, b>>
             k == Restore(h, p)
  <1>1. a \in DOMAIN g /\ b \in g[a] /\ a < b
    BY DEF NodesFirst, CheckptEntries
  <1>2. b \in DOMAIN g /\ a \in g[b]
    BY <1>1 DEF Undirected, Symmetric
  <1>3. DOMAIN g \subseteq Id /\ Id \subseteq Nat
    BY GraphOverMeaning, IdAssumption
  <1>4. \A n \in DOMAIN g : /\ n \in DOMAIN h
                            /\ h[n] = {m \in g[n] : Pair(n, m) \notin T}
    <2> TAKE n \in DOMAIN g
    <2>1. <<n, n>> \notin T
      <3>1. <<n, n>>[1] = <<n, n>>[2]
        OBVIOUS
      <3> QED
        BY <3>1
    <2> QED
      BY <2>1 DEF StoredPart
  <1>5. k = Insert(Insert(h, a, b), b, a)
    BY DEF Restore
  <1>6. k \in GraphOver(Id)
    <2>1. Insert(h, a, b) \in GraphOver(Id)
      BY <1>1, <1>2, <1>3, InsertEraseType DEF StoredPart
    <2>2. Insert(Insert(h, a, b), b, a) \in GraphOver(Id)
      BY <1>1, <1>2, <1>3, <2>1, InsertEraseType
    <2> QED
      BY <1>5, <2>2
  <1>7. /\ DOMAIN k = DOMAIN h
        /\ \A n \in DOMAIN h : k[n] = h[n] \cup (IF n = a THEN {b} ELSE {})
                                          \cup (IF n = b THEN {a} ELSE {})
    <2>1. a \in DOMAIN h /\ b \in DOMAIN h
      BY <1>1, <1>2, <1>4
    <2> QED
      BY <1>5, <2>1 DEF Insert, Assign, At
  <1>8. ASSUME NEW n \in DOMAIN g
        PROVE  /\ n \in DOMAIN k
               /\ k[n] = {m \in g[n] : Pair(n, m) \notin T \ {p}}
    <2>1. n \in DOMAIN h /\ h[n] = {m \in g[n] : Pair(n, m) \notin T}
      BY <1>4
    <2>2. \A m \in g[n] : Pair(n, m) = p <=> (n = a /\ m = b) \/ (n = b /\ m = a)
      <3> TAKE m \in g[n]
      <3>1. n \in Nat /\ m \in Nat /\ a \in Nat /\ b \in Nat
        <4>1. m \in DOMAIN g
          BY DEF Undirected, Symmetric
        <4> QED
          BY <1>1, <1>2, <1>3, <4>1
      <3>2. \A x, y : <<x, y>> = p <=> x = a /\ y = b
        OBVIOUS
      <3> HIDE DEF p
      <3>3. CASE n < m
        BY <1>1, <3>1, <3>2, <3>3 DEF Pair
      <3>4. CASE ~(n < m)
        BY <1>1, <3>1, <3>2, <3>4 DEF Pair, Undirected, Irreflexive
      <3> QED
        BY <3>3, <3>4
    <2>3. n \in DOMAIN k /\ k[n] = h[n] \cup (IF n = a THEN {b} ELSE {})
                                       \cup (IF n = b THEN {a} ELSE {})
      BY <1>7, <2>1
    <2> HIDE DEF k, p
    <2> QED
      BY <1>1, <1>2, <2>1, <2>2, <2>3
  <1>9. DOMAIN k \subseteq DOMAIN g
    BY <1>7 DEF StoredPart
  <1> HIDE DEF k
  <1>10. StoredPart(k, g, T \ {p})
    BY <1>6, <1>8, <1>9 DEF StoredPart
  <1> QED
    BY <1>10 DEF k

(* Writing to the checkpoint area leaves what a restart rebuilds, as long  *)
(* as no checkpoint is in force.                                           *)
LEMMA CheckptWriteKeeps ==
    ASSUME NoWrap, NEW c, DeviceOK(c), NEW d, DeviceOK(d), Contiguous(c),
           \A a \in 0 .. LogSize - 1 : d[a] = c[a]
    PROVE  /\ Contiguous(d)
           /\ CheckptSize(c) = 0 => RecoveredFrom(d) = RecoveredFrom(c)
  <1> DEFINE k == LiveCount(c)
  <1>0. c[0] = d[0] /\ 0 \in Nat
    BY LayoutAssumption
  <1>1. ASSUME NEW b \in 1 .. LogSize - 1
        PROVE  (IsLive(d, b) <=> IsLive(c, b)) /\ Entries(d, b) = Entries(c, b)
    <2>1. Addr(b) = b /\ b \in 0 .. LogSize - 1
      BY LayoutAssumption, AddrOnDevice
    <2>2. d[b] = c[b]
      BY <2>1
    <2> QED
      BY <1>0, <2>1, <2>2 DEF IsLive, Entries, Generation, HasSuper
  <1>2. k \in 0 .. LogSize - 1 /\ \A j \in 1 .. k : IsLive(c, j)
    BY LiveCountIs
  <1>3. \A b \in 1 .. LogSize - 1 : IsLive(d, b) <=> b <= k
    BY <1>1, <1>2 DEF Contiguous, LogStart
  <1>4. LiveCount(d) = k /\ Contiguous(d)
    BY <1>2, <1>3, LiveCountFrom
  <1>5. ASSUME CheckptSize(c) = 0 PROVE RecoveredFrom(d) = RecoveredFrom(c)
    <2>1. CheckptSize(d) = CheckptSize(c) /\ (HasSuper(d) <=> HasSuper(c))
      BY <1>0 DEF CheckptSize, HasSuper
    <2>2. CheckptThrough(c, CheckptSize(c)) = CheckptThrough(d, CheckptSize(d))
      BY <1>5, <2>1, CheckptThroughZero DEF DeviceOK
    <2>3. LogBlocks(c, k)
      BY LiveEntries
    <2>4. \A i \in 1 .. k : Entries(c, i) = Entries(d, i)
      BY <1>1, <1>2, LayoutAssumption
    <2>5. k \in Nat
      BY <1>2, LayoutAssumption
    <2> HIDE DEF k
    <2>6. LogThrough(c, k) = LogThrough(d, k)
      BY <2>2, <2>3, <2>4, <2>5, LogThroughAgree
    <2> QED
      BY <1>4, <2>1, <2>6 DEF RecoveredFrom, LiveCount, k
  <1> QED
    BY <1>4, <1>5

(* The block an entry of the checkpoint goes to. *)
LEMMA StoreWrites ==
    ASSUME NoWrap, IInv, NEW p \in todo, add_checkpt_entry(p)
    PROVE  /\ IInv' /\ DeviceOK(dev) /\ DeviceOK(dev')
           /\ block_offset' \in LogSize .. DevBlocks - 1
           /\ dev'[block_offset'] = CheckptBlock(checkpt_block')
           /\ \A a \in Address \ {block_offset'} : dev'[a] = dev[a]
           /\ block_offset \in LogSize .. DevBlocks - 1
           /\ Addr(block_offset') = block_offset'
  <1>1. phase = "checkpoint" /\ phase' = "checkpoint"
    BY DEF add_checkpt_entry
  <1>2. IInv'
    BY CheckpointIInv
  <1>3. /\ block_offset \in LogSize .. DevBlocks - 1
        /\ block_offset' \in LogSize .. DevBlocks - 1
    BY <1>1, <1>2 DEF IInv, OffsetInArea
  <1>4. Addr(block_offset') = block_offset' /\ block_offset' \in Address
    BY <1>3, LayoutAssumption, AddrOnDevice DEF Address
  <1>5. /\ dev' = [dev EXCEPT ![Addr(block_offset')] =
                      CheckptBlock(checkpt_block')]
        /\ dev \in [Address -> Blocks]
    BY DEF add_checkpt_entry, IInv, TypeOK
  <1>6. DeviceOK(dev) /\ DeviceOK(dev')
    BY <1>2, ServerDeviceOK, NextDeviceOK
  <1> QED
    BY <1>2, <1>3, <1>4, <1>5, <1>6

(* Offset x of the checkpoint area is in its n-th block. *)
LEMMA CheckptBlockAt ==
    ASSUME NEW x \in LogSize .. DevBlocks - 1, NEW n, n = x - LogSize + 1
    PROVE  /\ n \in 1 .. DevBlocks - LogSize
           /\ n - 1 \in 0 .. DevBlocks - LogSize
           /\ LogSize + n - 1 = x
           /\ \A a \in LogSize .. LogSize + (n - 1) - 1 : a \in Address \ {x}
  BY LayoutAssumption DEF Address

(* Storing an entry is what restoring it will do. *)
LEMMA PendingNext ==
    ASSUME NoWrap, IInv, BlockInStep, todo \subseteq CheckptEntries(graph),
           NEW p \in todo, add_checkpt_entry(p)
    PROVE  Pending' = Restore(Pending, p)
  <1>0. /\ DeviceOK(dev) /\ DeviceOK(dev')
        /\ block_offset \in LogSize .. DevBlocks - 1
        /\ block_offset' \in LogSize .. DevBlocks - 1
        /\ dev'[block_offset'] = CheckptBlock(checkpt_block')
        /\ \A a \in Address \ {block_offset'} : dev'[a] = dev[a]
        /\ dev \in [Address -> Blocks] /\ dev' \in [Address -> Blocks]
        /\ Addr(block_offset') = block_offset'
    BY StoreWrites DEF DeviceOK
  <1>1. /\ block_offset' = CheckptOffset /\ graph' = graph
        /\ todo' = todo \ {p}
        /\ checkpt_block' =
              Append(IF CheckptIsFull THEN <<>> ELSE checkpt_block, p)
        /\ checkpt_block \in Seq(Id \X Id) /\ p \in Id \X Id
    BY DEF add_checkpt_entry, IInv, TypeOK
  <1>2. todo' # CheckptEntries(graph')
    BY <1>1
  <1> DEFINE n == block_offset' - LogSize + 1
             s == IF CheckptIsFull THEN <<>> ELSE checkpt_block
             t == checkpt_block'
             below == CheckptThrough(dev, n - 1)
  <1>3. n \in 1 .. DevBlocks - LogSize /\ LogSize + n - 1 = block_offset'
    <2>1. n = block_offset' - LogSize + 1
      OBVIOUS
    <2> HIDE DEF n
    <2> QED
      BY <1>0, <2>1, CheckptBlockAt
  <1>4. LogSize + n - 1 = block_offset'
    BY <1>3
  <1>5. Pending' = CheckptThrough(dev', n)
    BY <1>2 DEF Pending
  <1>6. /\ s \in Seq(Id \X Id) /\ Len(s) \in Nat
        /\ t \in Seq(Id \X Id) /\ Len(t) = Len(s) + 1
        /\ t[Len(s) + 1] = p /\ \A i \in 1 .. Len(s) : t[i] = s[i]
    BY <1>1
  <1>7. Edges(dev', n) = t
    BY <1>0, <1>4 DEF Edges, CheckptBlock
  <1>8. /\ below \in GraphOver(Id)
        /\ CheckptThrough(dev', n - 1) = below
    <2>0. n = block_offset' - LogSize + 1
      OBVIOUS
    <2> HIDE DEF n
    <2>1. /\ n - 1 \in 0 .. DevBlocks - LogSize
          /\ \A a \in LogSize .. LogSize + (n - 1) - 1 :
                a \in Address \ {block_offset'}
      BY <1>0, <2>0, CheckptBlockAt
    <2>2. SameCheckpt(dev, dev', n - 1)
      BY <1>0, <2>1 DEF SameCheckpt
    <2> QED
      BY <1>0, <2>1, <2>2, CheckptThroughType, SameCheckptThrough
  <1> HIDE DEF n, s, below
  <1>9. CheckptThrough(dev', n) = Restored(below, t, Len(t))
    BY <1>0, <1>3, <1>7, <1>8, CheckptThroughNext
  <1>10. Restored(below, t, Len(t)) = Restore(Restored(below, s, Len(s)), p)
    <2> DEFINE m == Len(s) + 1
    <2>1. m \in 1 .. Len(t) /\ m - 1 = Len(s) /\ Len(s) \in 0 .. Len(s)
      BY <1>6
    <2>2. m = Len(t) /\ t[m] = p
      BY <1>6
    <2> HIDE DEF m
    <2>3. Restored(below, t, m) = Restore(Restored(below, t, m - 1), t[m])
      BY <1>6, <1>8, <2>1, RestoredNext
    <2>4. Restored(below, s, Len(s)) = Restored(below, t, Len(s))
      BY <1>6, <1>8, <2>1, RestoredAgree
    <2> QED
      BY <2>1, <2>2, <2>3, <2>4
  <1>11. Restored(below, s, Len(s)) = Pending
    <2>1. CASE CheckptIsFull
      <3>1. s = <<>> /\ Len(s) = 0 /\ block_offset' = block_offset + 1
        BY <1>1, <2>1 DEF s, CheckptOffset
      <3>2. Restored(below, s, Len(s)) = below
        BY <1>6, <1>8, <3>1, RestoredZero
      <3>3. n - 1 = block_offset - LogSize + 1
        BY <1>0, <3>1, LayoutAssumption DEF n
      <3>4. CASE todo # CheckptEntries(graph)
        BY <3>2, <3>3, <3>4 DEF Pending, below
      <3>5. CASE todo = CheckptEntries(graph)
        <4>1. block_offset = LogSize
          BY <3>5 DEF BlockInStep
        <4>2. n - 1 = 1
          BY <3>3, <4>1, LayoutAssumption
        <4> QED
          BY <2>1, <3>2, <3>5, <4>2 DEF Pending, below
      <3> QED
        BY <3>4, <3>5
    <2>2. CASE ~CheckptIsFull
      <3>1. s = checkpt_block /\ block_offset' = block_offset
        BY <1>1, <2>2 DEF s, CheckptOffset
      <3>2. n = block_offset - LogSize + 1
        BY <3>1 DEF n
      <3>3. CASE todo # CheckptEntries(graph)
        <4>1. dev[block_offset'] = CheckptBlock(checkpt_block)
          BY <3>1, <3>3 DEF BlockInStep
        <4>2. Edges(dev, n) = s
          BY <1>0, <1>4, <3>1, <4>1 DEF Edges, CheckptBlock
        <4>3. CheckptThrough(dev, n) = Restored(below, s, Len(s))
          BY <1>0, <1>3, <4>2, CheckptThroughNext DEF below
        <4> QED
          BY <3>2, <3>3, <4>3 DEF Pending
      <3>4. CASE todo = CheckptEntries(graph)
        <4>1. block_offset = LogSize
          BY <3>4 DEF BlockInStep
        <4>2. n - 1 = 0
          BY <3>2, <4>1, LayoutAssumption
        <4>3. below = EmptyGraph
          BY <1>0, <4>2, CheckptThroughZero DEF below
        <4> QED
          BY <2>2, <3>1, <3>4, <4>3 DEF Pending
      <3> QED
        BY <3>3, <3>4
    <2> QED
      BY <2>1, <2>2
  <1> QED
    BY <1>5, <1>9, <1>10, <1>11

(* An entry is stored: what is written is one entry further. *)
LEMMA Stores ==
    ASSUME NoWrap, IInv, DInv, NEW p \in todo, add_checkpt_entry(p)
    PROVE  DInv'
  <1>1. /\ phase = "checkpoint" /\ phase' = "checkpoint"
        /\ UNCHANGED <<graph, cur_block>>
        /\ todo' = todo \ {p}
        /\ (\E q \in todo : q[1] = q[2]) => p[1] = p[2]
        /\ p \in Id \X Id
    BY DEF add_checkpt_entry, IInv, TypeOK
  <1>2. /\ DeviceOK(dev) /\ DeviceOK(dev')
        /\ block_offset' \in LogSize .. DevBlocks - 1
        /\ dev'[block_offset'] = CheckptBlock(checkpt_block')
        /\ \A a \in Address \ {block_offset'} : dev'[a] = dev[a]
    BY StoreWrites
  <1>3. /\ CheckptSize(dev) = 0 \/ todo = CheckptEntries(graph) =>
              Recovered = graph
        /\ NodesFirst(graph, todo)
        /\ StoredPart(Pending, graph, todo)
        /\ BlockInStep
    BY <1>1 DEF DInv, CheckptProgress
  <1>4. graph \in GraphOver(Id) /\ Undirected(graph) /\ todo \subseteq CheckptEntries(graph)
    BY <1>1, <1>3 DEF DInv, GraphUndirected, Serving, IInv, TypeOK, NodesFirst
  <1>5. Pending' = Restore(Pending, p)
    BY <1>3, <1>4, PendingNext
  <1>6. StoredPart(Restore(Pending, p), graph, todo \ {p})
    <2>1. PICK a \in Id, b \in Id : p = <<a, b>>
      BY <1>1
    <2>2. CASE a = b
      BY <1>3, <1>4, <2>1, <2>2, StoreNode
    <2>3. CASE a # b
      <3>1. \A q \in todo : q[1] # q[2]
        BY <1>1, <2>1, <2>3
      <3> QED
        BY <1>3, <1>4, <2>1, <2>3, <3>1, StoreEdge
    <2> QED
      BY <2>2, <2>3
  <1>7. StoredPart(Pending', graph', todo')
    BY <1>1, <1>5, <1>6
  <1>8. NodesFirst(graph', todo')
    <2>1. ASSUME NEW q \in todo', q[1] = q[2],
                 NEW r \in CheckptEntries(graph), r[1] # r[2]
          PROVE  r \in todo'
      <3>1. q \in todo /\ p[1] = p[2]
        BY <1>1, <2>1
      <3>2. r \in todo
        BY <1>3, <2>1, <3>1 DEF NodesFirst
      <3> QED
        BY <1>1, <2>1, <3>1, <3>2
    <2>2. todo' \subseteq CheckptEntries(graph)
      BY <1>1, <1>4
    <2>3. graph' = graph
      BY <1>1
    <2> HIDE <1>1
    <2> QED
      BY <2>1, <2>2, <2>3 DEF NodesFirst
  <1>9. todo' # CheckptEntries(graph')
    BY <1>1, <1>4
  <1>10. BlockInStep'
    BY <1>2, <1>9 DEF BlockInStep
  <1>11. CheckptAreaClean'
    <2> SUFFICES ASSUME NEW a \in LogSize .. DevBlocks - 1
                 PROVE  dev'[a].kind \in {"checkpt", "blank"}
      BY DEF CheckptAreaClean
    <2>1. CASE a = block_offset'
      BY <1>2, <2>1 DEF CheckptBlock
    <2>2. CASE a # block_offset'
      <3>1. a \in Address
        BY LayoutAssumption DEF Address
      <3> QED
        BY <1>2, <2>2, <3>1 DEF DInv, CheckptAreaClean
    <2> QED
      BY <2>1, <2>2
  <1>12. /\ Contiguous(dev')
         /\ CheckptSize(dev) = 0 => Recovered' = Recovered
    <2>1. \A a \in 0 .. LogSize - 1 : dev'[a] = dev[a]
      <3> TAKE a \in 0 .. LogSize - 1
      <3>1. a \in Address /\ a # block_offset'
        <4>1. block_offset' \in LogSize .. DevBlocks - 1
          BY <1>2
        <4> QED
          BY <4>1, LayoutAssumption DEF Address
      <3> QED
        BY <1>2, <3>1
    <2>2. /\ Contiguous(dev')
          /\ CheckptSize(dev) = 0 => RecoveredFrom(dev') = RecoveredFrom(dev)
      BY <1>2, <2>1, CheckptWriteKeeps DEF DInv
    <2> QED
      BY <2>2 DEF Recovered
  <1>13. CheckptSize(dev') = CheckptSize(dev)
    <2>1. 0 \in Address /\ 0 # block_offset'
      <3>1. block_offset' \in LogSize .. DevBlocks - 1
        BY <1>2
      <3> QED
        BY <3>1, LayoutAssumption DEF Address
    <2>2. dev'[0] = dev[0]
      BY <1>2, <2>1
    <2> QED
      BY <2>2 DEF CheckptSize, HasSuper
  <1>14. CheckptProgress'
    <2>1. CheckptSize(dev') = 0 => Recovered' = graph'
      BY <1>1, <1>3, <1>12, <1>13
    <2> QED
      BY <1>7, <1>8, <1>9, <1>10, <2>1 DEF CheckptProgress
  <1>15. TailKnown' /\ CurReplays' /\ Kept' /\ GraphUndirected' /\ StoredUndirected'
    BY <1>1
    DEF DInv, TailKnown, CurReplays, Kept, GraphUndirected, StoredUndirected,
        Serving
  <1> QED
    BY <1>11, <1>12, <1>14, <1>15 DEF DInv

(* When every entry is stored, what is written is the graph. *)
LEMMA AllStored ==
    ASSUME NEW g, NEW h, g \in GraphOver(Id), StoredPart(h, g, {})
    PROVE  h = g
  <1>1. DOMAIN h = DOMAIN g /\ \A n \in DOMAIN g : h[n] = {m \in g[n] : TRUE}
    BY DEF StoredPart
  <1>2. \A n \in DOMAIN g : h[n] = g[n]
    BY <1>1
  <1>3. h = [n \in DOMAIN h |-> h[n]] /\ g = [n \in DOMAIN g |-> g[n]]
    BY GraphOverMeaning DEF StoredPart
  <1> QED
    BY <1>1, <1>2, <1>3

(* The superblock that ends a checkpoint makes it the graph a restart      *)
(* rebuilds.                                                               *)
LEMMA CheckpointEnds ==
    ASSUME NoWrap, IInv, DInv, NoLapse, checkpoint_end
    PROVE  DInv'
  <1>1. /\ phase = "checkpoint" /\ phase' = "serve" /\ todo = {}
        /\ UNCHANGED <<graph, cur_block>>
        /\ block_offset' = LogStart /\ super_block' = Seal
    BY DEF checkpoint_end, write_super_block
  <1>2. /\ CheckptAreaClean' /\ Contiguous(dev') /\ LiveCount(dev') = 0
        /\ DeviceOK(dev') /\ HasSuper(dev') /\ dev'[0] = super_block'
        /\ \A a \in LogSize .. DevBlocks - 1 : dev'[a] = dev[a]
        /\ Recovered' = CheckptThrough(dev', CheckptSize(dev'))
    BY NewSuperBlock DEF DInv
  <1>3. /\ StoredPart(Pending, graph, {}) /\ BlockInStep
        /\ graph \in GraphOver(Id)
    BY <1>1 DEF DInv, CheckptProgress, IInv, TypeOK
  <1>4. block_offset \in LogSize .. DevBlocks - 1
    BY <1>1 DEF IInv, OffsetInArea
  <1> DEFINE n == block_offset - LogSize + 1
  <1>5. n \in 1 .. DevBlocks - LogSize /\ n \in 0 .. DevBlocks - LogSize
    BY <1>4, LayoutAssumption
  <1>6. CheckptSize(dev') = n
    BY <1>1, <1>2 DEF CheckptSize, Seal, Super
  <1>7. CheckptThrough(dev', n) = CheckptThrough(dev, n)
    <2>1. n \in 0 .. DevBlocks - LogSize
      BY <1>5
    <2>2. dev \in [Address -> Blocks] /\ dev' \in [Address -> Blocks]
      BY <1>2 DEF IInv, TypeOK, DeviceOK
    <2> HIDE DEF n
    <2>3. LogSize + n - 1 <= DevBlocks - 1
      BY <2>1, LayoutAssumption
    <2>4. SameCheckpt(dev, dev', n)
      <3> SUFFICES ASSUME NEW a \in LogSize .. LogSize + n - 1
                   PROVE  dev[a] = dev'[a]
        BY DEF SameCheckpt
      <3>1. a \in LogSize .. DevBlocks - 1
        BY <2>1, LayoutAssumption
      <3> QED
        BY <1>2, <3>1
    <2> QED
      BY <2>1, <2>2, <2>4, SameCheckptThrough
  <1>8. CheckptThrough(dev, n) = graph
    <2>1. CASE todo # CheckptEntries(graph)
      <3>1. Pending = CheckptThrough(dev, n)
        BY <2>1 DEF Pending
      <3>2. Pending = graph
        BY <1>3, AllStored
      <3> QED
        BY <3>1, <3>2
    <2>2. CASE todo = CheckptEntries(graph)
      <3>1. graph = EmptyGraph
        <4>1. DOMAIN graph = {}
          BY <1>1, <2>2 DEF CheckptEntries
        <4>2. graph = [x \in DOMAIN graph |-> graph[x]]
          BY <1>3, GraphOverMeaning
        <4> QED
          BY <4>1, <4>2 DEF EmptyGraph
      <3>2. block_offset = LogSize /\ n = 1
        BY <2>2, <1>3, LayoutAssumption DEF BlockInStep
      <3>3. dev[LogSize] = Blank
        BY <1>1, <3>1 DEF NoLapse, CheckptEmpty
      <3>4. dev \in [Address -> Blocks]
        BY DEF IInv, TypeOK
      <3>5. Edges(dev, 1) = <<>>
        BY <3>3, <3>4, FirstCheckptBlock DEF Blank
      <3>6. CheckptThrough(dev, 1) = Restored(EmptyGraph, <<>>, 0)
        BY <3>4, <3>5, FirstCheckptBlock
      <3>7. Restored(EmptyGraph, <<>>, 0) = EmptyGraph
        <4>1. <<>> \in Seq(Id \X Id) /\ EmptyGraph \in GraphOver(Id)
          BY EmptyGraphOK
        <4> QED
          BY <4>1, RestoredZero
      <3> QED
        BY <3>1, <3>2, <3>6, <3>7
    <2> QED
      BY <2>1, <2>2
  <1> HIDE DEF n
  <1>9. Recovered' = graph'
    BY <1>1, <1>2, <1>6, <1>7, <1>8
  <1>10. CurReplays'
    BY <1>1 DEF DInv, CurReplays
  <1>11. TailKnown'
    BY <1>1, <1>2 DEF TailKnown, LogStart
  <1>12. Kept' /\ GraphUndirected' /\ StoredUndirected' /\ CheckptProgress'
    BY <1>1, <1>9
    DEF DInv, Kept, GraphUndirected, StoredUndirected, CheckptProgress, Serving
  <1> QED
    BY <1>2, <1>10, <1>11, <1>12 DEF DInv

----------------------------------------------------------------------------
(* The invariant and the refinement. *)

(* A first start finds a blank device. *)
LEMMA InitDInv == Init => DInv /\ Recovered = EmptyGraph /\ ~Serving
  <1> SUFFICES ASSUME Init PROVE DInv /\ Recovered = EmptyGraph /\ ~Serving
    OBVIOUS
  <1>1. /\ ~Serving /\ \A a \in Address : dev[a] = Blank
    BY DEF Init, Serving
  <1>2. ~HasSuper(dev) /\ Recovered = EmptyGraph
    <2>1. dev[0] = Blank
      BY <1>1, LayoutAssumption DEF Address
    <2> QED
      BY <2>1 DEF Blank, HasSuper, Recovered, RecoveredFrom
  <1>3. CheckptAreaClean
    BY <1>1, LayoutAssumption DEF CheckptAreaClean, Address, Blank
  <1>4. Contiguous(dev)
    <2>1. \A b \in LogStart .. LogSize - 1 : Addr(b) \in Address
      BY LayoutAssumption DEF Addr, Address, LogStart
    <2> QED
      BY <1>1, <2>1 DEF Contiguous, IsLive, Blank
  <1>5. StoredUndirected
    BY <1>2, EmptyGraphOK DEF StoredUndirected
  <1> QED
    BY <1>1, <1>2, <1>3, <1>4, <1>5, NotServing DEF DInv

(* What clients see of the graph, and across a restart. *)
Store == IF Serving THEN graph ELSE Recovered

(* The moves of DurableGraph, on what the server implements it with. *)
StoreMoves ==
    \/ ~Serving /\ Serving' /\ Store' = Store
    \/ ~Serving /\ Serving' /\ Store' = EmptyGraph
    \/ Serving /\ ~Serving' /\ Store' = Store
    \/ \E e \in Request :
          /\ Serving /\ Serving'
          /\ Execute(Store, e).status = 200
          /\ Store' = Execute(Store, e).g
    \/ Store' = Store /\ (Serving' <=> Serving)

(* Every step keeps the invariant and is a move of DurableGraph. *)
LEMMA NextDInv ==
    ASSUME NoWrap, Allowed = {}, IInv, IInv', RecoveryInv, DInv,
           [NextAllowed]_vars
    PROVE  DInv' /\ StoreMoves
  <1>0. CASE UNCHANGED vars
    <2>1. UNCHANGED <<dev, phase, graph, cur_block, checkpt_block,
                      block_offset, todo>>
      BY <1>0 DEF vars
    <2>2. Recovered' = Recovered /\ CheckptAreaClean' /\ Contiguous(dev')
      BY <2>1, DeviceSame DEF DInv
    <2>3. TailKnown' /\ CurReplays' /\ Kept' /\ GraphUndirected' /\ StoredUndirected'
      BY <2>1, <2>2
      DEF DInv, TailKnown, CurReplays, Kept, GraphUndirected,
          StoredUndirected, Serving
    <2>4. CheckptProgress'
      BY <2>1, <2>2
      DEF DInv, CheckptProgress, BlockInStep, Pending, CheckptIsFull
    <2>5. Store' = Store /\ (Serving' <=> Serving)
      BY <2>1, <2>2 DEF Store, Serving
    <2> QED
      BY <2>2, <2>3, <2>4, <2>5 DEF DInv, StoreMoves
  <1>1. CASE NextAllowed
    <2>0. Next /\ NoLapse
      BY <1>1, NoneAllowed
    <2>1. CASE format \/ init_superblock
      <3>1. /\ DInv' /\ graph' = EmptyGraph /\ ~Serving /\ Serving'
        BY <2>1, FreshStart DEF DInv
      <3> QED
        BY <3>1 DEF StoreMoves, Store
    <2>2. CASE play_done
      <3>1. DInv' /\ graph' = Recovered /\ ~Serving /\ Serving'
        BY <2>2, RecoveryEnds
      <3> QED
        BY <3>1 DEF StoreMoves, Store
    <2>3. CASE init_server_log \/ (Recovery /\ ~play_done)
      <3>1. ~Serving /\ ~Serving' /\ UNCHANGED dev
        BY <2>3
        DEF init_server_log, Recovery, read_in_checkpt_block,
            restore_checkpt_entry, restore_done, execute_log_entry,
            play_next_block, Serving
      <3>2. DInv' /\ Recovered' = Recovered
        BY <3>1, Recovering
      <3> QED
        BY <3>1, <3>2 DEF StoreMoves, Store
    <2>4. CASE \E e \in Request : Update(e)
      <3>1. PICK e \in Request : Update(e)
        BY <2>4
      <3>2. DInv'
        BY <2>0, <3>1, UpdateKeeps
      <3>3. /\ Serving /\ Serving' /\ Execute(graph, e).status = 200
            /\ graph' = Execute(graph, e).g
        BY <3>1 DEF Update, Accepts, Serving
      <3> QED
        BY <3>2, <3>3 DEF StoreMoves, Store
    <2>5. CASE Crash \/ checkpt_beyond_device \/ \E e \in Request : UpdateTorn(e)
      <3>1. /\ DInv' /\ ~Serving'
            /\ Recovered' = IF Serving THEN graph ELSE Recovered
        BY <2>0, <2>5, Dies
      <3> QED
        BY <3>1 DEF StoreMoves, Store
    <2>6. CASE \/ checkpoint_begin \/ checkpoint_end
               \/ \E p \in todo : add_checkpt_entry(p)
      <3>1. DInv'
        BY <2>0, <2>6, CheckpointBegins, CheckpointEnds, Stores
      <3>2. Serving /\ Serving' /\ graph' = graph
        BY <2>6 DEF checkpoint_begin, checkpoint_end, add_checkpt_entry, Serving
      <3> QED
        BY <3>1, <3>2 DEF StoreMoves, Store
    <2> QED
      BY <2>0, <2>1, <2>2, <2>3, <2>4, <2>5, <2>6
      DEF Next, Recovery, Checkpointing
  <1> QED
    BY <1>0, <1>1

(* The three invariants together are inductive. *)
THEOREM DurabilityInvariance ==
    ASSUME NoWrap, Allowed = {}
    PROVE  SpecAllowed => [](IInv /\ RecoveryInv /\ DInv)
  <1>1. Init => IInv /\ RecoveryInv /\ DInv
    BY InitIInv, InitRecoveryInv, InitDInv
  <1>2. IInv /\ RecoveryInv /\ DInv /\ [NextAllowed]_vars =>
           (IInv /\ RecoveryInv /\ DInv)'
    <2> SUFFICES ASSUME IInv, RecoveryInv, DInv, [NextAllowed]_vars
                 PROVE  IInv' /\ RecoveryInv' /\ DInv'
      OBVIOUS
    <2>1. [Next]_vars
      BY DEF NextAllowed
    <2>2. IInv'
      BY <2>1, NextIInv
    <2> QED
      BY <2>1, <2>2, NextRecoveryInv, NextDInv
  <1> QED
    BY <1>1, <1>2, PTL DEF SpecAllowed

(* As long as no lapse happens: whenever the server waits for a request, a *)
(* restart would rebuild exactly the graph it answers from.                *)
THEOREM GraphIsDurable ==
    ASSUME NoWrap, Allowed = {}
    PROVE  SpecAllowed => []Durable
  <1>1. IInv /\ RecoveryInv /\ DInv => Durable
    BY AreaReadable DEF DInv, Kept, Durable
  <1> QED
    BY <1>1, DurabilityInvariance, PTL

(* The graph clients read is undirected, after any number of crashes,      *)
(* recoveries and checkpoints (log.cpp:256, "graph is an undirected        *)
(* graph").                                                                *)
THEOREM GraphStaysUndirected ==
    ASSUME NoWrap, Allowed = {}
    PROVE  SpecAllowed => []GraphUndirected
  <1>1. IInv /\ RecoveryInv /\ DInv => GraphUndirected
    BY DEF DInv
  <1> QED
    BY <1>1, DurabilityInvariance, PTL

(* DurableGraph speaks of the same graphs and updates. *)
LEMMA SameGraphs ==
    /\ Abstract!EmptyGraph = EmptyGraph
    /\ \A g, e : Abstract!Execute(g, e) = Execute(g, e)
  <1>1. Abstract!EmptyGraph = EmptyGraph
    BY DEF Abstract!EmptyGraph, EmptyGraph
  <1>2. \A g, n : Abstract!addNode(g, n) = addNode(g, n)
    BY DEF Abstract!addNode, addNode, Abstract!Result, Result,
           Abstract!Assign, Assign
  <1>3. \A g, a, b : Abstract!Insert(g, a, b) = Insert(g, a, b)
    BY DEF Abstract!Insert, Insert, Abstract!Assign, Assign, Abstract!At, At
  <1>4. \A g, a, b : Abstract!Erase(g, a, b) = Erase(g, a, b)
    BY DEF Abstract!Erase, Erase, Abstract!Assign, Assign, Abstract!At, At
  <1>5. \A g, a, b : Abstract!addEdge(g, a, b) = addEdge(g, a, b)
    BY <1>3 DEF Abstract!addEdge, addEdge, Abstract!Result, Result
  <1>6. \A g, n : Abstract!removeNode(g, n) = removeNode(g, n)
    BY DEF Abstract!removeNode, removeNode, Abstract!Result, Result,
           Abstract!At, At
  <1>7. \A g, a, b : Abstract!removeEdge(g, a, b) = removeEdge(g, a, b)
    BY <1>4 DEF Abstract!removeEdge, removeEdge, Abstract!Result, Result,
                Abstract!At, At
  <1>8. ASSUME NEW g, NEW e PROVE Abstract!Execute(g, e) = Execute(g, e)
    BY <1>2, <1>5, <1>6, <1>7, Zenon
    DEF Abstract!Execute, Execute, Abstract!OP_ADD_NODE, OP_ADD_NODE,
        Abstract!OP_ADD_EDGE, OP_ADD_EDGE, Abstract!OP_REMOVE_NODE,
        OP_REMOVE_NODE, Abstract!OP_REMOVE_EDGE, OP_REMOVE_EDGE
  <1> QED
    BY <1>1, <1>8

(* The moves above are the steps of the abstract specification. *)
LEMMA MovesAreSteps ==
    ASSUME StoreMoves
    PROVE  [Abstract!Next]_(Abstract!vars)
  <1>1. Store = (IF Serving THEN graph ELSE Recovered)
        /\ Store' = (IF Serving THEN graph ELSE Recovered)'
    BY DEF Store
  <1>2. Serving \in BOOLEAN /\ Serving' \in BOOLEAN
    BY DEF Serving
  <1> QED
    BY <1>1, <1>2, SameGraphs
    DEF StoreMoves, Abstract!Next, Abstract!vars, Abstract!Start,
        Abstract!Format, Abstract!Stop, Abstract!Write

(* The server implements DurableGraph: updates answered 200 survive every  *)
(* later crash, restart and checkpoint, as long as no lapse happens.       *)
THEOREM DurableGraphImplemented ==
    ASSUME NoWrap, Allowed = {}
    PROVE  SpecAllowed => ImplementsDurableGraph
  <1>1. Init => Abstract!Init
    BY InitDInv, SameGraphs DEF Abstract!Init, Serving
  <1>2. IInv /\ RecoveryInv /\ DInv /\ (IInv /\ RecoveryInv /\ DInv)'
           /\ [NextAllowed]_vars => [Abstract!Next]_(Abstract!vars)
    BY NextDInv, MovesAreSteps
  <1> QED
    BY <1>1, <1>2, DurabilityInvariance, PTL
    DEF SpecAllowed, ImplementsDurableGraph, Abstract!Spec
=============================================================================
