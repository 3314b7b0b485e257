------------------------------ MODULE Threads ------------------------------
(***************************************************************************)
(* The threads of one server: the HTTP event loop and the threads gRPC     *)
(* runs handlers on.  They share graph and slog without a lock.  A handler *)
(* asks log_is_full, waits for the successor, changes the graph and then   *)
(* appends to the log; checkpoint() is run by the HTTP thread.             *)
(*                                                                         *)
(* A step is what one thread does to shared memory between two points      *)
(* where another can get in: a load or a store of a member, or half of the *)
(* copy of a block.  reg is what a thread holds in a register.  A server   *)
(* without successor is one whose successor answers at once.  The graph    *)
(* has nodes only and a checkpoint fits in one block.                      *)
(***************************************************************************)
EXTENDS Graph, Checksum, Iteration, FiniteSets, SequencesExt

CONSTANTS
    Http,             \* the thread of the event loop
    Rpc,              \* the threads of gRPC handlers
    Request,          \* the update requests clients send
    LogSize,          \* super_block.log_size, in blocks
    EntriesPerBlock,  \* capacity of a log block (170)
    MaxRequests       \* bound on the number of requests sent

ASSUME ThreadsAssumption ==
    /\ Http \notin Rpc
    /\ \A e \in Request : e.opcode \in {OP_ADD_NODE, OP_REMOVE_NODE}
    /\ LogSize \in Nat /\ LogSize > 1
    /\ EntriesPerBlock \in Nat \ {0}
    /\ MaxRequests \in Nat

VARIABLES
    graph,         \* graph.g
    super_block,   \* slog.super_block
    cur_block,     \* slog.cur_block
    checkpt_block, \* slog.checkpt_block, the nodes in it
    block_offset,  \* slog.block_offset
    disk,          \* the blocks of the device behind the superblock
    disk_super,    \* the superblock on the device
    pc,            \* where each thread is
    arg,           \* the request each thread handles
    reg,           \* what each thread has loaded
    sent,          \* number of requests sent
    raced,         \* history: two critical sections have overlapped
    lapsed         \* history: a checkpoint that loses data by itself

memory == <<graph, super_block, cur_block, checkpt_block, block_offset>>
device == <<disk, disk_super>>
history == <<sent, raced, lapsed>>
vars == <<memory, device, pc, arg, reg, history>>

Thread == {Http} \cup Rpc

LogStart == 1

Address == 0 .. LogSize + MaxRequests

(* The numbers of types.hpp.  An entry of zeroes reads "add node 0". *)
OpcodeNumber ==
    [op \in Opcodes |->
        CASE op = OP_ADD_NODE -> 0 [] op = OP_ADD_EDGE -> 1
          [] op = OP_REMOVE_NODE -> 2 [] op = OP_REMOVE_EDGE -> 3]

NoEntry == [opcode |-> OP_ADD_NODE, node1 |-> 0, node2 |-> 0]

EntryWords(e) == <<OpcodeNumber[e.opcode], e.node1, e.node2>>

ZeroEntries == [i \in 1 .. EntriesPerBlock |-> NoEntry]

(* A block is its header and what follows it.  generation_num and          *)
(* entry_cnt share the word behind the checksum.                           *)
Block(sum, gen, cnt, entries) ==
    [head |-> [checksum |-> sum, generation_num |-> gen, entry_cnt |-> cnt],
     body |-> entries]

Content(b) ==
    [k \in 1 .. 1 + 3 * EntriesPerBlock |->
        IF k = 1 THEN b.head.generation_num + 16 * b.head.entry_cnt
        ELSE EntryWords(b.body[((k - 2) \div 3) + 1])[((k - 2) % 3) + 1]]

Cleared == Block(0, 0, 0, ZeroEntries)

(* Checkpoint blocks carry no checksum; <n, n> stands for a node. *)
CheckptBlock(nodes) ==
    Block(0, 0, Len(nodes),
          [i \in DOMAIN nodes |->
              [opcode |-> OP_ADD_NODE, node1 |-> nodes[i], node2 |-> nodes[i]]])

Init ==
    /\ graph = EmptyGraph
    /\ super_block = [generation_num |-> 0, checkpoint_size |-> 0]
    /\ cur_block = Cleared
    /\ checkpt_block = <<>>
    /\ block_offset = LogStart
    /\ disk = [a \in Address |-> Cleared]
    /\ disk_super = super_block
    /\ pc = [t \in Thread |-> "idle"]
    /\ arg = [t \in Thread |-> NoEntry]
    /\ reg = [t \in Thread |-> 0]
    /\ sent = 0
    /\ raced = FALSE
    /\ lapsed = FALSE

log_is_full == block_offset >= LogSize

(* From the graph method to the end of the write of the block, and all of  *)
(* checkpoint().                                                           *)
Outside == {"idle", "wait", "dead"}

Goto(t, label) == pc' = [pc EXCEPT ![t] = label]

(* The handler returns. *)
Done(t) ==
    /\ Goto(t, "idle")
    /\ arg' = [arg EXCEPT ![t] = NoEntry]

(* Thread t enters its critical section at label. *)
Enter(t, label) ==
    /\ Goto(t, label)
    /\ raced' = (raced \/ \E u \in Thread \ {t} : pc[u] \notin Outside)

----------------------------------------------------------------------------
(* The handlers up to the graph method.  A full log is answered 507 (or    *)
(* Status::CANCELLED) at once.                                             *)
Receive(t, e) ==
    /\ pc[t] = "idle"
    /\ sent < MaxRequests
    /\ sent' = sent + 1
    /\ IF log_is_full
          THEN UNCHANGED <<pc, arg>>
          ELSE Goto(t, "wait") /\ arg' = [arg EXCEPT ![t] = e]
    /\ UNCHANGED <<memory, device, reg, raced, lapsed>>

(* The successor's reply.  "RPC failed" ends the request; otherwise the    *)
(* graph is changed, and log_is_full is not asked again.                   *)
ReplyFailed(t) ==
    /\ pc[t] = "wait"
    /\ Done(t)
    /\ UNCHANGED <<memory, device, reg, history>>

(* The method looks up the node, which decides its status, then changes    *)
(* the map.                                                                *)
ReplyOk(t) ==
    /\ pc[t] = "wait"
    /\ Enter(t, "method")
    /\ reg' = [reg EXCEPT ![t] = Execute(graph, arg[t]).status]
    /\ UNCHANGED <<memory, device, arg, sent, lapsed>>

InMethod(t) == pc[t] = "method"

(* A change made to the map while another thread is in it may be lost.     *)
Method(t) ==
    /\ InMethod(t)
    /\ \/ reg[t] = 200 /\ graph' = Execute(graph, arg[t]).g
       \/ /\ reg[t] # 200 \/ \E u \in Thread \ {t} : InMethod(u)
          /\ UNCHANGED graph
    /\ IF reg[t] = 200 THEN Goto(t, "append") /\ UNCHANGED arg ELSE Done(t)
    /\ reg' = [reg EXCEPT ![t] = 0]
    /\ UNCHANGED <<super_block, cur_block, checkpt_block, block_offset,
                   device, history>>

(* Two threads inside one unordered_map: undefined, the process may die.   *)
MethodsCollide ==
    /\ \E t, u \in Thread : t # u /\ InMethod(t) /\ InMethod(u)
    /\ pc' = [t \in Thread |-> "dead"]
    /\ UNCHANGED <<memory, device, arg, reg, history>>

----------------------------------------------------------------------------
(* add_log_entry, statement by statement. *)

CurIsFull == cur_block.head.entry_cnt = EntriesPerBlock

NextBlock(o) == o + 1

TestFull(t) ==
    /\ pc[t] = "append"
    /\ IF CurIsFull
          THEN Goto(t, "advance") /\ reg' = [reg EXCEPT ![t] = block_offset]
          ELSE Goto(t, "stamp") /\ UNCHANGED reg
    /\ UNCHANGED <<memory, device, arg, history>>

Advance(t) ==
    /\ pc[t] = "advance"
    /\ block_offset' = NextBlock(reg[t])
    /\ Goto(t, "clear")
    /\ UNCHANGED <<graph, super_block, cur_block, checkpt_block, device, arg,
                   reg, history>>

(* cur_block.clear() *)
Clear(t) ==
    /\ pc[t] = "clear"
    /\ cur_block' = Cleared
    /\ Goto(t, "stamp")
    /\ UNCHANGED <<graph, super_block, checkpt_block, block_offset, device,
                   arg, reg, history>>

Stamp(t) ==
    /\ pc[t] = "stamp"
    /\ cur_block' = [cur_block EXCEPT
                        !.head.generation_num = super_block.generation_num]
    /\ reg' = [reg EXCEPT ![t] = cur_block.head.entry_cnt]
    /\ Goto(t, "store")
    /\ UNCHANGED <<graph, super_block, checkpt_block, block_offset, device,
                   arg, history>>

(* Mutant: the entry is stored and not counted. *)
StoredUncounted(b, i, e) == [b EXCEPT !.body[i + 1] = e]

(* log_entry[entry_cnt++] = e.  An index past the array writes to the      *)
(* memory behind cur_block and leaves the block's entries alone.           *)
Stored(b, i, e) ==
    Block(b.head.checksum, b.head.generation_num, i + 1,
          IF i < EntriesPerBlock THEN [b.body EXCEPT ![i + 1] = e] ELSE b.body)

Store(t) ==
    /\ pc[t] = "store"
    /\ cur_block' = Stored(cur_block, reg[t], arg[t])
    /\ Goto(t, "sum")
    /\ UNCHANGED <<graph, super_block, checkpt_block, block_offset, device,
                   arg, reg, history>>

(* cur_block.checksum = cur_block.compute_checksum() *)
Sum(t) ==
    /\ pc[t] = "sum"
    /\ cur_block' = [cur_block EXCEPT
                        !.head.checksum = compute_checksum_xor(Content(cur_block))]
    /\ reg' = [reg EXCEPT ![t] = block_offset]
    /\ Goto(t, "head")
    /\ UNCHANGED <<graph, super_block, checkpt_block, block_offset, device,
                   arg, history>>

(* write_log_block copies front to back: the header, then the entries. *)
CopyHead(t) ==
    /\ pc[t] = "head"
    /\ disk' = [disk EXCEPT ![reg[t]] = [head |-> cur_block.head, body |-> @.body]]
    /\ Goto(t, "body")
    /\ UNCHANGED <<memory, disk_super, arg, reg, history>>

CopyBody(t) ==
    /\ pc[t] = "body"
    /\ disk' = [disk EXCEPT ![reg[t]] = [head |-> @.head, body |-> cur_block.body]]
    /\ Done(t)
    /\ reg' = [reg EXCEPT ![t] = 0]
    /\ UNCHANGED <<memory, disk_super, history>>

add_log_entry(t) ==
    \/ TestFull(t) \/ Advance(t) \/ Clear(t) \/ Stamp(t)
    \/ Store(t) \/ Sum(t) \/ CopyHead(t) \/ CopyBody(t)

----------------------------------------------------------------------------
(* checkpoint(), by the HTTP thread.  A checkpoint taken with a full       *)
(* cur_block, of an empty graph, or after another one may lose data all by *)
(* itself (Durability, lapses skip, empty and stale).                      *)
BeginCheckpoint ==
    /\ pc[Http] = "idle"
    /\ ~log_is_full
    /\ sent < MaxRequests
    /\ sent' = sent + 1
    /\ Enter(Http, "checkpoint")
    /\ block_offset' = LogSize
    /\ lapsed' = (\/ lapsed
                  \/ CurIsFull
                  \/ graph = EmptyGraph
                  \/ super_block.generation_num > 0)
    /\ UNCHANGED <<graph, super_block, cur_block, checkpt_block, device, arg,
                   reg>>

(* Mutant: the entry of a node is not kept. *)
CheckptForget(b, n) == b

CheckptAppend(b, n) == Append(b, n)

(* One node of the map; an iteration beside an insertion sees it or not.   *)
CheckpointNode(n) ==
    /\ pc[Http] = "checkpoint"
    /\ n \in DOMAIN graph \ ToSet(checkpt_block)
    /\ checkpt_block' = CheckptAppend(checkpt_block, n)
    /\ disk' = [disk EXCEPT ![block_offset] = CheckptBlock(checkpt_block')]
    /\ UNCHANGED <<graph, super_block, cur_block, block_offset, disk_super,
                   pc, arg, reg, history>>

(* The superblock is changed in memory, then written. *)
NewGeneration ==
    /\ pc[Http] = "checkpoint"
    /\ DOMAIN graph \subseteq ToSet(checkpt_block) \/ raced
    /\ super_block' =
           [generation_num  |-> super_block.generation_num + 1,
            checkpoint_size |-> block_offset - LogSize + 1]
    /\ Goto(Http, "super")
    /\ UNCHANGED <<graph, cur_block, checkpt_block, block_offset, device, arg,
                   reg, history>>

WriteSuperBlock ==
    /\ pc[Http] = "super"
    /\ disk_super' = super_block
    /\ Goto(Http, "reset")
    /\ UNCHANGED <<memory, disk, arg, reg, history>>

(* Mutant: the log restarts at the first block of the device. *)
ResetToSuper == 0

ResetOffset == LogStart

EndCheckpoint ==
    /\ pc[Http] = "reset"
    /\ block_offset' = ResetOffset
    /\ Goto(Http, "idle")
    /\ UNCHANGED <<graph, super_block, cur_block, checkpt_block, device, arg,
                   reg, history>>

checkpoint ==
    \/ \E n \in DOMAIN graph : CheckpointNode(n)
    \/ NewGeneration \/ WriteSuperBlock \/ EndCheckpoint

----------------------------------------------------------------------------
(* What a thread does on its own once the successor has answered. *)
Run(t) == Method(t) \/ add_log_entry(t) \/ (t = Http /\ checkpoint)

Reply(t) == ReplyOk(t) \/ ReplyFailed(t)

Next ==
    \/ \E t \in Thread : \E e \in Request : Receive(t, e)
    \/ BeginCheckpoint
    \/ \E t \in Thread : Reply(t) \/ Run(t)
    \/ MethodsCollide

Spec == Init /\ [][Next]_vars

(* Threads are scheduled and every call to the successor returns. *)
FairSpec == Spec /\ \A t \in Thread : WF_vars(Reply(t)) /\ WF_vars(Run(t))

----------------------------------------------------------------------------
(* What a restart rebuilds: the nodes of the checkpoint, then the entries  *)
(* of the blocks in front of the first one that is not valid.              *)
IsValid(b, gen) ==
    /\ b.head.checksum = compute_checksum_xor(Content(b))
    /\ b.head.generation_num = gen

Valid(a) == IsValid(disk[a], disk_super.generation_num)

(* The graphs there can be: nodes of requests, or of zeroes, and no edges. *)
LogEntry == Request \cup {NoEntry}

NodeGraphs == UNION {[D -> {{}}] : D \in SUBSET {e.node1 : e \in LogEntry}}

(* The graph g after the first n entries s of a block, ... *)
EntryTurn(s) == [x \in NodeGraphs \X Nat |-> Execute(x[1], s[x[2]]).g]

Replayed(g, s, n) == Steps(EntryTurn(s), g, n)

(* ... and after the first n blocks of device d. *)
BlockTurn(d) ==
    [x \in NodeGraphs \X Nat |->
        Replayed(x[1], d[x[2]].body, d[x[2]].head.entry_cnt)]

Through(d, g, n) == Steps(BlockTurn(d), g, n)

LiveBlocks ==
    {a \in LogStart .. LogSize - 1 : \A i \in LogStart .. a : Valid(i)}

Checkpointed ==
    IF disk_super.checkpoint_size = 0 THEN {}
    ELSE {disk[LogSize].body[i].node1 :
             i \in {j \in DOMAIN disk[LogSize].body :
                       j <= disk[LogSize].head.entry_cnt}}

Base == [n \in Checkpointed |-> {}]

Recovered == Through(disk, Base, Cardinality(LiveBlocks))

Quiet == \A t \in Thread : pc[t] \in Outside

Kept == Quiet /\ ~log_is_full => Recovered = graph

(* Handlers may overlap in their waits for the successor, a checkpoint may *)
(* run while others wait, and log_is_full may be stale when the reply      *)
(* comes: as long as critical sections do not overlap, a restart rebuilds  *)
(* the graph of a server whose log has room.                               *)
KeptUnlessRaced == ~raced /\ ~lapsed => Kept

(* Whatever the interleaving, no handler or checkpoint writes a block over *)
(* the superblock, by which everything else is found.                      *)
SuperBlockSafe == disk[0] = Cleared

(* The block still holds other entries than the one about to be rewritten  *)
(* had: those of an earlier generation.                                    *)
Reused(a) ==
    disk[a].body # [cur_block.body EXCEPT ![cur_block.head.entry_cnt] = NoEntry]

(* A process that dies between the two halves of a log block write leaves  *)
(* a block that recovery rejects, unless words cancel out: the opcode and  *)
(* ids of the new entry, and then the block's last entry is zeroes, or,    *)
(* after a checkpoint, the entries of an earlier generation and the new.   *)
TornDetected ==
    \A t \in Thread :
        /\ ~raced /\ ~lapsed
        /\ pc[t] = "body" /\ reg[t] < LogSize /\ Valid(reg[t])
        => \/ Xor(EntryWords(arg[t])) = 0
           \/ Reused(reg[t]) /\ disk_super.generation_num > 0

(* Every handler and every checkpoint comes to its end: nothing in the     *)
(* critical sections waits for another thread.                             *)
HandlersReturn ==
    \A t \in Thread : pc[t] # "idle" ~> pc[t] \in {"idle", "dead"}
============================================================================
