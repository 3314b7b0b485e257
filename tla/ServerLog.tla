----------------------------- MODULE ServerLog -----------------------------
(***************************************************************************)
(* One server process and its log device (log.hpp, log.cpp), driven by the *)
(* update and checkpoint handlers of cs426_graph_server.cpp for a server   *)
(* with no successor.  The event loop is a single thread, so a handler     *)
(* runs alone; what may cut into it is the death of the process.           *)
(*                                                                         *)
(* The device is an array of 4096-byte blocks: the superblock at 0, the    *)
(* log at 1 .. LogSize-1, the checkpoint from LogSize on.  A checksum      *)
(* holds for a block exactly when the block was written whole as one of    *)
(* its kind, so a block carries its kind instead of its checksum.          *)
(***************************************************************************)
EXTENDS Graph, Sequences

CONSTANTS
    Id,              \* node ids (uint64_t)
    Request,         \* the update requests clients send
    LogSize,         \* LOG_SEG_SIZE, first block of the checkpoint area
    EntriesPerBlock, \* capacity of log_block_t (170)
    EdgesPerBlock,   \* capacity of checkpt_block_t (255)
    AddrSpace,       \* blocks a uint32_t byte offset can address (2^20)
    DevBlocks,       \* blocks of the device
    MaxGeneration    \* bound on generation_num

Entry == [opcode : Opcodes, node1 : Id, node2 : Id \cup {0}]

ASSUME IdAssumption == Id \subseteq Nat
ASSUME RequestAssumption ==
    /\ Request \subseteq Entry
    /\ \A e \in Request :
          e.opcode \in {OP_ADD_EDGE, OP_REMOVE_EDGE} => e.node2 \in Id
ASSUME LayoutAssumption ==
    /\ LogSize \in Nat /\ LogSize > 1
    /\ EntriesPerBlock \in Nat \ {0}
    /\ EdgesPerBlock \in Nat \ {0}
    /\ AddrSpace \in Nat /\ LogSize < AddrSpace
    /\ DevBlocks \in Nat /\ LogSize < DevBlocks
    /\ MaxGeneration \in Nat

VARIABLES
    dev,           \* the device
    phase,         \* what the process is doing
    graph,         \* graph->g
    super_block,
    cur_block,     \* log_entry[0 .. entry_cnt-1] of cur_block
    checkpt_block, \* edges[0 .. entry_cnt-1] of checkpt_block
    block_offset,
    scan,          \* loop variables of recover_from_checkpoint and play_log
    todo           \* entries checkpoint() has still to store

vars == <<dev, phase, graph, super_block, cur_block, checkpt_block,
          block_offset, scan, todo>>

----------------------------------------------------------------------------
(* Blocks. *)
LogStart == 1

Super(gen, size) ==
    [kind |-> "super", generation_num |-> gen, checkpoint_size |-> size]
LogBlock(gen, s) ==
    [kind |-> "log", generation_num |-> gen, entries |-> s]
CheckptBlock(s) == [kind |-> "checkpt", edges |-> s]
Blank == [kind |-> "blank"]   \* zero filled; its checksum would be 100
Torn  == [kind |-> "torn"]    \* half old, half new

Blocks ==
    [kind : {"super"}, generation_num : Nat, checkpoint_size : Nat]
        \cup [kind : {"log"}, generation_num : Nat, entries : Seq(Entry)]
        \cup [kind : {"checkpt"}, edges : Seq(Id \X Id)]
        \cup [kind : {"blank", "torn"}]

Address == 0 .. DevBlocks - 1

(* offset * BLOCK_SIZE is computed in 32 bits. *)
Addr(offset) == offset % AddrSpace

(* The checksum test on the superblock, and the test of play_log. *)
SuperIsValid == dev[0].kind = "super"

(* Mutant: the generation number is not compared. *)
AnyGenerationIsValid(i, gen) == dev[Addr(i)].kind = "log"

LogBlockIsValid(i, gen) ==
    /\ dev[Addr(i)].kind = "log"
    /\ dev[Addr(i)].generation_num = gen

----------------------------------------------------------------------------
(* The members of a server_log and a Graph in static storage. *)
Powered == phase # "down"

ZeroScan == [i |-> 0, k |-> 0, lastsize |-> 0]

Init ==
    /\ dev = [a \in Address |-> Blank]
    /\ phase = "down"
    /\ graph = EmptyGraph
    /\ super_block = Super(0, 0)
    /\ cur_block = <<>>
    /\ checkpt_block = <<>>
    /\ block_offset = 0
    /\ scan = ZeroScan
    /\ todo = {}

(* The process ends: by a signal (main returns without writing anything),  *)
(* an uncaught exception, a fault or a power cut.  The next one starts     *)
(* with the static storage of Init.                                        *)
PowerOff ==
    /\ phase' = "down"
    /\ graph' = EmptyGraph
    /\ super_block' = Super(0, 0)
    /\ cur_block' = <<>>
    /\ checkpt_block' = <<>>
    /\ block_offset' = 0
    /\ scan' = ZeroScan
    /\ todo' = {}

Crash ==
    /\ Powered
    /\ PowerOff
    /\ UNCHANGED dev

----------------------------------------------------------------------------
(* Start up: main, format, init_server_log, init_superblock.               *)

write_super_block(sb) ==
    /\ super_block' = sb
    /\ dev' = [dev EXCEPT ![0] = sb]

(* Mutant: the generation number starts again from 0. *)
FormatGenerationZero == 0

FormatGeneration == IF SuperIsValid THEN dev[0].generation_num + 1 ELSE 0

(* FORMAT=1 *)
format ==
    /\ phase = "down"
    /\ FormatGeneration <= MaxGeneration
    /\ write_super_block(Super(FormatGeneration, 0))
    /\ block_offset' = LogStart
    /\ phase' = "serve"
    /\ UNCHANGED <<graph, cur_block, checkpt_block, scan, todo>>

(* FORMAT=0 on a device with no valid superblock *)
init_superblock ==
    /\ phase = "down"
    /\ ~SuperIsValid
    /\ write_super_block(Super(0, 0))
    /\ block_offset' = LogStart
    /\ phase' = "serve"
    /\ UNCHANGED <<graph, cur_block, checkpt_block, scan, todo>>

(* FORMAT=0 on an initialised device: recovery starts. *)
init_server_log ==
    /\ phase = "down"
    /\ SuperIsValid
    /\ super_block' = dev[0]
    /\ IF dev[0].checkpoint_size = 0
          THEN /\ phase' = "play"
               /\ scan' = [ZeroScan EXCEPT !.i = LogStart]
          ELSE /\ phase' = "restore"
               /\ scan' = ZeroScan
    /\ UNCHANGED <<dev, graph, cur_block, checkpt_block, block_offset, todo>>

----------------------------------------------------------------------------
(* recover_from_checkpoint: scan.i counts the blocks read, scan.k the      *)
(* entries of checkpt_block already stored into the graph.                 *)

(* What a block holds when it is read as a checkpt_block_t.  Checkpoint    *)
(* blocks have no checksum: a block of another kind is reinterpreted, so   *)
(* its entry count and edges are whatever its bytes say.                   *)
EdgesIn(b) ==
    CASE b.kind = "checkpt" -> {b.edges}
      [] b.kind = "blank"   -> {<<>>}
      [] OTHER              -> UNION {[1 .. n -> Id \X Id] :
                                          n \in 0 .. EdgesPerBlock}

read_in_checkpt_block ==
    /\ phase = "restore"
    /\ scan.k = Len(checkpt_block)
    /\ scan.i < super_block.checkpoint_size
    /\ checkpt_block' \in EdgesIn(dev[Addr(LogSize + scan.i)])
    /\ scan' = [ZeroScan EXCEPT !.i = scan.i + 1]
    /\ UNCHANGED <<dev, phase, graph, super_block, cur_block, block_offset,
                   todo>>

(* Mutant: an edge is restored in one direction only. *)
RestoreOneWay(g, p) ==
    IF p[1] = p[2] THEN Assign(g, p[1], {})
                   ELSE Insert(g, p[1], p[2])

(* An entry <n, n> stands for a node, any other for an edge. *)
Restore(g, p) ==
    IF p[1] = p[2] THEN Assign(g, p[1], {})
                   ELSE Insert(Insert(g, p[1], p[2]), p[2], p[1])

restore_checkpt_entry ==
    /\ phase = "restore"
    /\ scan.k < Len(checkpt_block)
    /\ graph' = Restore(graph, checkpt_block[scan.k + 1])
    /\ scan' = [scan EXCEPT !.k = @ + 1]
    /\ UNCHANGED <<dev, phase, super_block, cur_block, checkpt_block,
                   block_offset, todo>>

(* Mutant: the loop stops one block short. *)
RestoreOneLess ==
    /\ phase = "restore"
    /\ scan.k = Len(checkpt_block)
    /\ scan.i = super_block.checkpoint_size - 1
    /\ phase' = "play"
    /\ scan' = [ZeroScan EXCEPT !.i = LogStart]
    /\ UNCHANGED <<dev, graph, super_block, cur_block, checkpt_block,
                   block_offset, todo>>

restore_done ==
    /\ phase = "restore"
    /\ scan.k = Len(checkpt_block)
    /\ scan.i = super_block.checkpoint_size
    /\ phase' = "play"
    /\ scan' = [ZeroScan EXCEPT !.i = LogStart]
    /\ UNCHANGED <<dev, graph, super_block, cur_block, checkpt_block,
                   block_offset, todo>>

----------------------------------------------------------------------------
(* play_log: scan.i is the block, scan.k the entries of it executed.       *)

AtValidBlock ==
    /\ scan.i < LogSize
    /\ LogBlockIsValid(scan.i, super_block.generation_num)

execute_log_entry ==
    /\ phase = "play"
    /\ AtValidBlock
    /\ scan.k < Len(dev[Addr(scan.i)].entries)
    /\ graph' = Execute(graph, dev[Addr(scan.i)].entries[scan.k + 1]).g
    /\ scan' = [scan EXCEPT !.k = @ + 1]
    /\ UNCHANGED <<dev, phase, super_block, cur_block, checkpt_block,
                   block_offset, todo>>

(* Mutant: the scan does not move on to the next block. *)
PlayStuck(s, size) == [i |-> s.i, k |-> 0, lastsize |-> size]

PlayNext(s, size) == [i |-> s.i + 1, k |-> 0, lastsize |-> size]

play_next_block ==
    /\ phase = "play"
    /\ AtValidBlock
    /\ scan.k = Len(dev[Addr(scan.i)].entries)
    /\ scan' = PlayNext(scan, Len(dev[Addr(scan.i)].entries))
    /\ UNCHANGED <<dev, phase, graph, super_block, cur_block, checkpt_block,
                   block_offset, todo>>

(* A last block with room left is the one to write next.  Its entries are  *)
(* not loaded into cur_block, which is still empty.                        *)
TailOffset ==
    IF 0 < scan.lastsize /\ scan.lastsize < EntriesPerBlock
       THEN scan.i - 1 ELSE scan.i

play_done ==
    /\ phase = "play"
    /\ ~AtValidBlock
    /\ block_offset' = TailOffset
    /\ phase' = "serve"
    /\ scan' = ZeroScan
    /\ UNCHANGED <<dev, graph, super_block, cur_block, checkpt_block, todo>>

----------------------------------------------------------------------------
(* The update handlers.  A request answered 507 (log full), 204 or 400     *)
(* changes nothing; the others apply the update, then append it.           *)

log_is_full == block_offset >= LogSize

CurIsFull == Len(cur_block) = EntriesPerBlock

AppendOffset == IF CurIsFull THEN block_offset + 1 ELSE block_offset

AppendBlock(e) == Append(IF CurIsFull THEN <<>> ELSE cur_block, e)

Accepts(e) ==
    /\ phase = "serve"
    /\ ~log_is_full
    /\ Execute(graph, e).status = 200

add_log_entry(e) ==
    /\ block_offset' = AppendOffset
    /\ cur_block' = AppendBlock(e)
    /\ dev' = [dev EXCEPT ![Addr(AppendOffset)] =
                  LogBlock(super_block.generation_num, AppendBlock(e))]

Update(e) ==
    /\ Accepts(e)
    /\ graph' = Execute(graph, e).g
    /\ add_log_entry(e)
    /\ UNCHANGED <<phase, super_block, checkpt_block, scan, todo>>

(* The process dies inside write_log_block: part of the block is written   *)
(* and its checksum does not match.  The client has no answer.             *)
UpdateTorn(e) ==
    /\ Accepts(e)
    /\ dev' = [dev EXCEPT ![Addr(AppendOffset)] = Torn]
    /\ PowerOff

----------------------------------------------------------------------------
(* checkpoint(): all <n, n> first, then each edge once, small id first, in *)
(* the unspecified order of the unordered containers, one block write for  *)
(* every entry.  checkpt_block is not cleared first.                       *)

(* Mutant: edges are not stored. *)
NodePairs(g) == {<<n, n>> : n \in DOMAIN g}

CheckptEntries(g) ==
    {<<n, n>> : n \in DOMAIN g}
        \cup UNION {{<<n, m>> : m \in {x \in g[n] : n < x}} : n \in DOMAIN g}

checkpoint_begin ==
    /\ phase = "serve"
    /\ ~log_is_full
    /\ super_block.generation_num < MaxGeneration
    /\ block_offset' = LogSize
    /\ todo' = CheckptEntries(graph)
    /\ phase' = "checkpoint"
    /\ UNCHANGED <<dev, graph, super_block, cur_block, checkpt_block, scan>>

CheckptIsFull == Len(checkpt_block) = EdgesPerBlock

CheckptOffset == IF CheckptIsFull THEN block_offset + 1 ELSE block_offset

add_checkpt_entry(p) ==
    /\ phase = "checkpoint"
    /\ p \in todo
    /\ (\E q \in todo : q[1] = q[2]) => p[1] = p[2]
    /\ Addr(CheckptOffset) \in Address
    /\ block_offset' = CheckptOffset
    /\ checkpt_block' =
           Append(IF CheckptIsFull THEN <<>> ELSE checkpt_block, p)
    /\ dev' = [dev EXCEPT ![Addr(CheckptOffset)] =
                  CheckptBlock(checkpt_block')]
    /\ todo' = todo \ {p}
    /\ UNCHANGED <<phase, graph, super_block, cur_block, scan>>

(* A block beyond the end of the device cannot be mapped; writing to it    *)
(* kills the process.                                                      *)
checkpt_beyond_device ==
    /\ phase = "checkpoint"
    /\ todo # {}
    /\ Addr(CheckptOffset) \notin Address
    /\ PowerOff
    /\ UNCHANGED dev

(* Mutant: the generation number is not advanced. *)
SealSameGeneration ==
    Super(super_block.generation_num, block_offset - LogSize + 1)

(* Mutant: block_offset is reset before the size is computed from it. *)
SealAfterReset ==
    Super(super_block.generation_num + 1, LogStart - LogSize + 1)

Seal == Super(super_block.generation_num + 1, block_offset - LogSize + 1)

(* The superblock makes the checkpoint count and the old log stale.        *)
(* cur_block keeps its entries.                                            *)
checkpoint_end ==
    /\ phase = "checkpoint"
    /\ todo = {}
    /\ write_super_block(Seal)
    /\ block_offset' = LogStart
    /\ phase' = "serve"
    /\ UNCHANGED <<graph, cur_block, checkpt_block, scan, todo>>

----------------------------------------------------------------------------
Recovery ==
    \/ read_in_checkpt_block
    \/ restore_checkpt_entry
    \/ restore_done
    \/ execute_log_entry
    \/ play_next_block
    \/ play_done

Checkpointing ==
    \/ \E p \in todo : add_checkpt_entry(p)
    \/ checkpt_beyond_device
    \/ checkpoint_end

Next ==
    \/ format
    \/ init_superblock
    \/ init_server_log
    \/ Recovery
    \/ \E e \in Request : Update(e)
    \/ \E e \in Request : UpdateTorn(e)
    \/ checkpoint_begin
    \/ Checkpointing
    \/ Crash

Spec == Init /\ [][Next]_vars

(* A running process keeps executing: neither the loops of recovery nor    *)
(* those of checkpoint() wait for anything.                                *)
FairSpec == Spec /\ WF_vars(Recovery) /\ WF_vars(Checkpointing)

(* In addition a client that is told "507 Checkpoint Needed" sends         *)
(* checkpoint requests until one is accepted.                              *)
CheckpointingClientSpec == FairSpec /\ WF_vars(checkpoint_begin)

----------------------------------------------------------------------------
Phases == {"down", "restore", "play", "serve", "checkpoint"}

(* Every variable has the type of the member it stands for. *)
TypeOK ==
    /\ dev \in [Address -> Blocks]
    /\ phase \in Phases
    /\ graph \in GraphOver(Id)
    /\ super_block \in
          [kind : {"super"}, generation_num : Nat, checkpoint_size : Nat]
    /\ cur_block \in Seq(Entry)
    /\ checkpt_block \in Seq(Id \X Id)
    /\ block_offset \in Nat
    /\ scan \in [i : Nat, k : Nat, lastsize : Nat]
    /\ todo \in SUBSET (Id \X Id)

(* No node is ever its own neighbour, whatever the device held: addEdge    *)
(* refuses it and recovery takes <n, n> for a node.                        *)
NoSelfLoop == Irreflexive(graph)

(* No block of the device is of a generation to come: the superblock holds *)
(* the largest generation number, so play_log cannot meet a block of a     *)
(* life of the log that is not its own.                                    *)
NoFutureGeneration ==
    \A a \in Address : dev[a].kind = "log" =>
        SuperIsValid /\ dev[a].generation_num <= dev[0].generation_num

(* A new superblock (format, init_superblock, checkpoint) makes the whole  *)
(* log stale at one stroke: no block of it will be played.                 *)
NewSuperBlockEmptiesLog ==
    [][dev'[0] # dev[0] =>
          \A i \in LogStart .. LogSize - 1 :
              ~(/\ dev'[i].kind = "log"
                /\ dev'[i].generation_num = dev'[0].generation_num)]_vars

(* The loops of recovery and of checkpoint() end: a server that entered    *)
(* one waits for requests again, unless its process dies.                  *)
LoopsEnd ==
    phase \in {"restore", "play", "checkpoint"} ~> phase \in {"serve", "down"}

(* A checkpoint makes room: a server that refuses updates because its log  *)
(* is full (utility.hpp:15, 507 "Checkpoint Needed") accepts them again,   *)
(* given clients that ask for the checkpoint.                              *)
CheckpointMakesRoom ==
    phase = "serve" /\ log_is_full ~> phase = "serve" /\ ~log_is_full
============================================================================
