-------------------------- MODULE ServerLogProofs --------------------------
(***************************************************************************)
(* Safety of ServerLog for every set of ids, every layout of the device    *)
(* and every history of requests, crashes and restarts, on a device whose  *)
(* byte offsets fit in 32 bits (NoWrap); and, in a second part, the        *)
(* exactness of its recovery.                                              *)
(***************************************************************************)
EXTENDS Durability, GraphProofs, FiniteSetTheorems

(* No checkpoint block's byte offset can wrap around to the superblock. *)
NoWrap == DevBlocks < AddrSpace

(* The parts of the inductive invariant that tie memory to the device. *)

(* The superblock in memory is the one on the device. *)
SuperInStep == phase # "down" => dev[0] = super_block

(* Block 0 is blank until the first start and a superblock from then on. *)
SuperAtZero == dev[0].kind \in {"blank", "super"}

(* The checkpoint in force lies on the device. *)
CheckptOnDevice ==
    SuperIsValid => LogSize + dev[0].checkpoint_size <= DevBlocks

(* block_offset is in the log, or one past it when the log is full, and in *)
(* the checkpoint area while checkpoint() runs.                            *)
OffsetInArea ==
    /\ phase = "serve" => block_offset \in LogStart .. LogSize
    /\ phase = "checkpoint" => block_offset \in LogSize .. DevBlocks - 1

(* play_log scans the log, and has left a block behind once it has counted *)
(* entries.                                                                *)
ScanInLog ==
    phase = "play" =>
        /\ scan.i \in LogStart .. LogSize
        /\ scan.lastsize > 0 => scan.i > LogStart

IInv ==
    /\ TypeOK
    /\ NoSelfLoop
    /\ NoFutureGeneration
    /\ SuperInStep
    /\ SuperAtZero
    /\ CheckptOnDevice
    /\ OffsetInArea
    /\ ScanInLog

----------------------------------------------------------------------------
(* An offset on the device is its own address. *)
LEMMA AddrOnDevice ==
    ASSUME NoWrap, NEW x \in Nat, x <= DevBlocks
    PROVE  Addr(x) = x
  BY LayoutAssumption DEF NoWrap, Addr

(* Each kind of block is a block. *)
LEMMA BlockTypes ==
    /\ \A gen \in Nat, size \in Nat :
          /\ Super(gen, size) \in
                [kind : {"super"}, generation_num : Nat, checkpoint_size : Nat]
          /\ Super(gen, size) \in Blocks
    /\ \A gen \in Nat, s \in Seq(Entry) : LogBlock(gen, s) \in Blocks
    /\ \A s \in Seq(Id \X Id) : CheckptBlock(s) \in Blocks
    /\ Blank \in Blocks
    /\ Torn \in Blocks
  BY DEF Blocks, Super, LogBlock, CheckptBlock, Blank, Torn

(* The fields a block of a kind has. *)
LEMMA BlockFields ==
    ASSUME NEW b \in Blocks
    PROVE  /\ b.kind = "super" =>
                 b \in [kind : {"super"}, generation_num : Nat,
                        checkpoint_size : Nat]
           /\ b.kind = "log" => b.generation_num \in Nat
                                /\ b.entries \in Seq(Entry)
           /\ b.kind = "checkpt" => b.edges \in Seq(Id \X Id)
  BY DEF Blocks

(* Whatever a block is read as, a checkpoint block holds pairs of ids. *)
LEMMA EdgesInType ==
    ASSUME NEW b \in Blocks, NEW s \in EdgesIn(b)
    PROVE  s \in Seq(Id \X Id)
  <1>1. CASE b.kind = "checkpt"
    BY <1>1, BlockFields DEF EdgesIn
  <1>2. CASE b.kind = "blank"
    <2>1. s = <<>>
      BY <1>2 DEF EdgesIn
    <2> QED
      BY <2>1
  <1>3. CASE b.kind \notin {"checkpt", "blank"}
    <2>1. EdgesIn(b) = UNION {[1 .. n -> Id \X Id] : n \in 0 .. EdgesPerBlock}
      BY <1>3 DEF EdgesIn
    <2>2. PICK n \in 0 .. EdgesPerBlock : s \in [1 .. n -> Id \X Id]
      BY <2>1
    <2>3. n \in Nat
      BY <2>2, LayoutAssumption
    <2> QED
      BY <2>2, <2>3
  <1> QED
    BY <1>1, <1>2, <1>3

(* Restoring a checkpoint entry gives a graph over the ids without loops. *)
LEMMA RestoreOK ==
    ASSUME NEW g \in GraphOver(Id), NEW p \in Id \X Id
    PROVE  /\ Restore(g, p) \in GraphOver(Id)
           /\ Irreflexive(g) => Irreflexive(Restore(g, p))
  <1>1. p[1] \in Id /\ p[2] \in Id
    OBVIOUS
  <1>2. Assign(g, p[1], {}) \in GraphOver(Id)
    BY <1>1, AssignType
  <1>3. Insert(g, p[1], p[2]) \in GraphOver(Id)
    BY <1>1, InsertEraseType
  <1>4. Insert(Insert(g, p[1], p[2]), p[2], p[1]) \in GraphOver(Id)
    BY <1>1, <1>3, InsertEraseType
  <1>5. Irreflexive(g) => Irreflexive(Restore(g, p))
    BY DEF Irreflexive, Restore, Assign, Insert, At
  <1> QED
    BY <1>2, <1>4, <1>5 DEF Restore

----------------------------------------------------------------------------
(* The initial state: a blank device and a process that is not running. *)
LEMMA InitIInv == NoWrap /\ Init => IInv
  <1> SUFFICES ASSUME NoWrap, Init PROVE IInv
    OBVIOUS
  <1> USE LayoutAssumption DEF Init
  <1>1. TypeOK
    BY BlockTypes, EmptyGraphOK DEF TypeOK, Phases, ZeroScan
  <1>2. dev[0] = Blank
    BY DEF Address
  <1>3. NoSelfLoop
    BY EmptyGraphOK DEF NoSelfLoop, Undirected
  <1>4. NoFutureGeneration
    BY DEF NoFutureGeneration, Blank
  <1>5. SuperInStep /\ OffsetInArea /\ ScanInLog
    BY DEF SuperInStep, OffsetInArea, ScanInLog
  <1>6. SuperAtZero /\ CheckptOnDevice
    BY <1>2 DEF SuperAtZero, CheckptOnDevice, SuperIsValid, Blank
  <1> QED
    BY <1>1, <1>3, <1>4, <1>5, <1>6 DEF IInv

(* What a stopped process leaves: fresh memory, the device as it is.       *)
LEMMA PowerOffIInv ==
    ASSUME IInv, PowerOff,
           dev' \in [Address -> Blocks], dev'[0] = dev[0],
           \A a \in Address : dev'[a] = dev[a] \/ dev'[a].kind # "log"
    PROVE  IInv'
  <1> USE DEF IInv, PowerOff
  <1>1. TypeOK'
    BY BlockTypes, EmptyGraphOK DEF TypeOK, Phases, ZeroScan
  <1>2. NoSelfLoop'
    BY EmptyGraphOK DEF NoSelfLoop, Undirected
  <1>3. NoFutureGeneration'
    BY DEF NoFutureGeneration, SuperIsValid
  <1>4. SuperInStep' /\ OffsetInArea' /\ ScanInLog'
    BY DEF SuperInStep, OffsetInArea, ScanInLog
  <1>5. SuperAtZero' /\ CheckptOnDevice'
    BY DEF SuperAtZero, CheckptOnDevice, SuperIsValid
  <1> QED
    BY <1>1, <1>2, <1>3, <1>4, <1>5

(* A new superblock whose generation is above that of every log block. *)
LEMMA NewSuperIInv ==
    ASSUME IInv, NEW gen \in Nat, NEW size \in Nat,
           write_super_block(Super(gen, size)),
           SuperIsValid => gen > dev[0].generation_num,
           LogSize + size <= DevBlocks,
           block_offset' = LogStart, phase' = "serve",
           UNCHANGED <<graph, cur_block, checkpt_block, scan>>,
           todo' \in SUBSET (Id \X Id)
    PROVE  /\ IInv'
           /\ \A i \in LogStart .. LogSize - 1 :
                 ~(/\ dev'[i].kind = "log"
                   /\ dev'[i].generation_num = dev'[0].generation_num)
  <1> DEFINE sb == Super(gen, size)
  <1> USE LayoutAssumption
  <1>0. 0 \in Address
    BY DEF Address
  <1>1. dev' \in [Address -> Blocks] /\ dev'[0] = sb /\ super_block' = sb
        /\ \A a \in Address \ {0} : dev'[a] = dev[a]
    BY <1>0, BlockTypes DEF write_super_block, IInv, TypeOK
  <1>2. /\ sb.kind = "super" /\ sb.generation_num = gen
        /\ sb.checkpoint_size = size
    BY DEF Super
  <1>3. TypeOK'
    BY <1>1, BlockTypes DEF IInv, TypeOK, Phases, LogStart
  <1>4. NoSelfLoop'
    BY DEF IInv, NoSelfLoop
  <1>5. \A a \in Address : dev'[a].kind = "log" =>
           dev'[a].generation_num \in Nat /\ dev'[a].generation_num < gen
    <2> TAKE a \in Address
    <2> HAVE dev'[a].kind = "log"
    <2>1. dev'[a] = dev[a] /\ dev[a].kind = "log"
      BY <1>1, <1>2
    <2>2. SuperIsValid /\ dev[a].generation_num <= dev[0].generation_num
      BY <2>1 DEF IInv, NoFutureGeneration
    <2>3. dev[a].generation_num \in Nat /\ dev[0].generation_num \in Nat
      BY <2>1, <2>2, <1>0, BlockFields DEF IInv, TypeOK, SuperIsValid
    <2> QED
      BY <2>1, <2>2, <2>3
  <1>6. NoFutureGeneration'
    BY <1>1, <1>2, <1>5 DEF NoFutureGeneration, SuperIsValid
  <1>7. SuperInStep' /\ SuperAtZero' /\ CheckptOnDevice'
    BY <1>1, <1>2 DEF SuperInStep, SuperAtZero, CheckptOnDevice
  <1>8. OffsetInArea' /\ ScanInLog'
    BY DEF OffsetInArea, ScanInLog, LogStart
  <1>9. ASSUME NEW i \in LogStart .. LogSize - 1, dev'[i].kind = "log",
               dev'[i].generation_num = dev'[0].generation_num
        PROVE  FALSE
    <2>1. i \in Address
      BY DEF Address, LogStart
    <2> QED
      BY <2>1, <1>1, <1>2, <1>5, <1>9
  <1> QED
    BY <1>3, <1>4, <1>6, <1>7, <1>8, <1>9 DEF IInv

(* Format, first start and the end of a checkpoint write such a superblock. *)
LEMMA SuperWriters ==
    ASSUME NoWrap, IInv, format \/ init_superblock \/ checkpoint_end
    PROVE  /\ IInv'
           /\ \A i \in LogStart .. LogSize - 1 :
                 ~(/\ dev'[i].kind = "log"
                   /\ dev'[i].generation_num = dev'[0].generation_num)
  <1> USE LayoutAssumption
  <1>0. SuperIsValid => dev[0].generation_num \in Nat
    BY BlockFields DEF IInv, TypeOK, Address, SuperIsValid
  <1>1. todo \in SUBSET (Id \X Id)
    BY DEF IInv, TypeOK
  <1>2. CASE format
    <2>1. FormatGeneration \in Nat
      BY <1>0 DEF FormatGeneration
    <2>2. SuperIsValid => FormatGeneration > dev[0].generation_num
      BY <1>0 DEF FormatGeneration
    <2> QED
      BY <1>1, <1>2, <2>1, <2>2, NewSuperIInv DEF format
  <1>3. CASE init_superblock
    BY <1>1, <1>3, NewSuperIInv DEF init_superblock
  <1>4. CASE checkpoint_end
    <2> DEFINE gen == super_block.generation_num + 1
               size == block_offset - LogSize + 1
    <2>1. block_offset \in LogSize .. DevBlocks - 1
      BY <1>4 DEF IInv, OffsetInArea, checkpoint_end
    <2>2. size \in Nat /\ LogSize + size <= DevBlocks
      BY <2>1
    <2>3. dev[0] = super_block
      BY <1>4 DEF IInv, SuperInStep, checkpoint_end
    <2>4. gen \in Nat /\ gen > dev[0].generation_num
      BY <2>3 DEF IInv, TypeOK
    <2>5. write_super_block(Super(gen, size))
      BY <1>4 DEF checkpoint_end, Seal
    <2> QED
      BY <1>1, <1>4, <2>2, <2>4, <2>5, NewSuperIInv DEF checkpoint_end
  <1> QED
    BY <1>2, <1>3, <1>4

----------------------------------------------------------------------------
(* A step that leaves the device alone preserves what only reads it. *)
LEMMA DeviceUnchanged ==
    ASSUME IInv, UNCHANGED dev
    PROVE  NoFutureGeneration' /\ SuperAtZero' /\ CheckptOnDevice'
  BY DEF IInv, NoFutureGeneration, SuperAtZero, CheckptOnDevice, SuperIsValid

(* The counters of the two recovery loops stay counters. *)
LEMMA NextEntryType ==
    ASSUME NEW s \in [i : Nat, k : Nat, lastsize : Nat]
    PROVE  [s EXCEPT !.k = @ + 1] \in [i : Nat, k : Nat, lastsize : Nat]
  OBVIOUS

(* The steps of recovery, from the superblock to the first request. *)
LEMMA RecoveryIInv ==
    ASSUME NoWrap, IInv, init_server_log \/ Recovery
    PROVE  IInv' /\ UNCHANGED dev
  <1> USE LayoutAssumption
  <1>0. UNCHANGED dev
    BY DEF init_server_log, Recovery, read_in_checkpt_block,
           restore_checkpt_entry, restore_done, execute_log_entry,
           play_next_block, play_done
  <1>1. NoFutureGeneration' /\ SuperAtZero' /\ CheckptOnDevice'
    BY <1>0, DeviceUnchanged
  <1>2. 0 \in Address /\ dev[0] \in Blocks
    BY DEF IInv, TypeOK, Address
  <1>3. CASE init_server_log
    <2> USE <1>3 DEF init_server_log
    <2>1. dev[0] \in [kind : {"super"}, generation_num : Nat,
                      checkpoint_size : Nat]
      BY <1>2, BlockFields DEF SuperIsValid
    <2>2. scan' \in [i : Nat, k : Nat, lastsize : Nat] /\ phase' \in Phases
      BY DEF Phases, ZeroScan, LogStart
    <2>3. TypeOK'
      BY <2>1, <2>2 DEF IInv, TypeOK
    <2>4. NoSelfLoop' /\ SuperInStep' /\ OffsetInArea' /\ ScanInLog'
      BY DEF IInv, NoSelfLoop, SuperInStep, OffsetInArea, ScanInLog, ZeroScan,
             LogStart
    <2> QED
      BY <1>1, <2>3, <2>4 DEF IInv
  <1>4. CASE read_in_checkpt_block
    <2> USE <1>4 DEF read_in_checkpt_block
    <2>1. dev[0] = super_block
      BY DEF IInv, SuperInStep
    <2>2. /\ LogSize + super_block.checkpoint_size <= DevBlocks
          /\ super_block.checkpoint_size \in Nat
          /\ scan.i \in Nat
      BY <2>1 DEF IInv, CheckptOnDevice, SuperIsValid, TypeOK
    <2>3. LogSize + scan.i \in Address
      BY <2>2 DEF Address
    <2>4. Addr(LogSize + scan.i) = LogSize + scan.i
      BY <2>2, AddrOnDevice
    <2>5. dev[Addr(LogSize + scan.i)] \in Blocks
      BY <2>3, <2>4 DEF IInv, TypeOK
    <2>6. checkpt_block' \in Seq(Id \X Id)
      BY <2>5, EdgesInType
    <2>7. scan' \in [i : Nat, k : Nat, lastsize : Nat]
      BY DEF IInv, TypeOK, ZeroScan
    <2>8. TypeOK'
      BY <2>6, <2>7 DEF IInv, TypeOK
    <2>9. NoSelfLoop' /\ SuperInStep' /\ OffsetInArea' /\ ScanInLog'
      BY DEF IInv, NoSelfLoop, SuperInStep, OffsetInArea, ScanInLog
    <2> QED
      BY <1>1, <2>8, <2>9 DEF IInv
  <1>5. CASE restore_checkpt_entry
    <2> USE <1>5 DEF restore_checkpt_entry
    <2>1. checkpt_block[scan.k + 1] \in Id \X Id
      BY DEF IInv, TypeOK
    <2>2. graph' \in GraphOver(Id) /\ NoSelfLoop'
      BY <2>1, RestoreOK DEF IInv, TypeOK, NoSelfLoop
    <2>3. scan' \in [i : Nat, k : Nat, lastsize : Nat]
      BY NextEntryType DEF IInv, TypeOK
    <2>4. TypeOK'
      BY <2>2, <2>3 DEF IInv, TypeOK
    <2>5. SuperInStep' /\ OffsetInArea' /\ ScanInLog'
      BY DEF IInv, SuperInStep, OffsetInArea, ScanInLog
    <2> QED
      BY <1>1, <2>2, <2>4, <2>5 DEF IInv
  <1>6. CASE restore_done
    <2> USE <1>6 DEF restore_done
    <2>1. TypeOK'
      BY DEF IInv, TypeOK, Phases, ZeroScan, LogStart
    <2>2. NoSelfLoop' /\ SuperInStep' /\ OffsetInArea' /\ ScanInLog'
      BY DEF IInv, NoSelfLoop, SuperInStep, OffsetInArea, ScanInLog, ZeroScan,
             LogStart
    <2> QED
      BY <1>1, <2>1, <2>2 DEF IInv
  <1>7. CASE execute_log_entry
    <2> USE <1>7 DEF execute_log_entry
    <2>1. scan.i \in LogStart .. LogSize - 1
      BY DEF IInv, ScanInLog, AtValidBlock
    <2>2. scan.i \in Address /\ Addr(scan.i) = scan.i
      BY <2>1, AddrOnDevice DEF Address, LogStart
    <2>3. dev[Addr(scan.i)].entries \in Seq(Entry)
      BY <2>2, BlockFields DEF IInv, TypeOK, AtValidBlock, LogBlockIsValid
    <2>4. dev[Addr(scan.i)].entries[scan.k + 1] \in Entry
      BY <2>3 DEF IInv, TypeOK
    <2>5. graph' \in GraphOver(Id) /\ NoSelfLoop'
      BY <2>4, ExecuteType, ExecuteIrreflexive
      DEF IInv, TypeOK, NoSelfLoop, Entry
    <2>6. scan' \in [i : Nat, k : Nat, lastsize : Nat]
      BY NextEntryType DEF IInv, TypeOK
    <2>7. TypeOK'
      BY <2>5, <2>6 DEF IInv, TypeOK
    <2>8. SuperInStep' /\ OffsetInArea' /\ ScanInLog'
      BY DEF IInv, SuperInStep, OffsetInArea, ScanInLog
    <2> QED
      BY <1>1, <2>5, <2>7, <2>8 DEF IInv
  <1>8. CASE play_next_block
    <2> USE <1>8 DEF play_next_block
    <2>1. scan.i \in LogStart .. LogSize - 1
      BY DEF IInv, ScanInLog, AtValidBlock
    <2>2. scan.i \in Address /\ Addr(scan.i) = scan.i
      BY <2>1, AddrOnDevice DEF Address, LogStart
    <2>3. dev[Addr(scan.i)].entries \in Seq(Entry)
      BY <2>2, BlockFields DEF IInv, TypeOK, AtValidBlock, LogBlockIsValid
    <2>4. Len(dev[Addr(scan.i)].entries) \in Nat
      BY <2>3
    <2>5. TypeOK'
      BY <2>1, <2>4 DEF IInv, TypeOK, PlayNext
    <2>6. NoSelfLoop' /\ SuperInStep' /\ OffsetInArea'
      BY DEF IInv, NoSelfLoop, SuperInStep, OffsetInArea
    <2>7. ScanInLog'
      BY <2>1 DEF ScanInLog, PlayNext, LogStart
    <2> QED
      BY <1>1, <2>5, <2>6, <2>7 DEF IInv
  <1>9. CASE play_done
    <2> USE <1>9 DEF play_done
    <2>1. TailOffset \in LogStart .. LogSize
      BY DEF IInv, TypeOK, ScanInLog, TailOffset, LogStart
    <2>2. TypeOK'
      BY <2>1 DEF IInv, TypeOK, Phases, ZeroScan, LogStart
    <2>3. NoSelfLoop' /\ SuperInStep' /\ OffsetInArea' /\ ScanInLog'
      BY <2>1 DEF IInv, NoSelfLoop, SuperInStep, OffsetInArea, ScanInLog
    <2> QED
      BY <1>1, <2>2, <2>3 DEF IInv
  <1> QED
    BY <1>0, <1>3, <1>4, <1>5, <1>6, <1>7, <1>8, <1>9 DEF Recovery

(* An accepted update writes its block in the log or one past its end, of  *)
(* the generation of the superblock.                                       *)
LEMMA UpdateIInv ==
    ASSUME NoWrap, IInv, NEW e \in Request, Update(e)
    PROVE  IInv' /\ dev'[0] = dev[0]
  <1> USE LayoutAssumption
  <1>1. block_offset \in LogStart .. LogSize - 1
    BY DEF Update, Accepts, log_is_full, IInv, OffsetInArea
  <1>2. AppendOffset \in LogStart .. LogSize
    BY <1>1 DEF AppendOffset, LogStart
  <1>3. /\ AppendOffset \in Address \ {0}
        /\ Addr(AppendOffset) = AppendOffset
        /\ 0 \in Address
    BY <1>2, AddrOnDevice DEF Address, LogStart
  <1>4. e \in Entry
    BY RequestAssumption
  <1>5. AppendBlock(e) \in Seq(Entry)
    BY <1>4 DEF AppendBlock, IInv, TypeOK
  <1> DEFINE b == LogBlock(super_block.generation_num, AppendBlock(e))
  <1>6. b \in Blocks /\ b.generation_num = super_block.generation_num
    BY <1>5, BlockTypes DEF IInv, TypeOK, LogBlock
  <1>7. /\ dev' \in [Address -> Blocks]
        /\ dev'[AppendOffset] = b
        /\ \A a \in Address \ {AppendOffset} : dev'[a] = dev[a]
    BY <1>3, <1>6 DEF Update, add_log_entry, IInv, TypeOK
  <1>8. dev'[0] = dev[0] /\ dev[0] = super_block
    BY <1>3, <1>7 DEF IInv, SuperInStep, Update, Accepts
  <1>9. graph' \in GraphOver(Id) /\ NoSelfLoop'
    BY <1>4, ExecuteType, ExecuteIrreflexive
    DEF Update, IInv, TypeOK, NoSelfLoop, Entry
  <1>10. TypeOK'
    BY <1>2, <1>5, <1>7, <1>9 DEF Update, add_log_entry, IInv, TypeOK, LogStart
  <1>11. super_block.kind = "super" /\ super_block.generation_num \in Nat
    BY DEF IInv, TypeOK
  <1>12. NoFutureGeneration'
    <2> SUFFICES ASSUME NEW a \in Address, dev'[a].kind = "log"
                 PROVE  SuperIsValid' /\ dev'[a].generation_num
                                             <= dev'[0].generation_num
      BY DEF NoFutureGeneration
    <2>1. CASE a = AppendOffset
      BY <2>1, <1>6, <1>7, <1>8, <1>11 DEF SuperIsValid
    <2>2. CASE a # AppendOffset
      BY <2>2, <1>7, <1>8 DEF IInv, NoFutureGeneration, SuperIsValid
    <2> QED
      BY <2>1, <2>2
  <1>13. SuperInStep' /\ SuperAtZero' /\ CheckptOnDevice'
    BY <1>8 DEF Update, IInv, SuperInStep, SuperAtZero, CheckptOnDevice,
                SuperIsValid
  <1>14. OffsetInArea' /\ ScanInLog'
    BY <1>2 DEF Update, Accepts, add_log_entry, OffsetInArea, ScanInLog
  <1> QED
    BY <1>8, <1>9, <1>10, <1>12, <1>13, <1>14 DEF IInv

(* checkpoint() writes only to the checkpoint area before the superblock. *)
LEMMA CheckpointIInv ==
    ASSUME NoWrap, IInv,
           checkpoint_begin \/ \E p \in todo : add_checkpt_entry(p)
    PROVE  IInv' /\ dev'[0] = dev[0]
  <1> USE LayoutAssumption
  <1>1. CASE checkpoint_begin
    <2> USE <1>1 DEF checkpoint_begin
    <2>1. CheckptEntries(graph) \in SUBSET (Id \X Id)
      BY GraphOverMeaning DEF CheckptEntries, IInv, TypeOK
    <2>2. TypeOK'
      BY <2>1 DEF IInv, TypeOK, Phases
    <2>3. NoSelfLoop' /\ SuperInStep' /\ OffsetInArea' /\ ScanInLog'
      BY DEF IInv, NoSelfLoop, SuperInStep, OffsetInArea, ScanInLog
    <2> QED
      BY <2>2, <2>3, DeviceUnchanged DEF IInv
  <1>2. CASE \E p \in todo : add_checkpt_entry(p)
    <2>0. PICK p \in todo : add_checkpt_entry(p)
      BY <1>2
    <2> USE <2>0 DEF add_checkpt_entry
    <2>1. block_offset \in LogSize .. DevBlocks - 1
      BY DEF IInv, OffsetInArea
    <2>2. CheckptOffset \in LogSize .. DevBlocks
      BY <2>1 DEF CheckptOffset
    <2>3. Addr(CheckptOffset) = CheckptOffset
      BY <2>2, AddrOnDevice
    <2>4. CheckptOffset \in Address \ {0} /\ 0 \in Address
      BY <2>2, <2>3 DEF Address
    <2>5. p \in Id \X Id
      BY DEF IInv, TypeOK
    <2>6. checkpt_block' \in Seq(Id \X Id)
      BY <2>5 DEF IInv, TypeOK
    <2>7. /\ CheckptBlock(checkpt_block') \in Blocks
          /\ CheckptBlock(checkpt_block').kind # "log"
      BY <2>6, BlockTypes DEF CheckptBlock
    <2>8. /\ dev' \in [Address -> Blocks]
          /\ dev'[0] = dev[0]
          /\ \A a \in Address : dev'[a] = dev[a] \/ dev'[a].kind # "log"
      BY <2>3, <2>4, <2>7 DEF IInv, TypeOK
    <2>9. TypeOK'
      BY <2>2, <2>6, <2>8 DEF IInv, TypeOK
    <2>10. NoSelfLoop' /\ SuperInStep' /\ SuperAtZero' /\ CheckptOnDevice'
      BY <2>8 DEF IInv, NoSelfLoop, SuperInStep, SuperAtZero, CheckptOnDevice,
                  SuperIsValid
    <2>11. NoFutureGeneration'
      BY <2>8 DEF IInv, NoFutureGeneration, SuperIsValid
    <2>12. OffsetInArea' /\ ScanInLog'
      BY <2>2, <2>4 DEF OffsetInArea, ScanInLog, Address
    <2> QED
      BY <2>8, <2>9, <2>10, <2>11, <2>12 DEF IInv
  <1> QED
    BY <1>1, <1>2

(* The process dies: between two steps, past the end of the device, or     *)
(* inside the write of a log block.                                        *)
LEMMA DeathIInv ==
    ASSUME NoWrap, IInv,
           Crash \/ checkpt_beyond_device \/ \E e \in Request : UpdateTorn(e)
    PROVE  IInv' /\ dev'[0] = dev[0]
  <1> USE LayoutAssumption
  <1>1. CASE Crash \/ checkpt_beyond_device
    <2>1. PowerOff /\ UNCHANGED dev
      BY <1>1 DEF Crash, checkpt_beyond_device
    <2>2. dev' \in [Address -> Blocks]
      BY <2>1 DEF IInv, TypeOK
    <2> QED
      BY <2>1, <2>2, PowerOffIInv
  <1>2. CASE \E e \in Request : UpdateTorn(e)
    <2>0. PICK e \in Request : UpdateTorn(e)
      BY <1>2
    <2>1. block_offset \in LogStart .. LogSize - 1
      BY <2>0 DEF UpdateTorn, Accepts, log_is_full, IInv, OffsetInArea
    <2>2. AppendOffset \in LogStart .. LogSize
      BY <2>1 DEF AppendOffset, LogStart
    <2>3. /\ AppendOffset \in Address \ {0}
          /\ Addr(AppendOffset) = AppendOffset
          /\ 0 \in Address
      BY <2>2, AddrOnDevice DEF Address, LogStart
    <2>4. Torn \in Blocks /\ Torn.kind # "log"
      BY BlockTypes DEF Torn
    <2>5. /\ dev' \in [Address -> Blocks]
          /\ dev'[0] = dev[0]
          /\ \A a \in Address : dev'[a] = dev[a] \/ dev'[a].kind # "log"
      BY <2>0, <2>3, <2>4 DEF UpdateTorn, IInv, TypeOK
    <2>6. PowerOff
      BY <2>0 DEF UpdateTorn
    <2> QED
      BY <2>5, <2>6, PowerOffIInv
  <1> QED
    BY <1>1, <1>2

(* The inductive step.  Only a new superblock changes block 0, and then no *)
(* block of the log is of its generation.                                  *)
LEMMA NextIInv ==
    ASSUME NoWrap, IInv, [Next]_vars
    PROVE  /\ IInv'
           /\ dev'[0] # dev[0] =>
                 \A i \in LogStart .. LogSize - 1 :
                    ~(/\ dev'[i].kind = "log"
                      /\ dev'[i].generation_num = dev'[0].generation_num)
  <1>1. CASE format \/ init_superblock \/ checkpoint_end
    BY <1>1, SuperWriters
  <1>2. CASE init_server_log \/ Recovery
    BY <1>2, RecoveryIInv
  <1>3. CASE \E e \in Request : Update(e)
    BY <1>3, UpdateIInv
  <1>4. CASE checkpoint_begin \/ \E p \in todo : add_checkpt_entry(p)
    BY <1>4, CheckpointIInv
  <1>5. CASE Crash \/ checkpt_beyond_device \/ \E e \in Request : UpdateTorn(e)
    BY <1>5, DeathIInv
  <1>6. CASE UNCHANGED vars
    BY <1>6 DEF vars, IInv, TypeOK, NoSelfLoop, NoFutureGeneration,
                SuperInStep, SuperAtZero, CheckptOnDevice, OffsetInArea,
                ScanInLog, SuperIsValid
  <1> QED
    BY <1>1, <1>2, <1>3, <1>4, <1>5, <1>6 DEF Next, Checkpointing

----------------------------------------------------------------------------
(* IInv holds in every reachable state. *)
THEOREM Invariance == ASSUME NoWrap PROVE Spec => []IInv
  <1>1. Init => IInv
    BY InitIInv
  <1>2. IInv /\ [Next]_vars => IInv'
    BY NextIInv
  <1> QED
    BY <1>1, <1>2, PTL DEF Spec

(* Every variable keeps its type: no handler, loop or crash can take a     *)
(* member outside what the code declares it to hold.                       *)
THEOREM TypeCorrect == ASSUME NoWrap PROVE Spec => []TypeOK
  <1>1. IInv => TypeOK
    BY DEF IInv
  <1> QED
    BY <1>1, Invariance, PTL

(* No node is ever its own neighbour, even after recovery from a damaged   *)
(* checkpoint (graph.cpp:22, log.cpp:157-164).                             *)
THEOREM SelfLoopFree == ASSUME NoWrap PROVE Spec => []NoSelfLoop
  <1>1. IInv => NoSelfLoop
    BY DEF IInv
  <1> QED
    BY <1>1, Invariance, PTL

(* The superblock carries the largest generation on the device. *)
THEOREM GenerationsBehind == ASSUME NoWrap PROVE Spec => []NoFutureGeneration
  <1>1. IInv => NoFutureGeneration
    BY DEF IInv
  <1> QED
    BY <1>1, Invariance, PTL

(* format, init_superblock and checkpoint make the whole log stale by the  *)
(* one write of block 0.                                                   *)
THEOREM SuperBlockEmptiesLog ==
    ASSUME NoWrap PROVE Spec => NewSuperBlockEmptiesLog
  <1> DEFINE Emptied ==
        dev'[0] # dev[0] =>
            \A i \in LogStart .. LogSize - 1 :
                ~(/\ dev'[i].kind = "log"
                  /\ dev'[i].generation_num = dev'[0].generation_num)
  <1>1. IInv /\ [Next]_vars => [Emptied]_vars
    BY NextIInv
  <1> QED
    BY <1>1, Invariance, PTL DEF Spec, NewSuperBlockEmptiesLog

----------------------------------------------------------------------------
(***************************************************************************)
(* The second part: the recovery loops of log.cpp against the reference of *)
(* Durability.  For every device, every layout and every history of        *)
(* lapses, crashes and interrupted recoveries, the graph in memory is what *)
(* Recovered says.                                                         *)
(***************************************************************************)

(* The loops of the reference, one turn at a time. *)

(* Restoring the entries of a checkpoint block keeps to graphs over ids. *)
LEMMA RestoreTurns ==
    ASSUME NEW s \in Seq(Id \X Id)
    PROVE  TurnsIn(RestoreTurn(s), GraphOver(Id), Len(s))
  <1> SUFFICES ASSUME NEW g \in GraphOver(Id), NEW i \in 1 .. Len(s)
               PROVE  RestoreTurn(s)[<<g, i>>] \in GraphOver(Id)
    BY DEF TurnsIn
  <1>1. s[i] \in Id \X Id
    OBVIOUS
  <1>2. Restore(g, s[i]) \in GraphOver(Id)
    BY <1>1, RestoreOK
  <1> QED
    BY <1>2 DEF RestoreTurn

(* Executing the entries of a log block does, too. *)
LEMMA ReplayTurns ==
    ASSUME NEW s \in Seq(Entry)
    PROVE  TurnsIn(ReplayTurn(s), GraphOver(Id), Len(s))
  <1> SUFFICES ASSUME NEW g \in GraphOver(Id), NEW i \in 1 .. Len(s)
               PROVE  ReplayTurn(s)[<<g, i>>] \in GraphOver(Id)
    BY DEF TurnsIn
  <1>1. s[i] \in Entry
    OBVIOUS
  <1>2. Execute(g, s[i]).g \in GraphOver(Id)
    BY <1>1, ExecuteType DEF Entry
  <1> QED
    BY <1>2 DEF ReplayTurn

(* The graph after the first entries of a checkpoint block. *)
LEMMA RestoredZero ==
    ASSUME NEW s \in Seq(Id \X Id), NEW g \in GraphOver(Id)
    PROVE  Restored(g, s, 0) = g
  <1>1. Len(s) \in Nat
    OBVIOUS
  <1> QED
    BY <1>1, RestoreTurns, StepsZero DEF Restored

(* It is a graph over the ids. *)
LEMMA RestoredType ==
    ASSUME NEW s \in Seq(Id \X Id), NEW g \in GraphOver(Id),
           NEW n \in 0 .. Len(s)
    PROVE  Restored(g, s, n) \in GraphOver(Id)
  <1>1. Len(s) \in Nat
    OBVIOUS
  <1> QED
    BY <1>1, RestoreTurns, StepsType DEF Restored

(* One entry more is one Restore more. *)
LEMMA RestoredNext ==
    ASSUME NEW s \in Seq(Id \X Id), NEW g \in GraphOver(Id),
           NEW n \in 1 .. Len(s)
    PROVE  Restored(g, s, n) = Restore(Restored(g, s, n - 1), s[n])
  <1>1. Len(s) \in Nat /\ TurnsIn(RestoreTurn(s), GraphOver(Id), Len(s))
    BY RestoreTurns
  <1>2. Restored(g, s, n) = RestoreTurn(s)[<<Restored(g, s, n - 1), n>>]
    <2> DEFINE N == Len(s)
               turn == RestoreTurn(s)
    <2>1. N \in Nat /\ n \in 1 .. N /\ TurnsIn(turn, GraphOver(Id), N)
      BY <1>1
    <2> HIDE DEF N, turn
    <2>2. TakesTurn(turn, g, n)
      BY <2>1, StepsNext
    <2> QED
      BY <2>2 DEF Restored, turn, TakesTurn
  <1>3. Restored(g, s, n - 1) \in GraphOver(Id) /\ n \in Nat
    BY <1>1, RestoredType
  <1> QED
    BY <1>2, <1>3 DEF RestoreTurn

(* Blocks that begin with the same entries restore the same. *)
LEMMA RestoredAgree ==
    ASSUME NEW s \in Seq(Id \X Id), NEW t, NEW g \in GraphOver(Id),
           NEW n \in 0 .. Len(s), \A i \in 1 .. n : s[i] = t[i]
    PROVE  Restored(g, s, n) = Restored(g, t, n)
  <1>1. n \in Nat /\ TurnsIn(RestoreTurn(s), GraphOver(Id), n)
    BY RestoreTurns DEF TurnsIn
  <1>2. SameTurns(RestoreTurn(s), RestoreTurn(t), GraphOver(Id), n)
    BY DEF SameTurns, RestoreTurn
  <1> QED
    BY <1>1, <1>2, StepsAgree DEF Restored

(* The same of the entries of a log block. *)
LEMMA ReplayedZero ==
    ASSUME NEW s \in Seq(Entry), NEW g \in GraphOver(Id)
    PROVE  Replayed(g, s, 0) = g
  <1>1. Len(s) \in Nat
    OBVIOUS
  <1> QED
    BY <1>1, ReplayTurns, StepsZero DEF Replayed

(* It is a graph over the ids. *)
LEMMA ReplayedType ==
    ASSUME NEW s \in Seq(Entry), NEW g \in GraphOver(Id),
           NEW n \in 0 .. Len(s)
    PROVE  Replayed(g, s, n) \in GraphOver(Id)
  <1>1. Len(s) \in Nat
    OBVIOUS
  <1> QED
    BY <1>1, ReplayTurns, StepsType DEF Replayed

(* One entry more is one method call more. *)
LEMMA ReplayedNext ==
    ASSUME NEW s \in Seq(Entry), NEW g \in GraphOver(Id),
           NEW n \in 1 .. Len(s)
    PROVE  Replayed(g, s, n) = Execute(Replayed(g, s, n - 1), s[n]).g
  <1>1. Len(s) \in Nat /\ TurnsIn(ReplayTurn(s), GraphOver(Id), Len(s))
    BY ReplayTurns
  <1>2. Replayed(g, s, n) = ReplayTurn(s)[<<Replayed(g, s, n - 1), n>>]
    <2> DEFINE N == Len(s)
               turn == ReplayTurn(s)
    <2>1. N \in Nat /\ n \in 1 .. N /\ TurnsIn(turn, GraphOver(Id), N)
      BY <1>1
    <2> HIDE DEF N, turn
    <2>2. TakesTurn(turn, g, n)
      BY <2>1, StepsNext
    <2> QED
      BY <2>2 DEF Replayed, turn, TakesTurn
  <1>3. Replayed(g, s, n - 1) \in GraphOver(Id) /\ n \in Nat
    BY <1>1, ReplayedType
  <1> QED
    BY <1>2, <1>3 DEF ReplayTurn

(* Blocks that begin with the same entries replay the same. *)
LEMMA ReplayedAgree ==
    ASSUME NEW s \in Seq(Entry), NEW t, NEW g \in GraphOver(Id),
           NEW n \in 0 .. Len(s), \A i \in 1 .. n : s[i] = t[i]
    PROVE  Replayed(g, s, n) = Replayed(g, t, n)
  <1>1. n \in Nat /\ TurnsIn(ReplayTurn(s), GraphOver(Id), n)
    BY ReplayTurns DEF TurnsIn
  <1>2. SameTurns(ReplayTurn(s), ReplayTurn(t), GraphOver(Id), n)
    BY DEF SameTurns, ReplayTurn
  <1> QED
    BY <1>1, <1>2, StepsAgree DEF Replayed

----------------------------------------------------------------------------
(* A device of typed blocks whose checkpoint lies on it. *)
DeviceOK(d) ==
    /\ d \in [Address -> Blocks]
    /\ CheckptSize(d) \in Nat
    /\ LogSize + CheckptSize(d) <= DevBlocks

(* What a checkpoint block holds, if it was written as one. *)
LEMMA EdgesType ==
    ASSUME NoWrap, NEW d \in [Address -> Blocks],
           NEW i \in 1 .. DevBlocks - LogSize
    PROVE  /\ LogSize + i - 1 \in Address
           /\ Addr(LogSize + i - 1) = LogSize + i - 1
           /\ Edges(d, i) \in Seq(Id \X Id)
  <1>1. LogSize + i - 1 \in Address
    BY LayoutAssumption DEF Address
  <1>2. Addr(LogSize + i - 1) = LogSize + i - 1
    BY <1>1, LayoutAssumption, AddrOnDevice DEF Address
  <1>3. d[Addr(LogSize + i - 1)] \in Blocks
    BY <1>1, <1>2
  <1> QED
    BY <1>1, <1>2, <1>3, BlockFields DEF Edges

(* Restoring a block of the checkpoint keeps to graphs over ids. *)
LEMMA CheckptTurns ==
    ASSUME NoWrap, NEW d \in [Address -> Blocks]
    PROVE  TurnsIn(CheckptTurn(d), GraphOver(Id), DevBlocks - LogSize)
  <1> SUFFICES ASSUME NEW g \in GraphOver(Id),
                      NEW i \in 1 .. DevBlocks - LogSize
               PROVE  CheckptTurn(d)[<<g, i>>] \in GraphOver(Id)
    BY DEF TurnsIn
  <1> DEFINE s == Edges(d, i)
  <1>1. s \in Seq(Id \X Id)
    BY EdgesType
  <1>2. Len(s) \in 0 .. Len(s)
    BY <1>1
  <1> HIDE DEF s
  <1>3. Restored(g, s, Len(s)) \in GraphOver(Id)
    BY <1>1, <1>2, RestoredType
  <1> QED
    BY <1>3 DEF CheckptTurn, s

(* The graph after the first blocks of a checkpoint. *)
LEMMA CheckptThroughZero ==
    ASSUME NoWrap, NEW d \in [Address -> Blocks]
    PROVE  CheckptThrough(d, 0) = EmptyGraph
  <1>1. DevBlocks - LogSize \in Nat
    BY LayoutAssumption
  <1>2. EmptyGraph \in GraphOver(Id)
    BY EmptyGraphOK
  <1> QED
    BY <1>1, <1>2, CheckptTurns, StepsZero DEF CheckptThrough

(* It is a graph over the ids. *)
LEMMA CheckptThroughType ==
    ASSUME NoWrap, NEW d \in [Address -> Blocks],
           NEW n \in 0 .. DevBlocks - LogSize
    PROVE  CheckptThrough(d, n) \in GraphOver(Id)
  <1>1. DevBlocks - LogSize \in Nat
    BY LayoutAssumption
  <1>2. EmptyGraph \in GraphOver(Id)
    BY EmptyGraphOK
  <1> QED
    BY <1>1, <1>2, CheckptTurns, StepsType DEF CheckptThrough

(* One block more is restoring the entries of that block. *)
LEMMA CheckptThroughNext ==
    ASSUME NoWrap, NEW d \in [Address -> Blocks],
           NEW n \in 1 .. DevBlocks - LogSize
    PROVE  CheckptThrough(d, n) =
              Restored(CheckptThrough(d, n - 1), Edges(d, n), Len(Edges(d, n)))
  <1>1. DevBlocks - LogSize \in Nat
    BY LayoutAssumption
  <1>2. EmptyGraph \in GraphOver(Id)
    BY EmptyGraphOK
  <1>3. CheckptThrough(d, n) = CheckptTurn(d)[<<CheckptThrough(d, n - 1), n>>]
    BY <1>1, <1>2, CheckptTurns, StepsNext DEF TakesTurn, CheckptThrough
  <1>4. CheckptThrough(d, n - 1) \in GraphOver(Id) /\ n \in Nat
    BY <1>1, CheckptThroughType
  <1> QED
    BY <1>3, <1>4 DEF CheckptTurn

(* Devices with the same checkpoint blocks give the same graph. *)
LEMMA CheckptThroughAgree ==
    ASSUME NoWrap, NEW c \in [Address -> Blocks],
           NEW d \in [Address -> Blocks],
           NEW n \in 0 .. DevBlocks - LogSize,
           \A i \in 1 .. n : Edges(c, i) = Edges(d, i)
    PROVE  CheckptThrough(c, n) = CheckptThrough(d, n)
  <1>1. n \in Nat /\ TurnsIn(CheckptTurn(c), GraphOver(Id), n)
    BY CheckptTurns, LayoutAssumption DEF TurnsIn
  <1>2. SameTurns(CheckptTurn(c), CheckptTurn(d), GraphOver(Id), n)
    BY <1>1 DEF SameTurns, CheckptTurn
  <1>3. EmptyGraph \in GraphOver(Id)
    BY EmptyGraphOK
  <1> QED
    BY <1>1, <1>2, <1>3, StepsAgree DEF CheckptThrough

(* A run of log blocks at the start of the log. *)
LogBlocks(d, n) == \A i \in 1 .. n : i < LogSize /\ d[Addr(i)].kind = "log"

(* What a log block holds. *)
LEMMA EntriesType ==
    ASSUME NoWrap, NEW d \in [Address -> Blocks], NEW i \in 1 .. LogSize - 1,
           d[Addr(i)].kind = "log"
    PROVE  Addr(i) = i /\ i \in Address /\ Entries(d, i) \in Seq(Entry)
  <1>1. Addr(i) = i /\ i \in Address
    BY LayoutAssumption, AddrOnDevice DEF Address
  <1> QED
    BY <1>1, BlockFields DEF Entries

(* Replaying a block of the log keeps to graphs over ids. *)
LEMMA LogTurns ==
    ASSUME NoWrap, NEW d \in [Address -> Blocks], NEW n \in Nat,
           LogBlocks(d, n)
    PROVE  TurnsIn(LogTurn(d), GraphOver(Id), n)
  <1> SUFFICES ASSUME NEW g \in GraphOver(Id), NEW i \in 1 .. n
               PROVE  LogTurn(d)[<<g, i>>] \in GraphOver(Id)
    BY DEF TurnsIn
  <1> DEFINE s == Entries(d, i)
  <1>1. s \in Seq(Entry)
    <2>1. i \in 1 .. LogSize - 1 /\ d[Addr(i)].kind = "log"
      BY LayoutAssumption DEF LogBlocks
    <2> QED
      BY <2>1, EntriesType
  <1>2. Len(s) \in 0 .. Len(s)
    BY <1>1
  <1> HIDE DEF s
  <1>3. Replayed(g, s, Len(s)) \in GraphOver(Id)
    BY <1>1, <1>2, ReplayedType
  <1> QED
    BY <1>3 DEF LogTurn, s

(* The graph after the first blocks of the log. *)
LEMMA LogThroughZero ==
    ASSUME NoWrap, NEW d, DeviceOK(d)
    PROVE  LogThrough(d, 0) = CheckptThrough(d, CheckptSize(d))
  <1>1. CheckptThrough(d, CheckptSize(d)) \in GraphOver(Id)
    BY CheckptThroughType, LayoutAssumption DEF DeviceOK
  <1>2. TurnsIn(LogTurn(d), GraphOver(Id), 0) /\ 0 \in Nat
    BY DEF TurnsIn
  <1> QED
    BY <1>1, <1>2, StepsZero DEF LogThrough

(* It is a graph over the ids. *)
LEMMA LogThroughType ==
    ASSUME NoWrap, NEW d, DeviceOK(d), NEW n \in Nat, LogBlocks(d, n)
    PROVE  LogThrough(d, n) \in GraphOver(Id)
  <1>1. CheckptThrough(d, CheckptSize(d)) \in GraphOver(Id)
    BY CheckptThroughType, LayoutAssumption DEF DeviceOK
  <1>2. TurnsIn(LogTurn(d), GraphOver(Id), n) /\ n \in 0 .. n
    BY LogTurns DEF DeviceOK
  <1> QED
    BY <1>1, <1>2, StepsType DEF LogThrough

(* One block more is replaying the entries of that block. *)
LEMMA LogThroughNext ==
    ASSUME NoWrap, NEW d, DeviceOK(d), NEW n \in Nat, n > 0, LogBlocks(d, n)
    PROVE  LogThrough(d, n) =
              Replayed(LogThrough(d, n - 1), Entries(d, n), Len(Entries(d, n)))
  <1>1. CheckptThrough(d, CheckptSize(d)) \in GraphOver(Id)
    BY CheckptThroughType, LayoutAssumption DEF DeviceOK
  <1>2. TurnsIn(LogTurn(d), GraphOver(Id), n) /\ n \in 1 .. n
    BY LogTurns DEF DeviceOK
  <1>3. LogThrough(d, n) = LogTurn(d)[<<LogThrough(d, n - 1), n>>]
    BY <1>1, <1>2, StepsNext DEF TakesTurn, LogThrough
  <1>4. LogThrough(d, n - 1) \in GraphOver(Id)
    <2>1. n - 1 \in Nat /\ LogBlocks(d, n - 1)
      BY DEF LogBlocks
    <2> QED
      BY <2>1, LogThroughType
  <1> QED
    BY <1>3, <1>4 DEF LogTurn

(* Devices with the same checkpoint and the same log blocks agree. *)
LEMMA LogThroughAgree ==
    ASSUME NoWrap, NEW c, DeviceOK(c), NEW d, NEW n \in Nat, LogBlocks(c, n),
           CheckptThrough(c, CheckptSize(c)) = CheckptThrough(d, CheckptSize(d)),
           \A i \in 1 .. n : Entries(c, i) = Entries(d, i)
    PROVE  LogThrough(c, n) = LogThrough(d, n)
  <1>1. CheckptThrough(c, CheckptSize(c)) \in GraphOver(Id)
    BY CheckptThroughType, LayoutAssumption DEF DeviceOK
  <1>2. TurnsIn(LogTurn(c), GraphOver(Id), n)
    BY LogTurns DEF DeviceOK
  <1>3. SameTurns(LogTurn(c), LogTurn(d), GraphOver(Id), n)
    BY DEF SameTurns, LogTurn
  <1> QED
    BY <1>1, <1>2, <1>3, StepsAgree DEF LogThrough

(* The device of a running or stopped server. *)
LEMMA ServerDeviceOK ==
    ASSUME IInv
    PROVE  DeviceOK(dev)
  <1>1. 0 \in Address /\ dev[0] \in Blocks
    BY LayoutAssumption DEF IInv, TypeOK, Address
  <1> QED
    BY <1>1, BlockFields, LayoutAssumption
    DEF IInv, TypeOK, DeviceOK, CheckptSize, HasSuper, CheckptOnDevice,
        SuperIsValid

(* A running server's superblock is the one on the device. *)
LEMMA SuperOnDevice ==
    ASSUME IInv, phase # "down"
    PROVE  /\ HasSuper(dev) /\ SuperIsValid
           /\ Generation(dev) = super_block.generation_num
           /\ CheckptSize(dev) = super_block.checkpoint_size
           /\ super_block.checkpoint_size \in Nat
  BY DEF IInv, TypeOK, SuperInStep, HasSuper, SuperIsValid, Generation,
         CheckptSize

(* play_log stops behind the last block that is live, so the live blocks   *)
(* are those in front of the first that is not.                            *)
LEMMA LiveBlocksAre ==
    ASSUME NEW d, NEW k \in 0 .. LogSize - 1,
           \A j \in LogStart .. k : IsLive(d, j),
           k + 1 < LogSize => ~IsLive(d, k + 1)
    PROVE  /\ LiveBlocks(d) = 1 .. k
           /\ Cardinality(LiveBlocks(d)) = k
  <1>1. LiveBlocks(d) \subseteq 1 .. k
    <2> SUFFICES ASSUME NEW i \in LiveBlocks(d) PROVE i <= k
      BY DEF LiveBlocks, LogStart
    <2>1. i \in 1 .. LogSize - 1 /\ \A j \in 1 .. i : IsLive(d, j)
      BY DEF LiveBlocks, LogStart
    <2>2. i > k => k + 1 \in 1 .. i /\ k + 1 < LogSize
      BY <2>1, LayoutAssumption
    <2> QED
      BY <2>1, <2>2, LayoutAssumption
  <1>2. 1 .. k \subseteq LiveBlocks(d)
    BY LayoutAssumption DEF LiveBlocks, LogStart
  <1>3. Cardinality(1 .. k) = k
    BY FS_Interval
  <1> QED
    BY <1>1, <1>2, <1>3

----------------------------------------------------------------------------
(* What holds while the loops run. *)

(* A stopped process has the memory of Init, as far as recovery reads it. *)
MemoryFresh ==
    /\ phase = "down" =>
          graph = EmptyGraph /\ cur_block = <<>> /\ checkpt_block = <<>>
    /\ phase \in {"restore", "play"} => cur_block = <<>>

(* recover_from_checkpoint has restored scan.i - 1 blocks and scan.k       *)
(* entries of the next.                                                    *)
RestoreProgress ==
    phase = "restore" =>
        /\ scan.i <= super_block.checkpoint_size
        /\ scan.k <= Len(checkpt_block)
        /\ checkpt_block = IF scan.i = 0 THEN <<>> ELSE Edges(dev, scan.i)
        /\ graph = IF scan.i = 0 THEN EmptyGraph
                   ELSE Restored(CheckptThrough(dev, scan.i - 1),
                                 checkpt_block, scan.k)

(* play_log has executed the blocks in front of scan.i, which are live,    *)
(* and scan.k entries of block scan.i.                                     *)
PlayProgress ==
    phase = "play" =>
        /\ \A j \in LogStart .. scan.i - 1 : IsLive(dev, j)
        /\ scan.lastsize = IF scan.i = LogStart THEN 0
                           ELSE Len(Entries(dev, scan.i - 1))
        /\ IF AtValidBlock
           THEN /\ scan.k <= Len(Entries(dev, scan.i))
                /\ graph = Replayed(LogThrough(dev, scan.i - 1),
                                    Entries(dev, scan.i), scan.k)
           ELSE scan.k = 0 /\ graph = LogThrough(dev, scan.i - 1)

RecoveryInv ==
    /\ MemoryFresh
    /\ CheckptReadable => RestoreProgress /\ PlayProgress

(* The block after the ones already restored, and after the last entry of  *)
(* the current one.                                                        *)
LEMMA RestoredBlock ==
    ASSUME NoWrap, IInv, phase = "restore", RestoreProgress,
           scan.k = Len(checkpt_block)
    PROVE  /\ graph = CheckptThrough(dev, scan.i)
           /\ scan.i \in 0 .. DevBlocks - LogSize
  <1>1. /\ scan.i \in Nat /\ scan.i <= CheckptSize(dev)
        /\ dev \in [Address -> Blocks]
    BY SuperOnDevice DEF IInv, TypeOK, RestoreProgress
  <1>2. scan.i \in 0 .. DevBlocks - LogSize
    BY <1>1, ServerDeviceOK, LayoutAssumption DEF DeviceOK
  <1>3. CASE scan.i = 0
    BY <1>1, <1>2, <1>3, CheckptThroughZero DEF RestoreProgress
  <1>4. CASE scan.i # 0
    <2>1. scan.i \in 1 .. DevBlocks - LogSize
      BY <1>2, <1>4
    <2>2. CheckptThrough(dev, scan.i) =
             Restored(CheckptThrough(dev, scan.i - 1), Edges(dev, scan.i),
                      Len(Edges(dev, scan.i)))
      BY <1>1, <2>1, CheckptThroughNext
    <2> QED
      BY <1>2, <1>4, <2>2 DEF RestoreProgress
  <1> QED
    BY <1>2, <1>3, <1>4

(* The blocks play_log has left behind are log blocks. *)
LEMMA PlayedBlocks ==
    ASSUME NoWrap, IInv, phase = "play", PlayProgress
    PROVE  /\ scan.i - 1 \in Nat /\ LogBlocks(dev, scan.i - 1)
           /\ AtValidBlock =>
                 /\ scan.i \in 1 .. LogSize - 1
                 /\ IsLive(dev, scan.i)
                 /\ LogBlocks(dev, scan.i)
                 /\ Entries(dev, scan.i) \in Seq(Entry)
           /\ scan.i < LogSize /\ ~AtValidBlock => ~IsLive(dev, scan.i)
           /\ LogThrough(dev, scan.i - 1) \in GraphOver(Id)
  <1>1. scan.i \in 1 .. LogSize
    BY DEF IInv, ScanInLog, LogStart
  <1>2. scan.i - 1 \in Nat /\ LogBlocks(dev, scan.i - 1)
    BY <1>1, LayoutAssumption DEF PlayProgress, LogBlocks, IsLive, LogStart
  <1>3. AtValidBlock <=> scan.i < LogSize /\ IsLive(dev, scan.i)
    BY SuperOnDevice DEF AtValidBlock, LogBlockIsValid, IsLive
  <1>4. ASSUME AtValidBlock
        PROVE  /\ scan.i \in 1 .. LogSize - 1
               /\ IsLive(dev, scan.i)
               /\ LogBlocks(dev, scan.i)
               /\ Entries(dev, scan.i) \in Seq(Entry)
    <2>1. scan.i \in 1 .. LogSize - 1 /\ dev[Addr(scan.i)].kind = "log"
      BY <1>1, <1>3, <1>4, LayoutAssumption DEF IsLive
    <2>2. LogBlocks(dev, scan.i)
      BY <1>2, <2>1, LayoutAssumption DEF LogBlocks
    <2>3. Entries(dev, scan.i) \in Seq(Entry)
      BY <2>1, EntriesType DEF IInv, TypeOK
    <2> QED
      BY <1>3, <1>4, <2>1, <2>2, <2>3
  <1>5. LogThrough(dev, scan.i - 1) \in GraphOver(Id)
    BY <1>2, ServerDeviceOK, LogThroughType
  <1> QED
    BY <1>2, <1>3, <1>4, <1>5

(* Where the scan stands when it comes to block i with graph g. *)
LEMMA ScanAtBlock ==
    ASSUME NoWrap, IInv, NEW i \in 1 .. LogSize, phase # "down",
           \A j \in 1 .. i - 1 : IsLive(dev, j)
    PROVE  /\ LogThrough(dev, i - 1) \in GraphOver(Id)
           /\ i < LogSize /\ IsLive(dev, i) =>
                 /\ Entries(dev, i) \in Seq(Entry)
                 /\ Replayed(LogThrough(dev, i - 1), Entries(dev, i), 0) =
                       LogThrough(dev, i - 1)
  <1>1. i - 1 \in Nat /\ LogBlocks(dev, i - 1)
    BY LayoutAssumption DEF LogBlocks, IsLive
  <1>2. LogThrough(dev, i - 1) \in GraphOver(Id)
    BY <1>1, ServerDeviceOK, LogThroughType
  <1>3. ASSUME i < LogSize, IsLive(dev, i)
        PROVE  /\ Entries(dev, i) \in Seq(Entry)
               /\ Replayed(LogThrough(dev, i - 1), Entries(dev, i), 0) =
                     LogThrough(dev, i - 1)
    <2>1. i \in 1 .. LogSize - 1 /\ dev[Addr(i)].kind = "log"
      BY <1>3, LayoutAssumption DEF IsLive
    <2>2. Entries(dev, i) \in Seq(Entry)
      BY <2>1, EntriesType DEF IInv, TypeOK
    <2> QED
      BY <1>2, <2>2, ReplayedZero
  <1> QED
    BY <1>2, <1>3

----------------------------------------------------------------------------
(* The superblock tells which loop to begin with. *)
LEMMA BeginRecovery ==
    ASSUME NoWrap, IInv, IInv', RecoveryInv, init_server_log
    PROVE  RecoveryInv'
  <1> USE DEF init_server_log
  <1>1. MemoryFresh'
    BY DEF RecoveryInv, MemoryFresh
  <1>2. graph = EmptyGraph /\ checkpt_block = <<>>
    BY DEF RecoveryInv, MemoryFresh
  <1>3. /\ HasSuper(dev) /\ dev[0] \in Blocks
        /\ CheckptSize(dev) = dev[0].checkpoint_size
    <2>1. 0 \in Address
      BY LayoutAssumption DEF Address
    <2>2. dev[0] \in Blocks
      BY <2>1 DEF IInv, TypeOK
    <2> QED
      BY <2>2 DEF HasSuper, SuperIsValid, CheckptSize
  <1>4. dev[0].checkpoint_size \in Nat
    BY <1>3, BlockFields DEF HasSuper
  <1>5. CASE dev[0].checkpoint_size = 0
    <2>1. phase' = "play" /\ scan'.i = 1 /\ scan'.k = 0 /\ scan'.lastsize = 0
      BY <1>5 DEF ZeroScan, LogStart
    <2>2. RestoreProgress'
      BY <2>1 DEF RestoreProgress
    <2>3. LogThrough(dev, 0) = EmptyGraph
      <3>1. DeviceOK(dev) /\ dev \in [Address -> Blocks]
        BY ServerDeviceOK DEF DeviceOK
      <3>2. LogThrough(dev, 0) = CheckptThrough(dev, 0)
        BY <1>3, <1>5, <3>1, LogThroughZero
      <3> QED
        BY <3>1, <3>2, CheckptThroughZero
    <2>4. AtValidBlock' =>
             /\ Entries(dev', 1) \in Seq(Entry)
             /\ Replayed(LogThrough(dev', 0), Entries(dev', 1), 0) =
                   LogThrough(dev', 0)
      <3> SUFFICES ASSUME AtValidBlock'
                   PROVE  /\ Entries(dev, 1) \in Seq(Entry)
                          /\ Replayed(LogThrough(dev, 0), Entries(dev, 1), 0)
                                = LogThrough(dev, 0)
        OBVIOUS
      <3>1. dev[Addr(1)].kind = "log"
        BY <2>1 DEF AtValidBlock, LogBlockIsValid
      <3>2. Entries(dev, 1) \in Seq(Entry)
        <4>1. 1 \in 1 .. LogSize - 1 /\ dev \in [Address -> Blocks]
          BY LayoutAssumption DEF IInv, TypeOK
        <4> QED
          BY <3>1, <4>1, EntriesType
      <3>3. EmptyGraph \in GraphOver(Id)
        BY EmptyGraphOK
      <3> QED
        BY <2>3, <3>2, <3>3, ReplayedZero
    <2>5. PlayProgress'
      <3>1. graph' = LogThrough(dev', 0)
        BY <1>2, <2>3
      <3>2. AtValidBlock' => 0 <= Len(Entries(dev', 1))
        BY <2>4
      <3> QED
        BY <2>1, <2>4, <3>1, <3>2 DEF PlayProgress, LogStart
    <2> QED
      BY <1>1, <2>2, <2>5 DEF RecoveryInv
  <1>6. CASE dev[0].checkpoint_size # 0
    <2>1. phase' = "restore" /\ scan'.i = 0 /\ scan'.k = 0
      BY <1>6 DEF ZeroScan
    <2>2. RestoreProgress'
      BY <1>2, <1>4, <2>1 DEF RestoreProgress
    <2>3. PlayProgress'
      BY <2>1 DEF PlayProgress
    <2> QED
      BY <1>1, <2>2, <2>3 DEF RecoveryInv
  <1> QED
    BY <1>5, <1>6

(* The loop of recover_from_checkpoint. *)
LEMMA RestoreSteps ==
    ASSUME NoWrap, IInv, RestoreProgress, CheckptReadable,
           read_in_checkpt_block \/ restore_checkpt_entry
    PROVE  RestoreProgress'
  <1>0. /\ scan.i \in Nat /\ scan.k \in Nat
        /\ scan \in [i : Nat, k : Nat, lastsize : Nat]
        /\ checkpt_block \in Seq(Id \X Id)
        /\ dev \in [Address -> Blocks]
    BY DEF IInv, TypeOK
  <1>1. CASE read_in_checkpt_block
    <2> USE <1>1 DEF read_in_checkpt_block
    <2>1. /\ graph = CheckptThrough(dev, scan.i)
          /\ scan.i \in 0 .. DevBlocks - LogSize
      BY RestoredBlock
    <2>2. scan'.i = scan.i + 1 /\ scan'.k = 0
      BY DEF ZeroScan
    <2>3. scan.i < CheckptSize(dev) /\ CheckptSize(dev) \in Nat
      BY SuperOnDevice
    <2>4. scan.i + 1 \in 1 .. DevBlocks - LogSize
      BY <1>0, <2>3, ServerDeviceOK, LayoutAssumption DEF DeviceOK
    <2>5. dev[Addr(LogSize + scan.i)].kind \in {"checkpt", "blank"}
      BY <1>0, <2>3 DEF CheckptReadable
    <2>6. checkpt_block' = Edges(dev, scan.i + 1)
      <3>1. LogSize + (scan.i + 1) - 1 = LogSize + scan.i
        BY <1>0, LayoutAssumption
      <3> QED
        BY <2>5, <3>1 DEF EdgesIn, Edges
    <2>7. Edges(dev, scan.i + 1) \in Seq(Id \X Id)
      BY <1>0, <2>4, EdgesType
    <2>8. CheckptThrough(dev, scan.i) \in GraphOver(Id)
      BY <2>1 DEF IInv, TypeOK
    <2>9. graph = Restored(CheckptThrough(dev, scan.i), Edges(dev, scan.i + 1), 0)
      BY <2>1, <2>7, <2>8, RestoredZero
    <2>10. /\ scan'.i # 0 /\ scan'.i - 1 = scan.i
           /\ scan'.k <= Len(checkpt_block')
           /\ scan'.i <= super_block'.checkpoint_size
      <3>1. scan'.i # 0 /\ scan'.i - 1 = scan.i
        BY <1>0, <2>2
      <3>2. 0 <= Len(Edges(dev, scan.i + 1))
        BY <2>7
      <3>3. super_block.checkpoint_size \in Nat /\ super_block' = super_block
        BY SuperOnDevice
      <3>4. scan.i + 1 <= super_block.checkpoint_size
        BY <1>0, <3>3
      <3> QED
        BY <2>2, <2>6, <3>1, <3>2, <3>3, <3>4
    <2> QED
      BY <2>2, <2>6, <2>9, <2>10 DEF RestoreProgress
  <1>2. CASE restore_checkpt_entry
    <2> USE <1>2 DEF restore_checkpt_entry
    <2>1. scan'.i = scan.i /\ scan'.k = scan.k + 1
      BY <1>0
    <2>2. scan.i # 0
      BY <1>0 DEF RestoreProgress
    <2> DEFINE base == CheckptThrough(dev, scan.i - 1)
    <2>3. base \in GraphOver(Id)
      <3>1. scan.i <= CheckptSize(dev) /\ CheckptSize(dev) \in Nat
        BY SuperOnDevice DEF RestoreProgress
      <3>2. scan.i - 1 \in 0 .. DevBlocks - LogSize
        BY <1>0, <2>2, <3>1, ServerDeviceOK, LayoutAssumption DEF DeviceOK
      <3> QED
        BY <1>0, <3>2, CheckptThroughType
    <2>4. scan.k + 1 \in 1 .. Len(checkpt_block) /\ (scan.k + 1) - 1 = scan.k
      BY <1>0
    <2>5. graph = Restored(base, checkpt_block, scan.k)
      BY <2>2 DEF RestoreProgress
    <2> HIDE DEF base
    <2>6. Restored(base, checkpt_block, scan.k + 1) = graph'
      BY <1>0, <2>3, <2>4, <2>5, RestoredNext
    <2>7. scan'.k <= Len(checkpt_block')
      BY <2>1, <2>4
    <2> QED
      BY <2>1, <2>2, <2>6, <2>7 DEF RestoreProgress, base
  <1> QED
    BY <1>1, <1>2

(* The checkpoint is restored and the log comes next. *)
LEMMA RestoreDone ==
    ASSUME NoWrap, IInv, RestoreProgress, restore_done
    PROVE  PlayProgress'
  <1> USE DEF restore_done
  <1>1. phase' = "play" /\ scan'.i = 1 /\ scan'.k = 0 /\ scan'.lastsize = 0
    BY DEF ZeroScan, LogStart
  <1>2. graph = CheckptThrough(dev, CheckptSize(dev))
    BY RestoredBlock, SuperOnDevice
  <1>3. graph' = LogThrough(dev', 0)
    BY <1>2, ServerDeviceOK, LogThroughZero
  <1>4. AtValidBlock' => 1 < LogSize /\ IsLive(dev, 1)
    BY <1>1, SuperOnDevice DEF AtValidBlock, LogBlockIsValid, IsLive
  <1>5. AtValidBlock' =>
           /\ 0 <= Len(Entries(dev', 1))
           /\ Replayed(LogThrough(dev', 0), Entries(dev', 1), 0) =
                 LogThrough(dev', 0)
    <2>1. 1 \in 1 .. LogSize /\ (\A j \in 1 .. 1 - 1 : IsLive(dev, j)) /\ 1 - 1 = 0
      BY LayoutAssumption
    <2>2. 1 < LogSize /\ IsLive(dev, 1) =>
             /\ Entries(dev, 1) \in Seq(Entry)
             /\ Replayed(LogThrough(dev, 1 - 1), Entries(dev, 1), 0) =
                   LogThrough(dev, 1 - 1)
      BY <2>1, ScanAtBlock
    <2> QED
      BY <1>4, <2>1, <2>2
  <1> QED
    BY <1>1, <1>3, <1>5 DEF PlayProgress, LogStart

(* The loop of play_log. *)
LEMMA PlaySteps ==
    ASSUME NoWrap, IInv, IInv', PlayProgress,
           execute_log_entry \/ play_next_block
    PROVE  PlayProgress'
  <1>0. /\ scan.i \in Nat /\ scan.k \in Nat
        /\ scan \in [i : Nat, k : Nat, lastsize : Nat]
    BY DEF IInv, TypeOK
  <1>1. /\ AtValidBlock /\ phase = "play" /\ phase' = "play"
        /\ UNCHANGED <<dev, super_block>>
    BY DEF execute_log_entry, play_next_block
  <1> DEFINE s == Entries(dev, scan.i)
             base == LogThrough(dev, scan.i - 1)
  <1>2. /\ scan.i \in 1 .. LogSize - 1 /\ IsLive(dev, scan.i)
        /\ s \in Seq(Entry) /\ LogBlocks(dev, scan.i)
        /\ base \in GraphOver(Id)
    BY <1>1, PlayedBlocks
  <1>3. scan.k <= Len(s) /\ graph = Replayed(base, s, scan.k)
    BY <1>1 DEF PlayProgress
  <1>4. CASE execute_log_entry
    <2> USE <1>4 DEF execute_log_entry
    <2>1. scan'.i = scan.i /\ scan'.k = scan.k + 1 /\ scan'.lastsize = scan.lastsize
      BY <1>0
    <2>2. scan.k < Len(s) /\ graph' = Execute(graph, s[scan.k + 1]).g
      BY DEF Entries
    <2>3. scan.k + 1 \in 1 .. Len(s) /\ (scan.k + 1) - 1 = scan.k
      BY <1>0, <1>2, <2>2
    <2> HIDE DEF s, base
    <2>4. graph' = Replayed(base, s, scan.k + 1)
      BY <1>2, <1>3, <2>2, <2>3, ReplayedNext
    <2>5. AtValidBlock'
      BY <1>1, <2>1 DEF AtValidBlock, LogBlockIsValid
    <2>6. scan'.k <= Len(s)
      BY <2>1, <2>3
    <2> QED
      BY <1>1, <2>1, <2>4, <2>5, <2>6 DEF PlayProgress, s, base
  <1>5. CASE play_next_block
    <2> USE <1>5 DEF play_next_block
    <2>1. scan'.i = scan.i + 1 /\ scan'.k = 0 /\ scan'.lastsize = Len(s)
      BY DEF PlayNext, Entries
    <2>2. scan.k = Len(s)
      BY DEF Entries
    <2>3. LogThrough(dev, scan.i) = Replayed(base, s, Len(s))
      BY <1>2, ServerDeviceOK, LogThroughNext
    <2>4. graph' = LogThrough(dev, scan.i)
      BY <1>3, <2>2, <2>3
    <2>5. \A j \in 1 .. (scan.i + 1) - 1 : IsLive(dev, j)
      BY <1>0, <1>1, <1>2 DEF PlayProgress, LogStart
    <2> DEFINE n == scan.i + 1
    <2>6. n \in 1 .. LogSize /\ n - 1 = scan.i
      <3>1. scan.i \in Nat /\ 1 <= scan.i /\ scan.i <= LogSize - 1
        BY <1>2
      <3> QED
        BY <3>1, LayoutAssumption
    <2>7. n < LogSize /\ IsLive(dev, n) =>
             /\ Entries(dev, n) \in Seq(Entry)
             /\ Replayed(LogThrough(dev, n - 1), Entries(dev, n), 0) =
                   LogThrough(dev, n - 1)
      <3> HIDE DEF n
      <3>1. \A j \in 1 .. n - 1 : IsLive(dev, j)
        BY <2>5 DEF n
      <3> QED
        BY <1>1, <2>6, <3>1, ScanAtBlock
    <2>8. AtValidBlock' => n < LogSize /\ IsLive(dev, n)
      BY <1>1, <2>1, SuperOnDevice DEF AtValidBlock, LogBlockIsValid, IsLive
    <2>9. AtValidBlock' =>
             /\ 0 <= Len(Entries(dev, n))
             /\ graph' = Replayed(LogThrough(dev, n - 1), Entries(dev, n), 0)
      BY <2>4, <2>6, <2>7, <2>8
    <2>10. graph' = LogThrough(dev, n - 1)
      BY <2>4, <2>6
    <2>11. n # 1 /\ scan'.i = n
      BY <1>2, <2>1
    <2>12. scan'.lastsize = Len(Entries(dev, n - 1))
      BY <2>1, <2>6
    <2> HIDE DEF n
    <2> QED
      BY <1>1, <2>1, <2>5, <2>6, <2>9, <2>10, <2>11, <2>12 DEF PlayProgress, LogStart
  <1> QED
    BY <1>4, <1>5

(* The end of play_log: the blocks executed are the live ones. *)
LEMMA PlayDone ==
    ASSUME NoWrap, IInv, PlayProgress, play_done
    PROVE  /\ graph = Recovered
           /\ scan.i - 1 = Cardinality(LiveBlocks(dev))
           /\ LiveBlocks(dev) = 1 .. scan.i - 1
  <1>1. phase = "play" /\ ~AtValidBlock
    BY DEF play_done
  <1>2. scan.i \in 1 .. LogSize
    BY <1>1 DEF IInv, ScanInLog, LogStart
  <1> DEFINE k == scan.i - 1
  <1>3. k \in 0 .. LogSize - 1 /\ k + 1 = scan.i
    BY <1>2, LayoutAssumption
  <1>4. graph = LogThrough(dev, k) /\ \A j \in LogStart .. k : IsLive(dev, j)
    BY <1>1 DEF PlayProgress
  <1>5. k + 1 < LogSize => ~IsLive(dev, k + 1)
    BY <1>1, <1>3, PlayedBlocks
  <1> HIDE DEF k
  <1>6. LiveBlocks(dev) = 1 .. k /\ Cardinality(LiveBlocks(dev)) = k
    BY <1>3, <1>4, <1>5, LiveBlocksAre
  <1>7. HasSuper(dev)
    BY <1>1, SuperOnDevice
  <1> QED
    BY <1>4, <1>6, <1>7 DEF Recovered, RecoveredFrom, k

(* No step of a server breaks the correspondence, and recovery ends with   *)
(* the graph the device holds.                                             *)
LEMMA NextRecoveryInv ==
    ASSUME NoWrap, IInv, IInv', RecoveryInv, [Next]_vars
    PROVE  /\ RecoveryInv'
           /\ phase = "play" /\ phase' = "serve" /\ CheckptReadable =>
                 graph = Recovered
  <1>1. CASE init_server_log
    BY <1>1, BeginRecovery DEF init_server_log
  <1>2. CASE Recovery
    <2>1. UNCHANGED dev /\ (CheckptReadable' <=> CheckptReadable)
      BY <1>2, RecoveryIInv DEF CheckptReadable
    <2>2. MemoryFresh'
      BY <1>2
      DEF RecoveryInv, MemoryFresh, Recovery, read_in_checkpt_block,
          restore_checkpt_entry, restore_done, execute_log_entry,
          play_next_block, play_done
    <2>3. ASSUME CheckptReadable
          PROVE  /\ RestoreProgress' /\ PlayProgress'
                 /\ phase' = "serve" => graph = Recovered
      <3>0. RestoreProgress /\ PlayProgress
        BY <2>3 DEF RecoveryInv
      <3>1. CASE read_in_checkpt_block \/ restore_checkpt_entry
        <4>1. RestoreProgress'
          BY <2>3, <3>0, <3>1, RestoreSteps
        <4>2. phase' = "restore"
          BY <3>1 DEF read_in_checkpt_block, restore_checkpt_entry
        <4> QED
          BY <4>1, <4>2 DEF PlayProgress
      <3>2. CASE restore_done
        <4>1. PlayProgress'
          BY <3>0, <3>2, RestoreDone
        <4>2. phase' = "play"
          BY <3>2 DEF restore_done
        <4> QED
          BY <4>1, <4>2 DEF RestoreProgress
      <3>3. CASE execute_log_entry \/ play_next_block
        <4>1. PlayProgress'
          BY <3>0, <3>3, PlaySteps
        <4>2. phase' = "play"
          BY <3>3 DEF execute_log_entry, play_next_block
        <4> QED
          BY <4>1, <4>2 DEF RestoreProgress
      <3>4. CASE play_done
        <4>1. graph = Recovered
          BY <3>0, <3>4, PlayDone
        <4>2. phase' = "serve"
          BY <3>4 DEF play_done
        <4> QED
          BY <4>1, <4>2 DEF RestoreProgress, PlayProgress
      <3> QED
        BY <1>2, <3>1, <3>2, <3>3, <3>4 DEF Recovery
    <2> QED
      BY <2>1, <2>2, <2>3 DEF RecoveryInv
  <1>3. CASE format \/ init_superblock \/ (\E e \in Request : Update(e))
             \/ checkpoint_begin \/ (\E p \in todo : add_checkpt_entry(p))
             \/ checkpoint_end
    <2>1. phase' \in {"serve", "checkpoint"} /\ phase # "play"
      BY <1>3 DEF format, init_superblock, Update, Accepts, checkpoint_begin,
                  add_checkpt_entry, checkpoint_end
    <2> QED
      BY <2>1 DEF RecoveryInv, MemoryFresh, RestoreProgress, PlayProgress
  <1>4. CASE Crash \/ checkpt_beyond_device \/ \E e \in Request : UpdateTorn(e)
    <2>1. PowerOff
      BY <1>4 DEF Crash, checkpt_beyond_device, UpdateTorn
    <2> QED
      BY <2>1 DEF PowerOff, RecoveryInv, MemoryFresh, RestoreProgress,
                  PlayProgress
  <1>5. CASE UNCHANGED vars
    <2>1. /\ UNCHANGED <<dev, phase, graph, super_block, cur_block,
                         checkpt_block, scan>>
          /\ ~(phase = "play" /\ phase' = "serve")
      BY <1>5 DEF vars
    <2>2. MemoryFresh' /\ (CheckptReadable' <=> CheckptReadable)
      BY <2>1 DEF RecoveryInv, MemoryFresh, CheckptReadable
    <2>3. RestoreProgress => RestoreProgress'
      BY <2>1 DEF RestoreProgress
    <2>4. PlayProgress => PlayProgress'
      BY <2>1 DEF PlayProgress, AtValidBlock, LogBlockIsValid
    <2> QED
      BY <2>1, <2>2, <2>3, <2>4 DEF RecoveryInv
  <1> QED
    BY <1>1, <1>2, <1>3, <1>4, <1>5 DEF Next, Checkpointing

(* A first start finds fresh memory. *)
LEMMA InitRecoveryInv == Init => RecoveryInv
  BY DEF Init, RecoveryInv, MemoryFresh, RestoreProgress, PlayProgress

(* Whatever lapses, crashes and cut recoveries came before: when play_log  *)
(* is done, the graph in memory is the one the device holds, as long as    *)
(* every checkpoint block read was written as one.                         *)
THEOREM RecoveryIsExact ==
    ASSUME NoWrap
    PROVE  Spec => RecoveryExact
  <1>1. Init => IInv /\ RecoveryInv
    BY InitIInv, InitRecoveryInv
  <1>2. IInv /\ RecoveryInv /\ [Next]_vars =>
           /\ (IInv /\ RecoveryInv)'
           /\ [phase = "play" /\ phase' = "serve" /\ CheckptReadable
                  => graph = Recovered]_vars
    BY NextIInv, NextRecoveryInv
  <1> QED
    BY <1>1, <1>2, PTL DEF Spec, RecoveryExact
=============================================================================
