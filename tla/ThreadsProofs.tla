--------------------------- MODULE ThreadsProofs ---------------------------
(***************************************************************************)
(* What Threads promises for any number of gRPC threads, any requests on   *)
(* nodes, any length of the log and capacity of its blocks, and every      *)
(* interleaving: nothing is written over the superblock, when a torn block *)
(* can pass for a whole one, and, in the second part, that a restart       *)
(* rebuilds the graph as long as critical sections do not overlap.         *)
(***************************************************************************)
EXTENDS Threads, TLAPS, FiniteSetTheorems, FunctionTheorems

----------------------------------------------------------------------------
(* The checksum. *)

BitValues == {1, 2, 4, 8, 16, 32}

(* The words that have a bit, among n words. *)
With(words, value) == {k \in DOMAIN words : Bit(words[k], value) = 1}

(* A zero has no bits. *)
LEMMA ZeroHasNoBits == \A value \in BitValues : Bit(0, value) = 0
  BY DEF Bit, BitValues

(* A bit of the XOR is zero or one. *)
LEMMA OddIsBit ==
    ASSUME NEW words, IsFiniteSet(DOMAIN words), NEW value
    PROVE  Odd(words, value) \in {0, 1}
  <1>1. IsFiniteSet(With(words, value))
    BY FS_Subset DEF With
  <1>2. Cardinality(With(words, value)) \in Nat
    BY <1>1, FS_CardinalityType
  <1>. QED BY <1>2 DEF Odd, With

(* The XOR of words determines each of its bits. *)
LEMMA XorBits ==
    ASSUME NEW u, NEW w, IsFiniteSet(DOMAIN u), IsFiniteSet(DOMAIN w),
           Xor(u) = Xor(w)
    PROVE  \A value \in BitValues : Odd(u, value) = Odd(w, value)
  <1>1. \A value \in BitValues : Odd(u, value) \in {0, 1} /\ Odd(w, value) \in {0, 1}
    BY OddIsBit
  <1>. QED BY <1>1 DEF Xor, BitValues

(* Words that have an even number of every bit XOR to zero. *)
LEMMA XorOfNoBits ==
    ASSUME NEW words, \A value \in BitValues : Odd(words, value) = 0
    PROVE  Xor(words) = 0
  BY DEF Xor, BitValues

(* Three words e stand at p in u, zeroes in w, which is like u otherwise:  *)
(* when u and w have the same XOR, the words of e cancel out.              *)
LEMMA ThreeWordsCancel ==
    ASSUME NEW n \in Nat, NEW p \in 1 .. n, p + 2 <= n,
           NEW u, NEW w, NEW e,
           DOMAIN u = 1 .. n, DOMAIN w = 1 .. n, DOMAIN e = 1 .. 3,
           \A k \in 1 .. n : k \notin p .. p + 2 => u[k] = w[k],
           \A j \in 1 .. 3 : u[p + j - 1] = e[j] /\ w[p + j - 1] = 0,
           Xor(u) = Xor(w)
    PROVE  Xor(e) = 0
  <1>. SUFFICES ASSUME NEW value \in BitValues
                PROVE  Odd(e, value) = 0
    BY XorOfNoBits
  <1>. DEFINE U == With(u, value)
              W == With(w, value)
              E == With(e, value)
              D == {k \in p .. p + 2 : Bit(u[k], value) = 1}
              at == [j \in E |-> p + j - 1]
  <1>1. IsFiniteSet(1 .. n) /\ IsFiniteSet(1 .. 3)
    <2>1. 1 \in Int /\ 3 \in Int /\ n \in Int
      OBVIOUS
    <2>. QED BY <2>1, FS_Interval
  <1>2. IsFiniteSet(W) /\ IsFiniteSet(E) /\ IsFiniteSet(U)
    BY <1>1, FS_Subset DEF With
  <1>3. W \cap (p .. p + 2) = {}
    <2>1. ASSUME NEW k \in p .. p + 2
          PROVE  k \notin W
      <3>1. k - p + 1 \in 1 .. 3 /\ p + (k - p + 1) - 1 = k
        OBVIOUS
      <3>2. w[k] = 0
        BY <3>1
      <3>. QED BY <3>2, ZeroHasNoBits DEF With
    <2>. QED BY <2>1
  <1>4. U = W \cup D /\ W \cap D = {}
    <2>1. ASSUME NEW k \in 1 .. n, k \notin p .. p + 2
          PROVE  k \in U <=> k \in W
      BY <2>1 DEF With
    <2>2. \A k \in p .. p + 2 : k \in U <=> k \in D
      BY DEF With
    <2>3. U \subseteq 1 .. n /\ W \subseteq 1 .. n /\ D \subseteq p .. p + 2
      BY DEF With
    <2>. HIDE DEF U, W, D
    <2>. QED BY <1>3, <2>1, <2>2, <2>3
  <1>5. at \in Bijection(E, D)
    <2>1. \A j \in 1 .. 3 : u[p + j - 1] = e[j]
      OBVIOUS
    <2>2. \A j \in E : j \in 1 .. 3 /\ Bit(e[j], value) = 1
      BY DEF With
    <2>3. \A j \in 1 .. 3 : Bit(e[j], value) = 1 => j \in E
      BY DEF With
    <2>. HIDE DEF E
    <2>4. at \in [E -> D]
      BY <2>1, <2>2
    <2>5. \A a, b \in E : at[a] = at[b] => a = b
      BY <2>2
    <2>6. ASSUME NEW k \in D
          PROVE  \E j \in E : at[j] = k
      <3>1. k - p + 1 \in 1 .. 3 /\ p + (k - p + 1) - 1 = k
        OBVIOUS
      <3>2. e[k - p + 1] = u[k]
        BY <2>1, <3>1
      <3>3. k - p + 1 \in E
        BY <2>3, <3>1, <3>2
      <3>. QED BY <3>1, <3>3
    <2>. HIDE DEF at, D
    <2>. QED BY <2>4, <2>5, <2>6, Fun_IsBij
  <1>6. IsFiniteSet(D) /\ Cardinality(D) = Cardinality(E)
    <2>1. ExistsBijection(E, D)
      BY <1>5 DEF ExistsBijection
    <2>. HIDE DEF E, D
    <2>. QED BY <1>2, <2>1, FS_Bijection
  <1>7. Cardinality(U) = Cardinality(W) + Cardinality(E)
    <2>. HIDE DEF U, W, E, D
    <2>1. Cardinality(W \cup D)
             = Cardinality(W) + Cardinality(D) - Cardinality(W \cap D)
      BY <1>2, <1>6, FS_Union
    <2>2. Cardinality({}) = 0
      BY FS_EmptySet
    <2>3. Cardinality(W) \in Nat /\ Cardinality(E) \in Nat
      BY <1>2, FS_CardinalityType
    <2>4. Cardinality(W \cap D) = 0 /\ Cardinality(U) = Cardinality(W \cup D)
      BY <1>4, <2>2
    <2>. QED BY <1>6, <2>1, <2>3, <2>4
  <1>8. Cardinality(U) % 2 = Cardinality(W) % 2
    BY <1>1, XorBits DEF Odd, With
  <1>9. Cardinality(E) % 2 = 0
    <2>1. Cardinality(W) \in Nat /\ Cardinality(E) \in Nat
      BY <1>2, FS_CardinalityType
    <2>. HIDE DEF U, W, E, D
    <2>. QED BY <1>7, <1>8, <2>1
  <1>. QED BY <1>9 DEF Odd, With

----------------------------------------------------------------------------
(* The invariant's parts. *)

InCheckpoint == {"checkpoint", "super", "reset"}

Appending == {"append", "advance", "clear", "stamp", "store", "sum", "head", "body"}

Labels == Outside \cup {"method"} \cup Appending \cup InCheckpoint

Shapes ==
    /\ pc \in [Thread -> Labels]
    /\ \A t \in Thread \ {Http} : pc[t] \notin InCheckpoint
    /\ arg = [t \in Thread |-> arg[t]]
    /\ reg = [t \in Thread |-> reg[t]]
    /\ disk = [a \in Address |-> disk[a]]
    /\ \A a \in Address : disk[a] = [head |-> disk[a].head, body |-> disk[a].body]

(* Where a block may go: never to the superblock. *)
OffsetsBehindSuper ==
    /\ block_offset \in Nat \ {0}
    /\ \A t \in Thread :
          pc[t] \in {"advance", "head", "body"} => reg[t] \in Nat \ {0}

(* A checkpoint moves the generation on, in memory and then on the device. *)
GenerationsGrow ==
    /\ super_block.generation_num \in Nat
    /\ disk_super.generation_num \in Nat
    /\ pc[Http] = "super" => super_block.generation_num > 0
    /\ pc[Http] = "reset" => disk_super.generation_num > 0

(* One thread at a time is in its critical section. *)
Alone ==
    \A t, u \in Thread : pc[t] \notin Outside /\ pc[u] \notin Outside => t = u

(* cur_block is a block, and no fuller than a block can be. *)
CurShape ==
    LET cnt == cur_block.head.entry_cnt
    IN  /\ cur_block = Block(cur_block.head.checksum, cur_block.head.generation_num,
                             cnt, cur_block.body)
        /\ cur_block.body = [i \in 1 .. EntriesPerBlock |-> cur_block.body[i]]
        /\ cnt \in 0 .. EntriesPerBlock

(* What add_log_entry of thread t has done to cur_block so far. *)
EntryOf(t) ==
    LET cnt == cur_block.head.entry_cnt
    IN  /\ pc[t] \in {"stamp", "store"} => cnt < EntriesPerBlock
        /\ pc[t] = "store" => reg[t] = cnt
        /\ pc[t] \in {"sum", "head", "body"} => cnt > 0 /\ cur_block.body[cnt] = arg[t]
        /\ pc[t] \in {"advance", "head", "body"} => reg[t] = block_offset
        /\ pc[t] \in {"head", "body"} =>
              cur_block.head.checksum = compute_checksum_xor(Content(cur_block))
        /\ pc[t] = "body" /\ reg[t] \in Address => disk[reg[t]].head = cur_block.head

EntryInCur == \A t \in Thread : EntryOf(t)

(* No checkpoint was taken, and none is under way. *)
FirstGeneration ==
    disk_super.generation_num = 0 /\ pc[Http] \notin InCheckpoint

(* In the first generation the blocks of the log not reached yet are       *)
(* zeroes, and so is the rest of cur_block; the block that is being filled *)
(* has on the device what it has in memory, but for the new entry.         *)
FreshLog ==
    LET cnt == cur_block.head.entry_cnt
    IN  /\ \A a \in Address :
              block_offset < a /\ a < LogSize => disk[a].body = ZeroEntries
        /\ \A i \in 1 .. EntriesPerBlock : cnt < i => cur_block.body[i] = NoEntry
        /\ block_offset < LogSize =>
              /\ (\A t \in Thread : pc[t] \notin {"clear", "sum", "head", "body"}) =>
                    disk[block_offset].body = cur_block.body
              /\ \A t \in Thread :
                    /\ pc[t] = "clear" => disk[block_offset].body = ZeroEntries
                    /\ pc[t] \in {"sum", "head", "body"} =>
                          disk[block_offset].body = [cur_block.body EXCEPT ![cnt] = NoEntry]

ThreadsInv ==
    /\ Shapes
    /\ OffsetsBehindSuper
    /\ SuperBlockSafe
    /\ GenerationsGrow
    /\ ~raced => Alone /\ CurShape /\ EntryInCur
    /\ ~raced /\ FirstGeneration => FreshLog

----------------------------------------------------------------------------
(* Blocks. *)

(* "add node 0" is three zeroes. *)
LEMMA NoEntryIsZeroes == EntryWords(NoEntry) = <<0, 0, 0>>
  <1>1. OP_ADD_NODE \in Opcodes
    BY DEF Opcodes
  <1>2. OpcodeNumber[OP_ADD_NODE] = 0
    <2>1. OpcodeNumber[OP_ADD_NODE] =
             CASE OP_ADD_NODE = OP_ADD_NODE -> 0 [] OP_ADD_NODE = OP_ADD_EDGE -> 1
               [] OP_ADD_NODE = OP_REMOVE_NODE -> 2 [] OP_ADD_NODE = OP_REMOVE_EDGE -> 3
      BY <1>1 DEF OpcodeNumber
    <2>2. /\ OP_ADD_NODE # OP_ADD_EDGE /\ OP_ADD_NODE # OP_REMOVE_NODE
          /\ OP_ADD_NODE # OP_REMOVE_EDGE
      BY DEF OP_ADD_NODE, OP_ADD_EDGE, OP_REMOVE_NODE, OP_REMOVE_EDGE
    <2>. QED BY <2>1, <2>2
  <1>. QED BY <1>2 DEF EntryWords, NoEntry

(* b is block c before entry m was stored, under the header c has now, and *)
(* has the checksum of c.                                                  *)
OneEntryLess(b, c, m) ==
    /\ m \in 1 .. EntriesPerBlock
    /\ b.head = c.head
    /\ c.body = [i \in 1 .. EntriesPerBlock |-> c.body[i]]
    /\ b.body = [c.body EXCEPT ![m] = NoEntry]
    /\ compute_checksum_xor(Content(b)) = compute_checksum_xor(Content(c))

(* Two blocks of one header, the one with an entry more than the other:    *)
(* when they have the same XOR, the words of the entry cancel out.         *)
LEMMA EntryCancels ==
    ASSUME NEW b, NEW c, NEW m, OneEntryLess(b, c, m)
    PROVE  Xor(EntryWords(c.body[m])) = 0
  <1>. USE DEF OneEntryLess
  <1>. DEFINE n == 1 + 3 * EntriesPerBlock
              p == 3 * m - 1
              u == Content(c)
              w == Content(b)
              e == EntryWords(c.body[m])
  <1>1. /\ EntriesPerBlock \in Nat /\ m \in Nat /\ m >= 1 /\ m <= EntriesPerBlock
        /\ n \in Nat /\ p \in 1 .. n /\ p + 2 <= n
    BY ThreadsAssumption
  <1>2. DOMAIN u = 1 .. n /\ DOMAIN w = 1 .. n
    BY DEF Content
  <1>3. DOMAIN e = 1 .. 3 /\ \A x : DOMAIN EntryWords(x) = 1 .. 3
    BY DEF EntryWords
  <1>4. \A i \in 1 .. EntriesPerBlock :
           b.body[i] = IF i = m THEN NoEntry ELSE c.body[i]
    OBVIOUS
  <1>5. ASSUME NEW k \in 1 .. n, k # 1
        PROVE  /\ (k - 2) \div 3 + 1 \in 1 .. EntriesPerBlock
               /\ (k - 2) \div 3 + 1 = m <=> k \in p .. p + 2
               /\ u[k] = EntryWords(c.body[(k - 2) \div 3 + 1])[((k - 2) % 3) + 1]
               /\ w[k] = EntryWords(b.body[(k - 2) \div 3 + 1])[((k - 2) % 3) + 1]
    <2>1. (k - 2) \div 3 + 1 \in 1 .. EntriesPerBlock
      BY <1>1, <1>5
    <2>2. (k - 2) \div 3 + 1 = m <=> k \in p .. p + 2
      BY <1>1, <1>5
    <2>. QED BY <1>5, <2>1, <2>2 DEF Content
  <1>6. \A k \in 1 .. n : k \notin p .. p + 2 => u[k] = w[k]
    <2>1. u[1] = w[1]
      BY <1>1 DEF Content
    <2>. HIDE DEF u, w, n, p
    <2>. QED BY <1>4, <1>5, <2>1
  <1>7. ASSUME NEW j \in 1 .. 3
        PROVE  u[p + j - 1] = e[j] /\ w[p + j - 1] = 0
    <2>1. /\ p + j - 1 \in 1 .. n /\ p + j - 1 # 1 /\ p + j - 1 \in p .. p + 2
          /\ ((p + j - 1 - 2) % 3) + 1 = j
      BY <1>1
    <2>2. (p + j - 1 - 2) \div 3 + 1 = m
      BY <1>5, <2>1
    <2>3. u[p + j - 1] = EntryWords(c.body[m])[j]
      BY <1>5, <2>1, <2>2
    <2>4. w[p + j - 1] = EntryWords(b.body[m])[j]
      BY <1>5, <2>1, <2>2
    <2>5. EntryWords(NoEntry)[j] = 0
      BY NoEntryIsZeroes
    <2>. QED BY <1>4, <2>3, <2>4, <2>5
  <1>8. Xor(u) = Xor(w)
    <2>1. Xor(u) \in Int /\ Xor(w) \in Int
      <3>1. \A value : Odd(u, value) \in {0, 1} /\ Odd(w, value) \in {0, 1}
        <4>1. IsFiniteSet(1 .. n)
          BY <1>1, FS_Interval
        <4>. QED BY <1>2, <4>1, OddIsBit
      <3>. QED BY <3>1 DEF Xor
    <2>2. Xor(u) + CHECKSUM_OFFSET = Xor(w) + CHECKSUM_OFFSET
      BY DEF compute_checksum_xor
    <2>. QED BY <2>1, <2>2 DEF CHECKSUM_OFFSET
  <1>. HIDE DEF OneEntryLess, n, p, u, w, e
  <1>9. Xor(e) = 0
    BY <1>1, <1>2, <1>3, <1>6, <1>7, <1>8, ThreeWordsCancel
  <1>. QED BY <1>9 DEF e

----------------------------------------------------------------------------
(* The start, and the steps outside add_log_entry and checkpoint(). *)

(* Initially no block was written and every thread is idle. *)
LEMMA InitThreads == Init => ThreadsInv
  <1>. SUFFICES ASSUME Init PROVE ThreadsInv
    OBVIOUS
  <1>1. /\ \A t \in Thread : pc[t] = "idle"
        /\ pc = [t \in Thread |-> "idle"]
        /\ Http \in Thread
    BY DEF Init, Thread
  <1>2. 0 \in Address /\ LogStart \in Nat \ {0}
    BY ThreadsAssumption DEF Address, LogStart
  <1>3. Shapes
    BY <1>1 DEF Shapes, Init, Labels, Outside, InCheckpoint, Cleared, Block
  <1>4. OffsetsBehindSuper /\ SuperBlockSafe
    BY <1>1, <1>2 DEF OffsetsBehindSuper, SuperBlockSafe, Init
  <1>5. GenerationsGrow
    BY <1>1 DEF GenerationsGrow, Init
  <1>6. Alone
    BY <1>1 DEF Alone, Outside
  <1>7. cur_block.head.entry_cnt = 0 /\ cur_block.body = ZeroEntries
    BY DEF Init, Cleared, Block
  <1>8. CurShape
    <2>1. ZeroEntries = [i \in 1 .. EntriesPerBlock |-> ZeroEntries[i]]
      BY DEF ZeroEntries
    <2>2. cur_block = Block(0, 0, 0, ZeroEntries)
      BY DEF Init, Cleared
    <2>3. /\ cur_block.head.checksum = 0 /\ cur_block.head.generation_num = 0
      BY <2>2 DEF Block
    <2>4. 0 \in 0 .. EntriesPerBlock
      BY ThreadsAssumption
    <2>. QED BY <1>7, <2>1, <2>2, <2>3, <2>4 DEF CurShape
  <1>9. EntryInCur
    BY <1>1 DEF EntryInCur, EntryOf
  <1>10. FreshLog
    <2>1. \A a \in Address : disk[a].body = ZeroEntries
      BY DEF Init, Cleared, Block
    <2>2. \A i \in 1 .. EntriesPerBlock : cur_block.body[i] = NoEntry
      BY <1>7 DEF ZeroEntries
    <2>3. block_offset \in Address
      BY ThreadsAssumption DEF Init, Address, LogStart
    <2>. QED BY <1>1, <1>7, <2>1, <2>2, <2>3 DEF FreshLog
  <1>. QED BY <1>3, <1>4, <1>5, <1>6, <1>8, <1>9, <1>10 DEF ThreadsInv

(* What a step of thread t leaves alone: the other threads. *)
OthersStay(t) ==
    /\ pc' = [pc EXCEPT ![t] = pc'[t]]
    /\ arg' = [arg EXCEPT ![t] = arg'[t]]
    /\ reg' = [reg EXCEPT ![t] = reg'[t]]

(* A thread that moves leaves the others where they are. *)
LEMMA OthersUnchanged ==
    ASSUME Shapes, NEW t \in Thread, OthersStay(t)
    PROVE  \A u \in Thread \ {t} : pc'[u] = pc[u] /\ arg'[u] = arg[u] /\ reg'[u] = reg[u]
  BY DEF Shapes, OthersStay

(* Requests, replies and the graph method touch neither log nor device.    *)
LEMMA CallKeeps ==
    ASSUME ThreadsInv, NEW t \in Thread, OthersStay(t),
           UNCHANGED <<super_block, cur_block, block_offset, disk, disk_super>>,
           pc[t] \in Outside \cup {"method"},
           pc'[t] \in Outside \cup {"method", "append"},
           ~raced' => ~raced,
           ~raced' /\ pc[t] \in Outside /\ pc'[t] \notin Outside =>
              \A u \in Thread \ {t} : pc[u] \in Outside
    PROVE  ThreadsInv'
  <1>1. \A u \in Thread \ {t} : pc'[u] = pc[u] /\ arg'[u] = arg[u] /\ reg'[u] = reg[u]
    BY OthersUnchanged DEF ThreadsInv
  <1>0. Http \in Thread
    BY DEF Thread
  <1>2. Shapes'
    <2>1. pc'[t] \in Labels /\ pc'[t] \notin InCheckpoint
      BY DEF Labels, Outside, InCheckpoint, Appending
    <2>2. pc' \in [Thread -> Labels]
      BY <2>1 DEF ThreadsInv, Shapes, OthersStay
    <2>3. \A u \in Thread \ {Http} : pc'[u] \notin InCheckpoint
      BY <1>1, <2>1 DEF ThreadsInv, Shapes
    <2>4. arg' = [u \in Thread |-> arg'[u]] /\ reg' = [u \in Thread |-> reg'[u]]
      BY DEF ThreadsInv, Shapes, OthersStay
    <2>. QED BY <2>2, <2>3, <2>4 DEF ThreadsInv, Shapes
  <1>3. OffsetsBehindSuper' /\ SuperBlockSafe' /\ GenerationsGrow'
    <2>1. pc'[t] \notin {"advance", "head", "body", "super", "reset"}
      BY DEF Outside
    <2>. QED BY <1>0, <1>1, <2>1
             DEF ThreadsInv, OffsetsBehindSuper, SuperBlockSafe, GenerationsGrow
  <1>4. ASSUME ~raced'
        PROVE  Alone' /\ CurShape' /\ EntryInCur'
    <2>1. Alone /\ CurShape /\ EntryInCur
      BY <1>4 DEF ThreadsInv
    <2>2. Alone'
      BY <1>1, <1>4, <2>1 DEF Alone, Outside
    <2>3. CurShape'
      BY <2>1 DEF CurShape
    <2>4. Content(cur_block)' = Content(cur_block)
      BY DEF Content
    <2>5. EntryInCur'
      BY <1>1, <2>1, <2>4 DEF EntryInCur, EntryOf, Outside
    <2>. QED BY <2>2, <2>3, <2>5
  <1>5. ASSUME ~raced', FirstGeneration'
        PROVE  FreshLog'
    <2>1. FirstGeneration
      BY <1>0, <1>1, <1>5 DEF FirstGeneration, InCheckpoint, Outside
    <2>2. FreshLog
      BY <1>5, <2>1 DEF ThreadsInv
    <2>3. \A u \in Thread :
             \A label \in {"clear", "sum", "head", "body"} :
                pc'[u] = label <=> pc[u] = label
      BY <1>1 DEF Outside
    <2>. QED BY <2>2, <2>3 DEF FreshLog
  <1>. QED BY <1>2, <1>3, <1>4, <1>5 DEF ThreadsInv

(* A request comes in. *)
LEMMA ReceiveKeeps ==
    ASSUME ThreadsInv, NEW t \in Thread, NEW e \in Request, Receive(t, e)
    PROVE  ThreadsInv'
  <1>1. OthersStay(t) /\ pc[t] \in Outside /\ pc'[t] \in Outside
    BY DEF ThreadsInv, Shapes, Receive, Goto, OthersStay, Outside
  <1>. QED BY <1>1, CallKeeps DEF Receive, memory, device

(* The successor answers, and the handler goes into the graph method. *)
LEMMA ReplyKeeps ==
    ASSUME ThreadsInv, NEW t \in Thread, Reply(t)
    PROVE  ThreadsInv'
  <1>1. CASE ReplyFailed(t)
    <2>1. OthersStay(t) /\ pc[t] \in Outside /\ pc'[t] \in Outside
      BY <1>1 DEF ThreadsInv, Shapes, ReplyFailed, Done, Goto, OthersStay, Outside
    <2>. QED BY <1>1, <2>1, CallKeeps DEF ReplyFailed, memory, device, history
  <1>2. CASE ReplyOk(t)
    <2>1. OthersStay(t) /\ pc[t] \in Outside /\ pc'[t] = "method"
      BY <1>2 DEF ThreadsInv, Shapes, ReplyOk, Enter, Goto, OthersStay, Outside
    <2>2. UNCHANGED <<super_block, cur_block, block_offset, disk, disk_super>>
      BY <1>2 DEF ReplyOk, memory, device
    <2>3. raced' = (raced \/ \E u \in Thread \ {t} : pc[u] \notin Outside)
      BY <1>2 DEF ReplyOk, Enter
    <2>. QED BY <2>1, <2>2, <2>3, CallKeeps
  <1>. QED BY <1>1, <1>2 DEF Reply

(* The graph method ends: on to the log, or back to idle. *)
LEMMA MethodKeeps ==
    ASSUME ThreadsInv, NEW t \in Thread, Method(t)
    PROVE  ThreadsInv'
  <1>1. OthersStay(t) /\ pc[t] = "method" /\ pc'[t] \in {"append", "idle"}
    BY DEF ThreadsInv, Shapes, Method, InMethod, Done, Goto, OthersStay
  <1>2. UNCHANGED <<super_block, cur_block, block_offset, disk, disk_super, raced>>
    BY DEF Method, device, history
  <1>. QED BY <1>1, <1>2, CallKeeps DEF Outside

(* Two threads inside a method have raced already. *)
LEMMA CollisionKeeps ==
    ASSUME ThreadsInv, MethodsCollide
    PROVE  ThreadsInv'
  <1>1. /\ pc' = [t \in Thread |-> "dead"]
        /\ UNCHANGED <<super_block, cur_block, block_offset, disk, disk_super, arg, reg, raced>>
    BY DEF MethodsCollide, memory, device, history
  <1>2. raced
    <2>1. PICK t, u \in Thread : t # u /\ pc[t] = "method" /\ pc[u] = "method"
      BY DEF MethodsCollide, InMethod
    <2>. QED BY <2>1 DEF ThreadsInv, Alone, Outside
  <1>3. Shapes'
    BY <1>1 DEF ThreadsInv, Shapes, Labels, Outside, InCheckpoint
  <1>4. Http \in Thread
    BY DEF Thread
  <1>5. OffsetsBehindSuper' /\ SuperBlockSafe' /\ GenerationsGrow'
    BY <1>1, <1>4 DEF ThreadsInv, OffsetsBehindSuper, SuperBlockSafe, GenerationsGrow
  <1>. QED BY <1>1, <1>2, <1>3, <1>5 DEF ThreadsInv

----------------------------------------------------------------------------
(* add_log_entry. *)

(* What the steps of a thread in add_log_entry have in common; without a   *)
(* race it is alone.                                                       *)
LEMMA AppendFrame ==
    ASSUME ThreadsInv, NEW t \in Thread, OthersStay(t),
           UNCHANGED <<super_block, disk_super, raced>>,
           pc[t] \in Appending, pc'[t] \in Appending \cup {"idle"}
    PROVE  /\ pc' \in [Thread -> Labels]
           /\ \A u \in Thread \ {Http} : pc'[u] \notin InCheckpoint
           /\ arg' = [u \in Thread |-> arg'[u]]
           /\ reg' = [u \in Thread |-> reg'[u]]
           /\ \A u \in Thread \ {t} : pc'[u] = pc[u] /\ reg'[u] = reg[u]
           /\ GenerationsGrow'
           /\ ~raced => /\ Alone' /\ CurShape /\ EntryOf(t)
                        /\ \A u \in Thread \ {t} : pc'[u] \in Outside /\ pc[u] \in Outside
           /\ ~raced /\ FirstGeneration' => FreshLog
  <1>0. Http \in Thread
    BY DEF Thread
  <1>1. \A u \in Thread \ {t} : pc'[u] = pc[u] /\ arg'[u] = arg[u] /\ reg'[u] = reg[u]
    BY OthersUnchanged DEF ThreadsInv
  <1>2. pc'[t] \in Labels /\ pc'[t] \notin InCheckpoint /\ pc[t] \notin Outside
    BY DEF Labels, Outside, InCheckpoint, Appending
  <1>3. pc' \in [Thread -> Labels]
    BY <1>2 DEF ThreadsInv, Shapes, OthersStay
  <1>4. \A u \in Thread \ {Http} : pc'[u] \notin InCheckpoint
    BY <1>1, <1>2 DEF ThreadsInv, Shapes
  <1>5. arg' = [u \in Thread |-> arg'[u]] /\ reg' = [u \in Thread |-> reg'[u]]
    BY DEF ThreadsInv, Shapes, OthersStay
  <1>6. GenerationsGrow'
    <2>1. pc'[t] \notin {"super", "reset"}
      BY DEF Appending
    <2>. QED BY <1>0, <1>1, <2>1 DEF ThreadsInv, GenerationsGrow
  <1>7. ASSUME ~raced
        PROVE  /\ Alone' /\ CurShape /\ EntryOf(t)
               /\ \A u \in Thread \ {t} : pc'[u] \in Outside /\ pc[u] \in Outside
    <2>1. Alone /\ CurShape /\ EntryInCur
      BY <1>7 DEF ThreadsInv
    <2>2. \A u \in Thread \ {t} : pc'[u] \in Outside /\ pc[u] \in Outside
      BY <1>1, <1>2, <2>1 DEF Alone
    <2>3. Alone'
      BY <2>2 DEF Alone
    <2>. QED BY <2>1, <2>2, <2>3 DEF EntryInCur
  <1>8. ASSUME ~raced, FirstGeneration'
        PROVE  FreshLog
    <2>1. FirstGeneration
      BY <1>0, <1>1, <1>8 DEF FirstGeneration, InCheckpoint, Appending
    <2>. QED BY <1>8, <2>1 DEF ThreadsInv
  <1>. QED BY <1>1, <1>3, <1>4, <1>5, <1>6, <1>7, <1>8

(* With everybody else outside, what t has done is all that was done. *)
LEMMA OneEntry ==
    ASSUME NEW t \in Thread, \A u \in Thread \ {t} : pc'[u] \in Outside, EntryOf(t)'
    PROVE  EntryInCur'
  BY DEF EntryInCur, EntryOf, Outside

(* The tests and stores that come before the device is written. *)
LEMMA TestFullKeeps ==
    ASSUME ThreadsInv, NEW t \in Thread, TestFull(t)
    PROVE  ThreadsInv'
  <1>1. /\ UNCHANGED <<super_block, cur_block, block_offset, disk, disk_super, raced, arg>>
        /\ pc[t] = "append"
        /\ \/ CurIsFull /\ pc'[t] = "advance" /\ reg'[t] = block_offset
           \/ ~CurIsFull /\ pc'[t] = "stamp"
        /\ OthersStay(t)
    BY DEF TestFull, memory, device, history, ThreadsInv, Shapes, Goto, OthersStay
  <1>2. pc[t] \in Appending /\ pc'[t] \in Appending
    BY <1>1 DEF Appending
  <1>3. Shapes'
    BY <1>1, <1>2, AppendFrame DEF ThreadsInv, Shapes
  <1>4. OffsetsBehindSuper' /\ SuperBlockSafe' /\ GenerationsGrow'
    BY <1>1, <1>2, AppendFrame DEF ThreadsInv, OffsetsBehindSuper, SuperBlockSafe
  <1>5. ASSUME ~raced'
        PROVE  Alone' /\ CurShape' /\ EntryInCur'
    <2>1. /\ Alone' /\ CurShape /\ EntryOf(t)
          /\ \A u \in Thread \ {t} : pc'[u] \in Outside
      BY <1>1, <1>2, <1>5, AppendFrame
    <2>2. EntryOf(t)'
      BY <1>1, <2>1, ThreadsAssumption DEF CurShape, EntryOf, CurIsFull
    <2>3. CurShape'
      BY <1>1, <2>1 DEF CurShape
    <2>. QED BY <2>1, <2>2, <2>3, OneEntry
  <1>6. ASSUME ~raced', FirstGeneration'
        PROVE  FreshLog'
    <2>1. FreshLog /\ \A u \in Thread \ {t} : pc'[u] = pc[u]
      BY <1>1, <1>2, <1>6, AppendFrame
    <2>. QED BY <1>1, <2>1 DEF FreshLog
  <1>. QED BY <1>3, <1>4, <1>5, <1>6 DEF ThreadsInv

(* The next block becomes the current one: in the first generation it    *)
(* was never written, and is not at address 0.                           *)
LEMMA AdvanceKeeps ==
    ASSUME ThreadsInv, NEW t \in Thread, Advance(t)
    PROVE  ThreadsInv'
  <1>1. /\ UNCHANGED <<super_block, cur_block, disk, disk_super, raced, arg, reg>>
        /\ pc[t] = "advance" /\ pc'[t] = "clear"
        /\ block_offset' = reg[t] + 1
        /\ OthersStay(t)
    BY DEF Advance, NextBlock, device, history, ThreadsInv, Shapes, Goto, OthersStay
  <1>2. pc[t] \in Appending /\ pc'[t] \in Appending
    BY <1>1 DEF Appending
  <1>3. Shapes'
    BY <1>1, <1>2, AppendFrame DEF ThreadsInv, Shapes
  <1>4. OffsetsBehindSuper' /\ SuperBlockSafe' /\ GenerationsGrow'
    BY <1>1, <1>2, AppendFrame DEF ThreadsInv, OffsetsBehindSuper, SuperBlockSafe
  <1>5. ASSUME ~raced'
        PROVE  Alone' /\ CurShape' /\ EntryInCur'
    <2>1. /\ Alone' /\ CurShape
          /\ \A u \in Thread \ {t} : pc'[u] \in Outside
      BY <1>1, <1>2, <1>5, AppendFrame
    <2>2. EntryOf(t)'
      BY <1>1 DEF EntryOf
    <2>3. CurShape'
      BY <1>1, <2>1 DEF CurShape
    <2>. QED BY <2>1, <2>2, <2>3, OneEntry
  <1>6. ASSUME ~raced', FirstGeneration'
        PROVE  FreshLog'
    <2>1. /\ FreshLog /\ EntryOf(t)
          /\ \A u \in Thread \ {t} : pc'[u] \in Outside
      BY <1>1, <1>2, <1>6, AppendFrame
    <2>2. block_offset' = block_offset + 1 /\ block_offset \in Nat
      BY <1>1, <2>1 DEF EntryOf, ThreadsInv, OffsetsBehindSuper
    <2>3. block_offset' < LogSize => block_offset' \in Address
      BY <2>2, ThreadsAssumption DEF Address
    <2>4. \A a \in Address : block_offset' < a /\ a < LogSize => disk[a].body = ZeroEntries
      BY <2>1, <2>2, ThreadsAssumption DEF FreshLog, Address
    <2>5. block_offset' < LogSize => disk[block_offset'].body = ZeroEntries
      BY <2>1, <2>2, <2>3 DEF FreshLog
    <2>6. \A u \in Thread : pc'[u] \in {"clear", "sum", "head", "body"} => u = t
      BY <2>1 DEF Outside
    <2>7. \A i \in 1 .. EntriesPerBlock :
             cur_block.head.entry_cnt < i => cur_block.body[i] = NoEntry
      BY <2>1 DEF FreshLog
    <2>. QED BY <1>1, <2>4, <2>5, <2>6, <2>7 DEF FreshLog
  <1>. QED BY <1>3, <1>4, <1>5, <1>6 DEF ThreadsInv

(* cur_block is emptied, as the block on the device still is. *)
LEMMA ClearKeeps ==
    ASSUME ThreadsInv, NEW t \in Thread, Clear(t)
    PROVE  ThreadsInv'
  <1>1. /\ UNCHANGED <<super_block, block_offset, disk, disk_super, raced, arg, reg>>
        /\ pc[t] = "clear" /\ pc'[t] = "stamp"
        /\ cur_block' = Cleared
        /\ OthersStay(t)
    BY DEF Clear, device, history, ThreadsInv, Shapes, Goto, OthersStay
  <1>2. pc[t] \in Appending /\ pc'[t] \in Appending
    BY <1>1 DEF Appending
  <1>3. Shapes'
    BY <1>1, <1>2, AppendFrame DEF ThreadsInv, Shapes
  <1>4. OffsetsBehindSuper' /\ SuperBlockSafe' /\ GenerationsGrow'
    BY <1>1, <1>2, AppendFrame DEF ThreadsInv, OffsetsBehindSuper, SuperBlockSafe
  <1>5. /\ cur_block'.head.entry_cnt = 0 /\ cur_block'.head.checksum = 0
        /\ cur_block'.head.generation_num = 0 /\ cur_block'.body = ZeroEntries
    BY <1>1 DEF Cleared, Block
  <1>6. ASSUME ~raced'
        PROVE  Alone' /\ CurShape' /\ EntryInCur'
    <2>1. Alone' /\ \A u \in Thread \ {t} : pc'[u] \in Outside
      BY <1>1, <1>2, <1>6, AppendFrame
    <2>2. EntryOf(t)'
      BY <1>1, <1>5, ThreadsAssumption DEF EntryOf
    <2>3. CurShape'
      <3>1. ZeroEntries = [i \in 1 .. EntriesPerBlock |-> ZeroEntries[i]]
        BY DEF ZeroEntries
      <3>2. 0 \in 0 .. EntriesPerBlock
        BY ThreadsAssumption
      <3>. QED BY <1>1, <1>5, <3>1, <3>2 DEF CurShape, Cleared
    <2>. QED BY <2>1, <2>2, <2>3, OneEntry
  <1>7. ASSUME ~raced', FirstGeneration'
        PROVE  FreshLog'
    <2>1. FreshLog
      BY <1>1, <1>2, <1>7, AppendFrame
    <2>2. \A u \in Thread \ {t} : pc'[u] \in Outside
      BY <1>1, <1>2, <1>7, AppendFrame
    <2>3. block_offset < LogSize => disk[block_offset].body = ZeroEntries
      BY <1>1, <2>1 DEF FreshLog
    <2>4. \A i \in 1 .. EntriesPerBlock : ZeroEntries[i] = NoEntry
      BY DEF ZeroEntries
    <2>5. \A u \in Thread : pc'[u] \notin {"clear", "sum", "head", "body"}
      BY <1>1, <2>2 DEF Outside
    <2>. QED BY <1>1, <1>5, <2>1, <2>3, <2>4, <2>5 DEF FreshLog
  <1>. QED BY <1>3, <1>4, <1>6, <1>7 DEF ThreadsInv

(* cur_block gets the generation; nothing else of it changes. *)
LEMMA StampKeeps ==
    ASSUME ThreadsInv, NEW t \in Thread, Stamp(t)
    PROVE  ThreadsInv'
  <1>1. /\ UNCHANGED <<super_block, block_offset, disk, disk_super, raced, arg>>
        /\ pc[t] = "stamp" /\ pc'[t] = "store"
        /\ cur_block' = [cur_block EXCEPT
                            !.head.generation_num = super_block.generation_num]
        /\ reg'[t] = cur_block.head.entry_cnt
        /\ OthersStay(t)
    BY DEF Stamp, device, history, ThreadsInv, Shapes, Goto, OthersStay
  <1>2. pc[t] \in Appending /\ pc'[t] \in Appending
    BY <1>1 DEF Appending
  <1>3. Shapes'
    BY <1>1, <1>2, AppendFrame DEF ThreadsInv, Shapes
  <1>4. OffsetsBehindSuper' /\ SuperBlockSafe' /\ GenerationsGrow'
    BY <1>1, <1>2, AppendFrame DEF ThreadsInv, OffsetsBehindSuper, SuperBlockSafe
  <1>5. ASSUME CurShape
        PROVE  /\ cur_block' = Block(cur_block.head.checksum, super_block.generation_num,
                                     cur_block.head.entry_cnt, cur_block.body)
               /\ cur_block'.head.entry_cnt = cur_block.head.entry_cnt
               /\ cur_block'.body = cur_block.body
               /\ CurShape'
    <2>1. cur_block = Block(cur_block.head.checksum, cur_block.head.generation_num,
                            cur_block.head.entry_cnt, cur_block.body)
      BY <1>5 DEF CurShape
    <2>2. cur_block' = Block(cur_block.head.checksum, super_block.generation_num,
                             cur_block.head.entry_cnt, cur_block.body)
      BY <1>1, <2>1 DEF Block
    <2>3. /\ cur_block'.head.entry_cnt = cur_block.head.entry_cnt
          /\ cur_block'.head.checksum = cur_block.head.checksum
          /\ cur_block'.head.generation_num = super_block.generation_num
          /\ cur_block'.body = cur_block.body
      BY <2>2 DEF Block
    <2>. QED BY <1>5, <2>2, <2>3 DEF CurShape
  <1>6. ASSUME ~raced'
        PROVE  Alone' /\ CurShape' /\ EntryInCur'
    <2>1. /\ Alone' /\ CurShape /\ EntryOf(t)
          /\ \A u \in Thread \ {t} : pc'[u] \in Outside
      BY <1>1, <1>2, <1>6, AppendFrame
    <2>2. EntryOf(t)'
      BY <1>1, <1>5, <2>1 DEF EntryOf
    <2>. QED BY <1>5, <2>1, <2>2, OneEntry
  <1>7. ASSUME ~raced', FirstGeneration'
        PROVE  FreshLog'
    <2>1. /\ FreshLog /\ CurShape
          /\ \A u \in Thread \ {t} : pc'[u] = pc[u]
      BY <1>1, <1>2, <1>7, AppendFrame
    <2>. QED BY <1>1, <1>5, <2>1 DEF FreshLog
  <1>. QED BY <1>3, <1>4, <1>6, <1>7 DEF ThreadsInv

(* The entry goes where zeroes stood, and the count moves on. *)
LEMMA StoreKeeps ==
    ASSUME ThreadsInv, NEW t \in Thread, Store(t)
    PROVE  ThreadsInv'
  <1>. DEFINE cnt == cur_block.head.entry_cnt
              body == [cur_block.body EXCEPT ![cnt + 1] = arg[t]]
  <1>1. /\ UNCHANGED <<super_block, block_offset, disk, disk_super, raced, arg, reg>>
        /\ pc[t] = "store" /\ pc'[t] = "sum"
        /\ cur_block' = Stored(cur_block, reg[t], arg[t])
        /\ OthersStay(t)
    BY DEF Store, device, history, ThreadsInv, Shapes, Goto, OthersStay
  <1>2. pc[t] \in Appending /\ pc'[t] \in Appending
    BY <1>1 DEF Appending
  <1>3. Shapes'
    BY <1>1, <1>2, AppendFrame DEF ThreadsInv, Shapes
  <1>4. OffsetsBehindSuper' /\ SuperBlockSafe' /\ GenerationsGrow'
    BY <1>1, <1>2, AppendFrame DEF ThreadsInv, OffsetsBehindSuper, SuperBlockSafe
  <1>5. ASSUME ~raced
        PROVE  /\ cnt \in Nat /\ cnt + 1 \in 1 .. EntriesPerBlock
               /\ cur_block.body = [i \in 1 .. EntriesPerBlock |-> cur_block.body[i]]
               /\ cur_block'.head.entry_cnt = cnt + 1
               /\ cur_block'.body = body
               /\ CurShape'
    <2>1. CurShape /\ EntryOf(t)
      BY <1>1, <1>2, <1>5, AppendFrame
    <2>2. cnt \in Nat /\ cnt < EntriesPerBlock /\ reg[t] = cnt
      BY <1>1, <2>1, ThreadsAssumption DEF CurShape, EntryOf
    <2>3. cur_block = Block(cur_block.head.checksum, cur_block.head.generation_num,
                            cnt, cur_block.body)
      BY <2>1 DEF CurShape
    <2>4. cur_block' = Block(cur_block.head.checksum, cur_block.head.generation_num,
                             cnt + 1, body)
      BY <1>1, <2>2, <2>3 DEF Stored
    <2>5. /\ cur_block'.head.entry_cnt = cnt + 1
          /\ cur_block'.head.checksum = cur_block.head.checksum
          /\ cur_block'.head.generation_num = cur_block.head.generation_num
          /\ cur_block'.body = body
      BY <2>4 DEF Block
    <2>6. cur_block.body = [i \in 1 .. EntriesPerBlock |-> cur_block.body[i]]
      BY <2>1 DEF CurShape
    <2>7. cnt + 1 \in 0 .. EntriesPerBlock /\ cnt + 1 \in 1 .. EntriesPerBlock
      BY <2>2, ThreadsAssumption
    <2>8. body = [i \in 1 .. EntriesPerBlock |-> body[i]]
      BY <2>6
    <2>. HIDE DEF body, cnt
    <2>. QED BY <2>2, <2>4, <2>5, <2>6, <2>7, <2>8 DEF CurShape
  <1>6. ASSUME ~raced'
        PROVE  Alone' /\ CurShape' /\ EntryInCur'
    <2>1. Alone' /\ \A u \in Thread \ {t} : pc'[u] \in Outside
      BY <1>1, <1>2, <1>6, AppendFrame
    <2>2. cur_block'.body[cnt + 1] = arg[t] /\ cnt + 1 > 0
      <3>1. cur_block'.body = body /\ cnt \in Nat /\ cnt + 1 \in DOMAIN cur_block.body
        BY <1>1, <1>5, <1>6
      <3>2. body[cnt + 1] = arg[t]
        BY <3>1
      <3>. HIDE DEF body, cnt
      <3>. QED BY <3>1, <3>2
    <2>3. EntryOf(t)'
      BY <1>1, <1>5, <1>6, <2>2 DEF EntryOf
    <2>. QED BY <1>1, <1>5, <1>6, <2>1, <2>3, OneEntry
  <1>7. ASSUME ~raced', FirstGeneration'
        PROVE  FreshLog'
    <2>1. FreshLog
      BY <1>1, <1>2, <1>7, AppendFrame
    <2>2. \A u \in Thread \ {t} : pc[u] \in Outside /\ pc'[u] \in Outside
      BY <1>1, <1>2, <1>7, AppendFrame
    <2>3. block_offset < LogSize => disk[block_offset].body = cur_block.body
      BY <1>1, <2>1, <2>2 DEF FreshLog, Outside
    <2>4. cur_block.body[cnt + 1] = NoEntry
      BY <1>1, <1>5, <1>7, <2>1 DEF FreshLog
    <2>5. [cur_block'.body EXCEPT ![cnt + 1] = NoEntry] = cur_block.body
      BY <1>1, <1>5, <1>7, <2>4
    <2>6. \A i \in 1 .. EntriesPerBlock : cnt + 1 < i => cur_block'.body[i] = NoEntry
      <3>1. \A i \in 1 .. EntriesPerBlock : cnt < i => cur_block.body[i] = NoEntry
        BY <2>1 DEF FreshLog
      <3>2. cur_block'.body = body /\ cnt \in Nat
        BY <1>1, <1>5, <1>7
      <3>3. \A i \in 1 .. EntriesPerBlock :
               cnt + 1 < i => cnt < i /\ body[i] = cur_block.body[i]
        BY <1>1, <1>5, <1>7, <3>2
      <3>. HIDE DEF body, cnt
      <3>. QED BY <3>1, <3>2, <3>3
    <2>7. \A a \in Address : block_offset < a /\ a < LogSize => disk[a].body = ZeroEntries
      BY <2>1 DEF FreshLog
    <2>8. \A u \in Thread : pc'[u] # "clear" /\ (pc'[u] \in {"sum", "head", "body"} => u = t)
      BY <1>1, <2>2 DEF Outside
    <2>9. cur_block'.head.entry_cnt = cnt + 1
      BY <1>1, <1>5, <1>7
    <2>. HIDE DEF cnt, body
    <2>. QED BY <1>1, <2>3, <2>5, <2>6, <2>7, <2>8, <2>9 DEF FreshLog
  <1>. QED BY <1>3, <1>4, <1>6, <1>7 DEF ThreadsInv

(* cur_block gets its checksum, which does not cover itself. *)
LEMMA SumKeeps ==
    ASSUME ThreadsInv, NEW t \in Thread, Sum(t)
    PROVE  ThreadsInv'
  <1>. DEFINE sum == compute_checksum_xor(Content(cur_block))
  <1>1. /\ UNCHANGED <<super_block, block_offset, disk, disk_super, raced, arg>>
        /\ pc[t] = "sum" /\ pc'[t] = "head"
        /\ cur_block' = [cur_block EXCEPT !.head.checksum = sum]
        /\ reg'[t] = block_offset
        /\ OthersStay(t)
    BY DEF Sum, device, history, ThreadsInv, Shapes, Goto, OthersStay
  <1>2. pc[t] \in Appending /\ pc'[t] \in Appending
    BY <1>1 DEF Appending
  <1>3. Shapes'
    BY <1>1, <1>2, AppendFrame DEF ThreadsInv, Shapes
  <1>4. OffsetsBehindSuper' /\ SuperBlockSafe' /\ GenerationsGrow'
    BY <1>1, <1>2, AppendFrame DEF ThreadsInv, OffsetsBehindSuper, SuperBlockSafe
  <1>5. ASSUME CurShape
        PROVE  /\ cur_block'.head.entry_cnt = cur_block.head.entry_cnt
               /\ cur_block'.body = cur_block.body
               /\ cur_block'.head.checksum = compute_checksum_xor(Content(cur_block'))
               /\ CurShape'
    <2>1. cur_block = Block(cur_block.head.checksum, cur_block.head.generation_num,
                            cur_block.head.entry_cnt, cur_block.body)
      BY <1>5 DEF CurShape
    <2>2. cur_block' = Block(sum, cur_block.head.generation_num,
                             cur_block.head.entry_cnt, cur_block.body)
      BY <1>1, <2>1 DEF Block
    <2>3. /\ cur_block'.head.entry_cnt = cur_block.head.entry_cnt
          /\ cur_block'.head.checksum = sum
          /\ cur_block'.head.generation_num = cur_block.head.generation_num
          /\ cur_block'.body = cur_block.body
      BY <2>2 DEF Block
    <2>4. Content(cur_block') = Content(cur_block)
      BY <2>3 DEF Content
    <2>. HIDE DEF sum
    <2>5. CurShape'
      BY <1>5, <2>2, <2>3 DEF CurShape
    <2>. QED BY <2>3, <2>4, <2>5 DEF sum
  <1>6. ASSUME ~raced'
        PROVE  Alone' /\ CurShape' /\ EntryInCur'
    <2>1. /\ Alone' /\ CurShape /\ EntryOf(t)
          /\ \A u \in Thread \ {t} : pc'[u] \in Outside
      BY <1>1, <1>2, <1>6, AppendFrame
    <2>2. EntryOf(t)'
      BY <1>1, <1>5, <2>1 DEF EntryOf
    <2>. QED BY <1>5, <2>1, <2>2, OneEntry
  <1>7. ASSUME ~raced', FirstGeneration'
        PROVE  FreshLog'
    <2>1. /\ FreshLog /\ CurShape
          /\ \A u \in Thread \ {t} : pc'[u] = pc[u]
      BY <1>1, <1>2, <1>7, AppendFrame
    <2>. QED BY <1>1, <1>5, <2>1 DEF FreshLog
  <1>. QED BY <1>3, <1>4, <1>6, <1>7 DEF ThreadsInv

(* The two halves of the block's copy to the device. *)
LEMMA CopyHeadKeeps ==
    ASSUME ThreadsInv, NEW t \in Thread, CopyHead(t)
    PROVE  ThreadsInv'
  <1>1. /\ UNCHANGED <<super_block, cur_block, block_offset, disk_super, raced, arg, reg>>
        /\ pc[t] = "head" /\ pc'[t] = "body"
        /\ disk' = [disk EXCEPT ![reg[t]] = [head |-> cur_block.head, body |-> @.body]]
        /\ OthersStay(t)
    BY DEF CopyHead, memory, history, ThreadsInv, Shapes, Goto, OthersStay
  <1>2. pc[t] \in Appending /\ pc'[t] \in Appending
    BY <1>1 DEF Appending
  <1>3. /\ disk' = [a \in Address |-> disk'[a]]
        /\ \A a \in Address : disk'[a] = [head |-> IF a = reg[t] THEN cur_block.head
                                                   ELSE disk[a].head,
                                          body |-> disk[a].body]
    BY <1>1 DEF ThreadsInv, Shapes
  <1>4. Shapes'
    BY <1>1, <1>2, <1>3, AppendFrame DEF ThreadsInv, Shapes
  <1>5. OffsetsBehindSuper' /\ GenerationsGrow'
    BY <1>1, <1>2, AppendFrame DEF ThreadsInv, OffsetsBehindSuper
  <1>6. SuperBlockSafe'
    <2>1. reg[t] # 0
      BY <1>1 DEF ThreadsInv, OffsetsBehindSuper
    <2>. QED BY <1>1, <2>1 DEF ThreadsInv, Shapes, SuperBlockSafe
  <1>7. ASSUME ~raced'
        PROVE  Alone' /\ CurShape' /\ EntryInCur'
    <2>1. /\ Alone' /\ CurShape /\ EntryOf(t)
          /\ \A u \in Thread \ {t} : pc'[u] \in Outside
      BY <1>1, <1>2, <1>7, AppendFrame
    <2>2. EntryOf(t)'
      <3>1. Content(cur_block)' = Content(cur_block)
        BY <1>1 DEF Content
      <3>. QED BY <1>1, <1>3, <2>1, <3>1 DEF EntryOf
    <2>3. CurShape'
      BY <1>1, <2>1 DEF CurShape
    <2>. QED BY <2>1, <2>2, <2>3, OneEntry
  <1>8. ASSUME ~raced', FirstGeneration'
        PROVE  FreshLog'
    <2>1. FreshLog /\ \A u \in Thread \ {t} : pc'[u] = pc[u]
      BY <1>1, <1>2, <1>8, AppendFrame
    <2>2. \A a \in Address : disk'[a].body = disk[a].body
      BY <1>3
    <2>3. block_offset < LogSize => block_offset \in Address
      BY ThreadsAssumption DEF ThreadsInv, OffsetsBehindSuper, Address
    <2>. QED BY <1>1, <2>1, <2>2, <2>3 DEF FreshLog
  <1>. QED BY <1>4, <1>5, <1>6, <1>7, <1>8 DEF ThreadsInv

(* The entries follow the header: the device has the block again. *)
LEMMA CopyBodyKeeps ==
    ASSUME ThreadsInv, NEW t \in Thread, CopyBody(t)
    PROVE  ThreadsInv'
  <1>1. /\ UNCHANGED <<super_block, cur_block, block_offset, disk_super, raced>>
        /\ pc[t] = "body" /\ pc'[t] = "idle"
        /\ disk' = [disk EXCEPT ![reg[t]] = [head |-> @.head, body |-> cur_block.body]]
        /\ OthersStay(t)
    BY DEF CopyBody, memory, history, ThreadsInv, Shapes, Done, Goto, OthersStay
  <1>2. pc[t] \in Appending /\ pc'[t] \in Appending \cup {"idle"}
    BY <1>1 DEF Appending
  <1>3. /\ disk' = [a \in Address |-> disk'[a]]
        /\ \A a \in Address : disk'[a] = [head |-> disk[a].head,
                                          body |-> IF a = reg[t] THEN cur_block.body
                                                   ELSE disk[a].body]
    BY <1>1 DEF ThreadsInv, Shapes
  <1>4. Shapes'
    BY <1>1, <1>2, <1>3, AppendFrame DEF ThreadsInv, Shapes
  <1>5. OffsetsBehindSuper' /\ GenerationsGrow'
    BY <1>1, <1>2, AppendFrame DEF ThreadsInv, OffsetsBehindSuper
  <1>6. SuperBlockSafe'
    <2>1. reg[t] # 0
      BY <1>1 DEF ThreadsInv, OffsetsBehindSuper
    <2>. QED BY <1>1, <2>1 DEF ThreadsInv, Shapes, SuperBlockSafe
  <1>7. ASSUME ~raced'
        PROVE  Alone' /\ CurShape' /\ EntryInCur'
    <2>1. /\ Alone' /\ CurShape
          /\ \A u \in Thread \ {t} : pc'[u] \in Outside
      BY <1>1, <1>2, <1>7, AppendFrame
    <2>2. EntryOf(t)'
      BY <1>1 DEF EntryOf
    <2>3. CurShape'
      BY <1>1, <2>1 DEF CurShape
    <2>. QED BY <2>1, <2>2, <2>3, OneEntry
  <1>8. ASSUME ~raced', FirstGeneration'
        PROVE  FreshLog'
    <2>1. FreshLog /\ EntryOf(t)
      BY <1>1, <1>2, <1>8, AppendFrame
    <2>2. \A u \in Thread \ {t} : pc'[u] \in Outside
      BY <1>1, <1>2, <1>8, AppendFrame
    <2>3. reg[t] = block_offset /\ block_offset \in Nat
      BY <1>1, <2>1 DEF EntryOf, ThreadsInv, OffsetsBehindSuper
    <2>4. block_offset < LogSize => disk'[block_offset].body = cur_block.body
      <3>1. block_offset < LogSize => block_offset \in Address
        BY <2>3, ThreadsAssumption DEF Address
      <3>. QED BY <1>3, <2>3, <3>1
    <2>5. \A a \in Address : block_offset < a /\ a < LogSize => disk'[a].body = ZeroEntries
      BY <1>3, <2>1, <2>3 DEF FreshLog
    <2>6. \A u \in Thread : pc'[u] \notin {"clear", "sum", "head", "body"}
      BY <1>1, <2>2 DEF Outside
    <2>. QED BY <1>1, <2>1, <2>4, <2>5, <2>6 DEF FreshLog
  <1>. QED BY <1>4, <1>5, <1>6, <1>7, <1>8 DEF ThreadsInv

----------------------------------------------------------------------------
(* checkpoint().  The HTTP thread is alone in it without a race, and the   *)
(* first generation is over for what the invariant says of it.             *)
LEMMA CheckpointFrame ==
    ASSUME ThreadsInv, OthersStay(Http),
           UNCHANGED <<cur_block, arg, reg>>,
           disk' = [a \in Address |-> disk'[a]],
           \A a \in Address : disk'[a] = [head |-> disk'[a].head, body |-> disk'[a].body],
           disk'[0] = disk[0],
           pc'[Http] \in InCheckpoint \/ (pc'[Http] = "idle" /\ disk_super'.generation_num > 0),
           block_offset' \in Nat \ {0},
           GenerationsGrow',
           ~raced' => ~raced /\ \A u \in Thread \ {Http} : pc[u] \in Outside
    PROVE  ThreadsInv'
  <1>0. Http \in Thread
    BY DEF Thread
  <1>1. \A u \in Thread \ {Http} : pc'[u] = pc[u]
    BY <1>0, OthersUnchanged DEF ThreadsInv
  <1>2. pc'[Http] \in Labels
    BY DEF Labels, Outside
  <1>3. Shapes'
    <2>1. pc' \in [Thread -> Labels]
      BY <1>0, <1>2 DEF ThreadsInv, Shapes, OthersStay
    <2>. QED BY <1>1, <2>1 DEF ThreadsInv, Shapes
  <1>4. OffsetsBehindSuper' /\ SuperBlockSafe'
    <2>1. pc'[Http] \notin {"advance", "head", "body"}
      BY DEF InCheckpoint
    <2>. QED BY <1>1, <2>1 DEF ThreadsInv, OffsetsBehindSuper, SuperBlockSafe
  <1>5. ASSUME ~raced'
        PROVE  Alone' /\ CurShape' /\ EntryInCur'
    <2>1. CurShape /\ \A u \in Thread \ {Http} : pc'[u] \in Outside
      BY <1>1, <1>5 DEF ThreadsInv
    <2>2. EntryOf(Http)'
      BY DEF EntryOf, InCheckpoint
    <2>3. Alone'
      BY <2>1 DEF Alone
    <2>4. CurShape'
      BY <2>1 DEF CurShape
    <2>. QED BY <1>0, <2>1, <2>2, <2>3, <2>4, OneEntry
  <1>6. ~FirstGeneration'
    BY DEF FirstGeneration
  <1>. QED BY <1>3, <1>4, <1>5, <1>6 DEF ThreadsInv

(* A checkpoint begins: block_offset leaves the log. *)
LEMMA BeginCheckpointKeeps ==
    ASSUME ThreadsInv, BeginCheckpoint
    PROVE  ThreadsInv'
  <1>1. /\ Http \in Thread /\ OthersStay(Http) /\ pc'[Http] = "checkpoint"
        /\ UNCHANGED <<cur_block, arg, reg, disk, super_block, disk_super>>
        /\ block_offset' = LogSize
        /\ raced' = (raced \/ \E u \in Thread \ {Http} : pc[u] \notin Outside)
    BY DEF ThreadsInv, Shapes, BeginCheckpoint, Enter, Goto, OthersStay, device, Thread
  <1>2. GenerationsGrow'
    BY <1>1 DEF ThreadsInv, GenerationsGrow
  <1>3. block_offset' \in Nat \ {0}
    BY <1>1, ThreadsAssumption
  <1>4. /\ disk' = [a \in Address |-> disk'[a]]
        /\ \A a \in Address : disk'[a] = [head |-> disk'[a].head, body |-> disk'[a].body]
    BY <1>1 DEF ThreadsInv, Shapes
  <1>. QED BY <1>1, <1>2, <1>3, <1>4, CheckpointFrame DEF InCheckpoint

(* The steps of a checkpoint write behind the log, and then move the     *)
(* generation on.                                                        *)
LEMMA CheckpointKeeps ==
    ASSUME ThreadsInv, checkpoint
    PROVE  ThreadsInv'
  <1>0. Http \in Thread
    BY DEF Thread
  <1>1. ASSUME pc[Http] \in InCheckpoint
        PROVE  ~raced => \A u \in Thread \ {Http} : pc[u] \in Outside
    BY <1>0, <1>1 DEF ThreadsInv, Alone, InCheckpoint, Outside
  <1>2. CASE \E n \in DOMAIN graph : CheckpointNode(n)
    <2>1. PICK n : CheckpointNode(n)
      BY <1>2
    <2>2. /\ OthersStay(Http) /\ pc[Http] = "checkpoint" /\ pc'[Http] = "checkpoint"
          /\ UNCHANGED <<cur_block, arg, reg, block_offset, super_block, disk_super, raced>>
          /\ disk' = [disk EXCEPT ![block_offset] = CheckptBlock(checkpt_block')]
      BY <1>0, <2>1 DEF ThreadsInv, Shapes, CheckpointNode, OthersStay, history
    <2>3. block_offset # 0 /\ block_offset' \in Nat \ {0}
      BY <2>2 DEF ThreadsInv, OffsetsBehindSuper
    <2>4. CheckptBlock(checkpt_block') = [head |-> CheckptBlock(checkpt_block').head,
                                          body |-> CheckptBlock(checkpt_block').body]
      BY DEF CheckptBlock, Block
    <2>5. /\ disk' = [a \in Address |-> disk'[a]] /\ disk'[0] = disk[0]
          /\ \A a \in Address : disk'[a] = [head |-> disk'[a].head, body |-> disk'[a].body]
      BY <2>2, <2>3, <2>4 DEF ThreadsInv, Shapes
    <2>6. GenerationsGrow'
      BY <2>2 DEF ThreadsInv, GenerationsGrow
    <2>. QED BY <1>1, <2>2, <2>3, <2>5, <2>6, CheckpointFrame DEF InCheckpoint
  <1>3. ASSUME NewGeneration \/ WriteSuperBlock \/ EndCheckpoint
        PROVE  ThreadsInv'
    <2>1. /\ OthersStay(Http) /\ pc[Http] \in InCheckpoint
          /\ UNCHANGED <<cur_block, arg, reg, disk, raced>>
          /\ \/ pc[Http] = "checkpoint" /\ pc'[Http] = "super"
                /\ super_block'.generation_num = super_block.generation_num + 1
                /\ UNCHANGED <<disk_super, block_offset>>
             \/ pc[Http] = "super" /\ pc'[Http] = "reset" /\ disk_super' = super_block
                /\ UNCHANGED <<super_block, block_offset>>
             \/ pc[Http] = "reset" /\ pc'[Http] = "idle" /\ block_offset' = LogStart
                /\ UNCHANGED <<super_block, disk_super>>
      BY <1>0, <1>3 DEF ThreadsInv, Shapes, NewGeneration, WriteSuperBlock, EndCheckpoint,
         Goto, OthersStay, device, memory, history, ResetOffset, InCheckpoint
    <2>2. block_offset' \in Nat \ {0}
      BY <2>1 DEF ThreadsInv, OffsetsBehindSuper, LogStart
    <2>3. GenerationsGrow'
      BY <2>1 DEF ThreadsInv, GenerationsGrow
    <2>4. /\ disk' = [a \in Address |-> disk'[a]]
          /\ \A a \in Address : disk'[a] = [head |-> disk'[a].head, body |-> disk'[a].body]
      BY <2>1 DEF ThreadsInv, Shapes
    <2>5. pc'[Http] \in InCheckpoint \/ (pc'[Http] = "idle" /\ disk_super'.generation_num > 0)
      BY <2>1 DEF InCheckpoint, ThreadsInv, GenerationsGrow
    <2>. QED BY <1>1, <2>1, <2>2, <2>3, <2>4, <2>5, CheckpointFrame
  <1>. QED BY <1>2, <1>3 DEF checkpoint

----------------------------------------------------------------------------
(* Every step of every thread keeps the invariant. *)
LEMMA ThreadsInvariance == Spec => []ThreadsInv
  <1>1. ThreadsInv /\ [Next]_vars => ThreadsInv'
    <2>. SUFFICES ASSUME ThreadsInv, [Next]_vars
                  PROVE  ThreadsInv'
      OBVIOUS
    <2>1. CASE \E t \in Thread : \E e \in Request : Receive(t, e)
      BY <2>1, ReceiveKeeps
    <2>2. CASE BeginCheckpoint
      BY <2>2, BeginCheckpointKeeps
    <2>3. CASE \E t \in Thread : Reply(t) \/ Run(t)
      <3>1. PICK t \in Thread : Reply(t) \/ Run(t)
        BY <2>3
      <3>2. CASE Reply(t)
        BY <3>2, ReplyKeeps
      <3>3. CASE Run(t)
        BY <3>3, MethodKeeps, TestFullKeeps, AdvanceKeeps, ClearKeeps, StampKeeps, StoreKeeps,
           SumKeeps, CopyHeadKeeps, CopyBodyKeeps, CheckpointKeeps DEF Run, add_log_entry
      <3>. QED BY <3>1, <3>2, <3>3
    <2>4. CASE MethodsCollide
      BY <2>4, CollisionKeeps
    <2>5. CASE UNCHANGED vars
      <3>1. UNCHANGED <<super_block, cur_block, block_offset, disk, disk_super, pc, arg, reg,
                        raced>>
        BY <2>5 DEF vars, memory, device, history
      <3>2. Content(cur_block)' = Content(cur_block)
        BY <3>1 DEF Content
      <3>. QED BY <3>1, <3>2
               DEF ThreadsInv, Shapes, OffsetsBehindSuper, SuperBlockSafe, GenerationsGrow,
                   Alone, CurShape, EntryInCur, EntryOf, FirstGeneration, FreshLog
    <2>. QED BY <2>1, <2>2, <2>3, <2>4, <2>5 DEF Next
  <1>. QED BY <1>1, InitThreads, PTL DEF Spec

(* However the threads interleave, raced or not, no log block and no       *)
(* checkpoint block goes over the superblock.                              *)
THEOREM SuperBlockNeverHit == Spec => []SuperBlockSafe
  <1>1. ThreadsInv => SuperBlockSafe
    BY DEF ThreadsInv
  <1>. QED BY <1>1, ThreadsInvariance, PTL

(* A process that dies inside the copy of a log block leaves a block that  *)
(* recovery rejects unless the words of the new entry cancel out, or,      *)
(* after the first checkpoint, the block held entries of an earlier        *)
(* generation: whatever the entries, the capacity of a block and the log.  *)
THEOREM TornBlocksDetected == Spec => []TornDetected
  <1>1. ThreadsInv => TornDetected
    <2>. SUFFICES ASSUME ThreadsInv, NEW t \in Thread, ~raced,
                         pc[t] = "body", reg[t] < LogSize, Valid(reg[t]),
                         ~(Reused(reg[t]) /\ disk_super.generation_num > 0)
                  PROVE  Xor(EntryWords(arg[t])) = 0
      BY DEF TornDetected
    <2>. DEFINE cnt == cur_block.head.entry_cnt
    <2>1. Alone /\ CurShape /\ EntryOf(t)
      BY DEF ThreadsInv, EntryInCur
    <2>2. /\ cnt \in 1 .. EntriesPerBlock /\ cur_block.body[cnt] = arg[t]
          /\ reg[t] = block_offset
          /\ cur_block.head.checksum = compute_checksum_xor(Content(cur_block))
      BY <2>1, ThreadsAssumption DEF CurShape, EntryOf
    <2>3. reg[t] \in Address
      BY ThreadsAssumption DEF ThreadsInv, OffsetsBehindSuper, Address
    <2>4. disk[reg[t]].head = cur_block.head
      BY <2>1, <2>3 DEF EntryOf
    <2>5. ~Reused(reg[t])
      <3>1. CASE disk_super.generation_num > 0
        BY <3>1
      <3>2. CASE ~(disk_super.generation_num > 0)
        <4>1. disk_super.generation_num = 0
          BY <3>2 DEF ThreadsInv, GenerationsGrow
        <4>2. pc[Http] \notin InCheckpoint
          <5>1. Http \in Thread
            BY DEF Thread
          <5>. QED BY <2>1, <5>1 DEF Alone, Outside, InCheckpoint
        <4>3. FreshLog
          BY <4>1, <4>2 DEF ThreadsInv, FirstGeneration
        <4>. QED BY <2>2, <4>3 DEF FreshLog, Reused
      <3>. QED BY <3>1, <3>2
    <2>6. disk[reg[t]].body = [cur_block.body EXCEPT ![cnt] = NoEntry]
      BY <2>5 DEF Reused
    <2>7. compute_checksum_xor(Content(disk[reg[t]])) = compute_checksum_xor(Content(cur_block))
      BY <2>2, <2>4 DEF Valid, IsValid
    <2>8. cur_block.body = [i \in 1 .. EntriesPerBlock |-> cur_block.body[i]]
      BY <2>1 DEF CurShape
    <2>9. Xor(EntryWords(cur_block.body[cnt])) = 0
      <3>1. OneEntryLess(disk[reg[t]], cur_block, cnt)
        BY <2>2, <2>4, <2>6, <2>7, <2>8 DEF OneEntryLess
      <3>. QED BY <3>1, EntryCancels
    <2>. QED BY <2>2, <2>9
  <1>. QED BY <1>1, ThreadsInvariance, PTL

----------------------------------------------------------------------------
(***************************************************************************)
(* The second part: what a restart finds.                                  *)
(***************************************************************************)

(* The entries of a block, and the blocks of the log up to n. *)
Entries == [1 .. EntriesPerBlock -> LogEntry]

Ids == {e.node1 : e \in LogEntry}

LogBlocks(d, n) ==
    \A a \in 1 .. n : /\ d[a].body \in Entries
                      /\ d[a].head.entry_cnt \in 0 .. EntriesPerBlock

(* What an entry does to the nodes of a graph. *)
LEMMA ExecuteNodes ==
    ASSUME NEW g \in NodeGraphs, NEW e \in LogEntry
    PROVE  /\ Execute(g, e).g \in NodeGraphs
           /\ DOMAIN Execute(g, e).g =
                 IF e.opcode = OP_ADD_NODE THEN DOMAIN g \cup {e.node1}
                 ELSE DOMAIN g \ {e.node1}
  <1>1. PICK D \in SUBSET Ids : g \in [D -> {{}}]
    BY DEF NodeGraphs, Ids
  <1>2. \A C \in SUBSET Ids : [C -> {{}}] \subseteq NodeGraphs
    BY DEF NodeGraphs, Ids
  <1>3. e.node1 \in Ids
    BY DEF Ids
  <1>4. e.opcode \in {OP_ADD_NODE, OP_REMOVE_NODE}
    BY ThreadsAssumption DEF LogEntry, NoEntry
  <1>5. CASE e.opcode = OP_ADD_NODE
    <2>1. Execute(g, e) = addNode(g, e.node1)
      BY <1>5 DEF Execute, OP_ADD_NODE, OP_ADD_EDGE, OP_REMOVE_NODE, OP_REMOVE_EDGE
    <2>2. CASE e.node1 \in D
      BY <1>1, <1>5, <2>1, <2>2 DEF addNode, Result
    <2>3. CASE e.node1 \notin D
      <3>1. Execute(g, e).g = Assign(g, e.node1, {})
        BY <1>1, <2>1, <2>3 DEF addNode, Result
      <3>2. Assign(g, e.node1, {}) \in [D \cup {e.node1} -> {{}}]
        BY <1>1 DEF Assign
      <3>3. D \cup {e.node1} \in SUBSET Ids
        BY <1>3
      <3>. QED BY <1>1, <1>2, <1>5, <3>1, <3>2, <3>3
    <2>. QED BY <2>2, <2>3
  <1>6. CASE e.opcode = OP_REMOVE_NODE
    <2>1. Execute(g, e) = removeNode(g, e.node1)
      BY <1>6 DEF Execute, OP_ADD_NODE, OP_ADD_EDGE, OP_REMOVE_NODE, OP_REMOVE_EDGE
    <2>0. e.opcode # OP_ADD_NODE
      BY <1>6 DEF OP_ADD_NODE, OP_REMOVE_NODE
    <2>2. CASE e.node1 \notin D
      BY <1>1, <2>0, <2>1, <2>2 DEF removeNode, Result
    <2>3. CASE e.node1 \in D
      <3>1. g[e.node1] = {}
        BY <1>1, <2>3
      <3>2. Execute(g, e).g = [m \in D \ {e.node1} |-> g[m]]
        BY <1>1, <2>1, <2>3, <3>1 DEF removeNode, Result
      <3>3. [m \in D \ {e.node1} |-> g[m]] \in [D \ {e.node1} -> {{}}]
        BY <1>1
      <3>4. D \ {e.node1} \in SUBSET Ids
        OBVIOUS
      <3>. QED BY <1>1, <1>2, <2>0, <3>2, <3>3, <3>4
    <2>. QED BY <2>2, <2>3
  <1>. QED BY <1>4, <1>5, <1>6

(* Such a graph is its nodes. *)
LEMMA SameNodes ==
    ASSUME NEW g \in NodeGraphs, NEW h \in NodeGraphs, DOMAIN g = DOMAIN h
    PROVE  g = h
  <1>1. PICK D : g \in [D -> {{}}]
    BY DEF NodeGraphs
  <1>2. PICK E : h \in [E -> {{}}]
    BY DEF NodeGraphs
  <1>3. /\ \A n \in DOMAIN g : g[n] = {}
        /\ \A n \in DOMAIN h : h[n] = {}
        /\ g = [n \in DOMAIN g |-> g[n]] /\ h = [n \in DOMAIN h |-> h[n]]
    BY <1>1, <1>2
  <1>. QED BY <1>3

(* The nodes of requests make such graphs. *)
LEMMA GraphOfNodes ==
    ASSUME NEW D \in SUBSET Ids
    PROVE  [n \in D |-> {}] \in NodeGraphs
  BY DEF NodeGraphs, Ids

----------------------------------------------------------------------------
(* Replaying a block. *)

LEMMA EntryTurns ==
    ASSUME NEW s \in Entries
    PROVE  TurnsIn(EntryTurn(s), NodeGraphs, EntriesPerBlock)
  <1>. SUFFICES ASSUME NEW g \in NodeGraphs, NEW i \in 1 .. EntriesPerBlock
                PROVE  EntryTurn(s)[<<g, i>>] \in NodeGraphs
    BY DEF TurnsIn
  <1>1. i \in Nat /\ s[i] \in LogEntry
    BY DEF Entries
  <1>2. EntryTurn(s)[<<g, i>>] = Execute(g, s[i]).g
    BY <1>1 DEF EntryTurn
  <1>. QED BY <1>1, <1>2, ExecuteNodes

(* No entry leaves the graph alone. *)
LEMMA ReplayedZero ==
    ASSUME NEW s \in Entries, NEW g \in NodeGraphs
    PROVE  Replayed(g, s, 0) = g
  BY EntryTurns, StepsZero, ThreadsAssumption DEF Replayed

LEMMA ReplayedType ==
    ASSUME NEW s \in Entries, NEW g \in NodeGraphs,
           NEW n \in 0 .. EntriesPerBlock
    PROVE  Replayed(g, s, n) \in NodeGraphs
  BY EntryTurns, StepsType, ThreadsAssumption DEF Replayed

(* The last of n entries is executed after the others. *)
LEMMA ReplayedNext ==
    ASSUME NEW s \in Entries, NEW g \in NodeGraphs,
           NEW n \in 1 .. EntriesPerBlock
    PROVE  Replayed(g, s, n) = Execute(Replayed(g, s, n - 1), s[n]).g
  <1>1. n \in Nat /\ n - 1 \in 0 .. EntriesPerBlock
    BY ThreadsAssumption
  <1>2. TakesTurn(EntryTurn(s), g, n)
    BY EntryTurns, StepsNext, ThreadsAssumption
  <1>3. Replayed(g, s, n - 1) \in NodeGraphs
    BY <1>1, ReplayedType
  <1>4. Replayed(g, s, n) = EntryTurn(s)[<<Replayed(g, s, n - 1), n>>]
    BY <1>2 DEF TakesTurn, Replayed
  <1>. QED BY <1>1, <1>3, <1>4 DEF EntryTurn

(* The entries behind the first n do not matter. *)
LEMMA ReplayedSame ==
    ASSUME NEW s \in Entries, NEW r \in Entries, NEW g \in NodeGraphs,
           NEW n \in 0 .. EntriesPerBlock, \A i \in 1 .. n : s[i] = r[i]
    PROVE  Replayed(g, s, n) = Replayed(g, r, n)
  <1>1. n \in Nat
    BY ThreadsAssumption
  <1>2. TurnsIn(EntryTurn(s), NodeGraphs, n)
    <2>1. TurnsIn(EntryTurn(s), NodeGraphs, EntriesPerBlock)
      BY EntryTurns
    <2>2. \A i \in 1 .. n : i \in 1 .. EntriesPerBlock
      BY <1>1, ThreadsAssumption
    <2>. HIDE DEF Entries
    <2>. QED BY <2>1, <2>2 DEF TurnsIn
  <1>3. SameTurns(EntryTurn(s), EntryTurn(r), NodeGraphs, n)
    BY <1>1 DEF SameTurns, EntryTurn
  <1>. QED BY <1>1, <1>2, <1>3, StepsAgree DEF Replayed

(* At node x the graphs replayed from g and from h agree, or are g and h.  *)
AlikeAt(x, g, h, s, n) ==
    \/ x \in DOMAIN Replayed(g, s, n) <=> x \in DOMAIN Replayed(h, s, n)
    \/ /\ x \in DOMAIN Replayed(g, s, n) <=> x \in DOMAIN g
       /\ x \in DOMAIN Replayed(h, s, n) <=> x \in DOMAIN h

(* For the last entry on a node decides about it. *)
LEMMA LastEntryDecides ==
    ASSUME NEW s \in Entries, NEW g \in NodeGraphs, NEW h \in NodeGraphs, NEW x
    PROVE  \A n \in 0 .. EntriesPerBlock : AlikeAt(x, g, h, s, n)
  <1>. DEFINE S == {n \in Nat : n <= EntriesPerBlock => AlikeAt(x, g, h, s, n)}
  <1>1. 0 \in S
    <2>1. Replayed(g, s, 0) = g /\ Replayed(h, s, 0) = h
      BY ReplayedZero
    <2>. QED BY <2>1 DEF AlikeAt
  <1>2. ASSUME NEW n \in S
        PROVE  n + 1 \in S
    <2>. SUFFICES ASSUME n + 1 <= EntriesPerBlock
                  PROVE  AlikeAt(x, g, h, s, n + 1)
      OBVIOUS
    <2>1. /\ n + 1 \in 1 .. EntriesPerBlock /\ n \in 0 .. EntriesPerBlock
          /\ n + 1 - 1 = n /\ AlikeAt(x, g, h, s, n)
      BY ThreadsAssumption
    <2>. DEFINE e == s[n + 1]
                G == Replayed(g, s, n)
                H == Replayed(h, s, n)
    <2>2. /\ Replayed(g, s, n + 1) = Execute(G, e).g
          /\ Replayed(h, s, n + 1) = Execute(H, e).g
      BY <2>1, ReplayedNext
    <2>3. G \in NodeGraphs /\ H \in NodeGraphs /\ e \in LogEntry
      BY <2>1, ReplayedType DEF Entries
    <2>4. /\ DOMAIN Execute(G, e).g =
                IF e.opcode = OP_ADD_NODE THEN DOMAIN G \cup {e.node1}
                ELSE DOMAIN G \ {e.node1}
          /\ DOMAIN Execute(H, e).g =
                IF e.opcode = OP_ADD_NODE THEN DOMAIN H \cup {e.node1}
                ELSE DOMAIN H \ {e.node1}
      BY <2>3, ExecuteNodes
    <2>5. \/ x \in DOMAIN G <=> x \in DOMAIN H
          \/ (x \in DOMAIN G <=> x \in DOMAIN g) /\ (x \in DOMAIN H <=> x \in DOMAIN h)
      BY <2>1 DEF AlikeAt
    <2>. HIDE DEF G, H, e
    <2>. QED BY <2>2, <2>4, <2>5 DEF AlikeAt
  <1>3. Nat \subseteq S
    <2>. HIDE DEF S
    <2>. QED BY <1>1, <1>2, NatInduct
  <1>4. \A n \in 0 .. EntriesPerBlock : n \in Nat /\ n <= EntriesPerBlock
    BY ThreadsAssumption
  <1>. QED BY <1>3, <1>4

(* Replaying a block once more changes nothing. *)
LEMMA ReplayedTwice ==
    ASSUME NEW s \in Entries, NEW g \in NodeGraphs, NEW n \in 0 .. EntriesPerBlock
    PROVE  Replayed(Replayed(g, s, n), s, n) = Replayed(g, s, n)
  <1>. DEFINE h == Replayed(g, s, n)
              k == Replayed(h, s, n)
  <1>1. h \in NodeGraphs
    BY ReplayedType
  <1>. HIDE DEF h
  <1>2. k \in NodeGraphs
    BY <1>1, ReplayedType
  <1>3. ASSUME NEW x
        PROVE  x \in DOMAIN k <=> x \in DOMAIN h
    <2>1. AlikeAt(x, h, g, s, n)
      BY <1>1, LastEntryDecides
    <2>. QED BY <2>1 DEF AlikeAt, h
  <1>4. \E D, E : k \in [D -> {{}}] /\ h \in [E -> {{}}]
    BY <1>1, <1>2 DEF NodeGraphs
  <1>5. DOMAIN k = DOMAIN h
    BY <1>3
  <1>6. k = h
    BY <1>1, <1>2, <1>5, SameNodes
  <1>. QED BY <1>6 DEF h

----------------------------------------------------------------------------
(* Replaying the log. *)

LEMMA BlockTurns ==
    ASSUME NEW d, NEW n \in Nat, LogBlocks(d, n)
    PROVE  TurnsIn(BlockTurn(d), NodeGraphs, n)
  <1>. SUFFICES ASSUME NEW g \in NodeGraphs, NEW i \in 1 .. n
                PROVE  BlockTurn(d)[<<g, i>>] \in NodeGraphs
    BY DEF TurnsIn
  <1>1. /\ i \in Nat /\ d[i].body \in Entries
        /\ d[i].head.entry_cnt \in 0 .. EntriesPerBlock
    BY DEF LogBlocks
  <1>2. BlockTurn(d)[<<g, i>>] = Replayed(g, d[i].body, d[i].head.entry_cnt)
    BY <1>1 DEF BlockTurn
  <1>. QED BY <1>1, <1>2, ReplayedType

LEMMA ThroughZero ==
    ASSUME NEW d, NEW g \in NodeGraphs
    PROVE  Through(d, g, 0) = g
  <1>1. LogBlocks(d, 0)
    BY DEF LogBlocks
  <1>. QED BY <1>1, BlockTurns, StepsZero DEF Through

LEMMA ThroughType ==
    ASSUME NEW d, NEW n \in Nat, LogBlocks(d, n), NEW g \in NodeGraphs
    PROVE  Through(d, g, n) \in NodeGraphs
  <1>1. n \in 0 .. n
    OBVIOUS
  <1>. QED BY <1>1, BlockTurns, StepsType DEF Through

(* The last of n blocks is replayed after the others. *)
LEMMA ThroughNext ==
    ASSUME NEW d, NEW n \in Nat, n > 0, LogBlocks(d, n), NEW g \in NodeGraphs
    PROVE  Through(d, g, n) =
              Replayed(Through(d, g, n - 1), d[n].body, d[n].head.entry_cnt)
  <1>1. n \in 1 .. n /\ n - 1 \in Nat /\ LogBlocks(d, n - 1)
    BY DEF LogBlocks
  <1>2. TakesTurn(BlockTurn(d), g, n)
    BY <1>1, BlockTurns, StepsNext
  <1>3. Through(d, g, n - 1) \in NodeGraphs
    BY <1>1, ThroughType
  <1>4. Through(d, g, n) = BlockTurn(d)[<<Through(d, g, n - 1), n>>]
    BY <1>2 DEF TakesTurn, Through
  <1>. QED BY <1>3, <1>4 DEF BlockTurn

(* Other blocks than the first n do not matter. *)
LEMMA ThroughSame ==
    ASSUME NEW d, NEW c, NEW n \in Nat, LogBlocks(d, n), NEW g \in NodeGraphs,
           \A a \in 1 .. n : d[a] = c[a]
    PROVE  Through(d, g, n) = Through(c, g, n)
  <1>1. TurnsIn(BlockTurn(d), NodeGraphs, n)
    BY BlockTurns
  <1>2. SameTurns(BlockTurn(d), BlockTurn(c), NodeGraphs, n)
    BY DEF SameTurns, BlockTurn
  <1>. QED BY <1>1, <1>2, StepsAgree DEF Through

----------------------------------------------------------------------------
(* Blocks recovery stops at: not of this generation, or never written. *)
Stale(b, gen) ==
    b.head.generation_num = 0 /\ (gen > 0 \/ b.head.checksum = 0)

LEMMA StaleIsInvalid ==
    ASSUME NEW b, NEW gen \in {0, 1}, Stale(b, gen)
    PROVE  ~IsValid(b, gen)
  <1>. SUFFICES ASSUME IsValid(b, gen)
                PROVE  FALSE
    OBVIOUS
  <1>1. b.head.checksum = 0
    BY DEF Stale, IsValid
  <1>2. DOMAIN Content(b) = 1 .. 1 + 3 * EntriesPerBlock
    BY DEF Content
  <1>3. IsFiniteSet(1 .. 1 + 3 * EntriesPerBlock)
    <2>1. 1 \in Int /\ 1 + 3 * EntriesPerBlock \in Int
      BY ThreadsAssumption
    <2>. QED BY <2>1, FS_Interval
  <1>4. \A value : Odd(Content(b), value) \in {0, 1}
    BY <1>2, <1>3, OddIsBit
  <1>5. Xor(Content(b)) \in Nat
    <2>. DEFINE w == Content(b)
    <2>. HIDE DEF w
    <2>1. \A value : Odd(w, value) \in {0, 1}
      BY <1>4 DEF w
    <2>2. /\ Odd(w, 1) \in Nat /\ Odd(w, 2) \in Nat /\ Odd(w, 4) \in Nat
          /\ Odd(w, 8) \in Nat /\ Odd(w, 16) \in Nat /\ Odd(w, 32) \in Nat
      BY <2>1
    <2>3. Xor(w) \in Nat
      BY <2>2 DEF Xor
    <2>. QED BY <2>3 DEF w
  <1>. QED BY <1>1, <1>5 DEF IsValid, compute_checksum_xor, CHECKSUM_OFFSET

----------------------------------------------------------------------------
(* What is on the device, as long as nothing was lost by intent.           *)

(* The generations of the superblock before and after the checkpoint.      *)
First == [generation_num |-> 0, checkpoint_size |-> 0]
Second == [generation_num |-> 1, checkpoint_size |-> 1]

(* The labels between the graph method and the store of the entry, and     *)
(* those between the first change to cur_block and its copy.               *)
Owing == {"append", "advance", "clear", "stamp", "store"}
Filling == {"clear", "sum", "head", "body"}

(* Nothing overlapped, no checkpoint lost data, and the log has room: once *)
(* it is full it stays full.                                               *)
Calm == ~raced /\ ~lapsed /\ (log_is_full => pc[Http] \in InCheckpoint)

Typed ==
    /\ graph \in NodeGraphs
    /\ \A t \in Thread : arg[t] \in LogEntry
    /\ cur_block.body \in Entries
    /\ LogBlocks(disk, LogSize - 1)
    /\ checkpt_block \in Seq(Ids)

(* There is one checkpoint at most, and before it ends no block of the log *)
(* is of its generation.                                                   *)
Generations ==
    /\ super_block \in {First, Second}
    /\ disk_super = IF pc[Http] = "super" THEN First ELSE super_block
    /\ pc[Http] = "checkpoint" => super_block = First
    /\ pc[Http] \in {"super", "reset"} => super_block = Second
    /\ disk_super = First \/ pc[Http] = "reset" =>
          \A a \in 1 .. LogSize - 1 : disk[a].head.generation_num = 0

(* The checkpoint block holds what checkpt_block does; when the checkpoint *)
(* is complete, those are the nodes of the graph, and the entries          *)
(* cur_block still has say nothing else.                                   *)
CheckptHeld ==
    /\ checkpt_block # <<>> => disk[LogSize] = CheckptBlock(checkpt_block)
    /\ super_block = First /\ pc[Http] # "checkpoint" => checkpt_block = <<>>
    /\ super_block = Second => checkpt_block # <<>>
    /\ pc[Http] \in {"super", "reset"} => ToSet(checkpt_block) = DOMAIN graph
    /\ pc[Http] = "checkpoint" =>
          graph # EmptyGraph /\ ToSet(checkpt_block) \subseteq DOMAIN graph
    /\ pc[Http] \in InCheckpoint =>
          /\ block_offset = LogSize
          /\ cur_block.head.entry_cnt < EntriesPerBlock
          /\ Replayed(graph, cur_block.body, cur_block.head.entry_cnt) = graph

(* The graph the blocks in front of the current one give, and with the     *)
(* entries of cur_block.                                                   *)
Before == Through(disk, Base, block_offset - 1)
Told == Replayed(Before, cur_block.body, cur_block.head.entry_cnt)

(* The blocks in front of the current one are valid, those behind it are   *)
(* not.  The current one is on the device, or was never written in this    *)
(* generation; then the entries of cur_block were there in front of it.    *)
LogHeld ==
    /\ \A a \in 1 .. block_offset - 1 : Valid(a)
    /\ \A a \in block_offset + 1 .. LogSize - 1 :
          Stale(disk[a], disk_super.generation_num)
    /\ (\A t \in Thread : pc[t] \notin Filling) =>
          \/ disk[block_offset] = cur_block /\ Valid(block_offset)
          \/ /\ Stale(disk[block_offset], disk_super.generation_num)
             /\ Told = Before
             /\ cur_block.head.entry_cnt < EntriesPerBlock
    /\ \A t \in Thread :
          /\ pc[t] = "clear" =>
                Stale(disk[block_offset], disk_super.generation_num)
          /\ pc[t] = "advance" => cur_block.head.entry_cnt = EntriesPerBlock
          /\ pc[t] \in {"store", "sum", "head", "body"} =>
                cur_block.head.generation_num = disk_super.generation_num

(* Blocks and cur_block give the graph, but for the entry that is owed.    *)
GraphTold ==
    /\ (\A t \in Thread : pc[t] \notin Owing) => graph = Told
    /\ \A t \in Thread :
          /\ pc[t] \in Owing \ {"clear"} => graph = Execute(Told, arg[t]).g
          /\ pc[t] = "clear" => graph = Execute(Before, arg[t]).g

Held ==
    /\ Typed /\ Generations /\ CheckptHeld
    /\ pc[Http] \notin InCheckpoint => LogHeld /\ GraphTold

KeptInv == Calm => Held

----------------------------------------------------------------------------
(* The nodes a restart reads from the checkpoint block are those written.  *)
LEMMA CheckptRead ==
    ASSUME NEW c \in Seq(Ids)
    PROVE  {CheckptBlock(c).body[i].node1 :
               i \in {j \in DOMAIN CheckptBlock(c).body :
                         j <= CheckptBlock(c).head.entry_cnt}} = ToSet(c)
  <1>1. /\ DOMAIN CheckptBlock(c).body = DOMAIN c
        /\ CheckptBlock(c).head.entry_cnt = Len(c)
        /\ \A i \in DOMAIN c : CheckptBlock(c).body[i].node1 = c[i]
    BY DEF CheckptBlock, Block
  <1>2. \A j \in DOMAIN c : j <= Len(c)
    OBVIOUS
  <1>. QED BY <1>1, <1>2 DEF ToSet

(* So recovery starts from the nodes of checkpt_block, or from nothing. *)
LEMMA BaseIs ==
    ASSUME Typed, Generations, CheckptHeld
    PROVE  /\ Base \in NodeGraphs
           /\ disk_super = First => Base = EmptyGraph
           /\ disk_super = Second => Base = [n \in ToSet(checkpt_block) |-> {}]
  <1>1. First # Second
    BY DEF First, Second
  <1>2. disk_super = First \/ disk_super = Second
    BY DEF Generations
  <1>3. CASE disk_super = First
    <2>1. Checkpointed = {}
      BY <1>3 DEF Checkpointed, First
    <2>2. Base = [n \in {} |-> {}]
      BY <2>1 DEF Base
    <2>. QED BY <1>1, <1>3, <2>2, GraphOfNodes DEF EmptyGraph
  <1>4. CASE disk_super = Second
    <2>1. super_block = Second
      BY <1>1, <1>4 DEF Generations
    <2>2. disk[LogSize] = CheckptBlock(checkpt_block) /\ checkpt_block \in Seq(Ids)
      BY <2>1 DEF CheckptHeld, Typed
    <2>3. Checkpointed = ToSet(checkpt_block)
      BY <1>4, <2>2, CheckptRead DEF Checkpointed, Second
    <2>4. ToSet(checkpt_block) \in SUBSET Ids
      BY <2>2 DEF ToSet
    <2>. QED BY <1>1, <1>4, <2>3, <2>4, GraphOfNodes DEF Base
  <1>. QED BY <1>2, <1>3, <1>4

(* The graphs of the invariant are graphs over the ids of requests. *)
LEMMA GraphsTyped ==
    ASSUME Typed, Generations, CheckptHeld, CurShape,
           block_offset \in 1 .. LogSize - 1
    PROVE  /\ Base \in NodeGraphs
           /\ Before \in NodeGraphs
           /\ Told \in NodeGraphs
           /\ LogBlocks(disk, block_offset - 1)
           /\ block_offset - 1 \in Nat
           /\ cur_block.head.entry_cnt \in 0 .. EntriesPerBlock
           /\ cur_block.body \in Entries
  <1>1. Base \in NodeGraphs
    BY BaseIs
  <1>2. block_offset - 1 \in Nat /\ LogBlocks(disk, block_offset - 1)
    BY ThreadsAssumption DEF Typed, LogBlocks
  <1>3. Before \in NodeGraphs
    BY <1>1, <1>2, ThroughType DEF Before
  <1>4. cur_block.head.entry_cnt \in 0 .. EntriesPerBlock /\ cur_block.body \in Entries
    BY DEF CurShape, Typed
  <1>. QED BY <1>1, <1>2, <1>3, <1>4, ReplayedType DEF Told

(* The invariant says what the property asks for. *)
LEMMA KeptInvMeaning ==
    ASSUME ThreadsInv, KeptInv, ~raced, ~lapsed, Quiet, ~log_is_full
    PROVE  Recovered = graph
  <1>0. Http \in Thread
    BY DEF Thread
  <1>1. pc[Http] \notin InCheckpoint /\ \A t \in Thread : pc[t] \notin Owing \cup Filling
    BY <1>0 DEF Quiet, Outside, InCheckpoint, Owing, Filling
  <1>2. /\ Typed /\ Generations /\ CheckptHeld /\ LogHeld /\ GraphTold
        /\ CurShape
    BY <1>1 DEF KeptInv, Held, Calm, ThreadsInv
  <1>3. block_offset \in 1 .. LogSize - 1
    BY ThreadsAssumption DEF ThreadsInv, OffsetsBehindSuper, log_is_full
  <1>4. graph = Told
    BY <1>1, <1>2 DEF GraphTold
  <1>5. disk_super.generation_num \in {0, 1}
    BY <1>2 DEF Generations, First, Second
  <1>6. \A a \in block_offset + 1 .. LogSize - 1 : ~Valid(a)
    BY <1>2, <1>5, StaleIsInvalid DEF LogHeld, Valid
  <1>7. \A n \in Nat : IsFiniteSet(1 .. n) /\ Cardinality(1 .. n) = n
    <2>. SUFFICES ASSUME NEW n \in Nat
                  PROVE  IsFiniteSet(1 .. n) /\ Cardinality(1 .. n) = n
      OBVIOUS
    <2>1. 1 \in Int /\ n \in Int
      OBVIOUS
    <2>2. /\ IsFiniteSet(1 .. n)
          /\ Cardinality(1 .. n) = IF 1 > n THEN 0 ELSE n - 1 + 1
      BY <2>1, FS_Interval
    <2>. QED BY <2>2
  <1>8. CASE disk[block_offset] = cur_block /\ Valid(block_offset)
    <2>1. \A i \in LogStart .. block_offset : Valid(i)
      BY <1>2, <1>3, <1>8 DEF LogHeld, LogStart
    <2>2. LiveBlocks = 1 .. block_offset
      <3>1. \A a \in 1 .. block_offset : a \in LiveBlocks
        BY <1>3, <2>1, ThreadsAssumption DEF LiveBlocks, LogStart
      <3>2. ASSUME NEW a \in LiveBlocks
            PROVE  a \in 1 .. block_offset
        <4>1. a \in 1 .. LogSize - 1 /\ Valid(a)
          BY ThreadsAssumption DEF LiveBlocks, LogStart
        <4>. QED BY <1>3, <1>6, <4>1, ThreadsAssumption
      <3>3. LiveBlocks \subseteq 1 .. block_offset
        BY <3>2
      <3>. QED BY <3>1, <3>3
    <2>3. Recovered = Through(disk, Base, block_offset)
      BY <1>3, <1>7, <2>2 DEF Recovered
    <2>4. LogBlocks(disk, block_offset) /\ block_offset \in Nat /\ block_offset > 0
      BY <1>2, <1>3, ThreadsAssumption DEF Typed, LogBlocks
    <2>5. Base \in NodeGraphs
      BY <1>2, <1>3, GraphsTyped
    <2>6. Recovered = Replayed(Before, cur_block.body, cur_block.head.entry_cnt)
      BY <1>8, <2>3, <2>4, <2>5, ThroughNext DEF Before
    <2>. QED BY <1>4, <2>6 DEF Told
  <1>9. CASE Stale(disk[block_offset], disk_super.generation_num) /\ Told = Before
    <2>1. ~Valid(block_offset)
      BY <1>5, <1>9, StaleIsInvalid DEF Valid
    <2>2. \A i \in LogStart .. block_offset - 1 : Valid(i)
      BY <1>2, <1>3 DEF LogHeld, LogStart
    <2>3. LiveBlocks = 1 .. block_offset - 1
      <3>1. \A a \in 1 .. block_offset - 1 : a \in LiveBlocks
        BY <1>3, <2>2, ThreadsAssumption DEF LiveBlocks, LogStart
      <3>2. ASSUME NEW a \in LiveBlocks
            PROVE  a \in 1 .. block_offset - 1
        <4>1. a \in 1 .. LogSize - 1 /\ Valid(a)
          BY ThreadsAssumption DEF LiveBlocks, LogStart
        <4>. QED BY <1>3, <1>6, <2>1, <4>1, ThreadsAssumption
      <3>3. LiveBlocks \subseteq 1 .. block_offset - 1
        BY <3>2
      <3>. QED BY <3>1, <3>3
    <2>4. block_offset - 1 \in Nat
      BY <1>3, ThreadsAssumption
    <2>5. Recovered = Before
      BY <1>7, <2>3, <2>4 DEF Recovered, Before
    <2>. QED BY <1>4, <1>9, <2>5
  <1>. QED BY <1>1, <1>2, <1>8, <1>9 DEF LogHeld

----------------------------------------------------------------------------
(* The start. *)
LEMMA InitKept == Init => KeptInv
  <1>. SUFFICES ASSUME Init PROVE Held
    BY DEF KeptInv
  <1>0. Http \in Thread
    BY DEF Thread
  <1>1. /\ \A t \in Thread : pc[t] = "idle"
        /\ pc[Http] \notin InCheckpoint \cup Owing
    BY <1>0 DEF Init, InCheckpoint, Owing
  <1>2. /\ \A a \in Address : disk[a] = Cleared
        /\ cur_block = Cleared
        /\ Cleared.body = ZeroEntries /\ Cleared.head.entry_cnt = 0
        /\ Cleared.head.generation_num = 0 /\ Cleared.head.checksum = 0
    BY DEF Init, Cleared, Block
  <1>3. /\ 1 .. LogSize - 1 \subseteq Address /\ LogSize \in Address /\ 1 \in Address
        /\ block_offset = 1 /\ 1 < LogSize
    BY ThreadsAssumption DEF Address, Init, LogStart
  <1>4. ZeroEntries \in Entries /\ NoEntry \in LogEntry
    BY DEF ZeroEntries, Entries, LogEntry
  <1>5. EmptyGraph \in NodeGraphs
    <2>1. {} \in SUBSET Ids
      OBVIOUS
    <2>. QED BY <2>1, GraphOfNodes DEF EmptyGraph
  <1>6. Typed
    <2>1. LogBlocks(disk, LogSize - 1)
      BY <1>2, <1>3, <1>4, ThreadsAssumption DEF LogBlocks
    <2>2. checkpt_block \in Seq(Ids)
      BY DEF Init
    <2>. QED BY <1>2, <1>4, <1>5, <2>1, <2>2 DEF Typed, Init
  <1>7. Generations
    BY <1>0, <1>1, <1>2, <1>3 DEF Generations, First, Init
  <1>8. CheckptHeld
    <2>1. super_block # Second
      BY DEF Init, Second
    <2>. QED BY <1>0, <1>1, <2>1 DEF CheckptHeld, Init, InCheckpoint
  <1>9. Base = EmptyGraph /\ disk_super.generation_num = 0
    <2>1. disk_super = First
      BY DEF Init, First
    <2>. QED BY <1>6, <1>7, <1>8, <2>1, BaseIs DEF First
  <1>10. Before = EmptyGraph
    BY <1>3, <1>5, <1>9, ThroughZero DEF Before
  <1>11. Told = EmptyGraph
    BY <1>2, <1>4, <1>5, <1>10, ReplayedZero DEF Told
  <1>12. GraphTold
    BY <1>1, <1>11 DEF GraphTold, Init, Owing
  <1>13. LogHeld
    <2>1. \A a \in Address : Stale(disk[a], 0)
      BY <1>2 DEF Stale
    <2>2. \A a \in block_offset + 1 .. LogSize - 1 : a \in Address
      BY <1>3, ThreadsAssumption DEF Address
    <2>3. cur_block.head.entry_cnt < EntriesPerBlock
      BY <1>2, ThreadsAssumption
    <2>4. 1 .. block_offset - 1 = {}
      BY <1>3
    <2>. QED BY <1>1, <1>3, <1>9, <1>10, <1>11, <2>1, <2>2, <2>3, <2>4 DEF LogHeld
  <1>. QED BY <1>6, <1>7, <1>8, <1>12, <1>13 DEF Held

----------------------------------------------------------------------------
(* Requests, replies and the graph method. *)

(* What the log gives depends on the log only. *)
LEMMA ToldSame ==
    ASSUME UNCHANGED <<disk, disk_super, block_offset>>
    PROVE  /\ Base' = Base /\ Before' = Before
           /\ cur_block' = cur_block => Told' = Told
  BY DEF Base, Checkpointed, Before, Told

(* A step of a thread outside its critical section, or of one entering it. *)
LEMMA CallKept ==
    ASSUME ThreadsInv, KeptInv, NEW t \in Thread, OthersStay(t),
           UNCHANGED <<memory, device, lapsed>>,
           arg'[t] \in LogEntry \/ arg'[t] = arg[t], pc[t] \in Outside,
           pc'[t] \in Outside \cup {"method"}, ~raced' => ~raced
    PROVE  KeptInv'
  <1>. SUFFICES ASSUME Calm' PROVE Held'
    BY DEF KeptInv
  <1>0. Http \in Thread /\ UNCHANGED <<graph, super_block, cur_block, checkpt_block,
                                       block_offset, disk, disk_super>>
    BY DEF Thread, memory, device
  <1>1. \A u \in Thread \ {t} : pc'[u] = pc[u] /\ arg'[u] = arg[u]
    BY OthersUnchanged DEF ThreadsInv
  <1>2. \A u \in Thread :
           /\ pc'[u] \in InCheckpoint <=> pc[u] \in InCheckpoint
           /\ pc'[u] \in InCheckpoint \cup Owing \cup Filling \cup {"advance", "store"}
                 => pc'[u] = pc[u] /\ arg'[u] = arg[u]
           /\ pc[u] \in InCheckpoint \cup Owing \cup Filling \cup {"advance", "store"}
                 => pc'[u] = pc[u] /\ arg'[u] = arg[u]
    BY <1>1 DEF Outside, InCheckpoint, Owing, Filling
  <1>3. Calm
    BY <1>0, <1>2 DEF Calm, log_is_full
  <1>4. Typed /\ Generations /\ CheckptHeld
    BY <1>3 DEF KeptInv, Held
  <1>5. Typed'
    <2>1. \A u \in Thread : arg'[u] \in LogEntry
      BY <1>1, <1>4 DEF Typed
    <2>. QED BY <1>0, <1>4, <2>1 DEF Typed
  <1>6. Generations' /\ CheckptHeld'
    <2>1. \A label \in InCheckpoint : pc'[Http] = label <=> pc[Http] = label
      BY <1>0, <1>2
    <2>. QED BY <1>0, <1>4, <2>1 DEF Generations, CheckptHeld, InCheckpoint
  <1>7. ASSUME pc'[Http] \notin InCheckpoint
        PROVE  LogHeld' /\ GraphTold'
    <2>1. LogHeld /\ GraphTold
      BY <1>0, <1>2, <1>3, <1>7 DEF KeptInv, Held
    <2>2. Before' = Before /\ Told' = Told
      BY <1>0, ToldSame
    <2>3. \A a : Valid(a)' <=> Valid(a)
      BY <1>0 DEF Valid
    <2>4. Valid(block_offset)' <=> Valid(block_offset)
      BY <1>0 DEF Valid
    <2>5. LogHeld'
      BY <1>0, <1>2, <2>1, <2>2, <2>3, <2>4 DEF LogHeld, Filling
    <2>6. GraphTold'
      BY <1>0, <1>2, <2>1, <2>2 DEF GraphTold, Owing
    <2>. QED BY <2>5, <2>6
  <1>. QED BY <1>5, <1>6, <1>7 DEF Held

(* A request comes in. *)
LEMMA ReceiveKept ==
    ASSUME ThreadsInv, KeptInv, NEW t \in Thread, NEW e \in Request, Receive(t, e)
    PROVE  KeptInv'
  <1>1. OthersStay(t) /\ pc[t] \in Outside /\ pc'[t] \in Outside
    BY DEF ThreadsInv, Shapes, Receive, Goto, OthersStay, Outside
  <1>2. arg'[t] \in LogEntry \/ arg'[t] = arg[t]
    BY DEF ThreadsInv, Shapes, Receive, LogEntry
  <1>. QED BY <1>1, <1>2, CallKept DEF Receive

(* The successor answers. *)
LEMMA ReplyKept ==
    ASSUME ThreadsInv, KeptInv, NEW t \in Thread, Reply(t)
    PROVE  KeptInv'
  <1>1. CASE ReplyFailed(t)
    <2>1. OthersStay(t) /\ pc[t] \in Outside /\ pc'[t] \in Outside
      BY <1>1 DEF ThreadsInv, Shapes, ReplyFailed, Done, Goto, OthersStay, Outside
    <2>2. arg'[t] \in LogEntry
      BY <1>1 DEF ThreadsInv, Shapes, ReplyFailed, Done, LogEntry
    <2>. QED BY <1>1, <2>1, <2>2, CallKept DEF ReplyFailed, history
  <1>2. CASE ReplyOk(t)
    <2>1. OthersStay(t) /\ pc[t] \in Outside /\ pc'[t] = "method" /\ arg'[t] = arg[t]
      BY <1>2 DEF ThreadsInv, Shapes, ReplyOk, Enter, Goto, OthersStay, Outside
    <2>2. ~raced' => ~raced
      BY <1>2 DEF ReplyOk, Enter
    <2>3. UNCHANGED <<memory, device, lapsed>>
      BY <1>2 DEF ReplyOk
    <2>. QED BY <2>1, <2>2, <2>3, CallKept
  <1>. QED BY <1>1, <1>2 DEF Reply

(* A thread in its critical section, outside checkpoint(), is alone there, *)
(* and the log has room.                                                   *)
InLog == Appending \cup {"method"}

LEMMA LogFrame ==
    ASSUME ThreadsInv, KeptInv, NEW t \in Thread, OthersStay(t),
           UNCHANGED <<super_block, disk_super, checkpt_block, raced, lapsed>>,
           block_offset >= LogSize => block_offset' >= LogSize,
           pc[t] \in InLog, pc'[t] \in InLog \cup {"idle"},
           Calm'
    PROVE  /\ \A u \in Thread \ {t} :
                 /\ pc[u] \in Outside /\ pc'[u] \in Outside
                 /\ pc'[u] \notin Owing \cup Filling \cup {"advance", "store"}
                 /\ arg'[u] = arg[u]
           /\ pc[Http] \notin InCheckpoint /\ pc'[Http] \notin InCheckpoint
           /\ pc'[t] \notin InCheckpoint
           /\ Typed /\ Generations /\ CheckptHeld /\ LogHeld /\ GraphTold
           /\ CurShape /\ EntryOf(t)
           /\ block_offset \in 1 .. LogSize - 1
           /\ disk_super = super_block
  <1>0. Http \in Thread
    BY DEF Thread
  <1>1. \A u \in Thread \ {t} : pc'[u] = pc[u] /\ arg'[u] = arg[u]
    BY OthersUnchanged DEF ThreadsInv
  <1>2. pc[t] \notin Outside \cup InCheckpoint /\ pc'[t] \notin InCheckpoint
    BY DEF InLog, Appending, Outside, InCheckpoint
  <1>3. ~raced /\ Alone /\ CurShape /\ EntryOf(t)
    BY DEF Calm, ThreadsInv, EntryInCur
  <1>4. \A u \in Thread \ {t} : pc[u] \in Outside /\ pc'[u] \in Outside
    BY <1>1, <1>2, <1>3 DEF Alone
  <1>5. \A u \in Thread : pc[u] \notin InCheckpoint /\ pc'[u] \notin InCheckpoint
    BY <1>2, <1>4 DEF Outside, InCheckpoint
  <1>6. Calm /\ ~(block_offset >= LogSize)
    BY <1>0, <1>5 DEF Calm, log_is_full
  <1>7. block_offset \in 1 .. LogSize - 1
    BY <1>6, ThreadsAssumption DEF ThreadsInv, OffsetsBehindSuper
  <1>8. Typed /\ Generations /\ CheckptHeld /\ LogHeld /\ GraphTold
    BY <1>0, <1>5, <1>6 DEF KeptInv, Held
  <1>9. disk_super = super_block
    BY <1>0, <1>5, <1>8 DEF Generations, InCheckpoint
  <1>10. \A u \in Thread \ {t} :
            pc'[u] \notin Owing \cup Filling \cup {"advance", "store"}
    BY <1>4 DEF Outside, Owing, Filling
  <1>. QED BY <1>0, <1>1, <1>2, <1>3, <1>4, <1>5, <1>7, <1>8, <1>9, <1>10

(* Superblock and checkpoint are as they were when the steps of such a     *)
(* thread leave the checkpoint block alone, and write no newer generation. *)
LEMMA CheckptStays ==
    ASSUME Generations, CheckptHeld,
           UNCHANGED <<super_block, disk_super, checkpt_block>>,
           disk'[LogSize] = disk[LogSize],
           pc[Http] \notin InCheckpoint, pc'[Http] \notin InCheckpoint,
           disk_super = First => \A a \in 1 .. LogSize - 1 :
                                    disk'[a].head.generation_num = 0
    PROVE  Generations' /\ CheckptHeld'
  <1>1. Generations'
    BY DEF Generations, InCheckpoint
  <1>2. CheckptHeld'
    BY DEF CheckptHeld, InCheckpoint
  <1>. QED BY <1>1, <1>2

(* The method changes the graph, and owes the log the entry. *)
LEMMA MethodKept ==
    ASSUME ThreadsInv, KeptInv, NEW t \in Thread, Method(t)
    PROVE  KeptInv'
  <1>. SUFFICES ASSUME Calm' PROVE Held'
    BY DEF KeptInv
  <1>1. /\ OthersStay(t) /\ pc[t] = "method"
        /\ UNCHANGED <<super_block, cur_block, checkpt_block, block_offset, disk,
                       disk_super, raced, lapsed>>
        /\ \/ reg[t] = 200 /\ pc'[t] = "append" /\ arg' = arg
           \/ reg[t] # 200 /\ pc'[t] = "idle" /\ arg'[t] = NoEntry
        /\ \/ reg[t] = 200 /\ graph' = Execute(graph, arg[t]).g
           \/ /\ reg[t] # 200 \/ \E u \in Thread \ {t} : InMethod(u)
              /\ graph' = graph
    BY DEF ThreadsInv, Shapes, Method, InMethod, Done, Goto, OthersStay, device, history
  <1>2. pc[t] \in InLog /\ pc'[t] \in InLog \cup {"idle"}
    BY <1>1 DEF InLog, Appending
  <1>3. /\ \A u \in Thread \ {t} :
              /\ pc[u] \in Outside /\ pc'[u] \in Outside
              /\ pc'[u] \notin Owing \cup Filling \cup {"advance", "store"}
              /\ arg'[u] = arg[u]
        /\ pc[Http] \notin InCheckpoint /\ pc'[Http] \notin InCheckpoint
        /\ Typed /\ Generations /\ CheckptHeld /\ LogHeld /\ GraphTold
        /\ block_offset \in 1 .. LogSize - 1
    BY <1>1, <1>2, LogFrame
  <1>4. \/ pc'[t] = "append" /\ arg' = arg /\ graph' = Execute(graph, arg[t]).g
        \/ pc'[t] = "idle" /\ arg'[t] = NoEntry /\ graph' = graph
    BY <1>1, <1>3 DEF InMethod, Outside
  <1>5. Typed'
    <2>1. graph' \in NodeGraphs
      BY <1>3, <1>4, ExecuteNodes DEF Typed
    <2>2. \A u \in Thread : arg'[u] \in LogEntry
      BY <1>3, <1>4 DEF Typed, LogEntry
    <2>. QED BY <1>1, <1>3, <2>1, <2>2 DEF Typed
  <1>6. Generations' /\ CheckptHeld'
    BY <1>1, <1>3, CheckptStays DEF Generations
  <1>7. Before' = Before /\ Told' = Told
    BY <1>1, ToldSame
  <1>8. \A u \in Thread : pc[u] \notin Owing \cup Filling
    BY <1>1, <1>3 DEF Owing, Filling, Outside
  <1>9. graph = Told
    BY <1>3, <1>8 DEF GraphTold
  <1>10. LogHeld'
    <2>1. \A a : Valid(a)' <=> Valid(a)
      BY <1>1 DEF Valid
    <2>2. Valid(block_offset)' <=> Valid(block_offset)
      BY <1>1 DEF Valid
    <2>3. \A u \in Thread : pc'[u] \notin Filling \cup {"advance", "store"}
      BY <1>3, <1>4 DEF Filling
    <2>. QED BY <1>1, <1>3, <1>7, <1>8, <2>1, <2>2, <2>3 DEF LogHeld, Filling
  <1>11. GraphTold'
    BY <1>3, <1>4, <1>7, <1>9 DEF GraphTold, Owing
  <1>. QED BY <1>5, <1>6, <1>10, <1>11 DEF Held

----------------------------------------------------------------------------
(* add_log_entry. *)

(* The steps that leave the device and block_offset alone. *)
LEMMA MemoryFrame ==
    ASSUME ThreadsInv, KeptInv, NEW t \in Thread, OthersStay(t),
           UNCHANGED <<graph, super_block, checkpt_block, block_offset, disk,
                       disk_super, arg, raced, lapsed>>,
           cur_block'.body \in Entries \/ cur_block' = cur_block,
           pc[t] \in Appending, pc'[t] \in Appending,
           Calm', LogHeld', GraphTold'
    PROVE  Held'
  <1>1. pc[t] \in InLog /\ pc'[t] \in InLog \cup {"idle"}
    BY DEF InLog
  <1>2. /\ Typed /\ Generations /\ CheckptHeld
        /\ pc[Http] \notin InCheckpoint /\ pc'[Http] \notin InCheckpoint
    BY <1>1, LogFrame
  <1>3. Typed'
    BY <1>2 DEF Typed
  <1>4. Generations' /\ CheckptHeld'
    BY <1>2, CheckptStays DEF Generations
  <1>. QED BY <1>3, <1>4 DEF Held

(* The test tells which way add_log_entry goes. *)
LEMMA TestFullKept ==
    ASSUME ThreadsInv, KeptInv, NEW t \in Thread, TestFull(t)
    PROVE  KeptInv'
  <1>. SUFFICES ASSUME Calm' PROVE Held'
    BY DEF KeptInv
  <1>1. /\ OthersStay(t) /\ pc[t] = "append"
        /\ UNCHANGED <<graph, super_block, cur_block, checkpt_block, block_offset, disk,
                       disk_super, arg, raced, lapsed>>
        /\ \/ CurIsFull /\ pc'[t] = "advance"
           \/ pc'[t] = "stamp"
    BY DEF TestFull, memory, device, history, ThreadsInv, Shapes, Goto, OthersStay
  <1>2. pc[t] \in Appending /\ pc'[t] \in Appending
        /\ pc[t] \in InLog /\ pc'[t] \in InLog \cup {"idle"}
    BY <1>1 DEF Appending, InLog
  <1>3. /\ \A u \in Thread \ {t} :
              /\ pc[u] \in Outside
              /\ pc'[u] \notin Owing \cup Filling \cup {"advance", "store"}
        /\ LogHeld /\ GraphTold
    BY <1>1, <1>2, LogFrame
  <1>4. Before' = Before /\ Told' = Told
    BY <1>1, ToldSame
  <1>5. \A u \in Thread : pc[u] \notin Filling /\ pc'[u] \notin Filling \cup {"store"}
    BY <1>1, <1>3 DEF Filling, Outside
  <1>6. LogHeld'
    <2>1. \A a : Valid(a)' <=> Valid(a)
      BY <1>1 DEF Valid
    <2>2. Valid(block_offset)' <=> Valid(block_offset)
      BY <1>1 DEF Valid
    <2>3. \A u \in Thread : pc'[u] = "advance" => cur_block'.head.entry_cnt = EntriesPerBlock
      BY <1>1, <1>3 DEF CurIsFull
    <2>. QED BY <1>1, <1>3, <1>4, <1>5, <2>1, <2>2, <2>3 DEF LogHeld, Filling
  <1>7. GraphTold'
    BY <1>1, <1>3, <1>4 DEF GraphTold, Owing
  <1>. QED BY <1>1, <1>2, <1>6, <1>7, MemoryFrame

(* A full block is on the device, and the next one was not written yet. *)
LEMMA AdvanceKept ==
    ASSUME ThreadsInv, KeptInv, NEW t \in Thread, Advance(t)
    PROVE  KeptInv'
  <1>. SUFFICES ASSUME Calm' PROVE Held'
    BY DEF KeptInv
  <1>1. /\ OthersStay(t) /\ pc[t] = "advance" /\ pc'[t] = "clear"
        /\ UNCHANGED <<graph, super_block, cur_block, checkpt_block, disk,
                       disk_super, arg, raced, lapsed>>
        /\ block_offset' = reg[t] + 1
    BY DEF Advance, NextBlock, device, history, ThreadsInv, Shapes, Goto, OthersStay
  <1>2. pc[t] \in InLog /\ pc'[t] \in InLog \cup {"idle"}
    BY <1>1 DEF Appending, InLog
  <1>3. block_offset' = block_offset + 1 /\ block_offset \in Nat
    <2>1. EntryOf(t)
      BY DEF Calm, ThreadsInv, EntryInCur, Advance, history
    <2>. QED BY <1>1, <2>1 DEF EntryOf, ThreadsInv, OffsetsBehindSuper
  <1>4. /\ \A u \in Thread \ {t} :
              /\ pc[u] \in Outside
              /\ pc'[u] \notin Owing \cup Filling \cup {"advance", "store"}
        /\ pc[Http] \notin InCheckpoint /\ pc'[Http] \notin InCheckpoint
        /\ Typed /\ Generations /\ CheckptHeld /\ LogHeld /\ GraphTold
        /\ CurShape /\ block_offset \in 1 .. LogSize - 1
    <2>1. block_offset >= LogSize => block_offset' >= LogSize
      BY <1>3, ThreadsAssumption
    <2>. QED BY <1>1, <1>2, <2>1, LogFrame
  <1>5. block_offset + 1 \in 1 .. LogSize - 1
    BY <1>3, <1>4, ThreadsAssumption DEF Calm, log_is_full
  <1>6. disk[block_offset] = cur_block /\ Valid(block_offset)
    <2>1. \A u \in Thread : pc[u] \notin Filling
      BY <1>1, <1>4 DEF Filling, Outside
    <2>2. ~(cur_block.head.entry_cnt < EntriesPerBlock)
      BY <1>1, <1>4, ThreadsAssumption DEF LogHeld
    <2>. QED BY <1>4, <2>1, <2>2 DEF LogHeld
  <1>7. Before' = Told
    <2>1. /\ Base' = Base /\ block_offset' - 1 = block_offset /\ disk' = disk
          /\ block_offset > 0
      BY <1>1, <1>3, <1>4 DEF Base, Checkpointed
    <2>2. Before' = Through(disk, Base, block_offset)
      BY <2>1 DEF Before
    <2>3. LogBlocks(disk, block_offset) /\ Base \in NodeGraphs
      BY <1>3, <1>4, GraphsTyped, ThreadsAssumption DEF Typed, LogBlocks
    <2>4. Through(disk, Base, block_offset) =
             Replayed(Before, disk[block_offset].body, disk[block_offset].head.entry_cnt)
      BY <1>3, <2>1, <2>3, ThroughNext DEF Before
    <2>. QED BY <1>6, <2>2, <2>4 DEF Told
  <1>8. LogHeld'
    <2>1. \A a \in 1 .. block_offset' - 1 : Valid(a)'
      <3>1. \A a \in 1 .. block_offset' - 1 : a \in 1 .. block_offset - 1 \/ a = block_offset
        BY <1>3
      <3>2. \A a : Valid(a)' <=> Valid(a)
        BY <1>1 DEF Valid
      <3>. QED BY <1>4, <1>6, <3>1, <3>2 DEF LogHeld
    <2>2. \A a \in block_offset' + 1 .. LogSize - 1 : a \in block_offset + 1 .. LogSize - 1
      BY <1>3, ThreadsAssumption
    <2>3. block_offset' \in block_offset + 1 .. LogSize - 1
      BY <1>3, <1>5, ThreadsAssumption
    <2>4. \A a \in block_offset + 1 .. LogSize - 1 :
             Stale(disk[a], disk_super.generation_num)'
      BY <1>1, <1>4 DEF LogHeld
    <2>5. pc'[t] \in Filling
      BY <1>1 DEF Filling
    <2>6. \A u \in Thread : pc'[u] \notin {"advance", "store", "sum", "head", "body"}
      BY <1>1, <1>4 DEF Filling
    <2>. QED BY <1>1, <2>1, <2>2, <2>3, <2>4, <2>5, <2>6 DEF LogHeld
  <1>9. GraphTold'
    <2>1. graph = Execute(Told, arg[t]).g
      BY <1>1, <1>4 DEF GraphTold, Owing
    <2>2. \A u \in Thread : pc'[u] \in Owing => u = t
      BY <1>4
    <2>3. pc'[t] \in Owing
      BY <1>1 DEF Owing
    <2>. QED BY <1>1, <1>7, <2>1, <2>2, <2>3 DEF GraphTold
  <1>10. Typed'
    BY <1>1, <1>4 DEF Typed
  <1>11. Generations' /\ CheckptHeld'
    BY <1>1, <1>4, CheckptStays DEF Generations
  <1>. QED BY <1>8, <1>9, <1>10, <1>11 DEF Held

(* cur_block is emptied: it tells what the blocks in front of it do. *)
LEMMA ClearKept ==
    ASSUME ThreadsInv, KeptInv, NEW t \in Thread, Clear(t)
    PROVE  KeptInv'
  <1>. SUFFICES ASSUME Calm' PROVE Held'
    BY DEF KeptInv
  <1>1. /\ OthersStay(t) /\ pc[t] = "clear" /\ pc'[t] = "stamp"
        /\ UNCHANGED <<graph, super_block, checkpt_block, block_offset, disk,
                       disk_super, arg, raced, lapsed>>
        /\ cur_block' = Cleared
    BY DEF Clear, device, history, ThreadsInv, Shapes, Goto, OthersStay
  <1>2. pc[t] \in Appending /\ pc'[t] \in Appending
        /\ pc[t] \in InLog /\ pc'[t] \in InLog \cup {"idle"}
    BY <1>1 DEF Appending, InLog
  <1>3. /\ \A u \in Thread \ {t} :
              /\ pc[u] \in Outside
              /\ pc'[u] \notin Owing \cup Filling \cup {"advance", "store"}
        /\ Typed /\ Generations /\ CheckptHeld /\ LogHeld /\ GraphTold
        /\ CurShape /\ block_offset \in 1 .. LogSize - 1
    BY <1>1, <1>2, LogFrame
  <1>4. /\ cur_block'.head.entry_cnt = 0 /\ cur_block'.body = ZeroEntries
        /\ ZeroEntries \in Entries
    BY <1>1 DEF Cleared, Block, ZeroEntries, Entries, LogEntry
  <1>5. Before' = Before /\ Told' = Before
    <2>1. Before' = Before
      BY <1>1, ToldSame
    <2>2. Before \in NodeGraphs
      BY <1>3, GraphsTyped
    <2>3. Told' = Replayed(Before, ZeroEntries, 0)
      BY <1>4, <2>1 DEF Told
    <2>. QED BY <1>4, <2>1, <2>2, <2>3, ReplayedZero
  <1>6. LogHeld'
    <2>1. \A a : Valid(a)' <=> Valid(a)
      BY <1>1 DEF Valid
    <2>2. Stale(disk[block_offset], disk_super.generation_num)
      BY <1>1, <1>3 DEF LogHeld
    <2>3. \A u \in Thread : pc'[u] \notin Filling \cup {"advance", "store"}
      BY <1>1, <1>3 DEF Filling
    <2>4. cur_block'.head.entry_cnt < EntriesPerBlock
      BY <1>4, ThreadsAssumption
    <2>. QED BY <1>1, <1>3, <1>5, <2>1, <2>2, <2>3, <2>4 DEF LogHeld, Filling
  <1>7. GraphTold'
    <2>1. graph = Execute(Before, arg[t]).g
      BY <1>1, <1>3 DEF GraphTold
    <2>2. \A u \in Thread : pc'[u] \in Owing => u = t
      BY <1>3
    <2>3. pc'[t] \in Owing \ {"clear"}
      BY <1>1 DEF Owing
    <2>. QED BY <1>1, <1>5, <2>1, <2>2, <2>3 DEF GraphTold, Owing
  <1>. QED BY <1>1, <1>2, <1>4, <1>6, <1>7, MemoryFrame

(* The generation of cur_block is the one its block on the device has. *)
LEMMA StampKept ==
    ASSUME ThreadsInv, KeptInv, NEW t \in Thread, Stamp(t)
    PROVE  KeptInv'
  <1>. SUFFICES ASSUME Calm' PROVE Held'
    BY DEF KeptInv
  <1>. DEFINE c == cur_block
  <1>1. /\ OthersStay(t) /\ pc[t] = "stamp" /\ pc'[t] = "store"
        /\ UNCHANGED <<graph, super_block, checkpt_block, block_offset, disk,
                       disk_super, arg, raced, lapsed>>
        /\ cur_block' = [c EXCEPT !.head.generation_num = super_block.generation_num]
    BY DEF Stamp, device, history, ThreadsInv, Shapes, Goto, OthersStay
  <1>2. pc[t] \in Appending /\ pc'[t] \in Appending
        /\ pc[t] \in InLog /\ pc'[t] \in InLog \cup {"idle"}
    BY <1>1 DEF Appending, InLog
  <1>3. /\ \A u \in Thread \ {t} :
              /\ pc[u] \in Outside
              /\ pc'[u] \notin Owing \cup Filling \cup {"advance", "store"}
        /\ Typed /\ LogHeld /\ GraphTold /\ CurShape
        /\ disk_super = super_block
    BY <1>1, <1>2, LogFrame
  <1>4. cur_block' = Block(c.head.checksum, super_block.generation_num,
                           c.head.entry_cnt, c.body)
    <2>1. c = Block(c.head.checksum, c.head.generation_num, c.head.entry_cnt, c.body)
      BY <1>3 DEF CurShape
    <2>. QED BY <1>1, <2>1 DEF Block
  <1>5. /\ cur_block'.head.generation_num = super_block.generation_num
        /\ cur_block'.head.entry_cnt = c.head.entry_cnt /\ cur_block'.body = c.body
    BY <1>4 DEF Block
  <1>6. Before' = Before /\ Told' = Told
    BY <1>1, <1>5, ToldSame DEF Told
  <1>7. \A u \in Thread : pc[u] \notin Filling /\ pc'[u] \notin Filling \cup {"advance"}
    BY <1>1, <1>3 DEF Filling, Outside
  <1>8. CASE disk[block_offset] = c /\ Valid(block_offset)
    <2>1. c.head.generation_num = super_block.generation_num
      BY <1>3, <1>8 DEF Valid, IsValid
    <2>2. cur_block' = c
      BY <1>3, <1>4, <2>1 DEF CurShape
    <2>3. LogHeld'
      <3>1. \A a : Valid(a)' <=> Valid(a)
        BY <1>1 DEF Valid
      <3>2. Valid(block_offset)'
        BY <1>1, <1>8 DEF Valid
      <3>. QED BY <1>1, <1>3, <1>5, <1>7, <1>8, <2>2, <3>1, <3>2 DEF LogHeld, Filling
    <2>. QED BY <2>3, <1>1, <1>2, <1>3, <1>6, <2>2, MemoryFrame DEF GraphTold, Owing
  <1>9. CASE /\ Stale(disk[block_offset], disk_super.generation_num) /\ Told = Before
             /\ c.head.entry_cnt < EntriesPerBlock
    <2>1. LogHeld'
      <3>1. \A a : Valid(a)' <=> Valid(a)
        BY <1>1 DEF Valid
      <3>. QED BY <1>1, <1>3, <1>5, <1>6, <1>7, <1>9, <3>1 DEF LogHeld, Filling
    <2>2. GraphTold'
      BY <1>1, <1>3, <1>6 DEF GraphTold, Owing
    <2>3. cur_block'.body \in Entries
      BY <1>3, <1>5 DEF Typed
    <2>. QED BY <1>1, <1>2, <2>1, <2>2, <2>3, MemoryFrame
  <1>. QED BY <1>3, <1>7, <1>8, <1>9 DEF LogHeld

(* The entry that was owed is the last of cur_block. *)
LEMMA StoreKept ==
    ASSUME ThreadsInv, KeptInv, NEW t \in Thread, Store(t)
    PROVE  KeptInv'
  <1>. SUFFICES ASSUME Calm' PROVE Held'
    BY DEF KeptInv
  <1>. DEFINE c == cur_block
              cnt == cur_block.head.entry_cnt
              body == [cur_block.body EXCEPT ![cnt + 1] = arg[t]]
  <1>1. /\ OthersStay(t) /\ pc[t] = "store" /\ pc'[t] = "sum"
        /\ UNCHANGED <<graph, super_block, checkpt_block, block_offset, disk,
                       disk_super, arg, raced, lapsed>>
        /\ cur_block' = Stored(c, reg[t], arg[t])
    BY DEF Store, device, history, ThreadsInv, Shapes, Goto, OthersStay
  <1>2. pc[t] \in Appending /\ pc'[t] \in Appending
        /\ pc[t] \in InLog /\ pc'[t] \in InLog \cup {"idle"}
    BY <1>1 DEF Appending, InLog
  <1>3. /\ \A u \in Thread \ {t} :
              /\ pc[u] \in Outside
              /\ pc'[u] \notin Owing \cup Filling \cup {"advance", "store"}
        /\ Typed /\ Generations /\ CheckptHeld /\ LogHeld /\ GraphTold
        /\ CurShape /\ EntryOf(t) /\ block_offset \in 1 .. LogSize - 1
    BY <1>1, <1>2, LogFrame
  <1>4. cnt \in Nat /\ cnt < EntriesPerBlock /\ reg[t] = cnt
        /\ cnt + 1 \in 1 .. EntriesPerBlock /\ cnt + 1 - 1 = cnt
    BY <1>1, <1>3, ThreadsAssumption DEF CurShape, EntryOf
  <1>5. /\ cur_block'.head.entry_cnt = cnt + 1 /\ cur_block'.body = body
        /\ cur_block'.head.generation_num = c.head.generation_num
    <2>1. c = Block(c.head.checksum, c.head.generation_num, cnt, c.body)
      BY <1>3 DEF CurShape
    <2>2. cur_block' = Block(c.head.checksum, c.head.generation_num, cnt + 1, body)
      BY <1>1, <1>4, <2>1 DEF Stored
    <2>. QED BY <2>2 DEF Block
  <1>6. c.body \in Entries /\ arg[t] \in LogEntry
    BY <1>3 DEF Typed
  <1>7. body \in Entries /\ body[cnt + 1] = arg[t] /\ \A i \in 1 .. cnt : body[i] = c.body[i]
    <2>1. c.body \in [1 .. EntriesPerBlock -> LogEntry]
      BY <1>6 DEF Entries
    <2>2. \A i \in 1 .. cnt : i \in 1 .. EntriesPerBlock /\ i # cnt + 1
      BY <1>4, ThreadsAssumption
    <2>3. body \in [1 .. EntriesPerBlock -> LogEntry]
      BY <1>4, <1>6, <2>1
    <2>4. body[cnt + 1] = arg[t]
      BY <1>4, <2>1
    <2>5. \A i \in 1 .. cnt : body[i] = c.body[i]
      BY <2>1, <2>2
    <2>. QED BY <2>3, <2>4, <2>5 DEF Entries
  <1>8. Before' = Before /\ Before \in NodeGraphs
    BY <1>1, <1>3, ToldSame, GraphsTyped
  <1>9. Told' = Execute(Told, arg[t]).g
    <2>1. Told' = Replayed(Before, body, cnt + 1)
      BY <1>5, <1>8 DEF Told
    <2>. HIDE DEF body, cnt
    <2>2. Told' = Execute(Replayed(Before, body, cnt), arg[t]).g
      BY <1>4, <1>7, <1>8, <2>1, ReplayedNext
    <2>3. cnt \in 0 .. EntriesPerBlock
      BY <1>4, ThreadsAssumption
    <2>4. Replayed(Before, body, cnt) = Replayed(Before, c.body, cnt)
      BY <1>6, <1>7, <1>8, <2>3, ReplayedSame
    <2>. QED BY <2>2, <2>4 DEF Told, cnt
  <1>10. LogHeld'
    <2>1. \A a : Valid(a)' <=> Valid(a)
      BY <1>1 DEF Valid
    <2>2. pc'[t] \in Filling
      BY <1>1 DEF Filling
    <2>3. c.head.generation_num = disk_super.generation_num
      BY <1>1, <1>3 DEF LogHeld
    <2>4. \A u \in Thread : pc'[u] \notin {"clear", "advance"}
      BY <1>1, <1>3 DEF Filling
    <2>. QED BY <1>1, <1>3, <1>5, <2>1, <2>2, <2>3, <2>4 DEF LogHeld
  <1>11. GraphTold'
    <2>1. graph = Execute(Told, arg[t]).g
      BY <1>1, <1>3 DEF GraphTold, Owing
    <2>2. \A u \in Thread : pc'[u] \notin Owing
      BY <1>1, <1>3 DEF Owing
    <2>. QED BY <1>1, <1>9, <2>1, <2>2 DEF GraphTold, Owing
  <1>. QED BY <1>1, <1>2, <1>5, <1>7, <1>10, <1>11, MemoryFrame

(* The checksum changes nothing of what cur_block tells. *)
LEMMA SumKept ==
    ASSUME ThreadsInv, KeptInv, NEW t \in Thread, Sum(t)
    PROVE  KeptInv'
  <1>. SUFFICES ASSUME Calm' PROVE Held'
    BY DEF KeptInv
  <1>. DEFINE c == cur_block
              sum == compute_checksum_xor(Content(cur_block))
  <1>1. /\ OthersStay(t) /\ pc[t] = "sum" /\ pc'[t] = "head"
        /\ UNCHANGED <<graph, super_block, checkpt_block, block_offset, disk,
                       disk_super, arg, raced, lapsed>>
        /\ cur_block' = [c EXCEPT !.head.checksum = sum]
    BY DEF Sum, device, history, ThreadsInv, Shapes, Goto, OthersStay
  <1>2. pc[t] \in Appending /\ pc'[t] \in Appending
        /\ pc[t] \in InLog /\ pc'[t] \in InLog \cup {"idle"}
    BY <1>1 DEF Appending, InLog
  <1>3. /\ \A u \in Thread \ {t} :
              /\ pc[u] \in Outside
              /\ pc'[u] \notin Owing \cup Filling \cup {"advance", "store"}
        /\ Typed /\ LogHeld /\ GraphTold /\ CurShape
    BY <1>1, <1>2, LogFrame
  <1>4. /\ cur_block'.head.entry_cnt = c.head.entry_cnt /\ cur_block'.body = c.body
        /\ cur_block'.head.generation_num = c.head.generation_num
    <2>1. c = Block(c.head.checksum, c.head.generation_num, c.head.entry_cnt, c.body)
      BY <1>3 DEF CurShape
    <2>2. cur_block' = Block(sum, c.head.generation_num, c.head.entry_cnt, c.body)
      BY <1>1, <2>1 DEF Block
    <2>. HIDE DEF sum
    <2>. QED BY <2>2 DEF Block
  <1>5. Before' = Before /\ Told' = Told
    BY <1>1, <1>4, ToldSame DEF Told
  <1>6. LogHeld'
    <2>1. \A a : Valid(a)' <=> Valid(a)
      BY <1>1 DEF Valid
    <2>2. pc'[t] \in Filling
      BY <1>1 DEF Filling
    <2>3. c.head.generation_num = disk_super.generation_num
      BY <1>1, <1>3 DEF LogHeld
    <2>4. \A u \in Thread : pc'[u] \notin {"clear", "advance"}
      BY <1>1, <1>3 DEF Filling
    <2>. QED BY <1>1, <1>3, <1>4, <2>1, <2>2, <2>3, <2>4 DEF LogHeld
  <1>7. GraphTold'
    <2>1. graph = Told
      <3>1. \A u \in Thread : pc[u] \notin Owing
        BY <1>1, <1>3 DEF Owing, Outside
      <3>. QED BY <1>3, <3>1 DEF GraphTold
    <2>2. \A u \in Thread : pc'[u] \notin Owing
      BY <1>1, <1>3 DEF Owing
    <2>. QED BY <1>1, <1>5, <2>1, <2>2 DEF GraphTold, Owing
  <1>8. cur_block'.body \in Entries
    BY <1>3, <1>4 DEF Typed
  <1>. QED BY <1>1, <1>2, <1>6, <1>7, <1>8, MemoryFrame

(* Only the current block of the log is written, with what cur_block has. *)
LEMMA CopyFrame ==
    ASSUME Typed, Generations, CheckptHeld, CurShape,
           block_offset \in 1 .. LogSize - 1,
           UNCHANGED <<cur_block, block_offset, disk_super>>,
           \A a \in Address \ {block_offset} : disk'[a] = disk[a],
           disk'[block_offset].head = cur_block.head,
           disk'[block_offset].body \in Entries,
           cur_block.head.generation_num = disk_super.generation_num
    PROVE  /\ Before' = Before /\ Told' = Told
           /\ disk'[LogSize] = disk[LogSize]
           /\ LogBlocks(disk, LogSize - 1)'
           /\ disk_super = First =>
                 \A a \in 1 .. LogSize - 1 : disk'[a].head.generation_num = 0
           /\ \A a \in 1 .. LogSize - 1 : a # block_offset => disk'[a] = disk[a]
  <1>1. /\ 1 .. LogSize - 1 \subseteq Address /\ LogSize \in Address
        /\ block_offset # LogSize
    BY ThreadsAssumption DEF Address
  <1>2. \A a \in 1 .. LogSize - 1 : a # block_offset => disk'[a] = disk[a]
    BY <1>1
  <1>3. disk'[LogSize] = disk[LogSize]
    BY <1>1
  <1>4. cur_block.head.entry_cnt \in 0 .. EntriesPerBlock
    BY DEF CurShape
  <1>5. LogBlocks(disk', LogSize - 1)
    BY <1>2, <1>4 DEF LogBlocks, Typed
  <1>6. Base' = Base /\ Base \in NodeGraphs /\ block_offset - 1 \in Nat
        /\ LogBlocks(disk, block_offset - 1)
    BY <1>3, GraphsTyped DEF Base, Checkpointed
  <1>7. \A a \in 1 .. block_offset - 1 : disk[a] = disk'[a]
    BY <1>1, ThreadsAssumption
  <1>8. Through(disk, Base, block_offset - 1) = Through(disk', Base, block_offset - 1)
    BY <1>6, <1>7, ThroughSame
  <1>9. Before' = Before
    BY <1>6, <1>8 DEF Before
  <1>10. Told' = Told
    BY <1>9 DEF Told
  <1>11. disk_super = First =>
            \A a \in 1 .. LogSize - 1 : disk'[a].head.generation_num = 0
    BY <1>2 DEF Generations, First
  <1>. QED BY <1>2, <1>3, <1>5, <1>9, <1>10, <1>11

(* The header goes first: the block on the device is neither here nor there. *)
LEMMA CopyHeadKept ==
    ASSUME ThreadsInv, KeptInv, NEW t \in Thread, CopyHead(t)
    PROVE  KeptInv'
  <1>. SUFFICES ASSUME Calm' PROVE Held'
    BY DEF KeptInv
  <1>1. /\ OthersStay(t) /\ pc[t] = "head" /\ pc'[t] = "body"
        /\ UNCHANGED <<graph, super_block, cur_block, checkpt_block, block_offset,
                       disk_super, arg, raced, lapsed>>
        /\ disk' = [disk EXCEPT ![reg[t]] = [head |-> cur_block.head, body |-> @.body]]
    BY DEF CopyHead, memory, history, ThreadsInv, Shapes, Goto, OthersStay
  <1>2. pc[t] \in InLog /\ pc'[t] \in InLog \cup {"idle"}
    BY <1>1 DEF Appending, InLog
  <1>3. /\ \A u \in Thread \ {t} :
              /\ pc[u] \in Outside
              /\ pc'[u] \notin Owing \cup Filling \cup {"advance", "store"}
        /\ pc[Http] \notin InCheckpoint /\ pc'[Http] \notin InCheckpoint
        /\ Typed /\ Generations /\ CheckptHeld /\ LogHeld /\ GraphTold
        /\ CurShape /\ EntryOf(t) /\ block_offset \in 1 .. LogSize - 1
    BY <1>1, <1>2, LogFrame
  <1>4. reg[t] = block_offset /\ block_offset \in Address
        /\ cur_block.head.generation_num = disk_super.generation_num
    BY <1>1, <1>3, ThreadsAssumption DEF EntryOf, Address, LogHeld
  <1>5. /\ \A a \in Address \ {block_offset} : disk'[a] = disk[a]
        /\ disk'[block_offset].head = cur_block.head
        /\ disk'[block_offset].body = disk[block_offset].body
        /\ disk[block_offset].body \in Entries
    BY <1>1, <1>3, <1>4 DEF ThreadsInv, Shapes, Typed, LogBlocks
  <1>6. /\ Before' = Before /\ Told' = Told
        /\ disk'[LogSize] = disk[LogSize]
        /\ LogBlocks(disk, LogSize - 1)'
        /\ disk_super = First =>
              \A a \in 1 .. LogSize - 1 : disk'[a].head.generation_num = 0
        /\ \A a \in 1 .. LogSize - 1 : a # block_offset => disk'[a] = disk[a]
    BY <1>1, <1>3, <1>4, <1>5, CopyFrame
  <1>7. Typed'
    BY <1>1, <1>3, <1>6 DEF Typed
  <1>8. Generations' /\ CheckptHeld'
    BY <1>1, <1>3, <1>6, CheckptStays
  <1>9. LogHeld'
    <2>1. /\ \A a \in 1 .. block_offset - 1 : a \in 1 .. LogSize - 1 /\ a # block_offset
          /\ \A a \in block_offset + 1 .. LogSize - 1 :
                a \in 1 .. LogSize - 1 /\ a # block_offset
      BY <1>3, ThreadsAssumption
    <2>2. \A a \in 1 .. block_offset - 1 : Valid(a)'
      BY <1>1, <1>3, <1>6, <2>1 DEF LogHeld, Valid
    <2>3. pc'[t] \in Filling
      BY <1>1 DEF Filling
    <2>4. \A u \in Thread : pc'[u] \notin {"clear", "advance"}
      BY <1>1, <1>3 DEF Filling
    <2>. QED BY <1>1, <1>3, <1>4, <1>6, <2>1, <2>2, <2>3, <2>4 DEF LogHeld
  <1>10. GraphTold'
    <2>1. \A u \in Thread : pc[u] \notin Owing /\ pc'[u] \notin Owing
      BY <1>1, <1>3 DEF Owing, Outside
    <2>. QED BY <1>1, <1>3, <1>6, <2>1 DEF GraphTold, Owing
  <1>. QED BY <1>3, <1>7, <1>8, <1>9, <1>10 DEF Held

(* The entries follow, and the device has cur_block. *)
LEMMA CopyBodyKept ==
    ASSUME ThreadsInv, KeptInv, NEW t \in Thread, CopyBody(t)
    PROVE  KeptInv'
  <1>. SUFFICES ASSUME Calm' PROVE Held'
    BY DEF KeptInv
  <1>1. /\ OthersStay(t) /\ pc[t] = "body" /\ pc'[t] = "idle" /\ arg'[t] = NoEntry
        /\ UNCHANGED <<graph, super_block, cur_block, checkpt_block, block_offset,
                       disk_super, raced, lapsed>>
        /\ disk' = [disk EXCEPT ![reg[t]] = [head |-> @.head, body |-> cur_block.body]]
    BY DEF CopyBody, memory, history, ThreadsInv, Shapes, Done, Goto, OthersStay
  <1>2. pc[t] \in InLog /\ pc'[t] \in InLog \cup {"idle"}
    BY <1>1 DEF Appending, InLog
  <1>3. /\ \A u \in Thread \ {t} :
              /\ pc[u] \in Outside
              /\ pc'[u] \notin Owing \cup Filling \cup {"advance", "store"}
              /\ arg'[u] = arg[u]
        /\ pc[Http] \notin InCheckpoint /\ pc'[Http] \notin InCheckpoint
        /\ Typed /\ Generations /\ CheckptHeld /\ LogHeld /\ GraphTold
        /\ CurShape /\ EntryOf(t) /\ block_offset \in 1 .. LogSize - 1
    BY <1>1, <1>2, LogFrame
  <1>4. reg[t] = block_offset /\ block_offset \in Address
        /\ cur_block.head.generation_num = disk_super.generation_num
    BY <1>1, <1>3, ThreadsAssumption DEF EntryOf, Address, LogHeld
  <1>5. /\ \A a \in Address \ {block_offset} : disk'[a] = disk[a]
        /\ disk'[block_offset].head = cur_block.head
        /\ disk'[block_offset] = [head |-> cur_block.head, body |-> cur_block.body]
        /\ disk'[block_offset].body \in Entries
    <2>1. disk[block_offset].head = cur_block.head
      BY <1>1, <1>3, <1>4 DEF EntryOf
    <2>. QED BY <1>1, <1>3, <1>4, <2>1 DEF ThreadsInv, Shapes, Typed
  <1>6. /\ Before' = Before /\ Told' = Told
        /\ disk'[LogSize] = disk[LogSize]
        /\ LogBlocks(disk, LogSize - 1)'
        /\ disk_super = First =>
              \A a \in 1 .. LogSize - 1 : disk'[a].head.generation_num = 0
        /\ \A a \in 1 .. LogSize - 1 : a # block_offset => disk'[a] = disk[a]
    BY <1>1, <1>3, <1>4, <1>5, CopyFrame
  <1>7. Typed'
    <2>1. \A u \in Thread : arg'[u] \in LogEntry
      BY <1>1, <1>3 DEF Typed, LogEntry
    <2>. QED BY <1>1, <1>3, <1>6, <2>1 DEF Typed
  <1>8. Generations' /\ CheckptHeld'
    BY <1>1, <1>3, <1>6, CheckptStays
  <1>9. disk'[block_offset] = cur_block /\ IsValid(cur_block, disk_super.generation_num)
    <2>1. cur_block = [head |-> cur_block.head, body |-> cur_block.body]
      <3>1. cur_block = Block(cur_block.head.checksum, cur_block.head.generation_num,
                              cur_block.head.entry_cnt, cur_block.body)
        BY <1>3 DEF CurShape
      <3>. QED BY <3>1 DEF Block
    <2>2. cur_block.head.checksum = compute_checksum_xor(Content(cur_block))
      BY <1>1, <1>3 DEF EntryOf
    <2>. QED BY <1>4, <1>5, <2>1, <2>2 DEF IsValid
  <1>10. LogHeld'
    <2>1. /\ \A a \in 1 .. block_offset - 1 : a \in 1 .. LogSize - 1 /\ a # block_offset
          /\ \A a \in block_offset + 1 .. LogSize - 1 :
                a \in 1 .. LogSize - 1 /\ a # block_offset
      BY <1>3, ThreadsAssumption
    <2>2. \A a \in 1 .. block_offset - 1 : Valid(a)'
      BY <1>1, <1>3, <1>6, <2>1 DEF LogHeld, Valid
    <2>3. disk'[block_offset'] = cur_block' /\ Valid(block_offset)'
      BY <1>1, <1>9 DEF Valid
    <2>4. \A u \in Thread : pc'[u] \notin {"clear", "advance", "store", "sum", "head", "body"}
      BY <1>1, <1>3 DEF Filling
    <2>. QED BY <1>1, <1>3, <1>6, <2>1, <2>2, <2>3, <2>4 DEF LogHeld
  <1>11. GraphTold'
    <2>1. \A u \in Thread : pc[u] \notin Owing /\ pc'[u] \notin Owing
      BY <1>1, <1>3 DEF Owing, Outside
    <2>. QED BY <1>1, <1>3, <1>6, <2>1 DEF GraphTold, Owing
  <1>. QED BY <1>3, <1>7, <1>8, <1>10, <1>11 DEF Held

----------------------------------------------------------------------------
(* checkpoint(). *)

(* A checkpoint begins with a current block that has room: its entries are *)
(* in the graph, so replaying them on top of the checkpoint is harmless.   *)
LEMMA BeginCheckpointKept ==
    ASSUME ThreadsInv, KeptInv, BeginCheckpoint
    PROVE  KeptInv'
  <1>. SUFFICES ASSUME Calm' PROVE Held'
    BY DEF KeptInv
  <1>0. Http \in Thread
    BY DEF Thread
  <1>1. /\ pc[Http] = "idle" /\ pc'[Http] = "checkpoint" /\ ~log_is_full
        /\ block_offset' = LogSize
        /\ UNCHANGED <<graph, super_block, cur_block, checkpt_block, disk, disk_super, arg>>
    BY <1>0 DEF BeginCheckpoint, Enter, Goto, device, ThreadsInv, Shapes
  <1>2. /\ ~raced /\ ~lapsed /\ ~CurIsFull /\ graph # EmptyGraph
        /\ ~(super_block.generation_num > 0)
        /\ \A u \in Thread \ {Http} : pc[u] \in Outside
    BY DEF Calm, BeginCheckpoint, Enter
  <1>3. Calm
    BY <1>1, <1>2 DEF Calm
  <1>4. /\ Typed /\ Generations /\ CheckptHeld /\ LogHeld /\ GraphTold /\ CurShape
    BY <1>1, <1>2, <1>3 DEF KeptInv, Held, InCheckpoint, ThreadsInv
  <1>5. super_block = First /\ disk_super = First /\ First # Second
    BY <1>1, <1>2, <1>4 DEF Generations, First, Second
  <1>6. checkpt_block = <<>>
    BY <1>1, <1>4, <1>5 DEF CheckptHeld
  <1>7. graph = Told
    <2>1. \A u \in Thread : pc[u] \notin Owing
      BY <1>1, <1>2 DEF Owing, Outside
    <2>. QED BY <1>4, <2>1 DEF GraphTold
  <1>8. block_offset \in 1 .. LogSize - 1
    BY <1>1, ThreadsAssumption DEF ThreadsInv, OffsetsBehindSuper, log_is_full
  <1>9. Replayed(graph, cur_block.body, cur_block.head.entry_cnt) = graph
    BY <1>4, <1>7, <1>8, GraphsTyped, ReplayedTwice DEF Told
  <1>10. cur_block.head.entry_cnt < EntriesPerBlock
    BY <1>2, <1>4, ThreadsAssumption DEF CurShape, CurIsFull
  <1>11. Typed'
    BY <1>1, <1>4 DEF Typed
  <1>12. Generations'
    BY <1>1, <1>4, <1>5 DEF Generations
  <1>13. CheckptHeld'
    <2>1. ToSet(checkpt_block) \subseteq DOMAIN graph
      BY <1>6 DEF ToSet
    <2>. QED BY <1>1, <1>2, <1>5, <1>6, <1>9, <1>10, <2>1 DEF CheckptHeld
  <1>14. pc'[Http] \in InCheckpoint
    BY <1>1 DEF InCheckpoint
  <1>. QED BY <1>11, <1>12, <1>13, <1>14 DEF Held

(* One node more is in memory and on the device. *)
LEMMA CheckpointNodeKept ==
    ASSUME ThreadsInv, KeptInv, NEW n \in DOMAIN graph, CheckpointNode(n)
    PROVE  KeptInv'
  <1>. SUFFICES ASSUME Calm' PROVE Held'
    BY DEF KeptInv
  <1>1. /\ pc[Http] = "checkpoint" /\ pc' = pc
        /\ checkpt_block' = Append(checkpt_block, n)
        /\ disk' = [disk EXCEPT ![block_offset] = CheckptBlock(checkpt_block')]
        /\ UNCHANGED <<graph, super_block, cur_block, block_offset, disk_super, arg,
                       raced, lapsed>>
    BY DEF CheckpointNode, CheckptAppend, history
  <1>2. Calm
    BY <1>1 DEF Calm, log_is_full
  <1>3. Typed /\ Generations /\ CheckptHeld
    BY <1>2 DEF KeptInv, Held
  <1>4. pc[Http] \in InCheckpoint
    BY <1>1 DEF InCheckpoint
  <1>5. block_offset = LogSize
    BY <1>3, <1>4 DEF CheckptHeld
  <1>6. /\ disk'[LogSize] = CheckptBlock(checkpt_block')
        /\ \A a \in 1 .. LogSize - 1 : disk'[a] = disk[a]
    <2>1. LogSize \in Address /\ \A a \in 1 .. LogSize - 1 : a \in Address /\ a # LogSize
      BY ThreadsAssumption DEF Address
    <2>. QED BY <1>1, <1>5, <2>1 DEF ThreadsInv, Shapes
  <1>7. n \in Ids
    <2>1. PICK D \in SUBSET Ids : graph \in [D -> {{}}]
      BY <1>3 DEF Typed, NodeGraphs, Ids
    <2>. QED BY <2>1
  <1>8. /\ checkpt_block' \in Seq(Ids) /\ checkpt_block' # <<>>
        /\ ToSet(checkpt_block') \subseteq DOMAIN graph
    <2>1. checkpt_block \in Seq(Ids) /\ ToSet(checkpt_block) \subseteq DOMAIN graph
      BY <1>1, <1>3 DEF Typed, CheckptHeld
    <2>2. /\ Append(checkpt_block, n) \in Seq(Ids)
          /\ DOMAIN Append(checkpt_block, n) = 1 .. Len(checkpt_block) + 1
          /\ DOMAIN checkpt_block = 1 .. Len(checkpt_block)
          /\ Append(checkpt_block, n)[Len(checkpt_block) + 1] = n
          /\ Len(checkpt_block) \in Nat
      BY <1>7, <2>1
    <2>3. \A i \in 1 .. Len(checkpt_block) + 1 :
             Append(checkpt_block, n)[i] \in DOMAIN graph
      <3>1. \A i \in 1 .. Len(checkpt_block) :
               Append(checkpt_block, n)[i] = checkpt_block[i]
        BY <1>7, <2>1
      <3>2. \A i \in 1 .. Len(checkpt_block) : checkpt_block[i] \in DOMAIN graph
        BY <2>1, <2>2 DEF ToSet
      <3>3. \A i \in 1 .. Len(checkpt_block) + 1 :
               i \in 1 .. Len(checkpt_block) \/ i = Len(checkpt_block) + 1
        BY <2>2
      <3>. QED BY <2>2, <3>1, <3>2, <3>3
    <2>4. ToSet(Append(checkpt_block, n)) \subseteq DOMAIN graph
      BY <2>2, <2>3 DEF ToSet
    <2>5. Append(checkpt_block, n) # <<>>
      BY <1>7, <2>1
    <2>. QED BY <1>1, <2>2, <2>4, <2>5
  <1>9. Typed'
    <2>1. LogBlocks(disk', LogSize - 1)
      BY <1>3, <1>6 DEF Typed, LogBlocks
    <2>. QED BY <1>1, <1>3, <1>8, <2>1 DEF Typed
  <1>10. Generations'
    BY <1>1, <1>3, <1>6 DEF Generations
  <1>11. CheckptHeld'
    <2>1. super_block = First /\ First # Second
      BY <1>1, <1>3 DEF Generations, First, Second
    <2>. QED BY <1>1, <1>3, <1>4, <1>6, <1>8, <2>1 DEF CheckptHeld
  <1>. QED BY <1>1, <1>4, <1>9, <1>10, <1>11 DEF Held

(* The checkpoint has every node of the graph when the superblock changes. *)
LEMMA NewGenerationKept ==
    ASSUME ThreadsInv, KeptInv, NewGeneration
    PROVE  KeptInv'
  <1>. SUFFICES ASSUME Calm' PROVE Held'
    BY DEF KeptInv
  <1>0. Http \in Thread
    BY DEF Thread
  <1>1. /\ pc[Http] = "checkpoint" /\ pc'[Http] = "super"
        /\ DOMAIN graph \subseteq ToSet(checkpt_block) \/ raced
        /\ super_block' = [generation_num  |-> super_block.generation_num + 1,
                           checkpoint_size |-> block_offset - LogSize + 1]
        /\ UNCHANGED <<graph, cur_block, checkpt_block, block_offset, disk, disk_super,
                       arg, raced, lapsed>>
    BY <1>0 DEF NewGeneration, Goto, device, history, ThreadsInv, Shapes
  <1>2. pc[Http] \in InCheckpoint /\ pc'[Http] \in InCheckpoint
    BY <1>1 DEF InCheckpoint
  <1>3. Calm /\ ~raced
    BY <1>1, <1>2 DEF Calm, log_is_full
  <1>4. Typed /\ Generations /\ CheckptHeld
    BY <1>3 DEF KeptInv, Held
  <1>5. super_block = First /\ disk_super = First /\ First # Second
    BY <1>1, <1>4 DEF Generations, First, Second
  <1>6. super_block' = Second
    <2>1. block_offset = LogSize
      BY <1>2, <1>4 DEF CheckptHeld
    <2>2. block_offset - LogSize + 1 = 1
      BY <2>1, ThreadsAssumption
    <2>. QED BY <1>1, <1>5, <2>2 DEF First, Second
  <1>7. ToSet(checkpt_block) = DOMAIN graph
    BY <1>1, <1>3, <1>4 DEF CheckptHeld
  <1>8. checkpt_block # <<>>
    <2>1. SUFFICES ASSUME checkpt_block = <<>>
                   PROVE  FALSE
      OBVIOUS
    <2>2. DOMAIN graph = {}
      BY <1>7, <2>1 DEF ToSet
    <2>3. EmptyGraph = [x \in {} |-> {}] /\ EmptyGraph \in NodeGraphs
      <3>1. {} \in SUBSET Ids
        OBVIOUS
      <3>. QED BY <3>1, GraphOfNodes DEF EmptyGraph
    <2>4. graph = EmptyGraph
      BY <1>4, <2>2, <2>3, SameNodes DEF Typed
    <2>. QED BY <1>1, <1>4, <2>4 DEF CheckptHeld
  <1>9. Typed'
    BY <1>1, <1>4 DEF Typed
  <1>10. Generations'
    BY <1>1, <1>4, <1>5, <1>6 DEF Generations
  <1>11. CheckptHeld'
    BY <1>1, <1>2, <1>4, <1>5, <1>6, <1>7, <1>8 DEF CheckptHeld
  <1>. QED BY <1>2, <1>9, <1>10, <1>11 DEF Held

(* The superblock is on the device: recovery starts from the checkpoint. *)
LEMMA WriteSuperBlockKept ==
    ASSUME ThreadsInv, KeptInv, WriteSuperBlock
    PROVE  KeptInv'
  <1>. SUFFICES ASSUME Calm' PROVE Held'
    BY DEF KeptInv
  <1>0. Http \in Thread
    BY DEF Thread
  <1>1. /\ pc[Http] = "super" /\ pc'[Http] = "reset" /\ disk_super' = super_block
        /\ UNCHANGED <<graph, super_block, cur_block, checkpt_block, block_offset, disk,
                       arg, raced, lapsed>>
    BY <1>0 DEF WriteSuperBlock, Goto, memory, history, ThreadsInv, Shapes
  <1>2. pc[Http] \in InCheckpoint /\ pc'[Http] \in InCheckpoint
    BY <1>1 DEF InCheckpoint
  <1>3. Calm
    BY <1>1, <1>2 DEF Calm, log_is_full
  <1>4. Typed /\ Generations /\ CheckptHeld
    BY <1>3 DEF KeptInv, Held
  <1>5. super_block = Second /\ disk_super = First /\ First # Second
    BY <1>1, <1>4 DEF Generations, First, Second
  <1>6. Typed'
    BY <1>1, <1>4 DEF Typed
  <1>7. Generations'
    BY <1>1, <1>4, <1>5 DEF Generations
  <1>8. CheckptHeld'
    BY <1>1, <1>2, <1>4, <1>5 DEF CheckptHeld
  <1>. QED BY <1>2, <1>6, <1>7, <1>8 DEF Held

(* The log starts again at its first block, and what is there is stale: a  *)
(* restart has the nodes of the checkpoint, which are those of the graph.  *)
LEMMA EndCheckpointKept ==
    ASSUME ThreadsInv, KeptInv, EndCheckpoint
    PROVE  KeptInv'
  <1>. SUFFICES ASSUME Calm' PROVE Held'
    BY DEF KeptInv
  <1>0. Http \in Thread
    BY DEF Thread
  <1>1. /\ pc[Http] = "reset" /\ pc'[Http] = "idle" /\ block_offset' = 1
        /\ pc' = [pc EXCEPT ![Http] = "idle"]
        /\ UNCHANGED <<graph, super_block, cur_block, checkpt_block, disk, disk_super,
                       arg, raced, lapsed>>
    BY <1>0 DEF EndCheckpoint, ResetOffset, LogStart, Goto, device, history,
       ThreadsInv, Shapes
  <1>2. pc[Http] \in InCheckpoint /\ pc'[Http] \notin InCheckpoint
    BY <1>1 DEF InCheckpoint
  <1>3. Calm
    BY <1>1, <1>2 DEF Calm
  <1>4. Typed /\ Generations /\ CheckptHeld /\ CurShape /\ Alone
    BY <1>3 DEF Calm, KeptInv, Held, ThreadsInv
  <1>5. super_block = Second /\ disk_super = Second /\ First # Second
    BY <1>1, <1>4 DEF Generations, First, Second
  <1>6. \A u \in Thread : pc'[u] \in Outside
    <2>1. \A u \in Thread \ {Http} : pc[u] \in Outside
      BY <1>0, <1>1, <1>4 DEF Alone, Outside
    <2>. QED BY <1>0, <1>1, <2>1 DEF Outside, ThreadsInv, Shapes
  <1>7. Base' = graph
    <2>1. Base = [n \in ToSet(checkpt_block) |-> {}] /\ Base \in NodeGraphs
      BY <1>4, <1>5, BaseIs
    <2>2. ToSet(checkpt_block) = DOMAIN graph
      BY <1>1, <1>4 DEF CheckptHeld
    <2>3. Base = graph
      BY <1>4, <2>1, <2>2, SameNodes DEF Typed
    <2>4. Base' = Base
      BY <1>1 DEF Base, Checkpointed
    <2>. QED BY <2>3, <2>4
  <1>8. Before' = graph
    <2>1. Before' = Through(disk, graph, 0)
      BY <1>1, <1>7 DEF Before
    <2>2. graph \in NodeGraphs
      BY <1>4 DEF Typed
    <2>. QED BY <2>1, <2>2, ThroughZero
  <1>9. Told' = graph
    BY <1>1, <1>2, <1>4, <1>8 DEF Told, CheckptHeld
  <1>10. Typed'
    BY <1>1, <1>4 DEF Typed
  <1>11. Generations'
    BY <1>1, <1>4, <1>5 DEF Generations
  <1>12. CheckptHeld'
    BY <1>1, <1>2, <1>4, <1>5 DEF CheckptHeld
  <1>13. GraphTold'
    <2>1. \A u \in Thread : pc'[u] \notin Owing
      BY <1>6 DEF Owing, Outside
    <2>. QED BY <1>1, <1>9, <2>1 DEF GraphTold, Owing
  <1>14. LogHeld'
    <2>1. \A a \in 1 .. LogSize - 1 : disk[a].head.generation_num = 0
      BY <1>1, <1>4 DEF Generations
    <2>2. disk_super.generation_num > 0
      BY <1>5 DEF Second
    <2>3. \A a \in 1 .. LogSize - 1 : Stale(disk[a], disk_super.generation_num)
      BY <2>1, <2>2 DEF Stale
    <2>4. 1 \in 1 .. LogSize - 1 /\ 1 .. block_offset' - 1 = {}
          /\ \A a \in block_offset' + 1 .. LogSize - 1 : a \in 1 .. LogSize - 1
      BY <1>1, ThreadsAssumption
    <2>5. cur_block.head.entry_cnt < EntriesPerBlock
      BY <1>2, <1>4 DEF CheckptHeld
    <2>6. \A u \in Thread :
             pc'[u] \notin {"clear", "advance", "store", "sum", "head", "body"}
      BY <1>6 DEF Outside
    <2>7. Told' = Before'
      BY <1>8, <1>9
    <2>. QED BY <1>1, <2>3, <2>4, <2>5, <2>6, <2>7 DEF LogHeld
  <1>. QED BY <1>10, <1>11, <1>12, <1>13, <1>14 DEF Held

----------------------------------------------------------------------------
(* Every step of every thread keeps what is on the device. *)
LEMMA KeptInvariance == Spec => []KeptInv
  <1>1. ThreadsInv /\ KeptInv /\ [Next]_vars => KeptInv'
    <2>. SUFFICES ASSUME ThreadsInv, KeptInv, [Next]_vars
                  PROVE  KeptInv'
      OBVIOUS
    <2>1. CASE \E t \in Thread : \E e \in Request : Receive(t, e)
      BY <2>1, ReceiveKept
    <2>2. CASE BeginCheckpoint
      BY <2>2, BeginCheckpointKept
    <2>3. CASE \E t \in Thread : Reply(t) \/ Run(t)
      <3>1. PICK t \in Thread : Reply(t) \/ Run(t)
        BY <2>3
      <3>2. CASE Reply(t)
        BY <3>2, ReplyKept
      <3>3. CASE Method(t) \/ add_log_entry(t)
        BY <3>3, MethodKept, TestFullKept, AdvanceKept, ClearKept, StampKept, StoreKept,
           SumKept, CopyHeadKept, CopyBodyKept DEF add_log_entry
      <3>4. CASE checkpoint
        BY <3>4, CheckpointNodeKept, NewGenerationKept, WriteSuperBlockKept,
           EndCheckpointKept DEF checkpoint
      <3>. QED BY <3>1, <3>2, <3>3, <3>4 DEF Run
    <2>4. CASE MethodsCollide
      <3>1. PICK t, u \in Thread : t # u /\ pc[t] = "method" /\ pc[u] = "method"
        BY <2>4 DEF MethodsCollide, InMethod
      <3>2. raced
        BY <3>1 DEF ThreadsInv, Alone, Outside
      <3>3. ~Calm'
        BY <2>4, <3>2 DEF Calm, MethodsCollide, history
      <3>. QED BY <3>3 DEF KeptInv
    <2>5. CASE UNCHANGED vars
      <3>1. UNCHANGED <<graph, super_block, cur_block, checkpt_block, block_offset, disk,
                        disk_super, pc, arg, raced, lapsed>>
        BY <2>5 DEF vars, memory, device, history
      <3>2. /\ Base' = Base /\ Before' = Before /\ Told' = Told
            /\ \A a : Valid(a)' <=> Valid(a)
            /\ Valid(block_offset)' <=> Valid(block_offset)
        BY <3>1, ToldSame DEF Valid
      <3>3. (Calm' <=> Calm) /\ (Typed' <=> Typed)
            /\ (Generations' <=> Generations) /\ (CheckptHeld' <=> CheckptHeld)
        BY <3>1 DEF Calm, log_is_full, Typed, Generations, CheckptHeld
      <3>4. (LogHeld' <=> LogHeld) /\ (GraphTold' <=> GraphTold)
        BY <3>1, <3>2 DEF LogHeld, GraphTold
      <3>. QED BY <3>1, <3>3, <3>4 DEF KeptInv, Held
    <2>. QED BY <2>1, <2>2, <2>3, <2>4, <2>5 DEF Next
  <1>. QED BY <1>1, InitKept, ThreadsInvariance, PTL DEF Spec

(* Without an overlap of critical sections and a checkpoint that loses     *)
(* data by itself, a restart of a server whose log has room rebuilds its   *)
(* graph: with any number of threads and requests, any log, and handlers   *)
(* that wait for the successor across each other and across checkpoints.   *)
THEOREM KeptWithoutRace == Spec => []KeptUnlessRaced
  <1>1. ThreadsInv /\ KeptInv => KeptUnlessRaced
    BY KeptInvMeaning DEF KeptUnlessRaced, Kept
  <1>. QED BY <1>1, ThreadsInvariance, KeptInvariance, PTL

=============================================================================
