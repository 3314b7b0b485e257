----------------------------- MODULE Durability -----------------------------
(***************************************************************************)
(* When does the device hold the graph?  This module defines, on its own   *)
(* and not by running the recovery loops, the graph a restart would        *)
(* rebuild from the device (Recovered), names the steps of ServerLog after *)
(* which the two may differ (the lapses), and restricts the specification  *)
(* to behaviours whose lapses are in Allowed.  With Allowed = {} the       *)
(* server implements DurableGraph; each lapse alone breaks it.             *)
(***************************************************************************)
EXTENDS ServerLog, Iteration, FiniteSets, SequencesExt

CONSTANT Allowed

----------------------------------------------------------------------------
(* A device d as a restart reads it. *)

HasSuper(d) == d[0].kind = "super"

Generation(d) == IF HasSuper(d) THEN d[0].generation_num ELSE 0
CheckptSize(d) == IF HasSuper(d) THEN d[0].checkpoint_size ELSE 0

IsLive(d, b) ==
    /\ d[Addr(b)].kind = "log"
    /\ d[Addr(b)].generation_num = Generation(d)

(* The blocks play_log reaches. *)
LiveBlocks(d) ==
    {i \in LogStart .. LogSize - 1 : \A j \in LogStart .. i : IsLive(d, j)}

(* Every checkpoint block was written as one, or never written. *)
CheckptReadable ==
    \A i \in 0 .. CheckptSize(dev) - 1 :
        dev[Addr(LogSize + i)].kind \in {"checkpt", "blank"}

(* The graph after the first n entries s of a checkpoint or log block. *)
RestoreTurn(s) ==
    [x \in GraphOver(Id) \X Nat |-> Restore(x[1], s[x[2]])]

ReplayTurn(s) ==
    [x \in GraphOver(Id) \X Nat |-> Execute(x[1], s[x[2]]).g]

Restored(g, s, n) == Steps(RestoreTurn(s), g, n)
Replayed(g, s, n) == Steps(ReplayTurn(s), g, n)

(* The graph after the first n blocks of the checkpoint, ... *)
Edges(d, i) ==
    LET b == d[Addr(LogSize + i - 1)]
    IN  IF b.kind = "checkpt" THEN b.edges ELSE <<>>

CheckptTurn(d) ==
    [x \in GraphOver(Id) \X Nat |->
        Restored(x[1], Edges(d, x[2]), Len(Edges(d, x[2])))]

CheckptThrough(d, n) == Steps(CheckptTurn(d), EmptyGraph, n)

(* ... after the first n blocks of the log, and after all that are played. *)
Entries(d, i) == d[Addr(i)].entries

LogTurn(d) ==
    [x \in GraphOver(Id) \X Nat |->
        Replayed(x[1], Entries(d, x[2]), Len(Entries(d, x[2])))]

LogThrough(d, n) ==
    Steps(LogTurn(d), CheckptThrough(d, CheckptSize(d)), n)

RecoveredFrom(d) ==
    IF HasSuper(d) THEN LogThrough(d, Cardinality(LiveBlocks(d)))
                   ELSE EmptyGraph

Recovered == RecoveredFrom(dev)

----------------------------------------------------------------------------
(* Lapses: step predicates, each with the reason it loses data. *)

(* play_log returns to a block with room but leaves cur_block empty, so    *)
(* the next append replaces the entries of that block.                     *)
TailOverwritten ==
    \E b \in LogStart .. LogSize - 1 :
        /\ SuperIsValid /\ IsLive(dev, b)
        /\ dev'[b].kind = "log" /\ dev'[b] # dev[b]
        /\ ~IsPrefix(dev[b].entries, dev'[b].entries)

(* A block that already holds answered updates is torn by its rewrite. *)
TailTorn ==
    \E b \in LogStart .. LogSize - 1 :
        SuperIsValid /\ IsLive(dev, b) /\ dev'[b] = Torn

(* checkpoint() leaves a full cur_block behind, so the next append goes to *)
(* the second block while the first is of the old generation.              *)
BlockSkipped ==
    \E b \in LogStart .. LogSize - 1 :
        /\ dev'[b] # dev[b] /\ dev'[b].kind = "log"
        /\ \E c \in LogStart .. b - 1 : ~IsLive(dev, c)

(* log_is_full is asked before add_log_entry moves to the next block. *)
LogOverrun ==
    dev'[LogSize] # dev[LogSize] /\ dev'[LogSize].kind \in {"log", "torn"}

(* checkpoint() appends to what checkpt_block still holds, and starts at   *)
(* the second block if that is full: entries of a removed node stay.       *)
LeftOver ==
    Range(checkpt_block) \cup
        (IF CheckptIsFull /\ dev[LogSize].kind = "checkpt"
            THEN Range(dev[LogSize].edges) ELSE {})

CheckptStale ==
    /\ phase = "serve" /\ phase' = "checkpoint"
    /\ \E p \in LeftOver : ~({p[1], p[2]} \subseteq DOMAIN graph)

(* The checkpoint of an empty graph writes no block, yet counts one. *)
CheckptEmpty ==
    /\ phase = "checkpoint" /\ phase' = "serve"
    /\ graph = EmptyGraph
    /\ dev[LogSize] # Blank

(* checkpoint() overwrites the checkpoint in force, entry by entry. *)
CheckptCut ==
    /\ phase = "checkpoint" /\ phase' = "down"
    /\ CheckptSize(dev) > 0
    /\ todo # CheckptEntries(graph)

(* The byte offset of a checkpoint block wraps around to block 0. *)
OffsetWrapped == dev'[0] # dev[0] /\ dev'[0].kind # "super"

LapseNames == {"tail", "torn", "skip", "overrun", "stale", "empty", "cut",
               "wrap"}

Lapse(name) ==
    CASE name = "tail"    -> TailOverwritten
      [] name = "torn"    -> TailTorn
      [] name = "skip"    -> BlockSkipped
      [] name = "overrun" -> LogOverrun
      [] name = "stale"   -> CheckptStale
      [] name = "empty"   -> CheckptEmpty
      [] name = "cut"     -> CheckptCut
      [] name = "wrap"    -> OffsetWrapped

ASSUME AllowedAssumption == Allowed \subseteq LapseNames

NextAllowed == Next /\ \A name \in LapseNames \ Allowed : ~Lapse(name)

SpecAllowed == Init /\ [][NextAllowed]_vars

----------------------------------------------------------------------------
Serving == phase \in {"serve", "checkpoint"}

(* Whenever the server waits for a request, a restart would rebuild        *)
(* exactly the graph it answers from (README.md: "it provides durability   *)
(* feature via logging").                                                  *)
Durable == phase = "serve" => CheckptReadable /\ Recovered = graph

(* The recovery loops compute the reference: when play_log is done the     *)
(* graph in memory is the one the device holds, whatever lapses came       *)
(* before, as long as every checkpoint block read was written as one.      *)
RecoveryExact ==
    [][phase = "play" /\ phase' = "serve" /\ CheckptReadable
          => graph = Recovered]_vars

(* The graph clients read is undirected, after any number of restarts and  *)
(* checkpoints (log.cpp:256, "graph is an undirected graph").              *)
GraphUndirected == Serving => Undirected(graph)

(* The server implements DurableGraph: updates answered 200 survive every  *)
(* later crash, restart and checkpoint.                                    *)
Abstract == INSTANCE DurableGraph WITH
    store <- IF Serving THEN graph ELSE Recovered,
    up <- Serving

ImplementsDurableGraph == Abstract!Spec
=============================================================================
