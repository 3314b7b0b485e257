----------------------------- MODULE MCThreads -----------------------------
(* Small instances of Threads for TLC. *)
EXTENDS Threads

(* The same node is added and removed, so that the order of two updates    *)
(* shows; the words of "remove node 2" cancel out.                         *)
MCRequest ==
    {[opcode |-> op, node1 |-> 2, node2 |-> 0] :
        op \in {OP_ADD_NODE, OP_REMOVE_NODE}}
=============================================================================
