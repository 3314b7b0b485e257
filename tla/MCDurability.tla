---------------------------- MODULE MCDurability ----------------------------
(* Small instances of Durability for TLC. *)
EXTENDS Durability

AddNode(n) == [opcode |-> OP_ADD_NODE, node1 |-> n, node2 |-> 0]
RemoveNode(n) == [opcode |-> OP_REMOVE_NODE, node1 |-> n, node2 |-> 0]
AddEdge(a, b) == [opcode |-> OP_ADD_EDGE, node1 |-> a, node2 |-> b]
RemoveEdge(a, b) == [opcode |-> OP_REMOVE_EDGE, node1 |-> a, node2 |-> b]

(* Every update on two nodes, edges named from either end. *)
MCRequest ==
    {AddNode(n) : n \in {1, 2}} \cup {RemoveNode(n) : n \in {1, 2}}
        \cup {AddEdge(1, 2), AddEdge(1, 1), RemoveEdge(2, 1)}

(* Fewer updates, for runs that also keep lapses and check liveness. *)
MCFewRequests ==
    {AddNode(1), AddNode(2), RemoveNode(1), AddEdge(1, 1), AddEdge(2, 1),
     RemoveEdge(1, 2)}
=============================================================================
