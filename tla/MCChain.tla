------------------------------ MODULE MCChain ------------------------------
(* Small instances of Chain for TLC. *)
EXTENDS Chain, TLC

(* Adding and removing one node tells apart every order and every loss. *)
NodeRequests ==
    {[opcode |-> op, node1 |-> 1, node2 |-> 0] :
        op \in {OP_ADD_NODE, OP_REMOVE_NODE}}

(* One edge and the nodes it needs. *)
EdgeRequests ==
    {[opcode |-> OP_ADD_NODE, node1 |-> 1, node2 |-> 0],
     [opcode |-> OP_ADD_NODE, node1 |-> 2, node2 |-> 0],
     [opcode |-> OP_REMOVE_NODE, node1 |-> 1, node2 |-> 0],
     [opcode |-> OP_ADD_EDGE, node1 |-> 1, node2 |-> 2]}

(* Requests differ in nothing but their name. *)
OpSymmetry == Permutations(Op)
=============================================================================
