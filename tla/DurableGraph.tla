---------------------------- MODULE DurableGraph ----------------------------
(***************************************************************************)
(* What the log promises: a graph that survives the process.  Clients see  *)
(* store while the server is up; a death of the process, a restart and a   *)
(* checkpoint leave it alone, an update answered 200 changes it, and only  *)
(* formatting the device empties it.                                       *)
(***************************************************************************)
EXTENDS Graph

CONSTANT Request

VARIABLES store, up

vars == <<store, up>>

Init == store = EmptyGraph /\ up = FALSE

Start == ~up /\ up' = TRUE /\ UNCHANGED store

Format == ~up /\ up' = TRUE /\ store' = EmptyGraph

Stop == up /\ up' = FALSE /\ UNCHANGED store

Write(e) ==
    /\ up
    /\ Execute(store, e).status = 200
    /\ store' = Execute(store, e).g
    /\ UNCHANGED up

Next == Start \/ Format \/ Stop \/ \E e \in Request : Write(e)

Spec == Init /\ [][Next]_vars
=============================================================================
