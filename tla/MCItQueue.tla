----------------------------- MODULE MCItQueue -----------------------------
(* Three producers, a two-entry queue and an eventfd that saturates at     *)
(* three: full queue, blocked write() and flush races are all reachable.   *)
EXTENDS ItQueue
=============================================================================
