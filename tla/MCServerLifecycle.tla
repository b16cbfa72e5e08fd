------------------------- MODULE MCServerLifecycle -------------------------
(* A small instance of ServerLifecycle for TLC: one migration that creates *)
(* a table, one whose table refers to it, one that adds columns to that.   *)
EXTENDS ServerLifecycle, TLC

NeedsPrevious == [v \in 1 .. 3 |-> {v - 1} \ {0}]
=============================================================================
