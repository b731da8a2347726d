------------------------------- MODULE MCHeap -------------------------------
(* Settings of Heap for TLC. *)
EXTENDS Heap
MCRequests == {0, 1, 9, 24, 130}
=============================================================================
