------------------------------- MODULE MCHeap -------------------------------
(* Heap on a heap of a few blocks; the cfg files give the sizes.            *)
EXTENDS Heap
=============================================================================
