------------------------------- MODULE MCHeap -------------------------------
(* Small instances of the kernel heap.                                     *)
EXTENDS Heap
=============================================================================
