------------------------------- MODULE MCHeap -------------------------------
(* A small instance of the Heap specification for TLC.                     *)
EXTENDS Heap, TLC

CONSTANTS k1, k2, u1

Symmetry == Permutations(KernelThreads)
=============================================================================
