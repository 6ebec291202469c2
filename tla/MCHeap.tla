------------------------------- MODULE MCHeap -------------------------------
(* TLC instances of Heap.                                                  *)
EXTENDS Heap, TLC

\* The clients are interchangeable: no guard, size or address names one.
Symmetry == Permutations(Client)
=============================================================================
