------------------------------ MODULE MCFibHeap --------------------------------
(***************************************************************************)
(* FibHeap for TLC: keys 1..2 and -DBL_MAX as 0; the node and heap counts *)
(* are set by each configuration.                                          *)
(***************************************************************************)
EXTENDS FibHeap, TLC

MCKeys == 1 .. 2
MCNeg == 0

\* Heap handles are interchangeable: every action quantifies over all of them.
MCHeapSymmetry == Permutations(Heaps)
=============================================================================
