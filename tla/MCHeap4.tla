------------------------------ MODULE MCHeap4 ------------------------------
(* The heap for TLC: two tasks, blocks of two to five units.               *)
EXTENDS Heap4, TLC

TaskSymmetry == Permutations(Task)
=============================================================================
