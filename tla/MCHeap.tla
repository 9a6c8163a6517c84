------------------------------ MODULE MCHeap ------------------------------
(* An instance of Heap for TLC. *)
EXTENDS Heap, TLC

Symmetry == Permutations(Thread) \cup Permutations(Handle)
====
