----------------------------- MODULE MCPthread -----------------------------
EXTENDS Pthread, TLC
\* The threads are interchangeable.
Symmetry == Permutations(Thread)
=============================================================================
