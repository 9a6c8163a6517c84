------------------------------ MODULE MCSched ------------------------------
EXTENDS Sched, TLC
\* The TCBs other than the idle task's are interchangeable.
Symmetry == Permutations(User)
=============================================================================
