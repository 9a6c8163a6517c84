---------------------------- MODULE MCSemaphore ----------------------------
EXTENDS Semaphore, TLC
\* The tasks other than the idle task are interchangeable.
Symmetry == Permutations(User) \cup Permutations(Sem)
=============================================================================
