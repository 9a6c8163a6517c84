----------------------------- MODULE MCMsgQueue -----------------------------
EXTENDS MsgQueue, TLC
\* The tasks other than the idle task are interchangeable.
Symmetry == Permutations(User)
=============================================================================
