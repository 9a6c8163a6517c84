------------------------------- MODULE MCJoin -------------------------------
EXTENDS Join, TLC
MCSem == {<<"join">>} \cup ({"data", "exit"} \X Child)
MCInterruptible == {<<"join">>} \cup ({"data"} \X Child)
Symmetry == Permutations(Thread \ Child) \cup Permutations(Child)
=============================================================================
