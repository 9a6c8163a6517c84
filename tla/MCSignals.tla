----------------------------- MODULE MCSignals -----------------------------
EXTENDS Signals
\* The handler of signal 1 masks signal 2.
MCSaMask == [s \in Signal |-> IF s = 1 THEN {2} ELSE {}]
=============================================================================
