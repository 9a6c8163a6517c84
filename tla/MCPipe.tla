------------------------------- MODULE MCPipe -------------------------------
EXTENDS Pipe, TLC
MCSem == {"bf", "rd", "wr"} \cup Thread
MCPollFor == {<<"O_RDONLY", {"POLLIN"}>>}
Symmetry == Permutations(Thread)
=============================================================================
