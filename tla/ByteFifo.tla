------------------------------ MODULE ByteFifo ------------------------------
(***************************************************************************)
(* What a pipe promises to the threads that read and write it: bytes come  *)
(* out once each, in the order in which they went in, and are forgotten    *)
(* only when nobody has the pipe open any more.                            *)
(*                                                                         *)
(*   fifo  the bytes in the pipe                                           *)
(*   got   the bytes of a read that is about to return                     *)
(*   open  whether somebody has it open                                    *)
(***************************************************************************)
EXTENDS Naturals, Sequences

CONSTANTS Byte, Capacity

VARIABLES fifo, got, open

FifoInit == fifo = <<>> /\ got = <<>> /\ open = FALSE

Put ==
  /\ open /\ UNCHANGED <<got, open>>
  /\ \E n \in 1..(Capacity - Len(fifo)) :
       \E bytes \in [1..n -> Byte] : fifo' = fifo \o bytes

Get ==
  /\ open /\ UNCHANGED open
  /\ \E n \in 1..Len(fifo) :
       got' = SubSeq(fifo, 1, n) /\ fifo' = SubSeq(fifo, n + 1, Len(fifo))

Return == got' = <<>> /\ UNCHANGED <<fifo, open>>

Open == open' = TRUE /\ UNCHANGED <<fifo, got>>

CloseLast == open /\ open' = FALSE /\ fifo' = <<>> /\ UNCHANGED got

FifoSpec == FifoInit /\ [][Put \/ Get \/ Return \/ Open \/ CloseLast]_<<fifo, got, open>>
=============================================================================
