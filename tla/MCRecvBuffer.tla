---------------------------- MODULE MCRecvBuffer ----------------------------
(***************************************************************************)
(* RecvBuffer for TLC: a header of two bytes, three buffers of five, and   *)
(* packets of every size from the bare header to a full buffer.            *)
(***************************************************************************)
EXTENDS RecvBuffer

\* Sizes 2 to 5, mixed.
MCSizeAt == [o \in 0 .. StreamLength |-> 2 + ((o * o + o \div 5) % 4)]
=============================================================================
