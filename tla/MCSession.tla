------------------------------ MODULE MCSession ------------------------------
(***************************************************************************)
(* Session for TLC, with the two logic and the two DB threads main starts  *)
(* and three buffers: one in a WSASend, one that waits for it, one that a  *)
(* third thread is about to queue.                                         *)
(***************************************************************************)
EXTENDS Session

CONSTANTS t1, t2, t3, t4, b1, b2, b3

MCThreads == {t1, t2, t3, t4}
MCBuffers == {b1, b2, b3}
=============================================================================
