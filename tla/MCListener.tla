----------------------------- MODULE MCListener -----------------------------
(***************************************************************************)
(* Listener for TLC: the two logic threads, two accept slots and two       *)
(* clients that may come again and again; a counter of one bit, which      *)
(* overflows when two are connected.                                       *)
(***************************************************************************)
EXTENDS Listener

CONSTANTS e1, e2, logic1, logic2, c1, c2

MCSessions == 1 .. 14
=============================================================================
