----------------------------- MODULE MCJobTimer -----------------------------
(***************************************************************************)
(* JobTimer for TLC: the two logic threads main starts, and timers that    *)
(* come due at once, in the order of their reservation and against it.     *)
(***************************************************************************)
EXTENDS JobTimer

CONSTANTS logic1, logic2, x1, x2, x3

MCThreads == {logic1, logic2}
MCTimers == {x1, x2, x3}
MCDelays == {0, 2}
=============================================================================
