----------------------------- MODULE MCJobQueue -----------------------------
(***************************************************************************)
(* JobQueue for TLC, with the two logic and the two DB threads main starts *)
(* and its two queues, GRoom and GDBJobQueue.  The run without symmetry    *)
(* has one DB thread: the logic threads already execute concurrently.      *)
(***************************************************************************)
EXTENDS JobQueue, TLC

CONSTANTS logic1, logic2, db1, db2, room, users, j1, j2, j3, j4

MCJobs == {j1, j2, j3, j4}
TwoJobs == {j1, j2}

\* Jobs are interchangeable, and so are the logic threads.
Symmetric ==
    Permutations(MCJobs) \cup Permutations({logic1, logic2}) \cup Permutations({db1, db2})
=============================================================================
