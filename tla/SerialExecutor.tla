--------------------------- MODULE SerialExecutor ---------------------------
(***************************************************************************)
(* What a JobQueue promises to Room and DBJobQueue, whose own state has no *)
(* lock: the jobs of one queue run one at a time, in the order in which    *)
(* they were queued, each exactly once.  Different queues are independent. *)
(* Nothing here says which thread runs a job, or when.                     *)
(***************************************************************************)
EXTENDS Sequences

CONSTANTS Queues,  \* the job queues of the server
          Jobs,    \* the jobs ever created
          NoJob    \* the value of running[q] when no job of q runs

VARIABLES pending, \* [Queues -> Seq(Jobs)]: queued, not yet started
          running, \* [Queues -> Jobs \cup {NoJob}]: the one job that runs
          done     \* the jobs that have run to their end

vars == <<pending, running, done>>

Init ==
    /\ pending = [q \in Queues |-> <<>>]
    /\ running = [q \in Queues |-> NoJob]
    /\ done = {}

Known(j) ==
    \/ j \in done
    \/ \E q \in Queues : running[q] = j \/ \E i \in DOMAIN pending[q] : pending[q][i] = j

Submit(q, j) ==
    /\ ~Known(j)
    /\ pending' = [pending EXCEPT ![q] = Append(@, j)]
    /\ UNCHANGED <<running, done>>

Start(q) ==
    /\ running[q] = NoJob
    /\ pending[q] # <<>>
    /\ running' = [running EXCEPT ![q] = Head(pending[q])]
    /\ pending' = [pending EXCEPT ![q] = Tail(@)]
    /\ UNCHANGED done

Finish(q) ==
    /\ running[q] # NoJob
    /\ done' = done \cup {running[q]}
    /\ running' = [running EXCEPT ![q] = NoJob]
    /\ UNCHANGED pending

Next ==
    \E q \in Queues :
        \/ \E j \in Jobs : Submit(q, j)
        \/ Start(q)
        \/ Finish(q)

Spec == Init /\ [][Next]_vars
=============================================================================
