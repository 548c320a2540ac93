------------------------------ MODULE JobQueue ------------------------------
(***************************************************************************)
(* The job scheduler of the server: JobQueue::Push and JobQueue::Execute,  *)
(* the two lists of GlobalQueue, and the loops of the worker and the DB    *)
(* threads that feed and drain them.                                       *)
(*                                                                         *)
(* A step of a thread is one access to shared memory (an atomic fetch_add  *)
(* or fetch_sub, one critical section of a LockQueue) with the thread-local*)
(* code that follows it.  What a job does is left open: while it runs it   *)
(* may push any number of new jobs to any queue, its own included.         *)
(***************************************************************************)
EXTENDS Integers, Sequences, FiniteSets

CONSTANTS
    LogicThreads, \* the threads that run DoWorkerJob
    DBThreads,    \* the threads that run DoDBJob
    LogicQueues,  \* job queues built with THREAD_TYPE::LOGIC (GRoom)
    DBQueues,     \* job queues built with THREAD_TYPE::DB (GDBJobQueue)
    Jobs,         \* the jobs that may be created: the bound of the model
    NoQueue,      \* nullptr
    NoJob         \* the job of a thread that is not in Push

Threads == LogicThreads \cup DBThreads
Queues == LogicQueues \cup DBQueues
THREAD_TYPE == {"LOGIC", "DB"}

ASSUME ConstantsAssumption ==
    /\ IsFiniteSet(Threads)
    /\ LogicThreads \cap DBThreads = {}
    /\ LogicQueues \cap DBQueues = {}
    /\ NoQueue \notin Queues
    /\ NoJob \notin Jobs

VARIABLES
    jobs,             \* [Queues -> Seq(Jobs)]: JobQueue::_jobs
    jobCount,         \* [Queues -> Int]: JobQueue::_jobCount
    globalQueue,      \* [THREAD_TYPE -> Seq(Queues)]: the lists of GGlobalQueue
    LCurrentJobQueue, \* [Threads -> Queues \cup {NoQueue}]: thread-local
    pc,               \* [Threads -> PCs]: where in Push and Execute a thread is
    phase,            \* [Threads -> Phases]: where in its outer loop
    push,             \* [Threads -> frame of the Push call in progress]
    exec,             \* [Threads -> frame of the Execute call in progress]
    clock,            \* [Threads -> Clock]: GetTickCount64 against LEndTickCount
    submitted,        \* the jobs created so far
    done              \* the jobs that have run to their end

vars == <<jobs, jobCount, globalQueue, LCurrentJobQueue, pc, phase, push, exec,
          clock, submitted, done>>

(***************************************************************************)
(* pc:  base     in the outer loop, outside Push and Execute               *)
(*      enqueue  in Push, _jobCount incremented, _jobs not yet             *)
(*      delegate in Push, about to hand the queue to GGlobalQueue          *)
(*      popall   at the head of the loop of Execute                        *)
(*      batch    in the for loop, between two jobs                         *)
(*      job      inside jobs[i]->Execute(), the job being Head(batch)      *)
(*      tick     after fetch_sub, about to read the clock                  *)
(*      handoff  LCurrentJobQueue cleared, about to push to GGlobalQueue   *)
(***************************************************************************)
PCs == {"base", "enqueue", "delegate", "popall", "batch", "job", "tick", "handoff"}

\* "work" stands for Dispatch and DistributeReservedJobs, which call Push;
\* "global" for DoGlobalQueueWork.
Phases == {"work", "global"}

\* The clock as the two comparisons with LEndTickCount tell it apart:
\* Execute stops at now >= LEndTickCount, DoGlobalQueueWork at now > it.
Clock == {"before", "at", "after"}

Later(c) ==
    IF c = "before" THEN Clock ELSE IF c = "at" THEN {"at", "after"} ELSE {"after"}

NoPush == [queue |-> NoQueue, job |-> NoJob, type |-> "LOGIC", first |-> FALSE]
NoExec == [queue |-> NoQueue, type |-> "LOGIC", batch |-> <<>>, count |-> 0]

\* Mutant: DoAsync passes THREAD_TYPE::DB for every queue.
TypeAlwaysDB(q) == "DB"
TypeOf(q) == IF q \in DBQueues THEN "DB" ELSE "LOGIC"
ThreadType(t) == IF t \in DBThreads THEN "DB" ELSE "LOGIC"

FirstPhase(t) == IF t \in DBThreads THEN "global" ELSE "work"

Init ==
    /\ jobs = [q \in Queues |-> <<>>]
    /\ jobCount = [q \in Queues |-> 0]
    /\ globalQueue = [type \in THREAD_TYPE |-> <<>>]
    /\ LCurrentJobQueue = [t \in Threads |-> NoQueue]
    /\ pc = [t \in Threads |-> "base"]
    /\ phase = [t \in Threads |-> FirstPhase(t)]
    /\ push = [t \in Threads |-> NoPush]
    /\ exec = [t \in Threads |-> NoExec]
    /\ clock = [t \in Threads |-> "before"]
    /\ submitted = {}
    /\ done = {}

-----------------------------------------------------------------------------
(* LockQueue: one critical section each *)

\* Mutant: a stack instead of a queue.
PushLIFO(items, item) == <<item>> \o items
LockQueuePush(items, item) == Append(items, item)

-----------------------------------------------------------------------------
(* JobQueue::Push *)

\* Mutant: an off-by-one in the test of prevCount.
PrevCountAtMostOne(q) == jobCount[q] <= 1
PrevCountIsZero(q) == jobCount[q] = 0

\* The first instruction of Push: prevCount = _jobCount.fetch_add(1).  The job
\* is one that was just made; DoAsync passes the thread type of the queue.
FetchAdd(t, q) ==
    /\ \E j \in Jobs \ submitted :
          /\ submitted' = submitted \cup {j}
          /\ push' = [push EXCEPT ![t] = [queue |-> q, job |-> j, type |-> TypeOf(q),
                                         first |-> PrevCountIsZero(q)]]
    /\ jobCount' = [jobCount EXCEPT ![q] = @ + 1]
    /\ pc' = [pc EXCEPT ![t] = "enqueue"]
    /\ UNCHANGED <<jobs, globalQueue, LCurrentJobQueue, phase, exec, done>>

\* A packet handler, or a timer that came due, pushes from the outer loop.
PushFromLoop(t) ==
    /\ pc[t] = "base" /\ phase[t] = "work"
    /\ \E q \in Queues : FetchAdd(t, q)
    /\ \E c \in Later(clock[t]) : clock' = [clock EXCEPT ![t] = c]

\* A running job pushes: Room to DBJobQueue, or a queue to itself.
PushFromJob(t) ==
    /\ pc[t] = "job"
    /\ \E q \in Queues : FetchAdd(t, q)
    /\ UNCHANGED clock

\* The caller of Push is the outer loop or, inside Execute, a job.
ReturnFromPush(t) ==
    /\ pc' = [pc EXCEPT ![t] = IF LCurrentJobQueue[t] = NoQueue THEN "base" ELSE "job"]
    /\ push' = [push EXCEPT ![t] = NoPush]

\* The entry of Execute(type) on queue q, up to its first shared access.
EnterExecute(t, q, type) ==
    /\ LCurrentJobQueue' = [LCurrentJobQueue EXCEPT ![t] = q]
    /\ exec' = [exec EXCEPT ![t] = [queue |-> q, type |-> type, batch |-> <<>>, count |-> 0]]
    /\ pc' = [pc EXCEPT ![t] = "popall"]

\* _jobs.Push(job), then the branch on prevCount and LCurrentJobQueue.
Enqueue(t) ==
    /\ pc[t] = "enqueue"
    /\ jobs' = [jobs EXCEPT ![push[t].queue] = LockQueuePush(@, push[t].job)]
    /\ \/ /\ ~push[t].first
          /\ ReturnFromPush(t)
          /\ UNCHANGED <<LCurrentJobQueue, exec>>
       \/ /\ push[t].first /\ LCurrentJobQueue[t] = NoQueue
          /\ EnterExecute(t, push[t].queue, push[t].type)
          /\ push' = [push EXCEPT ![t] = NoPush]
       \/ /\ push[t].first /\ LCurrentJobQueue[t] # NoQueue
          /\ pc' = [pc EXCEPT ![t] = "delegate"]
          /\ UNCHANGED <<LCurrentJobQueue, exec, push>>
    /\ UNCHANGED <<jobCount, globalQueue, phase, clock, submitted, done>>

\* Mutant: the else branch of Push forgets the queue.
DelegateDropped(t) ==
    /\ pc[t] = "delegate"
    /\ ReturnFromPush(t)
    /\ UNCHANGED <<jobs, jobCount, globalQueue, LCurrentJobQueue, phase, exec, clock, submitted,
                   done>>

\* GGlobalQueue->Push(shared_from_this(), type) in Push.
Delegate(t) ==
    /\ pc[t] = "delegate"
    /\ globalQueue' = [globalQueue EXCEPT ![push[t].type] = LockQueuePush(@, push[t].queue)]
    /\ ReturnFromPush(t)
    /\ UNCHANGED <<jobs, jobCount, LCurrentJobQueue, phase, exec, clock, submitted, done>>

-----------------------------------------------------------------------------
(* JobQueue::Execute *)

\* _jobs.PopAll(OUT jobs).
PopAll(t) ==
    LET q == exec[t].queue IN
    /\ pc[t] = "popall"
    /\ exec' = [exec EXCEPT ![t].batch = jobs[q], ![t].count = Len(jobs[q])]
    /\ jobs' = [jobs EXCEPT ![q] = <<>>]
    /\ pc' = [pc EXCEPT ![t] = "batch"]
    /\ UNCHANGED <<jobCount, globalQueue, LCurrentJobQueue, phase, push, clock, submitted, done>>

StartJob(t) ==
    /\ pc[t] = "batch" /\ exec[t].batch # <<>>
    /\ pc' = [pc EXCEPT ![t] = "job"]
    /\ UNCHANGED <<jobs, jobCount, globalQueue, LCurrentJobQueue, phase, push, exec, clock,
                   submitted, done>>

\* The job returns; it may have taken any amount of time.
EndJob(t) ==
    /\ pc[t] = "job"
    /\ done' = done \cup {Head(exec[t].batch)}
    /\ exec' = [exec EXCEPT ![t].batch = Tail(@)]
    /\ pc' = [pc EXCEPT ![t] = "batch"]
    /\ \E c \in Later(clock[t]) : clock' = [clock EXCEPT ![t] = c]
    /\ UNCHANGED <<jobs, jobCount, globalQueue, LCurrentJobQueue, phase, push, submitted>>

\* Mutants: one job too many is subtracted; only one job is.
TakenPlusOne(t) == exec[t].count + 1
TakenOne(t) == 1
\* The jobCount that Execute subtracts.
Taken(t) == exec[t].count

\* _jobCount.fetch_sub(jobCount): leave Execute if that was the last job.
FetchSub(t) ==
    LET q == exec[t].queue IN
    /\ pc[t] = "batch" /\ exec[t].batch = <<>>
    /\ jobCount' = [jobCount EXCEPT ![q] = @ - Taken(t)]
    /\ \/ /\ jobCount[q] = Taken(t)
          /\ LCurrentJobQueue' = [LCurrentJobQueue EXCEPT ![t] = NoQueue]
          /\ exec' = [exec EXCEPT ![t] = NoExec]
          /\ pc' = [pc EXCEPT ![t] = "base"]
       \/ /\ jobCount[q] # Taken(t)
          /\ exec' = [exec EXCEPT ![t].count = 0]
          /\ pc' = [pc EXCEPT ![t] = "tick"]
          /\ UNCHANGED LCurrentJobQueue
    /\ UNCHANGED <<jobs, globalQueue, phase, push, clock, submitted, done>>

\* now = GetTickCount64(); go round again, or give the queue away.
ReadTick(t) ==
    /\ pc[t] = "tick"
    /\ \E c \in Later(clock[t]) :
          /\ clock' = [clock EXCEPT ![t] = c]
          /\ \/ /\ c = "before"
                /\ pc' = [pc EXCEPT ![t] = "popall"]
                /\ UNCHANGED LCurrentJobQueue
             \/ /\ c # "before"
                /\ pc' = [pc EXCEPT ![t] = "handoff"]
                /\ LCurrentJobQueue' = [LCurrentJobQueue EXCEPT ![t] = NoQueue]
    /\ UNCHANGED <<jobs, jobCount, globalQueue, phase, push, exec, submitted, done>>

\* Mutant: out of time, Execute returns without passing the queue on.
HandoffDropped(t) ==
    /\ pc[t] = "handoff"
    /\ exec' = [exec EXCEPT ![t] = NoExec]
    /\ pc' = [pc EXCEPT ![t] = "base"]
    /\ UNCHANGED <<jobs, jobCount, globalQueue, LCurrentJobQueue, phase, push, clock, submitted,
                   done>>

\* GGlobalQueue->Push(shared_from_this(), type) in Execute.
Handoff(t) ==
    /\ pc[t] = "handoff"
    /\ globalQueue' = [globalQueue EXCEPT ![exec[t].type] = LockQueuePush(@, exec[t].queue)]
    /\ exec' = [exec EXCEPT ![t] = NoExec]
    /\ pc' = [pc EXCEPT ![t] = "base"]
    /\ UNCHANGED <<jobs, jobCount, LCurrentJobQueue, phase, push, clock, submitted, done>>

-----------------------------------------------------------------------------
(* DoWorkerJob, DoDBJob and ThreadManager::DoGlobalQueueWork *)

\* Dispatch and DistributeReservedJobs have returned.
EndWork(t) ==
    /\ pc[t] = "base" /\ phase[t] = "work"
    /\ phase' = [phase EXCEPT ![t] = "global"]
    /\ UNCHANGED <<jobs, jobCount, globalQueue, LCurrentJobQueue, pc, push, exec, clock,
                   submitted, done>>

\* now <= LEndTickCount and GGlobalQueue->Pop(type) returned a queue: execute it.
PopGlobal(t) ==
    LET type == ThreadType(t) IN
    /\ pc[t] = "base" /\ phase[t] = "global"
    /\ \E c \in Later(clock[t]) \ {"after"} : clock' = [clock EXCEPT ![t] = c]
    /\ globalQueue[type] # <<>>
    /\ globalQueue' = [globalQueue EXCEPT ![type] = Tail(@)]
    /\ EnterExecute(t, Head(globalQueue[type]), type)
    /\ UNCHANGED <<jobs, jobCount, phase, push, submitted, done>>

\* now > LEndTickCount, which "after" \in Later(clock[t]) always allows, or
\* nothing to pop: the next turn of the outer loop, which moves LEndTickCount
\* into the future.
NextTurn(t) ==
    /\ pc[t] = "base" /\ phase[t] = "global"
    /\ phase' = [phase EXCEPT ![t] = FirstPhase(t)]
    /\ clock' = [clock EXCEPT ![t] = "before"]
    /\ UNCHANGED <<jobs, jobCount, globalQueue, LCurrentJobQueue, pc, push, exec, submitted, done>>

-----------------------------------------------------------------------------
\* What a thread does of its own accord; creating a new job is up to its
\* environment (a client that sends a packet, the body of a job).
Progress(t) ==
    \/ Enqueue(t) \/ Delegate(t)
    \/ PopAll(t) \/ StartJob(t) \/ EndJob(t) \/ FetchSub(t) \/ ReadTick(t) \/ Handoff(t)
    \/ EndWork(t) \/ PopGlobal(t) \/ NextTurn(t)

Next == \E t \in Threads : PushFromLoop(t) \/ PushFromJob(t) \/ Progress(t)

Spec == Init /\ [][Next]_vars

\* Every thread keeps running and every job returns; and a thread that comes to
\* DoGlobalQueueWork over and over with work to pop does not find its 64 ms used
\* up every time.
FairSpec ==
    /\ Spec
    /\ \A t \in Threads : WF_vars(Progress(t)) /\ SF_vars(PopGlobal(t))

-----------------------------------------------------------------------------
(* Properties *)

PushFrame == [queue : Queues \cup {NoQueue}, job : Jobs \cup {NoJob}, type : THREAD_TYPE,
              first : BOOLEAN]
ExecFrame == [queue : Queues \cup {NoQueue}, type : THREAD_TYPE, batch : Seq(Jobs), count : Nat]

\* Every variable has its type; _jobCount, a signed int32, is never negative:
\* no fetch_sub of Execute takes away more than Push has added.
TypeOK ==
    /\ jobs \in [Queues -> Seq(Jobs)]
    /\ jobCount \in [Queues -> Nat]
    /\ globalQueue \in [THREAD_TYPE -> Seq(Queues)]
    /\ LCurrentJobQueue \in [Threads -> Queues \cup {NoQueue}]
    /\ pc \in [Threads -> PCs]
    /\ phase \in [Threads -> Phases]
    /\ push \in [Threads -> PushFrame]
    /\ exec \in [Threads -> ExecFrame]
    /\ clock \in [Threads -> Clock]
    /\ submitted \subseteq Jobs
    /\ done \subseteq Jobs

\* Two threads are never inside Execute of the same JobQueue: Room and
\* DBJobQueue, which lock nothing, rely on it.
SerialExecution ==
    \A t, u \in Threads : t # u /\ exec[t].queue # NoQueue => exec[t].queue # exec[u].queue

Executors(q) == {t \in Threads : exec[t].queue = q}
FirstPushers(q) == {t \in Threads : push[t].queue = q /\ push[t].first}
Enqueuers(q) == {t \in Threads : pc[t] = "enqueue" /\ push[t].queue = q}
Entries(type, q) == {i \in DOMAIN globalQueue[type] : globalQueue[type][i] = q}

\* A queue with work has exactly one owner, a queue without has none: the
\* thread in Execute, the thread whose Push saw prevCount = 0 and has yet to
\* execute or delegate, or the one entry in GGlobalQueue.  No owner would strand
\* the queue for good (every later Push sees prevCount > 0), two would run it twice.
OneOwner ==
    \A q \in Queues :
        Cardinality(Executors(q)) + Cardinality(FirstPushers(q))
            + Cardinality(Entries("LOGIC", q)) + Cardinality(Entries("DB", q))
            = IF jobCount[q] = 0 THEN 0 ELSE 1

\* _jobCount is the number of jobs that are queued, are on their way into the
\* queue, or were taken by PopAll and not yet subtracted.
CountAccurate ==
    \A q \in Queues :
        /\ Cardinality(Executors(q)) <= 1
        /\ jobCount[q] = Len(jobs[q])
              + Cardinality(Enqueuers(q))
              + (IF Executors(q) = {} THEN 0 ELSE exec[CHOOSE t \in Executors(q) : TRUE].count)

\* The thread types keep logic queues off the DB threads, though a DB job may
\* push to one and a DB queue may be executed by a logic thread.
LogicStaysOnLogicThreads == \A t \in DBThreads : exec[t].queue \notin LogicQueues

\* Thread t is inside a job: in its body, or in a Push that the body calls.
InJob(t) == pc[t] = "job" \/ (pc[t] \in {"enqueue", "delegate"} /\ exec[t].queue # NoQueue)
RunningJob(q) ==
    IF \E t \in Executors(q) : InJob(t)
    THEN Head(exec[CHOOSE t \in Executors(q) : InJob(t)].batch)
    ELSE NoJob
PendingJobs(q) ==
    IF Executors(q) = {} THEN jobs[q]
    ELSE LET t == CHOOSE u \in Executors(q) : TRUE
         IN  (IF InJob(t) THEN Tail(exec[t].batch) ELSE exec[t].batch) \o jobs[q]

Pending == [q \in Queues |-> PendingJobs(q)]
Running == [q \in Queues |-> RunningJob(q)]

Serial == INSTANCE SerialExecutor WITH pending <- Pending, running <- Running

\* The scheduler implements SerialExecutor: whatever the interleaving of Push,
\* Execute and the hand-overs through GGlobalQueue, the jobs of a queue run one
\* at a time, once each, in the order of their _jobs.Push.
ImplementsSerialExecutor == Serial!Spec

\* Every job that is pushed is executed: no hand-over loses a queue.
EveryJobRuns == \A j \in Jobs : j \in submitted ~> j \in done
=============================================================================
