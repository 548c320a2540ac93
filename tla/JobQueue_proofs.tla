-------------------------- MODULE JobQueue_proofs --------------------------
(***************************************************************************)
(* Proofs about JobQueue, for any number of threads, queues and jobs.      *)
(*                                                                         *)
(* The argument: _jobCount # 0 is a lock.  Whoever moves it away from 0    *)
(* owns the queue, and ownership is only passed on: from Push to Execute,  *)
(* from Push or Execute to GGlobalQueue, and back to the thread that pops  *)
(* it.  Execute gives it up only when its fetch_sub brings the count to 0. *)
(* That this count is never 0 too early needs the count to be exact, and   *)
(* that the executor's own share is exact needs the ownership to be        *)
(* exclusive: the two parts are proved together.                           *)
(*                                                                         *)
(* SerialExecutor is implemented because the executor is unique: what it   *)
(* has taken, followed by _jobs, is the queue in the order of its Pushes.  *)
(* That a Push adds a job which is not there yet, and that PopAll and the  *)
(* end of Execute find every job taken before run, is the invariant RInv.  *)
(***************************************************************************)
EXTENDS JobQueue, SequenceLemmas, FiniteSetTheorems, TLAPS

-----------------------------------------------------------------------------
(* The inductive invariant *)

InPush(t) == pc[t] \in {"enqueue", "delegate"}
InLoop(t) == pc[t] \in {"popall", "batch", "job", "tick"}

\* What the program counter of a thread says of its frames.
ThreadOK(t) ==
    /\ InPush(t) <=> push[t].queue # NoQueue
    /\ InPush(t) => push[t].job \in Jobs /\ exec[t].queue = LCurrentJobQueue[t]
    /\ ~InPush(t) => ~push[t].first
    /\ InLoop(t) => exec[t].queue # NoQueue /\ exec[t].queue = LCurrentJobQueue[t]
    /\ pc[t] = "base" => exec[t].queue = NoQueue /\ LCurrentJobQueue[t] = NoQueue
    /\ pc[t] = "handoff" => exec[t].queue # NoQueue /\ LCurrentJobQueue[t] = NoQueue
    /\ pc[t] = "delegate" => push[t].first /\ LCurrentJobQueue[t] # NoQueue
    /\ pc[t] \in {"popall", "tick", "handoff"} => exec[t].count = 0
    /\ InJob(t) => exec[t].batch # <<>>
Local == \A t \in Threads : ThreadOK(t)

Owns(t, q) == exec[t].queue = q \/ (push[t].queue = q /\ push[t].first)

Listed(type, i, q) == i \in DOMAIN globalQueue[type] /\ globalQueue[type][i] = q

\* The owner of a queue is unique, whatever form it has.
Exclusive ==
    \A q \in Queues :
        /\ \A t, u \in Threads : Owns(t, q) /\ Owns(u, q) => t = u
        /\ \A t \in Threads, type \in THREAD_TYPE, i \in Nat : ~(Owns(t, q) /\ Listed(type, i, q))
        /\ \A type1, type2 \in THREAD_TYPE, i, j \in Nat :
              Listed(type1, i, q) /\ Listed(type2, j, q) => type1 = type2 /\ i = j

\* A thread never owns a queue in both ways.
OneRole == \A t \in Threads : push[t].first => push[t].queue # exec[t].queue

HasOwner(q) ==
    \/ \E t \in Threads : Owns(t, q)
    \/ \E type \in THREAD_TYPE, i \in Nat : Listed(type, i, q)

\* _jobCount is the lock: it is 0 exactly when nobody owns the queue.
Locked == \A q \in Queues : HasOwner(q) <=> jobCount[q] # 0

\* CountAccurate, without naming the executor.
CountAt(q) ==
    /\ \A t \in Threads : exec[t].queue = q =>
          jobCount[q] = Len(jobs[q]) + Cardinality(Enqueuers(q)) + exec[t].count
    /\ (\A t \in Threads : exec[t].queue # q) =>
          jobCount[q] = Len(jobs[q]) + Cardinality(Enqueuers(q))
Count == \A q \in Queues : CountAt(q)

IInv == TypeOK /\ Local /\ OneRole /\ Exclusive /\ Locked /\ Count

-----------------------------------------------------------------------------
(* Facts about single definitions *)

\* A queue is not nullptr, and its thread type is one of the two lists.
LEMMA QueueFacts ==
    /\ \A q \in Queues : q # NoQueue /\ TypeOf(q) \in THREAD_TYPE
    /\ \A t \in Threads : ThreadType(t) \in THREAD_TYPE
  BY ConstantsAssumption DEF TypeOf, ThreadType, THREAD_TYPE, Queues

\* The threads on their way into _jobs are finitely many.
LEMMA EnqueuersFinite ==
    \A q : IsFiniteSet(Enqueuers(q)) /\ Cardinality(Enqueuers(q)) \in Nat
<1>1. \A q : IsFiniteSet(Enqueuers(q))
  BY ConstantsAssumption, FS_Subset DEF Enqueuers
<1> QED
  BY <1>1, FS_CardinalityType

\* The tick count only grows, inside Clock.
LEMMA LaterType == \A c \in Clock : Later(c) \subseteq Clock
  BY DEF Later, Clock

\* The initial frames have their types.
LEMMA FrameTypes == NoPush \in PushFrame /\ NoExec \in ExecFrame
  BY DEF NoPush, NoExec, PushFrame, ExecFrame, THREAD_TYPE

-----------------------------------------------------------------------------
(* Types *)

\* The initial state has its types and nobody owns anything.
LEMMA InitIInv == Init => IInv
<1> SUFFICES ASSUME Init PROVE IInv
  OBVIOUS
<1> USE DEF Init
<1>1. TypeOK
  BY FrameTypes DEF TypeOK, THREAD_TYPE, PCs, Phases, Clock, FirstPhase
<1>2. Local
  BY DEF Local, ThreadOK, InPush, InLoop, InJob, NoPush, NoExec
<1>3. \A t \in Threads, q \in Queues : ~Owns(t, q)
  BY QueueFacts DEF Owns, NoPush, NoExec
<1>4. \A type \in THREAD_TYPE, i \in Nat, q \in Queues : ~Listed(type, i, q)
  BY DEF Listed
<1>5. Exclusive /\ OneRole
  BY <1>3, <1>4 DEF Exclusive, OneRole, NoPush
<1>6. Locked
  BY <1>3, <1>4 DEF Locked, HasOwner
<1>7. Count
  <2>1. \A q \in Queues : Enqueuers(q) = {}
    BY DEF Enqueuers
  <2>2. \A q \in Queues : Cardinality(Enqueuers(q)) = 0 /\ Len(jobs[q]) = 0 /\ jobCount[q] = 0
    BY <2>1, FS_EmptySet
  <2>3. \A t \in Threads, q \in Queues : exec[t].queue # q
    BY QueueFacts DEF NoExec
  <2> QED
    BY <2>2, <2>3 DEF Count, CountAt
<1> QED
  BY <1>1, <1>2, <1>5, <1>6, <1>7 DEF IInv

\* Each step keeps the types; _jobCount stays in Nat because the executor's
\* share of it is one of the summands of Count.
LEMMA TypeStep == IInv /\ [Next]_vars => TypeOK'
<1> SUFFICES ASSUME IInv, [Next]_vars PROVE TypeOK'
  OBVIOUS
<1> USE QueueFacts, LaterType, FrameTypes DEF IInv, TypeOK
<1>1. ASSUME NEW t \in Threads, NEW q \in Queues, FetchAdd(t, q), clock' \in [Threads -> Clock]
      PROVE  TypeOK'
  <2>1. PICK j \in Jobs \ submitted :
           /\ submitted' = submitted \cup {j}
           /\ push' = [push EXCEPT ![t] = [queue |-> q, job |-> j, type |-> TypeOf(q),
                                          first |-> PrevCountIsZero(q)]]
    BY <1>1 DEF FetchAdd
  <2>2. [queue |-> q, job |-> j, type |-> TypeOf(q), first |-> PrevCountIsZero(q)] \in PushFrame
    BY DEF PushFrame, PrevCountIsZero
  <2>3. push' \in [Threads -> PushFrame]
    BY <2>1, <2>2
  <2>4. submitted' \subseteq Jobs
    BY <2>1
  <2>5. pc' \in [Threads -> PCs] /\ jobCount' \in [Queues -> Nat]
    BY <1>1 DEF FetchAdd, PCs
  <2> QED
    BY <1>1, <2>3, <2>4, <2>5 DEF FetchAdd
<1>2. ASSUME NEW t \in Threads, PushFromLoop(t) PROVE TypeOK'
  BY <1>1, <1>2 DEF PushFromLoop
<1>3. ASSUME NEW t \in Threads, PushFromJob(t) PROVE TypeOK'
  BY <1>1, <1>3 DEF PushFromJob
<1>4. ASSUME NEW t \in Threads, NEW q \in Queues, NEW type \in THREAD_TYPE, EnterExecute(t, q, type)
      PROVE  /\ LCurrentJobQueue' \in [Threads -> Queues \cup {NoQueue}]
             /\ exec' \in [Threads -> ExecFrame]
             /\ pc' \in [Threads -> PCs]
  <2>1. [queue |-> q, type |-> type, batch |-> <<>>, count |-> 0] \in ExecFrame
    BY DEF ExecFrame
  <2> QED
    BY <1>4, <2>1 DEF EnterExecute, PCs
<1>5. ASSUME NEW t \in Threads, Enqueue(t) PROVE TypeOK'
  <2>1. push[t].queue \in Queues /\ push[t].job \in Jobs /\ push[t].type \in THREAD_TYPE
    BY <1>5 DEF Enqueue, Local, ThreadOK, InPush, PushFrame
  <2>2. jobs' \in [Queues -> Seq(Jobs)]
    BY <1>5, <2>1 DEF Enqueue, LockQueuePush
  <2>3. CASE ~push[t].first
    <3>1. pc' \in [Threads -> PCs]
      BY <1>5, <2>3 DEF Enqueue, ReturnFromPush, PCs
    <3>2. push' \in [Threads -> PushFrame]
      BY <1>5, <2>3 DEF Enqueue, ReturnFromPush
    <3> QED
      BY <1>5, <2>2, <2>3, <3>1, <3>2 DEF Enqueue
  <2>4. CASE push[t].first /\ LCurrentJobQueue[t] = NoQueue
    <3>1. /\ EnterExecute(t, push[t].queue, push[t].type)
          /\ push' = [push EXCEPT ![t] = NoPush]
          /\ UNCHANGED <<jobCount, globalQueue, phase, clock, submitted, done>>
      BY <1>5, <2>4 DEF Enqueue
    <3>2. /\ LCurrentJobQueue' \in [Threads -> Queues \cup {NoQueue}]
          /\ exec' \in [Threads -> ExecFrame]
          /\ pc' \in [Threads -> PCs]
      BY <1>4, <2>1, <3>1
    <3> QED
      BY <2>2, <3>1, <3>2
  <2>5. CASE push[t].first /\ LCurrentJobQueue[t] # NoQueue
    BY <1>5, <2>2, <2>5 DEF Enqueue, PCs
  <2> QED
    BY <2>3, <2>4, <2>5 DEF PushFrame
<1>6. ASSUME NEW t \in Threads, Delegate(t) PROVE TypeOK'
  <2>1. push[t].queue \in Queues /\ push[t].type \in THREAD_TYPE
    BY <1>6 DEF Delegate, Local, ThreadOK, InPush, PushFrame
  <2>2. globalQueue' \in [THREAD_TYPE -> Seq(Queues)]
    BY <1>6, <2>1 DEF Delegate, LockQueuePush
  <2> QED
    BY <1>6, <2>2 DEF Delegate, ReturnFromPush, PCs
<1>7. ASSUME NEW t \in Threads, PopAll(t) PROVE TypeOK'
  <2>1. exec[t].queue \in Queues
    BY <1>7 DEF PopAll, Local, ThreadOK, InLoop, ExecFrame
  <2>2. exec' \in [Threads -> ExecFrame]
    <3>1. jobs[exec[t].queue] \in Seq(Jobs) /\ Len(jobs[exec[t].queue]) \in Nat
      BY <2>1
    <3>2. [exec[t] EXCEPT !.batch = jobs[exec[t].queue], !.count = Len(jobs[exec[t].queue])]
             \in ExecFrame
      BY <3>1 DEF ExecFrame
    <3> QED
      BY <1>7, <3>2 DEF PopAll
  <2> QED
    BY <1>7, <2>1, <2>2 DEF PopAll, PCs
<1>8. ASSUME NEW t \in Threads, StartJob(t) PROVE TypeOK'
  BY <1>8 DEF StartJob, PCs
<1>9. ASSUME NEW t \in Threads, EndJob(t) PROVE TypeOK'
  <2>1. exec[t].batch \in Seq(Jobs) /\ exec[t].batch # <<>>
    BY <1>9 DEF EndJob, Local, ThreadOK, InJob, ExecFrame
  <2>2. Head(exec[t].batch) \in Jobs /\ Tail(exec[t].batch) \in Seq(Jobs)
    BY <2>1
  <2>3. exec' \in [Threads -> ExecFrame]
    BY <1>9, <2>2 DEF EndJob, ExecFrame
  <2> QED
    BY <1>9, <2>2, <2>3 DEF EndJob, PCs
<1>10. ASSUME NEW t \in Threads, FetchSub(t) PROVE TypeOK'
  <2>1. exec[t].queue \in Queues
    BY <1>10 DEF FetchSub, Local, ThreadOK, InLoop, ExecFrame
  <2>2. jobCount[exec[t].queue] - exec[t].count \in Nat
    BY <2>1, EnqueuersFinite DEF Count, CountAt, ExecFrame
  <2>3. jobCount' \in [Queues -> Nat]
    BY <1>10, <2>1, <2>2 DEF FetchSub, Taken
  <2>4. exec' \in [Threads -> ExecFrame]
    <3>1. [exec[t] EXCEPT !.count = 0] \in ExecFrame
      BY DEF ExecFrame
    <3> QED
      BY <1>10, <3>1 DEF FetchSub
  <2> QED
    BY <1>10, <2>3, <2>4 DEF FetchSub, PCs
<1>11. ASSUME NEW t \in Threads, ReadTick(t) PROVE TypeOK'
  <2>1. clock' \in [Threads -> Clock]
    BY <1>11 DEF ReadTick
  <2>2. pc' \in [Threads -> PCs] /\ LCurrentJobQueue' \in [Threads -> Queues \cup {NoQueue}]
    BY <1>11 DEF ReadTick, PCs
  <2> QED
    BY <1>11, <2>1, <2>2 DEF ReadTick
<1>12. ASSUME NEW t \in Threads, Handoff(t) PROVE TypeOK'
  <2>1. exec[t].queue \in Queues /\ exec[t].type \in THREAD_TYPE
    BY <1>12 DEF Handoff, Local, ThreadOK, ExecFrame
  <2>2. globalQueue' \in [THREAD_TYPE -> Seq(Queues)]
    BY <1>12, <2>1 DEF Handoff, LockQueuePush
  <2> QED
    BY <1>12, <2>2 DEF Handoff, PCs
<1>13. ASSUME NEW t \in Threads, EndWork(t) PROVE TypeOK'
  BY <1>13 DEF EndWork, Phases
<1>14. ASSUME NEW t \in Threads, PopGlobal(t) PROVE TypeOK'
  <2>1. globalQueue[ThreadType(t)] \in Seq(Queues) /\ globalQueue[ThreadType(t)] # <<>>
    BY <1>14 DEF PopGlobal
  <2>2. /\ Head(globalQueue[ThreadType(t)]) \in Queues
        /\ Tail(globalQueue[ThreadType(t)]) \in Seq(Queues)
    BY <2>1
  <2>3. globalQueue' \in [THREAD_TYPE -> Seq(Queues)]
    BY <1>14, <2>2 DEF PopGlobal
  <2>4. clock' \in [Threads -> Clock]
    BY <1>14 DEF PopGlobal
  <2> QED
    BY <1>4, <1>14, <2>2, <2>3, <2>4 DEF PopGlobal
<1>15. ASSUME NEW t \in Threads, NextTurn(t) PROVE TypeOK'
  BY <1>15 DEF NextTurn, Phases, FirstPhase, Clock
<1>16. CASE UNCHANGED vars
  BY <1>16 DEF vars
<1> QED
  BY <1>2, <1>3, <1>5, <1>6, <1>7, <1>8, <1>9, <1>10, <1>11, <1>12, <1>13, <1>14, <1>15, <1>16
  DEF Next, Progress

-----------------------------------------------------------------------------
(* Program counters and frames *)

\* A step of thread t leaves the thread-local state of the others alone.
Elsewhere(t) ==
    \A u \in Threads \ {t} :
        /\ pc'[u] = pc[u] /\ push'[u] = push[u] /\ exec'[u] = exec[u]
        /\ LCurrentJobQueue'[u] = LCurrentJobQueue[u]

\* A step is a step of one thread.
LEMMA StepOfThread ==
    ASSUME TypeOK, NEW t \in Threads, PushFromLoop(t) \/ PushFromJob(t) \/ Progress(t)
    PROVE  Elsewhere(t)
<1> USE DEF TypeOK, Elsewhere
<1>1. CASE PushFromLoop(t) \/ PushFromJob(t)
  BY <1>1 DEF PushFromLoop, PushFromJob, FetchAdd
<1>2. CASE Enqueue(t)
  BY <1>2 DEF Enqueue, ReturnFromPush, EnterExecute
<1>3. CASE Delegate(t)
  BY <1>3 DEF Delegate, ReturnFromPush
<1>4. CASE PopAll(t) \/ StartJob(t) \/ EndJob(t)
  BY <1>4 DEF PopAll, StartJob, EndJob
<1>5. CASE FetchSub(t) \/ ReadTick(t) \/ Handoff(t)
  BY <1>5 DEF FetchSub, ReadTick, Handoff
<1>6. CASE EndWork(t) \/ PopGlobal(t) \/ NextTurn(t)
  BY <1>6 DEF EndWork, PopGlobal, NextTurn, EnterExecute
<1> QED
  BY <1>1, <1>2, <1>3, <1>4, <1>5, <1>6 DEF Progress

\* Each step leaves the thread that takes it with the frames its program
\* counter asks for.
LEMMA LocalStep == IInv /\ [Next]_vars => Local'
<1> SUFFICES ASSUME IInv, [Next]_vars PROVE Local'
  OBVIOUS
<1>1. ASSUME NEW t \in Threads, Elsewhere(t), ThreadOK(t)' PROVE Local'
  <2> SUFFICES ASSUME NEW u \in Threads \ {t} PROVE ThreadOK(u)'
    BY <1>1 DEF Local
  <2>1. ThreadOK(u)
    BY DEF IInv, Local
  <2> QED
    BY <1>1, <2>1 DEF Elsewhere, ThreadOK, InPush, InLoop, InJob
<1>2. ASSUME NEW t \in Threads, PushFromLoop(t) \/ PushFromJob(t) \/ Progress(t) PROVE ThreadOK(t)'
  <2>1. TypeOK /\ ThreadOK(t)
    BY DEF IInv, Local
  <2> USE <2>1, QueueFacts DEF TypeOK, ThreadOK, InPush, InLoop, InJob
  <2>2. CASE PushFromLoop(t) \/ PushFromJob(t)
    BY <2>2 DEF PushFromLoop, PushFromJob, FetchAdd
  <2>3. CASE Enqueue(t)
    <3>1. push[t].queue \in Queues
      BY <2>3 DEF Enqueue, PushFrame
    <3>2. CASE ~push[t].first
      BY <2>3, <3>2 DEF Enqueue, ReturnFromPush, NoPush
    <3>3. CASE push[t].first /\ LCurrentJobQueue[t] = NoQueue
      BY <2>3, <3>1, <3>3 DEF Enqueue, EnterExecute, NoPush
    <3>4. CASE push[t].first /\ LCurrentJobQueue[t] # NoQueue
      BY <2>3, <3>4 DEF Enqueue
    <3> QED
      BY <3>2, <3>3, <3>4
  <2>4. CASE Delegate(t)
    BY <2>4 DEF Delegate, ReturnFromPush, NoPush
  <2>5. CASE PopAll(t)
    BY <2>5 DEF PopAll, ExecFrame
  <2>6. CASE StartJob(t)
    BY <2>6 DEF StartJob
  <2>7. CASE EndJob(t)
    BY <2>7 DEF EndJob, ExecFrame
  <2>8. CASE FetchSub(t)
    <3>1. CASE jobCount[exec[t].queue] = Taken(t)
      BY <2>8, <3>1 DEF FetchSub, NoExec
    <3>2. CASE jobCount[exec[t].queue] # Taken(t)
      <4>1. /\ exec'[t].queue = exec[t].queue /\ exec'[t].batch = exec[t].batch
            /\ exec'[t].count = 0 /\ exec'[t].type = exec[t].type
        BY <2>8, <3>2 DEF FetchSub, ExecFrame
      <4>2. pc'[t] = "tick" /\ push' = push /\ LCurrentJobQueue' = LCurrentJobQueue
        BY <2>8, <3>2 DEF FetchSub
      <4> QED
        BY <2>8, <4>1, <4>2 DEF FetchSub
    <3> QED
      BY <3>1, <3>2
  <2>9. CASE ReadTick(t)
    BY <2>9 DEF ReadTick
  <2>10. CASE Handoff(t)
    BY <2>10 DEF Handoff, NoExec
  <2>11. CASE EndWork(t) \/ NextTurn(t)
    BY <2>11 DEF EndWork, NextTurn
  <2>12. CASE PopGlobal(t)
    <3>1. Head(globalQueue[ThreadType(t)]) \in Queues
      BY <2>12 DEF PopGlobal
    <3> QED
      BY <2>12, <3>1 DEF PopGlobal, EnterExecute
  <2> QED
    BY <1>2, <2>2, <2>3, <2>4, <2>5, <2>6, <2>7, <2>8, <2>9, <2>10, <2>11, <2>12 DEF Progress
<1>3. CASE UNCHANGED vars
  BY <1>3 DEF vars, IInv, Local, ThreadOK, InPush, InLoop, InJob
<1> QED
  BY <1>1, <1>2, <1>3, StepOfThread DEF Next, IInv

-----------------------------------------------------------------------------
(* Ownership: what each kind of step does to it *)

\* No owner changes, and no count moves to or from 0.
LEMMA Keep ==
    ASSUME Exclusive, Locked, UNCHANGED globalQueue,
           \A u \in Threads, q \in Queues : Owns(u, q)' <=> Owns(u, q),
           \A q \in Queues : jobCount'[q] = 0 <=> jobCount[q] = 0
    PROVE  Exclusive' /\ Locked'
<1>1. \A type \in THREAD_TYPE, i \in Nat, q \in Queues : Listed(type, i, q)' <=> Listed(type, i, q)
  BY DEF Listed
<1>2. Exclusive'
  BY <1>1 DEF Exclusive
<1>3. \A q \in Queues : HasOwner(q)' <=> HasOwner(q)
  BY <1>1 DEF HasOwner
<1> QED
  BY <1>2, <1>3 DEF Locked

\* fetch_add moves the count of q away from 0, and t becomes its owner.
LEMMA Acquire ==
    ASSUME Exclusive, Locked, NEW t \in Threads, NEW q \in Queues, UNCHANGED globalQueue,
           jobCount[q] = 0, jobCount'[q] # 0,
           \A r \in Queues \ {q} : jobCount'[r] = jobCount[r],
           \A u \in Threads, r \in Queues : Owns(u, r)' <=> Owns(u, r) \/ (u = t /\ r = q)
    PROVE  Exclusive' /\ Locked'
<1>1. \A type \in THREAD_TYPE, i \in Nat, r \in Queues : Listed(type, i, r)' <=> Listed(type, i, r)
  BY DEF Listed
<1>2. ~HasOwner(q)
  BY DEF Locked
<1>3. Exclusive'
  BY <1>1, <1>2 DEF Exclusive, HasOwner
<1>4. HasOwner(q)' /\ \A r \in Queues \ {q} : HasOwner(r)' <=> HasOwner(r)
  BY <1>1 DEF HasOwner
<1> QED
  BY <1>3, <1>4 DEF Locked

\* fetch_sub moves the count of q to 0, and its owner t lets go of it.
LEMMA Release ==
    ASSUME Exclusive, Locked, NEW t \in Threads, NEW q \in Queues, UNCHANGED globalQueue,
           Owns(t, q), jobCount'[q] = 0,
           \A r \in Queues \ {q} : jobCount'[r] = jobCount[r],
           \A u \in Threads, r \in Queues : Owns(u, r)' <=> Owns(u, r) /\ ~(u = t /\ r = q)
    PROVE  Exclusive' /\ Locked'
<1>1. \A type \in THREAD_TYPE, i \in Nat, r \in Queues : Listed(type, i, r)' <=> Listed(type, i, r)
  BY DEF Listed
<1>2. Exclusive'
  BY <1>1 DEF Exclusive
<1>3. ~HasOwner(q)' /\ \A r \in Queues \ {q} : HasOwner(r)' <=> HasOwner(r)
  BY <1>1 DEF HasOwner, Exclusive
<1> QED
  BY <1>2, <1>3 DEF Locked

\* The owner t of q passes it to one of the lists of GGlobalQueue.
LEMMA Give ==
    ASSUME TypeOK, Exclusive, Locked, NEW t \in Threads, NEW q \in Queues,
           NEW type \in THREAD_TYPE, Owns(t, q),
           globalQueue' = [globalQueue EXCEPT ![type] = Append(@, q)],
           UNCHANGED jobCount,
           \A u \in Threads, r \in Queues : Owns(u, r)' <=> Owns(u, r) /\ ~(u = t /\ r = q)
    PROVE  Exclusive' /\ Locked'
<1> DEFINE n == Len(globalQueue[type]) + 1
<1>1. n \in Nat
  BY DEF TypeOK
<1>2. \A ty \in THREAD_TYPE, i \in Nat, r \in Queues :
         Listed(ty, i, r)' <=> Listed(ty, i, r) \/ (ty = type /\ i = n /\ r = q)
  BY DEF Listed, TypeOK
<1>3. \A ty \in THREAD_TYPE, i \in Nat : ~Listed(ty, i, q)
  BY DEF Exclusive
<1> HIDE DEF n
<1>4. Exclusive'
  BY <1>2, <1>3 DEF Exclusive
<1>5. \A r \in Queues : HasOwner(r)' <=> HasOwner(r)
  BY <1>1, <1>2 DEF HasOwner
<1> QED
  BY <1>4, <1>5 DEF Locked

\* A thread pops the head of a list of GGlobalQueue and owns it from then on.
LEMMA Take ==
    ASSUME TypeOK, Exclusive, Locked, NEW t \in Threads, NEW q \in Queues,
           NEW type \in THREAD_TYPE, globalQueue[type] # <<>>, Head(globalQueue[type]) = q,
           globalQueue' = [globalQueue EXCEPT ![type] = Tail(@)],
           UNCHANGED jobCount,
           \A u \in Threads, r \in Queues : Owns(u, r)' <=> Owns(u, r) \/ (u = t /\ r = q)
    PROVE  Exclusive' /\ Locked'
<1>1. Listed(type, 1, q)
  BY DEF Listed, TypeOK
<1>2. \A i \in Nat, r \in Queues : Listed(type, i, r)' <=> i # 0 /\ Listed(type, i + 1, r)
  BY DEF Listed, TypeOK
<1>3. \A ty \in THREAD_TYPE \ {type}, i \in Nat, r \in Queues :
         Listed(ty, i, r)' <=> Listed(ty, i, r)
  BY DEF Listed, TypeOK
<1>4. \A ty \in THREAD_TYPE, i \in Nat : ~Listed(ty, i, q)'
  BY <1>1, <1>2, <1>3 DEF Exclusive
<1>5. Exclusive'
  <2>1. \A u, v \in Threads, r \in Queues : Owns(u, r)' /\ Owns(v, r)' => u = v
    BY <1>1 DEF Exclusive
  <2>2. \A u \in Threads, ty \in THREAD_TYPE, i \in Nat, r \in Queues :
           ~(Owns(u, r)' /\ Listed(ty, i, r)')
    BY <1>2, <1>3, <1>4 DEF Exclusive
  <2>3. \A ty1, ty2 \in THREAD_TYPE, i, j \in Nat, r \in Queues :
           Listed(ty1, i, r)' /\ Listed(ty2, j, r)' => ty1 = ty2 /\ i = j
    BY <1>2, <1>3 DEF Exclusive
  <2> QED
    BY <2>1, <2>2, <2>3 DEF Exclusive
<1>6. \A r \in Queues \ {q} : HasOwner(r)' <=> HasOwner(r)
  <2> TAKE r \in Queues \ {q}
  <2>1. \A i \in Nat : Listed(type, i, r) => i # 0 /\ i # 1 /\ i - 1 \in Nat /\ Listed(type, i - 1, r)'
    BY <1>2 DEF Listed, TypeOK
  <2> QED
    BY <1>2, <1>3, <2>1 DEF HasOwner
<1>7. HasOwner(q)' /\ HasOwner(q)
  BY <1>1 DEF HasOwner
<1> QED
  BY <1>5, <1>6, <1>7 DEF Locked

-----------------------------------------------------------------------------
(* Ownership: each action is one of these kinds *)

\* PopAll, the jobs and the clock do not touch what a thread executes or pushes.
LEMMA SameQueues ==
    ASSUME TypeOK, NEW t \in Threads, PopAll(t) \/ StartJob(t) \/ EndJob(t) \/ ReadTick(t)
    PROVE  push' = push /\ \A u \in Threads : exec'[u].queue = exec[u].queue
<1> USE DEF TypeOK, ExecFrame
<1>1. CASE PopAll(t)
  BY <1>1 DEF PopAll
<1>2. CASE EndJob(t)
  BY <1>2 DEF EndJob
<1>3. CASE StartJob(t) \/ ReadTick(t)
  BY <1>3 DEF StartJob, ReadTick
<1> QED
  BY <1>1, <1>2, <1>3

\* What the three branches of Enqueue do to the frames of t.
LEMMA EnqueueFrames ==
    ASSUME TypeOK, Local, NEW t \in Threads, Enqueue(t)
    PROVE  /\ push[t].queue \in Queues
           /\ ~push[t].first => ~push'[t].first /\ exec' = exec
           /\ push[t].first /\ LCurrentJobQueue[t] = NoQueue =>
                 ~push'[t].first /\ exec[t].queue = NoQueue /\ exec'[t].queue = push[t].queue
           /\ push[t].first /\ LCurrentJobQueue[t] # NoQueue => push' = push /\ exec' = exec
<1> USE DEF TypeOK, Local, ThreadOK, InPush
<1>1. push[t].queue \in Queues /\ exec[t].queue = LCurrentJobQueue[t]
  BY DEF Enqueue, PushFrame
<1>2. CASE ~push[t].first
  BY <1>1, <1>2 DEF Enqueue, ReturnFromPush, NoPush
<1>3. CASE push[t].first /\ LCurrentJobQueue[t] = NoQueue
  BY <1>1, <1>3 DEF Enqueue, EnterExecute, NoPush
<1>4. CASE push[t].first /\ LCurrentJobQueue[t] # NoQueue
  BY <1>1, <1>4 DEF Enqueue
<1> QED
  BY <1>1, <1>2, <1>3, <1>4

\* A Push that saw prevCount = 0 is never one to the queue its thread executes.
LEMMA OneRoleStep == IInv /\ [Next]_vars => OneRole'
<1> SUFFICES ASSUME IInv, [Next]_vars PROVE OneRole'
  OBVIOUS
<1> USE DEF IInv, TypeOK, OneRole
<1>1. ASSUME NEW t \in Threads, NEW q \in Queues, FetchAdd(t, q) PROVE OneRole'
  <2>1. push'[t].queue = q /\ exec'[t] = exec[t] /\ push'[t].first = (jobCount[q] = 0)
    BY <1>1 DEF FetchAdd, PrevCountIsZero
  <2>2. exec[t].queue = q => jobCount[q] # 0
    BY DEF Locked, HasOwner, Owns
  <2> QED
    BY <1>1, <2>1, <2>2 DEF FetchAdd
<1>2. ASSUME NEW t \in Threads, PushFromLoop(t) \/ PushFromJob(t) PROVE OneRole'
  BY <1>1, <1>2 DEF PushFromLoop, PushFromJob
<1>3. ASSUME NEW t \in Threads, Progress(t) PROVE OneRole'
  <2>0. TypeOK /\ Elsewhere(t)
    BY <1>3, StepOfThread
  <2>1. CASE Enqueue(t)
    BY <2>1, <2>0, EnqueueFrames DEF Elsewhere
  <2>2. CASE Delegate(t)
    BY <2>2 DEF Delegate, ReturnFromPush, NoPush
  <2>3. CASE PopAll(t) \/ StartJob(t) \/ EndJob(t) \/ ReadTick(t)
    BY <2>0, <2>3, SameQueues
  <2>4. CASE FetchSub(t) \/ Handoff(t) \/ PopGlobal(t)
    <3>1. ~push[t].first
      BY <2>4 DEF FetchSub, Handoff, PopGlobal, Local, ThreadOK, InPush
    <3> QED
      BY <2>4, <3>1 DEF FetchSub, Handoff, PopGlobal, EnterExecute
  <2>5. CASE EndWork(t) \/ NextTurn(t)
    BY <2>5 DEF EndWork, NextTurn
  <2> QED
    BY <1>3, <2>1, <2>2, <2>3, <2>4, <2>5 DEF Progress
<1>4. CASE UNCHANGED vars
  BY <1>4 DEF vars
<1> QED
  BY <1>2, <1>3, <1>4 DEF Next

\* Push and Execute pass the ownership of a queue on and never split it.
LEMMA OwnershipStep == IInv /\ [Next]_vars => Exclusive' /\ Locked'
<1> SUFFICES ASSUME IInv, [Next]_vars PROVE Exclusive' /\ Locked'
  OBVIOUS
<1>0. TypeOK /\ Local /\ OneRole /\ Exclusive /\ Locked /\ Count
  BY DEF IInv
<1>1. ASSUME NEW t \in Threads, NEW q \in Queues, pc[t] \in {"base", "job"}, FetchAdd(t, q)
      PROVE  Exclusive' /\ Locked'
  <2>1. /\ push'[t].queue = q /\ push'[t].first = (jobCount[q] = 0)
        /\ \A u \in Threads \ {t} : push'[u] = push[u]
        /\ exec' = exec /\ globalQueue' = globalQueue
        /\ jobCount'[q] = jobCount[q] + 1 /\ \A r \in Queues \ {q} : jobCount'[r] = jobCount[r]
    BY <1>0, <1>1 DEF FetchAdd, PrevCountIsZero, TypeOK
  <2>2. ~push[t].first
    BY <1>0, <1>1 DEF Local, ThreadOK, InPush
  <2>3. jobCount[q] \in Nat
    BY <1>0 DEF TypeOK
  <2>4. CASE jobCount[q] = 0
    <3>1. \A u \in Threads, r \in Queues : Owns(u, r)' <=> Owns(u, r) \/ (u = t /\ r = q)
      BY <2>1, <2>2, <2>4 DEF Owns
    <3> QED
      BY <1>0, <2>1, <2>4, <3>1, Acquire
  <2>5. CASE jobCount[q] # 0
    <3>1. \A u \in Threads, r \in Queues : Owns(u, r)' <=> Owns(u, r)
      BY <2>1, <2>2, <2>5 DEF Owns
    <3>2. \A r \in Queues : jobCount'[r] = 0 <=> jobCount[r] = 0
      BY <2>1, <2>3, <2>5
    <3> QED
      BY <1>0, <2>1, <3>1, <3>2, Keep
  <2> QED
    BY <2>4, <2>5
<1>2. ASSUME NEW t \in Threads, PushFromLoop(t) \/ PushFromJob(t) PROVE Exclusive' /\ Locked'
  BY <1>1, <1>2 DEF PushFromLoop, PushFromJob
<1>3. ASSUME NEW t \in Threads, Enqueue(t) PROVE Exclusive' /\ Locked'
  <2>1. \A u \in Threads, q \in Queues : Owns(u, q)' <=> Owns(u, q)
    <3>1. Elsewhere(t)
      BY <1>0, <1>3, StepOfThread DEF Progress
    <3> QED
      BY <1>0, <1>3, <3>1, EnqueueFrames, QueueFacts DEF Owns, Elsewhere
  <2> QED
    BY <1>0, <1>3, <2>1, Keep DEF Enqueue
<1>4. ASSUME NEW t \in Threads, Delegate(t) PROVE Exclusive' /\ Locked'
  <2>1. /\ push[t].queue \in Queues /\ push[t].first /\ push[t].type \in THREAD_TYPE
        /\ exec[t].queue # push[t].queue
    BY <1>0, <1>4 DEF Delegate, Local, ThreadOK, InPush, TypeOK, PushFrame, OneRole
  <2>2. \A u \in Threads, r \in Queues :
           Owns(u, r)' <=> Owns(u, r) /\ ~(u = t /\ r = push[t].queue)
    BY <1>0, <1>4, <2>1, QueueFacts DEF Owns, Delegate, ReturnFromPush, NoPush, TypeOK
  <2>3. Owns(t, push[t].queue)
    BY <2>1 DEF Owns
  <2> QED
    BY <1>0, <1>4, <2>1, <2>2, <2>3, Give DEF Delegate, LockQueuePush
<1>5. ASSUME NEW t \in Threads, PopAll(t) \/ StartJob(t) \/ EndJob(t) \/ ReadTick(t)
      PROVE  Exclusive' /\ Locked'
  <2>1. \A u \in Threads, q \in Queues : Owns(u, q)' <=> Owns(u, q)
    BY <1>0, <1>5, SameQueues DEF Owns
  <2> QED
    BY <1>0, <1>5, <2>1, Keep DEF PopAll, StartJob, EndJob, ReadTick
<1>6. ASSUME NEW t \in Threads, FetchSub(t) PROVE Exclusive' /\ Locked'
  <2> DEFINE q == exec[t].queue
  <2>1. q \in Queues /\ ~push[t].first /\ exec[t].count \in Nat /\ jobCount[q] \in Nat
    <3>1. pc[t] = "batch" /\ exec[t] \in ExecFrame /\ jobCount \in [Queues -> Nat] /\ ThreadOK(t)
      BY <1>0, <1>6 DEF FetchSub, Local, TypeOK
    <3>2. q \in Queues /\ ~push[t].first
      BY <3>1 DEF ThreadOK, InPush, InLoop, ExecFrame
    <3> QED
      BY <3>1, <3>2 DEF ExecFrame
  <2>2. /\ jobCount'[q] = jobCount[q] - exec[t].count /\ globalQueue' = globalQueue
        /\ \A r \in Queues \ {q} : jobCount'[r] = jobCount[r]
    BY <1>0, <1>6, <2>1 DEF FetchSub, Taken, TypeOK
  <2>3. CASE jobCount[q] = exec[t].count
    <3>1. \A u \in Threads, r \in Queues : Owns(u, r)' <=> Owns(u, r) /\ ~(u = t /\ r = q)
      BY <1>0, <1>6, <2>1, <2>3, QueueFacts DEF Owns, FetchSub, Taken, NoExec, TypeOK
    <3>2. Owns(t, q)
      BY DEF Owns
    <3> QED
      BY <1>0, <2>1, <2>2, <2>3, <3>1, <3>2, Release
  <2>4. CASE jobCount[q] # exec[t].count
    <3>1. \A u \in Threads, r \in Queues : Owns(u, r)' <=> Owns(u, r)
      <4>1. push' = push /\ exec' = [exec EXCEPT ![t].count = 0]
        BY <1>6, <2>4 DEF FetchSub, Taken
      <4>2. \A u \in Threads : exec'[u].queue = exec[u].queue
        BY <1>0, <4>1 DEF TypeOK, ExecFrame
      <4> QED
        BY <4>1, <4>2 DEF Owns
    <3>2. jobCount[q] # 0
      BY <1>0, <2>1 DEF Locked, HasOwner, Owns
    <3>3. \A r \in Queues : jobCount'[r] = 0 <=> jobCount[r] = 0
      BY <2>1, <2>2, <2>4, <3>2
    <3> QED
      BY <1>0, <2>2, <3>1, <3>3, Keep
  <2> QED
    BY <2>3, <2>4
<1>7. ASSUME NEW t \in Threads, Handoff(t) PROVE Exclusive' /\ Locked'
  <2>1. exec[t].queue \in Queues /\ exec[t].type \in THREAD_TYPE /\ ~push[t].first
    BY <1>0, <1>7 DEF Handoff, Local, ThreadOK, InPush, TypeOK, ExecFrame
  <2>2. \A u \in Threads, r \in Queues :
           Owns(u, r)' <=> Owns(u, r) /\ ~(u = t /\ r = exec[t].queue)
    BY <1>0, <1>7, <2>1, QueueFacts DEF Owns, Handoff, NoExec, TypeOK
  <2>3. Owns(t, exec[t].queue)
    BY DEF Owns
  <2> QED
    BY <1>0, <1>7, <2>1, <2>2, <2>3, Give DEF Handoff, LockQueuePush
<1>8. ASSUME NEW t \in Threads, PopGlobal(t) PROVE Exclusive' /\ Locked'
  <2>0. PICK type \in THREAD_TYPE : type = ThreadType(t)
    BY QueueFacts
  <2>1. globalQueue[type] # <<>> /\ Head(globalQueue[type]) \in Queues
    BY <1>0, <1>8, <2>0 DEF PopGlobal, TypeOK
  <2>5. PICK q \in Queues : q = Head(globalQueue[type])
    BY <2>1
  <2>2. exec[t].queue = NoQueue
    BY <1>0, <1>8 DEF PopGlobal, Local, ThreadOK
  <2>3. \A u \in Threads, r \in Queues : Owns(u, r)' <=> Owns(u, r) \/ (u = t /\ r = q)
    BY <1>0, <1>8, <2>0, <2>2, <2>5, QueueFacts DEF Owns, PopGlobal, EnterExecute, TypeOK
  <2>4. globalQueue' = [globalQueue EXCEPT ![type] = Tail(@)] /\ UNCHANGED jobCount
    BY <1>8, <2>0 DEF PopGlobal
  <2>6. globalQueue[type] # <<>> /\ Head(globalQueue[type]) = q
    BY <2>1, <2>5
  <2> QED
    BY <1>0, <2>0, <2>3, <2>4, <2>5, <2>6, Take
<1>9. ASSUME NEW t \in Threads, EndWork(t) \/ NextTurn(t) PROVE Exclusive' /\ Locked'
  BY <1>0, <1>9, Keep DEF EndWork, NextTurn, Owns
<1>10. CASE UNCHANGED vars
  BY <1>0, <1>10, Keep DEF vars, Owns
<1> QED
  BY <1>2, <1>3, <1>4, <1>5, <1>6, <1>7, <1>8, <1>9, <1>10 DEF Next, Progress

-----------------------------------------------------------------------------
(* The count *)

\* Only fetch_add puts a thread on its way into _jobs, and only _jobs.Push
\* takes it off.
LEMMA EnqueuersStep ==
    ASSUME TypeOK, Local, NEW t \in Threads, NEW q \in Queues
    PROVE  /\ pc[t] # "enqueue" /\ FetchAdd(t, q) =>
                 /\ Cardinality(Enqueuers(q))' = Cardinality(Enqueuers(q)) + 1
                 /\ \A r \in Queues \ {q} : Enqueuers(r)' = Enqueuers(r)
           /\ Enqueue(t) /\ push[t].queue = q =>
                 /\ Cardinality(Enqueuers(q)) = Cardinality(Enqueuers(q))' + 1
                 /\ \A r \in Queues \ {q} : Enqueuers(r)' = Enqueuers(r)
<1>1. ASSUME pc[t] # "enqueue", FetchAdd(t, q)
      PROVE  /\ Cardinality(Enqueuers(q))' = Cardinality(Enqueuers(q)) + 1
             /\ \A r \in Queues \ {q} : Enqueuers(r)' = Enqueuers(r)
  <2>1. /\ pc'[t] = "enqueue" /\ push'[t].queue = q
        /\ \A u \in Threads \ {t} : pc'[u] = pc[u] /\ push'[u] = push[u]
    BY <1>1 DEF FetchAdd, TypeOK
  <2>2. Enqueuers(q)' = Enqueuers(q) \cup {t} /\ t \notin Enqueuers(q)
    BY <1>1, <2>1 DEF Enqueuers
  <2>3. \A r \in Queues \ {q} : Enqueuers(r)' = Enqueuers(r)
    BY <1>1, <2>1 DEF Enqueuers
  <2> QED
    BY <2>2, <2>3, EnqueuersFinite, FS_AddElement
<1>2. ASSUME Enqueue(t), push[t].queue = q
      PROVE  /\ Cardinality(Enqueuers(q)) = Cardinality(Enqueuers(q))' + 1
             /\ \A r \in Queues \ {q} : Enqueuers(r)' = Enqueuers(r)
  <2>1. pc[t] = "enqueue" /\ pc'[t] # "enqueue" /\ Elsewhere(t)
    <3>1. Elsewhere(t)
      BY <1>2, StepOfThread DEF Progress
    <3> QED
      BY <1>2, <3>1 DEF Enqueue, ReturnFromPush, EnterExecute, TypeOK
  <2>2. Enqueuers(q)' = Enqueuers(q) \ {t} /\ t \in Enqueuers(q)
    BY <1>2, <2>1 DEF Enqueuers, Elsewhere
  <2>3. \A r \in Queues \ {q} : Enqueuers(r)' = Enqueuers(r)
    BY <1>2, <2>1 DEF Enqueuers, Elsewhere
  <2>4. /\ Cardinality(Enqueuers(q) \ {t}) = Cardinality(Enqueuers(q)) - 1
        /\ Cardinality(Enqueuers(q)) \in Nat
    BY <2>2, EnqueuersFinite, FS_RemoveElement
  <2> QED
    BY <2>2, <2>3, <2>4
<1> QED
  BY <1>1, <1>2

\* The other actions leave the set alone.
LEMMA EnqueuersSame ==
    ASSUME TypeOK, Local, NEW t \in Threads, Progress(t), ~Enqueue(t)
    PROVE  \A q \in Queues : Enqueuers(q)' = Enqueuers(q)
<1>1. Elsewhere(t)
  BY StepOfThread
<1>2. pc[t] # "enqueue" /\ pc'[t] # "enqueue"
  <2> USE DEF TypeOK
  <2>1. CASE Delegate(t) \/ PopAll(t) \/ StartJob(t) \/ EndJob(t)
    BY <2>1 DEF Delegate, ReturnFromPush, PopAll, StartJob, EndJob
  <2>2. CASE FetchSub(t) \/ ReadTick(t) \/ Handoff(t)
    BY <2>2 DEF FetchSub, ReadTick, Handoff
  <2>3. CASE EndWork(t) \/ PopGlobal(t) \/ NextTurn(t)
    BY <2>3 DEF EndWork, PopGlobal, EnterExecute, NextTurn
  <2> QED
    BY <2>1, <2>2, <2>3 DEF Progress
<1> QED
  BY <1>1, <1>2 DEF Elsewhere, Enqueuers

\* A queue whose jobs, count, enqueuers and executors stay as they are keeps
\* its count exact.
LEMMA CountKept ==
    ASSUME NEW q \in Queues, CountAt(q), jobs'[q] = jobs[q], jobCount'[q] = jobCount[q],
           Enqueuers(q)' = Enqueuers(q),
           \A t \in Threads : /\ exec'[t].queue = q <=> exec[t].queue = q
                              /\ exec[t].queue = q => exec'[t].count = exec[t].count
    PROVE  CountAt(q)'
  BY DEF CountAt

\* Two shapes of a step of the sum that CountAt states: one summand and the
\* count grow by one, or one summand grows by what another loses.
LEMMA SumSteps ==
    ASSUME NEW c \in Nat, NEW a \in Nat, NEW b \in Nat, NEW n \in Nat, c = a + b + n
    PROVE  /\ c + 1 = a + (b + 1) + n
           /\ \A b1 \in Nat : b = b1 + 1 => c = (a + 1) + b1 + n
  OBVIOUS

\* A queue with the same executors keeps its count exact in a fetch_add and in
\* the _jobs.Push that follows it.
LEMMA CountShifted ==
    ASSUME NEW q \in Queues, CountAt(q), exec' = exec,
           Len(jobs[q]) \in Nat, Cardinality(Enqueuers(q)) \in Nat, jobCount[q] \in Nat,
           Cardinality(Enqueuers(q)') \in Nat,
           \A u \in Threads : exec[u].count \in Nat,
           \/ /\ jobCount'[q] = jobCount[q] + 1 /\ jobs' = jobs
              /\ Cardinality(Enqueuers(q)') = Cardinality(Enqueuers(q)) + 1
           \/ /\ jobCount' = jobCount /\ Len(jobs'[q]) = Len(jobs[q]) + 1
              /\ Cardinality(Enqueuers(q)) = Cardinality(Enqueuers(q)') + 1
    PROVE  CountAt(q)'
<1>1. ASSUME NEW n \in Nat, jobCount[q] = Len(jobs[q]) + Cardinality(Enqueuers(q)) + n
      PROVE  jobCount'[q] = Len(jobs'[q]) + Cardinality(Enqueuers(q)') + n
  <2>1. CASE jobCount'[q] = jobCount[q] + 1 /\ jobs' = jobs
                /\ Cardinality(Enqueuers(q)') = Cardinality(Enqueuers(q)) + 1
    <3>1. jobCount[q] + 1 = Len(jobs[q]) + (Cardinality(Enqueuers(q)) + 1) + n
      <4> DEFINE c == jobCount[q]
                 a == Len(jobs[q])
                 b == Cardinality(Enqueuers(q))
      <4>1. c \in Nat /\ a \in Nat /\ b \in Nat /\ n \in Nat /\ c = a + b + n
        BY <1>1
      <4>2. c + 1 = a + (b + 1) + n
        <5> HIDE DEF a, b, c
        <5> QED
          BY <4>1
      <4> QED
        BY <4>2
    <3>2. Len(jobs'[q]) = Len(jobs[q])
      BY <2>1
    <3> QED
      BY <2>1, <3>1, <3>2
  <2>2. CASE jobCount' = jobCount /\ Len(jobs'[q]) = Len(jobs[q]) + 1
                /\ Cardinality(Enqueuers(q)) = Cardinality(Enqueuers(q)') + 1
    <3>1. jobCount[q] = (Len(jobs[q]) + 1) + Cardinality(Enqueuers(q)') + n
      BY <1>1, <2>2, SumSteps
    <3>2. jobCount'[q] = jobCount[q]
      BY <2>2
    <3> QED
      BY <2>2, <3>1, <3>2
  <2> QED
    BY <2>1, <2>2
<1>2. ASSUME NEW t \in Threads, exec'[t].queue = q
      PROVE  jobCount'[q] = Len(jobs'[q]) + Cardinality(Enqueuers(q)') + exec'[t].count
  BY <1>1, <1>2 DEF CountAt
<1>3. ASSUME \A t \in Threads : exec'[t].queue # q
      PROVE  jobCount'[q] = Len(jobs'[q]) + Cardinality(Enqueuers(q)')
  <2>1. jobCount[q] = Len(jobs[q]) + Cardinality(Enqueuers(q)) + 0
    BY <1>3 DEF CountAt
  <2>2. jobCount'[q] = Len(jobs'[q]) + Cardinality(Enqueuers(q)') + 0
    BY <1>1, <2>1
  <2>3. Len(jobs'[q]) \in Nat
    OBVIOUS
  <2> QED
    BY <2>2, <2>3
<1> QED
  BY <1>2, <1>3 DEF CountAt

\* A queue that gets its first executor, or loses its only one, with a count of
\* 0 in that executor's frame, keeps its count exact.
LEMMA CountMoved ==
    ASSUME NEW q \in Queues, NEW t \in Threads, TypeOK, CountAt(q),
           jobs'[q] = jobs[q], jobCount'[q] = jobCount[q],
           Enqueuers(q)' = Enqueuers(q),
           \A u \in Threads \ {t} : exec[u].queue # q /\ exec'[u].queue # q,
           exec[t].queue = q => exec[t].count = 0,
           exec'[t].queue = q => exec'[t].count = 0
    PROVE  CountAt(q)'
<1>1. Len(jobs[q]) \in Nat /\ Cardinality(Enqueuers(q)) \in Nat
  BY EnqueuersFinite DEF TypeOK
<1>2. jobCount[q] = Len(jobs[q]) + Cardinality(Enqueuers(q))
  <2>1. CASE exec[t].queue = q
    BY <1>1, <2>1 DEF CountAt
  <2>2. CASE exec[t].queue # q
    BY <2>2 DEF CountAt
  <2> QED
    BY <2>1, <2>2
<1>3. \A u \in Threads : exec'[u].queue = q => u = t /\ exec'[u].count = 0
  OBVIOUS
<1>4. jobCount'[q] = Len(jobs'[q]) + Cardinality(Enqueuers(q)') /\ jobCount'[q] \in Nat
  BY <1>1, <1>2
<1> QED
  BY <1>1, <1>3, <1>4 DEF CountAt

\* Each step keeps the count of every queue exact.
LEMMA CountStep == IInv /\ [Next]_vars => Count'
<1> SUFFICES ASSUME IInv, [Next]_vars, NEW q \in Queues PROVE CountAt(q)'
  BY DEF Count
<1>0. TypeOK /\ Local /\ OneRole /\ Exclusive /\ Locked /\ Count /\ CountAt(q)
  BY DEF IInv, Count
<1>1. /\ Len(jobs[q]) \in Nat /\ Cardinality(Enqueuers(q)) \in Nat /\ jobCount[q] \in Nat
      /\ Cardinality(Enqueuers(q)') \in Nat
      /\ \A u \in Threads : exec[u].count \in Nat
  <2>1. IsFiniteSet(Enqueuers(q)')
    BY ConstantsAssumption, FS_Subset DEF Enqueuers
  <2>2. Cardinality(Enqueuers(q)') \in Nat
    BY <2>1, FS_CardinalityType
  <2> QED
    BY <1>0, <2>2, EnqueuersFinite DEF TypeOK, ExecFrame
<1>2. ASSUME NEW t \in Threads, NEW r \in Queues, pc[t] \in {"base", "job"}, FetchAdd(t, r)
      PROVE  CountAt(q)'
  <2>1. exec' = exec /\ jobs' = jobs
    BY <1>2 DEF FetchAdd
  <2>2. CASE r = q
    <3>1. jobCount'[q] = jobCount[q] + 1 /\ Cardinality(Enqueuers(q)') = Cardinality(Enqueuers(q)) + 1
      BY <1>0, <1>2, <2>2, EnqueuersStep DEF FetchAdd, TypeOK
    <3> QED
      BY <1>0, <1>1, <2>1, <3>1, CountShifted
  <2>3. CASE r # q
    <3>1. jobCount'[q] = jobCount[q] /\ Enqueuers(q)' = Enqueuers(q)
      BY <1>0, <1>2, <2>3, EnqueuersStep DEF FetchAdd, TypeOK
    <3> QED
      BY <1>0, <2>1, <3>1, CountKept
  <2> QED
    BY <2>2, <2>3
<1>3. ASSUME NEW t \in Threads, PushFromLoop(t) \/ PushFromJob(t) PROVE CountAt(q)'
  BY <1>2, <1>3 DEF PushFromLoop, PushFromJob
<1>4. ASSUME NEW t \in Threads, Progress(t)
      PROVE  Elsewhere(t) /\ (~Enqueue(t) => Enqueuers(q)' = Enqueuers(q))
  BY <1>0, <1>4, StepOfThread, EnqueuersSame
<1>5. ASSUME NEW t \in Threads, Enqueue(t) PROVE CountAt(q)'
  <2>0. Elsewhere(t) /\ jobCount' = jobCount
    BY <1>4, <1>5 DEF Progress, Enqueue
  <2>1. CASE push[t].queue = q
    <3>1. Len(jobs'[q]) = Len(jobs[q]) + 1
      <4>1. jobs'[q] = Append(jobs[q], push[t].job) /\ jobs[q] \in Seq(Jobs) /\ push[t].job \in Jobs
        BY <1>0, <1>5, <2>1 DEF Enqueue, LockQueuePush, TypeOK, Local, ThreadOK, InPush
      <4> QED
        BY <4>1
    <3>2. Cardinality(Enqueuers(q)) = Cardinality(Enqueuers(q)') + 1
      BY <1>0, <1>5, <2>1, EnqueuersStep
    <3>3. CASE exec' = exec
      BY <1>0, <1>1, <2>0, <3>1, <3>2, <3>3, CountShifted
    <3>4. CASE push[t].first /\ LCurrentJobQueue[t] = NoQueue
      <4>1. exec'[t].queue = q /\ exec'[t].count = 0
        BY <1>0, <1>5, <2>1, <3>4 DEF Enqueue, EnterExecute, TypeOK
      <4>2. \A u \in Threads : exec[u].queue # q
        BY <1>0, <2>1, <3>4 DEF Exclusive, OneRole, Owns
      <4>3. \A u \in Threads : exec'[u].queue = q => u = t
        BY <2>0, <4>2 DEF Elsewhere
      <4>4. jobCount'[q] = Len(jobs'[q]) + Cardinality(Enqueuers(q)') + 0
        BY <1>0, <1>1, <2>0, <3>1, <3>2, <4>2 DEF CountAt
      <4> QED
        BY <4>1, <4>3, <4>4 DEF CountAt
    <3> QED
      BY <1>0, <1>5, <3>3, <3>4, EnqueueFrames
  <2>2. CASE push[t].queue # q
    <3>1. push[t].queue \in Queues
      BY <1>0, <1>5, EnqueueFrames
    <3>2. jobs'[q] = jobs[q] /\ Enqueuers(q)' = Enqueuers(q)
      BY <1>0, <1>5, <2>2, <3>1, EnqueuersStep DEF Enqueue, TypeOK
    <3>3. exec' = exec \/ (exec[t].queue # q /\ exec'[t].queue # q)
      BY <1>0, <1>5, <2>2, EnqueueFrames, QueueFacts
    <3> QED
      BY <1>0, <2>0, <3>2, <3>3, CountKept DEF Elsewhere
  <2> QED
    BY <2>1, <2>2
<1>6. ASSUME NEW t \in Threads, Delegate(t) \/ StartJob(t) \/ ReadTick(t) \/ EndWork(t) \/ NextTurn(t)
      PROVE  CountAt(q)'
  <2>1. Enqueuers(q)' = Enqueuers(q)
    BY <1>4, <1>6 DEF Progress, Enqueue, Delegate, StartJob, ReadTick, EndWork, NextTurn
  <2>2. exec' = exec /\ jobs' = jobs /\ jobCount' = jobCount
    BY <1>6 DEF Delegate, StartJob, ReadTick, EndWork, NextTurn
  <2> QED
    BY <1>0, <2>1, <2>2, CountKept
<1>7. ASSUME NEW t \in Threads, EndJob(t) PROVE CountAt(q)'
  <2>1. Enqueuers(q)' = Enqueuers(q)
    BY <1>4, <1>7 DEF Progress, Enqueue, EndJob
  <2>2. \A u \in Threads : exec'[u].queue = exec[u].queue /\ exec'[u].count = exec[u].count
    BY <1>0, <1>7 DEF EndJob, TypeOK, ExecFrame
  <2>3. jobs' = jobs /\ jobCount' = jobCount
    BY <1>7 DEF EndJob
  <2> QED
    BY <1>0, <2>1, <2>2, <2>3, CountKept
<1>8. ASSUME NEW t \in Threads, PopAll(t) PROVE CountAt(q)'
  <2>1. Elsewhere(t) /\ Enqueuers(q)' = Enqueuers(q) /\ jobCount' = jobCount
    BY <1>4, <1>8 DEF Progress, Enqueue, PopAll
  <2>2. /\ exec[t].count = 0 /\ exec[t].queue \in Queues
        /\ exec'[t].queue = exec[t].queue /\ exec'[t].count = Len(jobs[exec[t].queue])
    BY <1>0, <1>8 DEF PopAll, Local, ThreadOK, InLoop, TypeOK, ExecFrame
  <2>3. CASE exec[t].queue = q
    <3>1. \A u \in Threads \ {t} : exec[u].queue # q
      BY <1>0, <2>3 DEF Exclusive, Owns
    <3>2. jobs'[q] = <<>>
      BY <1>0, <1>8, <2>3 DEF PopAll, TypeOK
    <3>3. jobCount[q] = Len(jobs[q]) + Cardinality(Enqueuers(q)) + 0
      BY <1>0, <2>2, <2>3 DEF CountAt
    <3>4. jobCount'[q] = Len(jobs'[q]) + Cardinality(Enqueuers(q)') + exec'[t].count
      BY <1>1, <2>1, <2>2, <2>3, <3>2, <3>3
    <3>5. \A u \in Threads : exec'[u].queue = q => u = t
      BY <2>1, <3>1 DEF Elsewhere
    <3> QED
      BY <2>2, <2>3, <3>4, <3>5 DEF CountAt
  <2>4. CASE exec[t].queue # q
    <3>1. jobs'[q] = jobs[q]
      BY <1>0, <1>8, <2>4 DEF PopAll, TypeOK
    <3> QED
      BY <1>0, <2>1, <2>2, <2>4, <3>1, CountKept DEF Elsewhere
  <2> QED
    BY <2>3, <2>4
<1>9. ASSUME NEW t \in Threads, FetchSub(t) PROVE CountAt(q)'
  <2>1. Elsewhere(t) /\ Enqueuers(q)' = Enqueuers(q) /\ jobs' = jobs
    BY <1>4, <1>9 DEF Progress, Enqueue, FetchSub
  <2>2. exec[t].queue \in Queues
    BY <1>0, <1>9 DEF FetchSub, Local, ThreadOK, InLoop, TypeOK, ExecFrame
  <2>3. exec'[t].count = 0 /\ exec'[t].queue \in {exec[t].queue, NoQueue}
    BY <1>0, <1>9 DEF FetchSub, NoExec, TypeOK, ExecFrame
  <2>4. CASE exec[t].queue = q
    <3>1. \A u \in Threads : exec'[u].queue = q => u = t
      BY <1>0, <2>1, <2>4 DEF Exclusive, Owns, Elsewhere
    <3>2. jobCount'[q] = jobCount[q] - exec[t].count
      BY <1>0, <1>9, <2>4 DEF FetchSub, Taken, TypeOK
    <3>3. jobCount[q] = Len(jobs[q]) + Cardinality(Enqueuers(q)) + exec[t].count
      BY <1>0, <2>4 DEF CountAt
    <3>4. jobCount'[q] = Len(jobs'[q]) + Cardinality(Enqueuers(q)')
      BY <1>1, <2>1, <3>2, <3>3
    <3>5. jobCount'[q] = Len(jobs'[q]) + Cardinality(Enqueuers(q)') + exec'[t].count
      BY <1>1, <2>1, <2>3, <3>4
    <3> QED
      BY <3>1, <3>4, <3>5 DEF CountAt
  <2>5. CASE exec[t].queue # q
    <3>1. jobCount'[q] = jobCount[q]
      BY <1>0, <1>9, <2>5 DEF FetchSub, TypeOK
    <3> QED
      BY <1>0, <2>1, <2>3, <2>5, <3>1, QueueFacts, CountKept DEF Elsewhere
  <2> QED
    BY <2>4, <2>5
<1>10. ASSUME NEW t \in Threads, Handoff(t) PROVE CountAt(q)'
  <2>1. /\ Elsewhere(t) /\ Enqueuers(q)' = Enqueuers(q)
        /\ jobs'[q] = jobs[q] /\ jobCount'[q] = jobCount[q]
    BY <1>4, <1>10 DEF Progress, Enqueue, Handoff
  <2>2. exec[t].count = 0 /\ exec'[t].queue = NoQueue
    BY <1>0, <1>10 DEF Handoff, Local, ThreadOK, TypeOK, NoExec
  <2>3. CASE exec[t].queue = q
    <3>1. \A u \in Threads \ {t} : exec[u].queue # q /\ exec'[u].queue # q
      BY <1>0, <2>1, <2>3 DEF Exclusive, Owns, Elsewhere
    <3> QED
      BY <1>0, <2>1, <2>2, <3>1, QueueFacts, CountMoved
  <2>4. CASE exec[t].queue # q
    BY <1>0, <2>1, <2>2, <2>4, QueueFacts, CountKept DEF Elsewhere
  <2> QED
    BY <2>3, <2>4
<1>11. ASSUME NEW t \in Threads, PopGlobal(t) PROVE CountAt(q)'
  <2>1. /\ Elsewhere(t) /\ Enqueuers(q)' = Enqueuers(q)
        /\ jobs'[q] = jobs[q] /\ jobCount'[q] = jobCount[q]
    BY <1>4, <1>11 DEF Progress, Enqueue, PopGlobal
  <2>2. /\ exec[t].queue = NoQueue /\ exec'[t].count = 0
        /\ exec'[t].queue = Head(globalQueue[ThreadType(t)])
        /\ globalQueue[ThreadType(t)] # <<>> /\ globalQueue[ThreadType(t)] \in Seq(Queues)
    BY <1>0, <1>11, QueueFacts DEF PopGlobal, EnterExecute, Local, ThreadOK, TypeOK
  <2>3. CASE exec'[t].queue = q
    <3>1. Listed(ThreadType(t), 1, q)
      BY <2>2, <2>3 DEF Listed
    <3>2. \A u \in Threads : exec[u].queue # q
      BY <1>0, <3>1, QueueFacts DEF Exclusive, Owns
    <3> QED
      BY <1>0, <2>1, <2>2, <3>2, CountMoved DEF Elsewhere
  <2>4. CASE exec'[t].queue # q
    BY <1>0, <2>1, <2>2, <2>4, QueueFacts, CountKept DEF Elsewhere
  <2> QED
    BY <2>3, <2>4
<1>12. CASE UNCHANGED vars
  BY <1>0, <1>12, CountKept DEF vars, Enqueuers
<1> QED
  BY <1>3, <1>5, <1>6, <1>7, <1>8, <1>9, <1>10, <1>11, <1>12 DEF Next, Progress

-----------------------------------------------------------------------------
(* The theorems *)

\* The invariant holds in every reachable state of the scheduler.
THEOREM Inductive == Spec => []IInv
<1>1. Init => IInv
  BY InitIInv
<1>2. IInv /\ [Next]_vars => IInv'
  BY TypeStep, LocalStep, OneRoleStep, OwnershipStep, CountStep DEF IInv
<1> QED
  BY <1>1, <1>2, PTL DEF Spec

\* Every variable keeps its type; in particular _jobCount never goes below 0.
THEOREM TypeCorrect == Spec => []TypeOK
<1>1. IInv => TypeOK
  BY DEF IInv
<1> QED
  BY <1>1, Inductive, PTL

\* No JobQueue is ever executed by two threads at a time.
THEOREM SerialExecutionHolds == Spec => []SerialExecution
<1>1. IInv => SerialExecution
  <2> SUFFICES ASSUME IInv, NEW t \in Threads, NEW u \in Threads, t # u, exec[t].queue # NoQueue,
                      exec[t].queue = exec[u].queue
               PROVE  FALSE
    BY DEF SerialExecution
  <2>1. exec[t].queue \in Queues
    BY DEF IInv, TypeOK, ExecFrame
  <2> QED
    BY <2>1 DEF IInv, Exclusive, Owns
<1> QED
  BY <1>1, Inductive, PTL

\* A set with at most one element has one if it has any.
LEMMA AtMostOne ==
    ASSUME NEW S, \A x, y \in S : x = y
    PROVE  IsFiniteSet(S) /\ Cardinality(S) = IF S = {} THEN 0 ELSE 1
<1>1. CASE S = {}
  BY <1>1, FS_EmptySet
<1>2. CASE S # {}
  <2>1. PICK x : S = {x}
    BY <1>2
  <2> QED
    BY <1>2, <2>1, FS_Singleton
<1> QED
  BY <1>1, <1>2

\* A JobQueue with jobs has exactly one owner, one without has none: it is
\* neither stranded nor scheduled twice.
THEOREM OneOwnerHolds == Spec => []OneOwner
<1>1. IInv => OneOwner
  <2> SUFFICES ASSUME IInv, NEW q \in Queues
               PROVE  Cardinality(Executors(q)) + Cardinality(FirstPushers(q))
                        + Cardinality(Entries("LOGIC", q)) + Cardinality(Entries("DB", q))
                        = IF jobCount[q] = 0 THEN 0 ELSE 1
    BY DEF OneOwner
  <2> DEFINE X == Executors(q)
             P == FirstPushers(q)
             L == Entries("LOGIC", q)
             D == Entries("DB", q)
  <2>1. \A t \in X : t \in Threads /\ Owns(t, q)
    BY DEF Executors, Owns
  <2>2. \A t \in P : t \in Threads /\ Owns(t, q)
    BY DEF FirstPushers, Owns
  <2>3. \A i \in L : i \in Nat /\ Listed("LOGIC", i, q)
    BY DEF Entries, Listed, IInv, TypeOK, THREAD_TYPE
  <2>4. \A i \in D : i \in Nat /\ Listed("DB", i, q)
    BY DEF Entries, Listed, IInv, TypeOK, THREAD_TYPE
  <2>5. X \cap P = {}
    BY DEF Executors, FirstPushers, IInv, OneRole
  <2>6. HasOwner(q) <=> X # {} \/ P # {} \/ L # {} \/ D # {}
    BY <2>1, <2>2, <2>3, <2>4
    DEF HasOwner, Owns, Listed, Executors, FirstPushers, Entries, THREAD_TYPE
  <2>7. /\ \A t, u \in X : t = u
        /\ \A t, u \in P : t = u
        /\ \A i, j \in L : i = j
        /\ \A i, j \in D : i = j
    BY <2>1, <2>2, <2>3, <2>4 DEF IInv, Exclusive, THREAD_TYPE
  <2>8. /\ X # {} => P = {} /\ L = {} /\ D = {}
        /\ P # {} => L = {} /\ D = {}
        /\ L # {} => D = {}
    BY <2>1, <2>2, <2>3, <2>4, <2>5 DEF IInv, Exclusive, THREAD_TYPE
  <2>9. HasOwner(q) <=> jobCount[q] # 0
    BY DEF IInv, Locked
  <2>10. /\ Cardinality(X) = IF X = {} THEN 0 ELSE 1
         /\ Cardinality(P) = IF P = {} THEN 0 ELSE 1
         /\ Cardinality(L) = IF L = {} THEN 0 ELSE 1
         /\ Cardinality(D) = IF D = {} THEN 0 ELSE 1
    <3> HIDE DEF X, P, L, D
    <3> QED
      BY <2>7, AtMostOne
  <2> HIDE DEF X, P, L, D
  <2>11. Cardinality(X) + Cardinality(P) + Cardinality(L) + Cardinality(D)
           = IF jobCount[q] = 0 THEN 0 ELSE 1
    BY <2>6, <2>8, <2>9, <2>10
  <2> QED
    BY <2>11 DEF X, P, L, D
<1> QED
  BY <1>1, Inductive, PTL

\* _jobCount always is the number of jobs that are queued, on their way into
\* the queue, or taken and not yet subtracted.
THEOREM CountAccurateHolds == Spec => []CountAccurate
<1>1. IInv => CountAccurate
  <2> SUFFICES ASSUME IInv, NEW q \in Queues
               PROVE  /\ Cardinality(Executors(q)) <= 1
                      /\ jobCount[q] = Len(jobs[q]) + Cardinality(Enqueuers(q))
                            + (IF Executors(q) = {} THEN 0
                               ELSE exec[CHOOSE t \in Executors(q) : TRUE].count)
    BY DEF CountAccurate
  <2>1. \A t, u \in Executors(q) : t = u
    BY DEF IInv, Exclusive, Executors, Owns
  <2>2. Cardinality(Executors(q)) <= 1
    BY <2>1, AtMostOne
  <2>3. CountAt(q)
    BY DEF IInv, Count
  <2>4. CASE Executors(q) = {}
    <3>1. jobCount[q] = Len(jobs[q]) + Cardinality(Enqueuers(q))
      BY <2>3, <2>4 DEF CountAt, Executors
    <3>2. Len(jobs[q]) \in Nat /\ Cardinality(Enqueuers(q)) \in Nat
      BY EnqueuersFinite DEF IInv, TypeOK
    <3> QED
      BY <2>2, <2>4, <3>1, <3>2
  <2>5. CASE Executors(q) # {}
    <3>1. PICK t \in Executors(q) : t = CHOOSE u \in Executors(q) : TRUE
      BY <2>5
    <3>2. jobCount[q] = Len(jobs[q]) + Cardinality(Enqueuers(q)) + exec[t].count
      BY <2>3, <3>1 DEF CountAt, Executors
    <3> QED
      BY <2>2, <2>5, <3>1, <3>2
  <2> QED
    BY <2>4, <2>5
<1> QED
  BY <1>1, Inductive, PTL

-----------------------------------------------------------------------------
(* Thread types *)

\* Each list of GGlobalQueue only holds queues of its type, every frame carries
\* the type of its queue, and a DB thread pushes only from inside a DB job.
Typed ==
    /\ \A type \in THREAD_TYPE, i \in Nat, q \in Queues : Listed(type, i, q) => TypeOf(q) = type
    /\ \A t \in Threads :
          /\ push[t].queue # NoQueue => push[t].type = TypeOf(push[t].queue)
          /\ exec[t].queue # NoQueue => exec[t].type = TypeOf(exec[t].queue)
    /\ \A t \in DBThreads :
          /\ phase[t] = "global"
          /\ exec[t].queue # NoQueue => TypeOf(exec[t].queue) = "DB"
          /\ InPush(t) => exec[t].queue # NoQueue

\* No DB thread ever executes a queue of type LOGIC.
THEOREM LogicStaysOnLogicThreadsHolds == Spec => []LogicStaysOnLogicThreads
<1>1. Init => Typed
  BY QueueFacts DEF Init, Typed, Listed, InPush, NoPush, NoExec, FirstPhase, Threads
<1>2. IInv /\ Typed /\ [Next]_vars => Typed'
  <2> SUFFICES ASSUME TypeOK, Local, Typed, [Next]_vars PROVE Typed'
    BY DEF IInv
  <2>1. ASSUME NEW t \in Threads, NEW type \in THREAD_TYPE, NEW q \in Queues, TypeOf(q) = type,
               globalQueue' = [globalQueue EXCEPT ![type] = Append(@, q)]
        PROVE  \A ty \in THREAD_TYPE, i \in Nat, r \in Queues : Listed(ty, i, r)' => TypeOf(r) = ty
    BY <2>1 DEF Typed, Listed, TypeOK
  <2>2. ASSUME NEW t \in Threads, PushFromLoop(t) PROVE Typed'
    <3>1. t \notin DBThreads
      BY <2>2 DEF PushFromLoop, Typed
    <3> QED
      <4>1. PICK q \in Queues : FetchAdd(t, q)
        BY <2>2 DEF PushFromLoop
      <4>2. /\ push'[t].queue = q /\ push'[t].type = TypeOf(q)
            /\ \A u \in Threads \ {t} : push'[u] = push[u]
            /\ globalQueue' = globalQueue /\ phase' = phase /\ exec' = exec
            /\ \A u \in Threads \ {t} : InPush(u)' <=> InPush(u)
        BY <4>1 DEF FetchAdd, InPush, TypeOK
      <4> QED
        BY <3>1, <4>2 DEF Typed, Listed, Threads
  <2>3. ASSUME NEW t \in Threads, PushFromJob(t) PROVE Typed'
    <3>1. exec[t].queue # NoQueue
      BY <2>3 DEF PushFromJob, Local, ThreadOK, InLoop
    <3> QED
      <4>1. PICK q \in Queues : FetchAdd(t, q)
        BY <2>3 DEF PushFromJob
      <4>2. /\ push'[t].queue = q /\ push'[t].type = TypeOf(q)
            /\ \A u \in Threads \ {t} : push'[u] = push[u]
            /\ globalQueue' = globalQueue /\ phase' = phase /\ exec' = exec
            /\ \A u \in Threads \ {t} : InPush(u)' <=> InPush(u)
        BY <4>1 DEF FetchAdd, InPush, TypeOK
      <4> QED
        BY <3>1, <4>2 DEF Typed, Listed, Threads
  <2>4. ASSUME NEW t \in Threads, Enqueue(t) PROVE Typed'
    <3>1. /\ push[t].queue \in Queues /\ push[t].type = TypeOf(push[t].queue)
          /\ exec[t].queue = LCurrentJobQueue[t] /\ (t \in DBThreads => exec[t].queue # NoQueue)
      BY <2>4 DEF Enqueue, Local, ThreadOK, InPush, TypeOK, PushFrame, Typed
    <3>2. globalQueue' = globalQueue /\ phase' = phase
      BY <2>4 DEF Enqueue
    <3>3. CASE ~push[t].first
      <4>1. /\ push'[t].queue = NoQueue /\ ~InPush(t)' /\ exec' = exec
            /\ \A u \in Threads \ {t} : push'[u] = push[u] /\ (InPush(u)' <=> InPush(u))
        BY <2>4, <3>1, <3>3 DEF Enqueue, ReturnFromPush, NoPush, InPush, TypeOK
      <4> QED
        BY <3>2, <4>1 DEF Typed, Listed, Threads
    <3>4. CASE push[t].first /\ LCurrentJobQueue[t] = NoQueue
      <4>1. /\ push'[t].queue = NoQueue /\ ~InPush(t)' /\ t \notin DBThreads
            /\ exec'[t].queue = push[t].queue /\ exec'[t].type = push[t].type
            /\ \A u \in Threads \ {t} : /\ push'[u] = push[u] /\ exec'[u] = exec[u]
                                        /\ InPush(u)' <=> InPush(u)
        BY <2>4, <3>1, <3>4 DEF Enqueue, EnterExecute, NoPush, InPush, TypeOK
      <4> QED
        BY <3>1, <3>2, <4>1 DEF Typed, Listed, Threads
    <3>5. CASE push[t].first /\ LCurrentJobQueue[t] # NoQueue
      <4>1. /\ push' = push /\ exec' = exec
            /\ \A u \in Threads \ {t} : InPush(u)' <=> InPush(u)
        BY <2>4, <3>1, <3>5 DEF Enqueue, InPush, TypeOK
      <4> QED
        BY <3>1, <3>2, <4>1 DEF Typed, Listed, Threads
    <3> QED
      BY <3>3, <3>4, <3>5
  <2>5. ASSUME NEW t \in Threads, Delegate(t) PROVE Typed'
    <3>1. /\ push[t].queue \in Queues /\ push[t].type \in THREAD_TYPE
          /\ TypeOf(push[t].queue) = push[t].type
      BY <2>5 DEF Delegate, Local, ThreadOK, InPush, TypeOK, PushFrame, Typed
    <3>2. \A ty \in THREAD_TYPE, i \in Nat, r \in Queues : Listed(ty, i, r)' => TypeOf(r) = ty
      BY <2>1, <2>5, <3>1 DEF Delegate, LockQueuePush
    <3> QED
      <4>1. /\ push'[t].queue = NoQueue /\ ~InPush(t)' /\ exec' = exec /\ phase' = phase
            /\ \A u \in Threads \ {t} : push'[u] = push[u] /\ (InPush(u)' <=> InPush(u))
        BY <2>5 DEF Delegate, ReturnFromPush, NoPush, InPush, TypeOK
      <4> QED
        BY <3>2, <4>1 DEF Typed, Threads
  <2>6. ASSUME NEW t \in Threads, PopAll(t) \/ EndJob(t) PROVE Typed'
    <3>1. /\ globalQueue' = globalQueue /\ phase' = phase /\ push' = push
          /\ \A u \in Threads : exec'[u].queue = exec[u].queue /\ exec'[u].type = exec[u].type
          /\ \A u \in Threads : InPush(u)' => InPush(u)
      <4>1. CASE PopAll(t)
        BY <4>1 DEF PopAll, TypeOK, ExecFrame, InPush
      <4>2. CASE EndJob(t)
        BY <4>2 DEF EndJob, TypeOK, ExecFrame, InPush
      <4> QED
        BY <2>6, <4>1, <4>2
    <3> QED
      BY <3>1 DEF Typed, Listed, Threads
  <2>7. ASSUME NEW t \in Threads, FetchSub(t) PROVE Typed'
    <3>1. /\ globalQueue' = globalQueue /\ phase' = phase /\ push' = push
          /\ \A u \in Threads \ {t} : exec'[u] = exec[u]
          /\ exec'[t].queue = NoQueue \/ (exec'[t].queue = exec[t].queue /\ exec'[t].type = exec[t].type)
          /\ \A u \in Threads : InPush(u)' => InPush(u)
          /\ ~InPush(t)'
      BY <2>7 DEF FetchSub, NoExec, TypeOK, ExecFrame, InPush
    <3> QED
      BY <3>1 DEF Typed, Listed, Threads
  <2>8. ASSUME NEW t \in Threads, Handoff(t) PROVE Typed'
    <3>1. /\ exec[t].queue \in Queues /\ exec[t].type \in THREAD_TYPE
          /\ TypeOf(exec[t].queue) = exec[t].type
      BY <2>8 DEF Handoff, Local, ThreadOK, TypeOK, ExecFrame, Typed
    <3>2. \A ty \in THREAD_TYPE, i \in Nat, r \in Queues : Listed(ty, i, r)' => TypeOf(r) = ty
      BY <2>1, <2>8, <3>1 DEF Handoff, LockQueuePush
    <3> QED
      <4>1. /\ exec'[t].queue = NoQueue /\ ~InPush(t)' /\ push' = push /\ phase' = phase
            /\ \A u \in Threads \ {t} : exec'[u] = exec[u] /\ (InPush(u)' <=> InPush(u))
        BY <2>8 DEF Handoff, NoExec, InPush, TypeOK
      <4> QED
        BY <3>2, <4>1 DEF Typed, Threads
  <2>9. ASSUME NEW t \in Threads, PopGlobal(t) PROVE Typed'
    <3>1. PICK type \in THREAD_TYPE : type = ThreadType(t)
      BY QueueFacts
    <3>2. globalQueue[type] # <<>> /\ globalQueue[type] \in Seq(Queues)
      BY <2>9, <3>1 DEF PopGlobal, TypeOK
    <3>3. PICK q \in Queues : q = Head(globalQueue[type])
      BY <3>2
    <3>4. TypeOf(q) = type
      BY <3>2, <3>3 DEF Typed, Listed
    <3>5. \A ty \in THREAD_TYPE, i \in Nat, r \in Queues : Listed(ty, i, r)' => TypeOf(r) = ty
      <4>1. globalQueue' = [globalQueue EXCEPT ![type] = Tail(@)]
        BY <2>9, <3>1 DEF PopGlobal
      <4>2. \A i \in Nat, r \in Queues : Listed(type, i, r)' => Listed(type, i + 1, r)
        BY <3>2, <4>1 DEF Listed, TypeOK
      <4>3. \A ty \in THREAD_TYPE \ {type}, i \in Nat, r \in Queues :
               Listed(ty, i, r)' => Listed(ty, i, r)
        BY <4>1 DEF Listed, TypeOK
      <4> QED
        BY <4>2, <4>3 DEF Typed
    <3>6. /\ exec'[t].queue = q /\ exec'[t].type = type
          /\ \A u \in Threads \ {t} : exec'[u] = exec[u]
          /\ push' = push /\ phase' = phase
          /\ \A u \in Threads : InPush(u)' => InPush(u) /\ u # t
      BY <2>9, <3>1, <3>3 DEF PopGlobal, EnterExecute, TypeOK, InPush
    <3>7. t \in DBThreads => type = "DB"
      BY <3>1 DEF ThreadType
    <3> QED
      BY <3>3, <3>4, <3>5, <3>6, <3>7 DEF Typed, Threads
  <2>10. ASSUME NEW t \in Threads, StartJob(t) \/ ReadTick(t) \/ EndWork(t) \/ NextTurn(t)
         PROVE  Typed'
    <3>1. /\ globalQueue' = globalQueue /\ push' = push /\ exec' = exec
          /\ \A u \in Threads : InPush(u)' => InPush(u)
          /\ \A u \in DBThreads : phase'[u] = "global"
      BY <2>10 DEF StartJob, ReadTick, EndWork, NextTurn, FirstPhase, TypeOK, InPush, Typed, Threads
    <3> QED
      BY <3>1 DEF Typed, Listed, Threads
  <2>11. CASE UNCHANGED vars
    BY <2>11 DEF vars, Typed, Listed, InPush
  <2> QED
    BY <2>2, <2>3, <2>4, <2>5, <2>6, <2>7, <2>8, <2>9, <2>10, <2>11 DEF Next, Progress
<1>3. Typed => LogicStaysOnLogicThreads
  BY ConstantsAssumption DEF Typed, LogicStaysOnLogicThreads, TypeOf, Queues
<1> QED
  BY <1>1, <1>2, <1>3, Inductive, PTL DEF Spec

-----------------------------------------------------------------------------
(* The scheduler implements SerialExecutor *)

\* A job that is in a queue, was taken by an Execute or has run.
Placed(j) ==
    \/ j \in done
    \/ \E q \in Queues : j \in Range(jobs[q])
    \/ \E t \in Threads : j \in Range(exec[t].batch)

\* A job on its way into a queue is nowhere else.
Fresh ==
    /\ \A j \in Jobs : Placed(j) => j \in submitted
    /\ \A t \in Threads : pc[t] = "enqueue" => push[t].job \in submitted /\ ~Placed(push[t].job)
    /\ \A t, u \in Threads :
          pc[t] = "enqueue" /\ pc[u] = "enqueue" /\ push[t].job = push[u].job => t = u

\* PopAll is called, and Execute left, with every job taken before run.
Idle(t) == pc[t] \in {"popall", "tick", "handoff"} \/ exec[t].queue = NoQueue
Drained == \A t \in Threads : Idle(t) => exec[t].batch = <<>>

\* The types of what a thread holds.
LEMMA FramesOf ==
    ASSUME TypeOK, NEW t \in Threads
    PROVE  /\ exec[t] \in ExecFrame /\ exec[t].batch \in Seq(Jobs)
           /\ exec[t].queue \in Queues \cup {NoQueue}
           /\ push[t] \in PushFrame /\ push[t].queue \in Queues \cup {NoQueue}
           /\ pc[t] \in PCs
  BY DEF TypeOK, ExecFrame, PushFrame

\* A step that takes jobs away from the queues and batches at most.
LEMMA PlacedLess ==
    ASSUME done' = done, jobs' = jobs,
           \A u \in Threads : exec'[u].batch = exec[u].batch \/ exec'[u].batch = <<>>,
           NEW j, Placed(j)'
    PROVE  Placed(j)
  BY EmptyRange DEF Placed

\* The jobs that other threads are about to queue stay as new as they were.
LEMMA FreshKept ==
    ASSUME Fresh, NEW t \in Threads, Elsewhere(t), submitted' = submitted, pc'[t] # "enqueue",
           \A j : Placed(j)' => Placed(j)
    PROVE  Fresh'
<1>1. \A u \in Threads : pc'[u] = "enqueue" => pc[u] = "enqueue" /\ push'[u] = push[u]
  BY DEF Elsewhere
<1>2. ASSUME NEW u \in Threads, pc'[u] = "enqueue"
      PROVE  push'[u].job \in submitted' /\ ~Placed(push[u].job)'
  <2>1. PICK j : j = push'[u].job
    OBVIOUS
  <2>2. j \in submitted /\ ~Placed(j)
    BY <1>1, <1>2, <2>1 DEF Fresh
  <2>3. ~Placed(j)'
    BY <2>2
  <2> QED
    BY <2>1, <2>2, <2>3 DEF Placed
<1>3. \A j \in Jobs : Placed(j)' => j \in submitted'
  BY DEF Fresh
<1>4. \A u, v \in Threads :
         pc'[u] = "enqueue" /\ pc'[v] = "enqueue" /\ push'[u].job = push'[v].job => u = v
  BY <1>1 DEF Fresh
<1> QED
  BY <1>2, <1>3, <1>4 DEF Fresh, Placed

\* No two threads queue the same job, and none queues a job again.
LEMMA FreshStep == IInv /\ Fresh /\ [Next]_vars => Fresh'
<1> SUFFICES ASSUME IInv, TypeOK, Fresh, [Next]_vars PROVE Fresh'
  BY DEF IInv
<1>1. ASSUME NEW t \in Threads, PushFromLoop(t) \/ PushFromJob(t) PROVE Fresh'
  <2>1. PICK j \in Jobs \ submitted :
           /\ submitted' = submitted \cup {j} /\ push'[t].job = j /\ pc'[t] = "enqueue"
           /\ jobs' = jobs /\ exec' = exec /\ done' = done
    BY <1>1 DEF PushFromLoop, PushFromJob, FetchAdd, TypeOK
  <2>2. \A x : Placed(x)' <=> Placed(x)
    BY <2>1 DEF Placed
  <2>3. Elsewhere(t)
    BY <1>1, StepOfThread
  <2>4. ~Placed(j)
    BY <2>1 DEF Fresh
  <2>5. ASSUME NEW u \in Threads, pc'[u] = "enqueue"
        PROVE  push'[u].job \in submitted' /\ ~Placed(push[u].job)'
    <3>1. PICK x : x = push'[u].job
      OBVIOUS
    <3>2. x \in submitted' /\ ~Placed(x)
      BY <2>1, <2>3, <2>4, <2>5, <3>1 DEF Fresh, Elsewhere
    <3>3. ~Placed(x)'
      BY <2>2, <3>2
    <3> QED
      BY <3>1, <3>2, <3>3 DEF Placed
  <2>6. \A u, v \in Threads :
           pc'[u] = "enqueue" /\ pc'[v] = "enqueue" /\ push'[u].job = push'[v].job => u = v
    <3>1. \A u \in Threads \ {t} : pc'[u] = "enqueue" => push'[u].job # j
      BY <2>1, <2>3 DEF Fresh, Elsewhere
    <3> QED
      BY <2>1, <2>3, <3>1 DEF Fresh, Elsewhere
  <2>7. \A x \in Jobs : Placed(x)' => x \in submitted'
    BY <2>1, <2>2 DEF Fresh
  <2> QED
    BY <2>5, <2>6, <2>7 DEF Fresh, Placed
<1>2. ASSUME NEW t \in Threads, Enqueue(t) PROVE Fresh'
  <2>1. PICK q, j : q = push[t].queue /\ j = push[t].job
    OBVIOUS
  <2>2. q \in Queues /\ j \in Jobs /\ pc[t] = "enqueue"
    BY <1>2, <2>1, FramesOf DEF Enqueue, IInv, Local, ThreadOK, InPush
  <2>3. /\ jobs' = [jobs EXCEPT ![q] = Append(jobs[q], j)] /\ done' = done /\ submitted' = submitted
        /\ pc'[t] # "enqueue"
        /\ \A u \in Threads : exec'[u].batch = exec[u].batch \/ exec'[u].batch = <<>>
    BY <1>2, <2>1 DEF Enqueue, LockQueuePush, ReturnFromPush, EnterExecute, TypeOK
  <2>4. Range(jobs'[q]) = Range(jobs[q]) \cup {j} /\ \A p \in Queues \ {q} : jobs'[p] = jobs[p]
    BY <2>2, <2>3, RangeAppend DEF TypeOK
  <2>5. ASSUME NEW x, Placed(x)' PROVE Placed(x) \/ x = j
    BY <2>3, <2>4, <2>5, EmptyRange DEF Placed
  <2>6. Elsewhere(t)
    BY <1>2, StepOfThread DEF Progress
  <2>7. \A u \in Threads : pc'[u] = "enqueue" => pc[u] = "enqueue" /\ push'[u] = push[u] /\ u # t
    BY <2>3, <2>6 DEF Elsewhere
  <2>8. ASSUME NEW u \in Threads, pc'[u] = "enqueue"
        PROVE  push'[u].job \in submitted' /\ ~Placed(push[u].job)'
    <3>1. PICK x : x = push'[u].job
      OBVIOUS
    <3>2. x \in submitted /\ ~Placed(x) /\ x # j
      BY <2>1, <2>2, <2>7, <2>8, <3>1 DEF Fresh
    <3>3. ~Placed(x)'
      BY <2>5, <3>2
    <3> QED
      BY <2>3, <3>1, <3>2, <3>3 DEF Placed
  <2>9. \A x \in Jobs : Placed(x)' => x \in submitted'
    BY <2>1, <2>2, <2>3, <2>5 DEF Fresh
  <2>10. \A u, v \in Threads :
            pc'[u] = "enqueue" /\ pc'[v] = "enqueue" /\ push'[u].job = push'[v].job => u = v
    BY <2>7 DEF Fresh
  <2> QED
    BY <2>8, <2>9, <2>10 DEF Fresh, Placed
<1>3. ASSUME NEW t \in Threads, PopAll(t) PROVE Fresh'
  <2>1. PICK q : q = exec[t].queue
    OBVIOUS
  <2>2. q \in Queues
    BY <1>3, <2>1, FramesOf DEF PopAll, IInv, Local, ThreadOK, InLoop
  <2>3. /\ exec'[t].batch = jobs[q] /\ \A u \in Threads \ {t} : exec'[u].batch = exec[u].batch
        /\ jobs'[q] = <<>> /\ \A p \in Queues \ {q} : jobs'[p] = jobs[p]
        /\ done' = done /\ submitted' = submitted /\ pc'[t] = "batch"
    BY <1>3, <2>1, <2>2 DEF PopAll, TypeOK, ExecFrame
  <2>4. ASSUME NEW x, Placed(x)' PROVE Placed(x)
    BY <2>2, <2>3, <2>4, EmptyRange DEF Placed
  <2> QED
    BY <1>3, <2>3, <2>4, FreshKept, StepOfThread DEF Progress
<1>4. ASSUME NEW t \in Threads, EndJob(t) PROVE Fresh'
  <2>1. PICK b \in Seq(Jobs) : b = exec[t].batch
    BY FramesOf
  <2>2. b # <<>>
    BY <1>4, <2>1 DEF EndJob, IInv, Local, ThreadOK, InJob
  <2>3. /\ exec'[t].batch = Tail(b) /\ \A u \in Threads \ {t} : exec'[u].batch = exec[u].batch
        /\ jobs' = jobs /\ done' = done \cup {Head(b)} /\ submitted' = submitted /\ pc'[t] = "batch"
    BY <1>4, <2>1 DEF EndJob, TypeOK, ExecFrame
  <2>4. Head(b) \in Range(b) /\ Range(Tail(b)) \subseteq Range(b)
    BY <2>2, TailRange
  <2>5. ASSUME NEW x, Placed(x)' PROVE Placed(x)
    BY <2>1, <2>3, <2>4, <2>5 DEF Placed
  <2> QED
    BY <1>4, <2>3, <2>5, FreshKept, StepOfThread DEF Progress
<1>5. ASSUME NEW t \in Threads,
             \/ Delegate(t) \/ StartJob(t) \/ FetchSub(t) \/ ReadTick(t) \/ Handoff(t)
             \/ EndWork(t) \/ PopGlobal(t) \/ NextTurn(t)
      PROVE  Fresh'
  <2>1. /\ jobs' = jobs /\ done' = done /\ submitted' = submitted
        /\ \A u \in Threads : exec'[u].batch = exec[u].batch \/ exec'[u].batch = <<>>
        /\ pc'[t] # "enqueue"
    <3> USE DEF TypeOK, ExecFrame
    <3>1. CASE Delegate(t) \/ StartJob(t) \/ ReadTick(t) \/ EndWork(t) \/ NextTurn(t)
      BY <3>1 DEF Delegate, ReturnFromPush, StartJob, ReadTick, EndWork, NextTurn
    <3>2. CASE FetchSub(t)
      <4>1. exec' = [exec EXCEPT ![t] = NoExec] \/ exec' = [exec EXCEPT ![t].count = 0]
        BY <3>2 DEF FetchSub
      <4>2. \A u \in Threads : exec'[u].batch = exec[u].batch \/ exec'[u].batch = <<>>
        <5>1. CASE exec' = [exec EXCEPT ![t] = NoExec]
          BY <5>1 DEF NoExec
        <5>2. CASE exec' = [exec EXCEPT ![t].count = 0]
          BY <5>2
        <5> QED
          BY <4>1, <5>1, <5>2
      <4>3. pc'[t] # "enqueue" /\ jobs' = jobs /\ done' = done /\ submitted' = submitted
        BY <3>2 DEF FetchSub
      <4> QED
        BY <4>2, <4>3
    <3>3. CASE Handoff(t)
      BY <3>3 DEF Handoff, NoExec
    <3>4. CASE PopGlobal(t)
      BY <3>4 DEF PopGlobal, EnterExecute
    <3> QED
      BY <1>5, <3>1, <3>2, <3>3, <3>4
  <2>2. \A x : Placed(x)' => Placed(x)
    BY <2>1, PlacedLess
  <2> QED
    BY <1>5, <2>1, <2>2, FreshKept, StepOfThread DEF Progress
<1>6. CASE UNCHANGED vars
  BY <1>6 DEF vars, Fresh, Placed
<1> QED
  BY <1>1, <1>2, <1>3, <1>4, <1>5, <1>6 DEF Next, Progress

\* Execute runs all it has taken before it takes more or leaves.
LEMMA DrainedStep == IInv /\ Drained /\ [Next]_vars => Drained'
<1> SUFFICES ASSUME IInv, TypeOK, Local, Drained, [Next]_vars PROVE Drained'
  BY DEF IInv
<1>1. ASSUME NEW t \in Threads, PushFromLoop(t) \/ PushFromJob(t) \/ Progress(t),
             Idle(t)' => exec'[t].batch = <<>>
      PROVE  Drained'
  BY <1>1, StepOfThread DEF Drained, Elsewhere, Idle
<1>2. ASSUME NEW t \in Threads, PushFromLoop(t) \/ PushFromJob(t) \/ Progress(t)
      PROVE  Idle(t)' => exec'[t].batch = <<>>
  <2>0. ThreadOK(t) /\ (Idle(t) => exec[t].batch = <<>>)
    BY DEF Local, Drained
  <2> USE <2>0 DEF TypeOK, ExecFrame, Idle
  <2>1. CASE PushFromLoop(t) \/ PushFromJob(t)
    BY <2>1 DEF PushFromLoop, PushFromJob, FetchAdd
  <2>2. CASE Enqueue(t)
    BY <2>2 DEF Enqueue, ReturnFromPush, EnterExecute
  <2>3. CASE Delegate(t) \/ StartJob(t) \/ ReadTick(t) \/ EndWork(t) \/ NextTurn(t)
    BY <2>3 DEF Delegate, ReturnFromPush, StartJob, ReadTick, EndWork, NextTurn
  <2>4. CASE PopAll(t)
    BY <2>4 DEF PopAll, ThreadOK, InLoop
  <2>5. CASE EndJob(t)
    BY <2>5 DEF EndJob, ThreadOK, InLoop
  <2>6. CASE FetchSub(t)
    BY <2>6 DEF FetchSub, NoExec
  <2>7. CASE Handoff(t)
    BY <2>7 DEF Handoff, NoExec
  <2>8. CASE PopGlobal(t)
    BY <2>8 DEF PopGlobal, EnterExecute
  <2> QED
    BY <1>2, <2>1, <2>2, <2>3, <2>4, <2>5, <2>6, <2>7, <2>8 DEF Progress
<1>3. CASE UNCHANGED vars
  BY <1>3 DEF vars, Drained, Idle
<1> QED
  BY <1>1, <1>2, <1>3 DEF Next

\* The invariant that the refinement needs.
RInv == IInv /\ Fresh /\ Drained

\* What a thread in Execute has taken and not started, and the job it is in.
Rest(t) == IF InJob(t) THEN Tail(exec[t].batch) ELSE exec[t].batch
Current(t) == IF InJob(t) THEN Head(exec[t].batch) ELSE NoJob

\* The invariant holds in every reachable state.
LEMMA RInvariant == Spec => []RInv
<1>1. Init => Fresh /\ Drained
  <2> SUFFICES ASSUME Init PROVE Fresh /\ Drained
    OBVIOUS
  <2>1. \A t \in Threads : exec[t].batch = <<>> /\ pc[t] = "base"
    BY DEF Init, NoExec
  <2>2. ~ \E j : Placed(j)
    BY <2>1, EmptyRange DEF Placed, Init
  <2> QED
    BY <2>1, <2>2 DEF Fresh, Drained
<1>2. IInv /\ Fresh /\ Drained /\ [Next]_vars => Fresh' /\ Drained'
  BY FreshStep, DrainedStep
<1> QED
  BY <1>1, <1>2, Inductive, PTL DEF RInv, Spec

\* A queue that thread t executes, seen through the refinement mapping.
LEMMA Executed ==
    ASSUME IInv, NEW t \in Threads, NEW q \in Queues, exec[t].queue = q
    PROVE  PendingJobs(q) = Rest(t) \o jobs[q] /\ RunningJob(q) = Current(t)
<1>1. Executors(q) = {t}
  BY DEF IInv, Exclusive, Owns, Executors
<1>2. (CHOOSE u \in Executors(q) : TRUE) = t
  BY <1>1
<1>3. PendingJobs(q) = Rest(t) \o jobs[q]
  BY <1>1, <1>2 DEF PendingJobs, Rest
<1>4. CASE InJob(t)
  <2>1. (CHOOSE u \in Executors(q) : InJob(u)) = t
    BY <1>1, <1>4
  <2> QED
    BY <1>1, <1>3, <1>4, <2>1 DEF RunningJob, Current
<1>5. CASE ~InJob(t)
  BY <1>1, <1>3, <1>5 DEF RunningJob, Current
<1> QED
  BY <1>4, <1>5

\* A queue that nobody executes.
LEMMA Unexecuted ==
    ASSUME NEW q \in Queues, \A t \in Threads : exec[t].queue # q
    PROVE  PendingJobs(q) = jobs[q] /\ RunningJob(q) = NoJob
<1>1. Executors(q) = {}
  BY DEF Executors
<1> QED
  BY <1>1 DEF PendingJobs, RunningJob

\* The same after a step.
LEMMA ExecutedAfter ==
    ASSUME IInv', NEW t \in Threads, NEW q \in Queues, exec'[t].queue = q
    PROVE  PendingJobs(q)' = Rest(t)' \o jobs'[q] /\ RunningJob(q)' = Current(t)'
<1>1. Executors(q)' = {t}
  BY DEF IInv, Exclusive, Owns, Executors, Queues, Threads
<1>2. PICK E : E = Executors(q)'
  OBVIOUS
<1>3. /\ PendingJobs(q)' = IF E = {} THEN jobs'[q]
                           ELSE LET u == CHOOSE u \in E : TRUE
                                IN  (IF InJob(u)' THEN Tail(exec'[u].batch) ELSE exec'[u].batch)
                                       \o jobs'[q]
      /\ RunningJob(q)' = IF \E u \in E : InJob(u)'
                          THEN Head(exec'[CHOOSE u \in E : InJob(u)'].batch) ELSE NoJob
  BY <1>2 DEF PendingJobs, RunningJob, InJob
<1>4. E = {t} /\ (CHOOSE u \in E : TRUE) = t
  BY <1>1, <1>2
<1>5. PendingJobs(q)' = Rest(t)' \o jobs'[q]
  BY <1>3, <1>4 DEF Rest, InJob
<1>6. CASE InJob(t)'
  <2>1. (CHOOSE u \in E : InJob(u)') = t
    BY <1>4, <1>6
  <2> QED
    BY <1>3, <1>4, <1>5, <1>6, <2>1 DEF Current, InJob
<1>7. CASE ~InJob(t)'
  BY <1>3, <1>4, <1>5, <1>7 DEF Current, InJob
<1> QED
  BY <1>6, <1>7

\* The same of a queue that nobody executes.
LEMMA UnexecutedAfter ==
    ASSUME NEW q \in Queues, \A t \in Threads : exec'[t].queue # q
    PROVE  PendingJobs(q)' = jobs'[q] /\ RunningJob(q)' = NoJob
<1>1. Executors(q)' = {}
  BY DEF Executors, Threads
<1> QED
  BY <1>1 DEF PendingJobs, RunningJob

\* What is in front of _jobs is what the same executor, if any, had there before.
LEMMA Steady ==
    ASSUME IInv, IInv', NEW q \in Queues,
           \A u \in Threads : exec'[u].queue = q <=> exec[u].queue = q,
           \A u \in Threads : exec[u].queue = q =>
              exec'[u].batch = exec[u].batch /\ (InJob(u)' <=> InJob(u))
    PROVE  /\ RunningJob(q)' = RunningJob(q)
           /\ \E w \in Seq(Jobs) :
                 PendingJobs(q) = w \o jobs[q] /\ PendingJobs(q)' = w \o jobs'[q]
<1>1. jobs[q] \in Seq(Jobs) /\ jobs'[q] \in Seq(Jobs)
  BY DEF IInv, TypeOK, Queues
<1>2. ASSUME NEW t \in Threads, exec[t].queue = q
      PROVE  /\ RunningJob(q)' = RunningJob(q)
             /\ \E w \in Seq(Jobs) :
                   PendingJobs(q) = w \o jobs[q] /\ PendingJobs(q)' = w \o jobs'[q]
  <2>1. PendingJobs(q) = Rest(t) \o jobs[q] /\ RunningJob(q) = Current(t)
    BY <1>2, Executed
  <2>2. PendingJobs(q)' = Rest(t)' \o jobs'[q] /\ RunningJob(q)' = Current(t)'
    BY <1>2, ExecutedAfter
  <2>3. Rest(t)' = Rest(t) /\ Current(t)' = Current(t)
    BY <1>2 DEF Rest, Current
  <2>4. Rest(t) \in Seq(Jobs)
    <3>1. exec[t].batch \in Seq(Jobs) /\ (InJob(t) => exec[t].batch # <<>>)
      BY FramesOf DEF IInv, Local, ThreadOK
    <3> QED
      BY <3>1, HeadTailProperties DEF Rest
  <2> QED
    BY <2>1, <2>2, <2>3, <2>4
<1>3. CASE \A t \in Threads : exec[t].queue # q
  <2>1. PendingJobs(q) = jobs[q] /\ RunningJob(q) = NoJob
    BY <1>3, Unexecuted
  <2>2. PendingJobs(q)' = jobs'[q] /\ RunningJob(q)' = NoJob
    BY <1>3, UnexecutedAfter
  <2>3. <<>> \in Seq(Jobs) /\ jobs[q] = <<>> \o jobs[q] /\ jobs'[q] = <<>> \o jobs'[q]
    BY <1>1, EmptySeq, ConcatEmptySeq
  <2> QED
    BY <2>1, <2>2, <2>3
<1> QED
  BY <1>2, <1>3

\* The queues that a step of thread t is not about.
LEMMA Untouched ==
    ASSUME IInv, IInv', NEW t \in Threads, Elsewhere(t), NEW q \in Queues, jobs'[q] = jobs[q],
           exec[t].queue # q, exec'[t].queue # q
    PROVE  PendingJobs(q)' = PendingJobs(q) /\ RunningJob(q)' = RunningJob(q)
<1>1. \A u \in Threads : exec'[u].queue = q <=> exec[u].queue = q
  BY DEF Elsewhere
<1>2. \A u \in Threads : exec[u].queue = q =>
         exec'[u].batch = exec[u].batch /\ (InJob(u)' <=> InJob(u))
  BY DEF Elsewhere, InJob
<1>3. PICK w \in Seq(Jobs) : PendingJobs(q) = w \o jobs[q] /\ PendingJobs(q)' = w \o jobs'[q]
  BY <1>1, <1>2, Steady
<1> QED
  BY <1>1, <1>2, <1>3, Steady

\* What SerialExecutor knows of is in a queue, in a batch or done.
LEMMA KnownPlaced == ASSUME IInv, NEW j \in Jobs, Serial!Known(j) PROVE Placed(j)
<1>1. ASSUME NEW q \in Queues, RunningJob(q) = j \/ j \in Range(PendingJobs(q)) PROVE Placed(j)
  <2>1. CASE \A t \in Threads : exec[t].queue # q
    BY <1>1, <2>1, Unexecuted, ConstantsAssumption DEF Placed
  <2>2. ASSUME NEW t \in Threads, exec[t].queue = q PROVE Placed(j)
    <3>1. PICK b \in Seq(Jobs) : b = exec[t].batch
      BY FramesOf DEF IInv
    <3>2. PendingJobs(q) = Rest(t) \o jobs[q] /\ RunningJob(q) = Current(t)
      BY <2>2, Executed
    <3>3. InJob(t) => b # <<>>
      BY <3>1 DEF IInv, Local, ThreadOK
    <3>4. Current(t) = j => j \in Range(b)
      BY <3>1, <3>3, TailRange, ConstantsAssumption DEF Current
    <3>5. Rest(t) \in Seq(Jobs) /\ Range(Rest(t)) \subseteq Range(b)
      BY <3>1, <3>3, TailRange, HeadTailProperties DEF Rest
    <3>6. jobs[q] \in Seq(Jobs)
      BY DEF IInv, TypeOK
    <3>7. Range(Rest(t) \o jobs[q]) \subseteq Range(b) \cup Range(jobs[q])
      BY <3>5, <3>6, ConcatRange
    <3> QED
      BY <1>1, <3>1, <3>2, <3>4, <3>7 DEF Placed
  <2> QED
    BY <2>1, <2>2
<1>2. \A q \in Queues : Pending[q] = PendingJobs(q) /\ Running[q] = RunningJob(q)
  BY DEF Pending, Running
<1>3. CASE j \in done
  BY <1>3 DEF Placed
<1>4. ASSUME NEW q \in Queues,
             RunningJob(q) = j \/ \E i \in DOMAIN PendingJobs(q) : PendingJobs(q)[i] = j
      PROVE  Placed(j)
  BY <1>1, <1>4 DEF Range
<1> QED
  BY <1>2, <1>3, <1>4 DEF Serial!Known

\* SerialExecutor does not notice a step that changes no queue.
LEMMA Unnoticed ==
    ASSUME done' = done,
           \A q \in Queues :
              PendingJobs(q)' = PendingJobs(q) /\ RunningJob(q)' = RunningJob(q)
    PROVE  UNCHANGED Serial!vars
  BY DEF Serial!vars, Pending, Running, Queues

\* Steps that change neither a queue nor a batch.
LEMMA QuietStep ==
    ASSUME IInv, IInv', NEW t \in Threads,
           \/ PushFromLoop(t) \/ PushFromJob(t) \/ Delegate(t) \/ ReadTick(t)
           \/ EndWork(t) \/ NextTurn(t)
    PROVE  UNCHANGED Serial!vars
<1>1. exec' = exec /\ jobs' = jobs /\ done' = done
  BY DEF PushFromLoop, PushFromJob, FetchAdd, Delegate, ReadTick, EndWork, NextTurn
<1>2. ThreadOK(t) /\ TypeOK
  BY DEF IInv, Local
<1>3. InJob(t)' <=> InJob(t)
  <2> USE <1>1, <1>2 DEF TypeOK, ThreadOK, InJob, InPush, InLoop
  <2>1. CASE PushFromLoop(t)
    BY <2>1 DEF PushFromLoop, FetchAdd
  <2>2. CASE PushFromJob(t)
    BY <2>2 DEF PushFromJob, FetchAdd
  <2>3. CASE Delegate(t)
    BY <2>3 DEF Delegate, ReturnFromPush
  <2>4. CASE ReadTick(t) \/ EndWork(t) \/ NextTurn(t)
    BY <2>4 DEF ReadTick, EndWork, NextTurn
  <2> QED
    BY <2>1, <2>2, <2>3, <2>4
<1>4. \A u \in Threads : InJob(u)' <=> InJob(u)
  <2>1. Elsewhere(t)
    BY <1>2, StepOfThread DEF Progress
  <2> QED
    BY <1>3, <2>1 DEF Elsewhere, InJob
<1>5. ASSUME NEW q \in Queues
      PROVE  PendingJobs(q)' = PendingJobs(q) /\ RunningJob(q)' = RunningJob(q)
  BY <1>1, <1>4, Steady
<1> QED
  BY <1>1, <1>5, Unnoticed

\* PopAll moves the jobs from the queue to the batch, which is empty.
LEMMA PopAllStep ==
    ASSUME RInv, IInv', NEW t \in Threads, PopAll(t)
    PROVE  UNCHANGED Serial!vars
<1>1. PICK q : q = exec[t].queue
  OBVIOUS
<1>2. q \in Queues /\ pc[t] = "popall" /\ TypeOK
  BY <1>1, FramesOf DEF PopAll, RInv, IInv, Local, ThreadOK, InLoop
<1>3. /\ exec'[t].batch = jobs[q] /\ exec'[t].queue = q
      /\ jobs'[q] = <<>> /\ \A p \in Queues \ {q} : jobs'[p] = jobs[p]
      /\ done' = done /\ pc'[t] = "batch"
  BY <1>1, <1>2 DEF PopAll, TypeOK, ExecFrame
<1>4. Elsewhere(t)
  BY <1>2, StepOfThread DEF Progress
<1>5. ~InJob(t) /\ ~InJob(t)' /\ exec[t].batch = <<>>
  BY <1>2, <1>3 DEF InJob, RInv, Drained, Idle
<1>6. PendingJobs(q) = <<>> \o jobs[q] /\ RunningJob(q) = NoJob
  BY <1>1, <1>2, <1>5, Executed DEF RInv, Rest, Current
<1>7. PendingJobs(q)' = jobs[q] \o <<>> /\ RunningJob(q)' = NoJob
  BY <1>2, <1>3, <1>5, ExecutedAfter DEF Rest, Current
<1>8. jobs[q] \in Seq(Jobs)
  BY <1>2 DEF TypeOK
<1>9. PendingJobs(q)' = PendingJobs(q) /\ RunningJob(q)' = RunningJob(q)
  BY <1>6, <1>7, <1>8, ConcatEmptySeq
<1>10. ASSUME NEW p \in Queues
       PROVE  PendingJobs(p)' = PendingJobs(p) /\ RunningJob(p)' = RunningJob(p)
  <2>1. CASE p # q
    BY <1>1, <1>3, <1>4, <2>1, Untouched DEF RInv
  <2> QED
    BY <1>9, <2>1
<1> QED
  BY <1>3, <1>10, Unnoticed

\* Execute is left with an empty batch, and nobody else executes the queue.
LEMMA LeaveExecuteStep ==
    ASSUME RInv, IInv', NEW t \in Threads, Elsewhere(t), exec[t].queue # NoQueue,
           exec[t].batch = <<>>, ~InJob(t), ~InJob(t)', jobs' = jobs, done' = done,
           exec'[t].queue = NoQueue \/ (exec'[t].queue = exec[t].queue /\ exec'[t].batch = <<>>)
    PROVE  UNCHANGED Serial!vars
<1>1. PICK q : q = exec[t].queue
  OBVIOUS
<1>2. q \in Queues /\ TypeOK /\ q # NoQueue
  BY <1>1, FramesOf DEF RInv, IInv
<1>3. PendingJobs(q) = <<>> \o jobs[q] /\ RunningJob(q) = NoJob
  BY <1>1, <1>2, Executed DEF RInv, Rest, Current
<1>4. jobs[q] \in Seq(Jobs)
  BY <1>2 DEF TypeOK
<1>5. PendingJobs(q)' = PendingJobs(q) /\ RunningJob(q)' = RunningJob(q)
  <2>1. CASE exec'[t].queue = NoQueue
    <3>1. \A u \in Threads : exec'[u].queue # q
      BY <1>1, <1>2, <2>1 DEF Elsewhere, RInv, IInv, Exclusive, Owns
    <3>2. PendingJobs(q)' = jobs[q] /\ RunningJob(q)' = NoJob
      BY <1>2, <3>1, UnexecutedAfter
    <3> QED
      BY <1>3, <1>4, <3>2, ConcatEmptySeq
  <2>2. CASE exec'[t].queue = q /\ exec'[t].batch = <<>>
    <3>1. PendingJobs(q)' = <<>> \o jobs[q] /\ RunningJob(q)' = NoJob
      BY <1>2, <2>2, ExecutedAfter DEF Rest, Current
    <3> QED
      BY <1>3, <3>1
  <2> QED
    BY <1>1, <2>1, <2>2
<1>6. ASSUME NEW p \in Queues
      PROVE  PendingJobs(p)' = PendingJobs(p) /\ RunningJob(p)' = RunningJob(p)
  <2>1. CASE p # q
    <3>1. p # NoQueue
      BY QueueFacts
    <3> QED
      BY <1>1, <2>1, <3>1, Untouched DEF RInv
  <2> QED
    BY <1>5, <2>1
<1> QED
  BY <1>6, Unnoticed

\* fetch_sub and the hand-over.
LEMMA ReleaseStep ==
    ASSUME RInv, IInv', NEW t \in Threads, FetchSub(t) \/ Handoff(t)
    PROVE  UNCHANGED Serial!vars
<1>1. ThreadOK(t) /\ TypeOK
  BY DEF RInv, IInv, Local
<1>2. Elsewhere(t)
  BY <1>1, StepOfThread DEF Progress
<1>3. exec[t].queue # NoQueue /\ exec[t].batch = <<>> /\ ~InJob(t) /\ jobs' = jobs /\ done' = done
  BY <1>1 DEF FetchSub, Handoff, ThreadOK, InLoop, InJob, RInv, Drained, Idle
<1>4. /\ exec'[t].queue = NoQueue \/ (exec'[t].queue = exec[t].queue /\ exec'[t].batch = <<>>)
      /\ ~InJob(t)'
  <2> USE <1>1, <1>3 DEF TypeOK, ExecFrame, InJob, NoExec
  <2>1. CASE FetchSub(t)
    <3>1. exec' = [exec EXCEPT ![t] = NoExec] \/ exec' = [exec EXCEPT ![t].count = 0]
      BY <2>1 DEF FetchSub
    <3>2. exec'[t].queue = NoQueue \/ (exec'[t].queue = exec[t].queue /\ exec'[t].batch = <<>>)
      <4>1. CASE exec' = [exec EXCEPT ![t] = NoExec]
        BY <4>1
      <4>2. CASE exec' = [exec EXCEPT ![t].count = 0]
        BY <4>2
      <4> QED
        BY <3>1, <4>1, <4>2
    <3>3. pc'[t] \in {"base", "tick"}
      BY <2>1 DEF FetchSub
    <3> QED
      BY <3>2, <3>3
  <2>2. CASE Handoff(t)
    BY <2>2 DEF Handoff
  <2> QED
    BY <2>1, <2>2
<1> QED
  BY <1>2, <1>3, <1>4, LeaveExecuteStep

\* A queue from GGlobalQueue is executed by nobody, and the batch is empty.
LEMMA PopGlobalStep ==
    ASSUME RInv, IInv', NEW t \in Threads, PopGlobal(t)
    PROVE  UNCHANGED Serial!vars
<1>1. ThreadOK(t) /\ TypeOK
  BY DEF RInv, IInv, Local
<1>2. PICK type \in THREAD_TYPE : type = ThreadType(t)
  BY QueueFacts
<1>3. PICK q \in Queues : q = Head(globalQueue[type])
  BY <1>1, <1>2 DEF PopGlobal, TypeOK
<1>4. /\ exec'[t].queue = q /\ exec'[t].batch = <<>> /\ pc'[t] = "popall"
      /\ jobs' = jobs /\ done' = done
  BY <1>1, <1>2, <1>3 DEF PopGlobal, EnterExecute, TypeOK
<1>5. Elsewhere(t)
  BY <1>1, StepOfThread DEF Progress
<1>6. exec[t].queue = NoQueue
  BY <1>1 DEF PopGlobal, ThreadOK
<1>7. \A u \in Threads : exec[u].queue # q
  <2>1. \A u \in Threads : exec'[u].queue = q => u = t
    BY <1>3, <1>4 DEF IInv, Exclusive, Owns, Queues, Threads
  <2> QED
    BY <1>3, <1>5, <1>6, <2>1, QueueFacts DEF Elsewhere
<1>8. PendingJobs(q) = jobs[q] /\ RunningJob(q) = NoJob
  BY <1>7, Unexecuted
<1>9. PendingJobs(q)' = <<>> \o jobs[q] /\ RunningJob(q)' = NoJob
  <2>1. ~InJob(t)'
    BY <1>4 DEF InJob
  <2> QED
    BY <1>4, <2>1, ExecutedAfter DEF Rest, Current
<1>10. jobs[q] \in Seq(Jobs)
  BY <1>1 DEF TypeOK
<1>11. ASSUME NEW p \in Queues
       PROVE  PendingJobs(p)' = PendingJobs(p) /\ RunningJob(p)' = RunningJob(p)
  <2>1. CASE p # q
    BY <1>4, <1>5, <1>6, <2>1, Untouched, QueueFacts DEF RInv
  <2>2. CASE p = q
    BY <1>8, <1>9, <1>10, <2>2, ConcatEmptySeq
  <2> QED
    BY <2>1, <2>2
<1> QED
  BY <1>4, <1>11, Unnoticed

\* A step about one queue.
LEMMA OneQueue ==
    ASSUME NEW q \in Queues, NEW w, NEW r, PendingJobs(q)' = w, RunningJob(q)' = r,
           \A p \in Queues \ {q} :
              PendingJobs(p)' = PendingJobs(p) /\ RunningJob(p)' = RunningJob(p)
    PROVE  /\ Pending' = [Pending EXCEPT ![q] = w] /\ Running' = [Running EXCEPT ![q] = r]
           /\ Pending[q] = PendingJobs(q) /\ Running[q] = RunningJob(q)
<1>1. /\ Pending' = [p \in Queues |-> PendingJobs(p)'] /\ Pending = [p \in Queues |-> PendingJobs(p)]
      /\ Running' = [p \in Queues |-> RunningJob(p)'] /\ Running = [p \in Queues |-> RunningJob(p)]
  BY DEF Pending, Running, Queues
<1> QED
  BY <1>1

\* The job at the head of the batch is the first of those pending.
LEMMA StartJobStep ==
    ASSUME RInv, IInv', NEW t \in Threads, StartJob(t)
    PROVE  Serial!Next
<1>1. ThreadOK(t) /\ TypeOK
  BY DEF RInv, IInv, Local
<1>2. PICK q, b : q = exec[t].queue /\ b = exec[t].batch
  OBVIOUS
<1>3. q \in Queues /\ b \in Seq(Jobs) /\ b # <<>> /\ jobs[q] \in Seq(Jobs)
  <2>1. q \in Queues /\ b \in Seq(Jobs) /\ b # <<>>
    BY <1>1, <1>2, FramesOf DEF StartJob, ThreadOK, InLoop
  <2> QED
    BY <1>1, <2>1 DEF TypeOK
<1>4. exec' = exec /\ jobs' = jobs /\ done' = done /\ pc'[t] = "job" /\ pc[t] = "batch"
  BY <1>1 DEF StartJob, TypeOK
<1>5. Elsewhere(t)
  BY <1>1, StepOfThread DEF Progress
<1>6. PendingJobs(q) = b \o jobs[q] /\ RunningJob(q) = NoJob
  <2>1. ~InJob(t)
    BY <1>4 DEF InJob
  <2> QED
    BY <1>2, <1>3, <2>1, Executed DEF RInv, Rest, Current
<1>7. PendingJobs(q)' = Tail(b) \o jobs[q] /\ RunningJob(q)' = Head(b)
  <2>1. InJob(t)'
    BY <1>4 DEF InJob
  <2> QED
    BY <1>2, <1>3, <1>4, <2>1, ExecutedAfter DEF Rest, Current
<1>8. \A p \in Queues \ {q} : PendingJobs(p)' = PendingJobs(p) /\ RunningJob(p)' = RunningJob(p)
  BY <1>2, <1>4, <1>5, Untouched DEF RInv
<1>9. /\ Pending' = [Pending EXCEPT ![q] = Tail(b) \o jobs[q]]
      /\ Running' = [Running EXCEPT ![q] = Head(b)]
      /\ Pending[q] = PendingJobs(q) /\ Running[q] = RunningJob(q)
  BY <1>3, <1>7, <1>8, OneQueue
<1>10. /\ Pending[q] # <<>> /\ Head(Pending[q]) = Head(b)
       /\ Tail(Pending[q]) = Tail(b) \o jobs[q] /\ Running[q] = NoJob
  BY <1>3, <1>6, <1>9, HeadTailConcat
<1>11. Serial!Start(q)
  BY <1>4, <1>9, <1>10 DEF Serial!Start
<1> QED
  BY <1>3, <1>11 DEF Serial!Next

\* The job that returns is the one that runs.
LEMMA EndJobStep ==
    ASSUME RInv, IInv', NEW t \in Threads, EndJob(t)
    PROVE  Serial!Next
<1>1. ThreadOK(t) /\ TypeOK
  BY DEF RInv, IInv, Local
<1>2. PICK q, b : q = exec[t].queue /\ b = exec[t].batch
  OBVIOUS
<1>3. q \in Queues /\ b \in Seq(Jobs) /\ b # <<>> /\ Head(b) \in Jobs
  <2>1. q \in Queues /\ b \in Seq(Jobs) /\ b # <<>>
    BY <1>1, <1>2, FramesOf DEF EndJob, ThreadOK, InLoop, InJob
  <2> QED
    BY <2>1, HeadTailProperties
<1>4. /\ exec'[t].queue = q /\ exec'[t].batch = Tail(b) /\ jobs' = jobs
      /\ done' = done \cup {Head(b)} /\ pc'[t] = "batch" /\ pc[t] = "job"
  BY <1>1, <1>2 DEF EndJob, TypeOK, ExecFrame
<1>5. Elsewhere(t)
  BY <1>1, StepOfThread DEF Progress
<1>6. PendingJobs(q) = Tail(b) \o jobs[q] /\ RunningJob(q) = Head(b)
  <2>1. InJob(t)
    BY <1>4 DEF InJob
  <2> QED
    BY <1>2, <1>3, <2>1, Executed DEF RInv, Rest, Current
<1>7. PendingJobs(q)' = Tail(b) \o jobs[q] /\ RunningJob(q)' = NoJob
  <2>1. ~InJob(t)'
    BY <1>4 DEF InJob
  <2> QED
    BY <1>3, <1>4, <2>1, ExecutedAfter DEF Rest, Current
<1>8. ASSUME NEW p \in Queues \ {q}
      PROVE  PendingJobs(p)' = PendingJobs(p) /\ RunningJob(p)' = RunningJob(p)
  BY <1>2, <1>4, <1>5, Untouched DEF RInv
<1>9. /\ Running' = [Running EXCEPT ![q] = NoJob] /\ Running[q] = Head(b)
  BY <1>3, <1>6, <1>7, <1>8, OneQueue
<1>10. Pending' = Pending
  BY <1>6, <1>7, <1>8 DEF Pending, Queues
<1>11. Running[q] # NoJob
  BY <1>3, <1>9, ConstantsAssumption
<1>12. Serial!Finish(q)
  BY <1>4, <1>9, <1>10, <1>11 DEF Serial!Finish
<1> QED
  BY <1>3, <1>12 DEF Serial!Next

\* _jobs.Push is where a job takes its place among those pending; it is new.
LEMMA EnqueueStep ==
    ASSUME RInv, IInv', NEW t \in Threads, Enqueue(t)
    PROVE  Serial!Next
<1>1. ThreadOK(t) /\ TypeOK
  BY DEF RInv, IInv, Local
<1>2. PICK q, j : q = push[t].queue /\ j = push[t].job
  OBVIOUS
<1>3. q \in Queues /\ j \in Jobs /\ jobs[q] \in Seq(Jobs) /\ pc[t] = "enqueue"
  <2>1. q \in Queues /\ j \in Jobs /\ pc[t] = "enqueue"
    BY <1>1, <1>2, FramesOf DEF Enqueue, ThreadOK, InPush
  <2> QED
    BY <1>1, <2>1 DEF TypeOK
<1>4. jobs' = [jobs EXCEPT ![q] = Append(jobs[q], j)] /\ done' = done
  BY <1>2 DEF Enqueue, LockQueuePush
<1>5. jobs'[q] = Append(jobs[q], j) /\ \A p \in Queues \ {q} : jobs'[p] = jobs[p]
  BY <1>1, <1>3, <1>4 DEF TypeOK
<1>6. Elsewhere(t)
  BY <1>1, StepOfThread DEF Progress
<1>7. exec[t].queue = LCurrentJobQueue[t]
  BY <1>1, <1>3 DEF ThreadOK, InPush
<1>8. /\ PendingJobs(q)' = Append(PendingJobs(q), j) /\ RunningJob(q)' = RunningJob(q)
      /\ \A p \in Queues \ {q} :
            PendingJobs(p)' = PendingJobs(p) /\ RunningJob(p)' = RunningJob(p)
  <2>1. CASE push[t].first /\ LCurrentJobQueue[t] = NoQueue
    <3>1. exec'[t].queue = q /\ exec'[t].batch = <<>> /\ pc'[t] = "popall"
      BY <1>1, <1>2, <2>1 DEF Enqueue, EnterExecute, TypeOK
    <3>2. \A u \in Threads : exec[u].queue # q
      <4>1. \A u \in Threads : exec'[u].queue = q => u = t
        BY <1>3, <3>1 DEF IInv, Exclusive, Owns, Queues, Threads
      <4> QED
        BY <1>3, <1>6, <1>7, <2>1, <4>1, QueueFacts DEF Elsewhere
    <3>3. PendingJobs(q) = jobs[q] /\ RunningJob(q) = NoJob
      BY <1>3, <3>2, Unexecuted
    <3>4. PendingJobs(q)' = <<>> \o jobs'[q] /\ RunningJob(q)' = NoJob
      <4>1. ~InJob(t)'
        BY <3>1 DEF InJob
      <4> QED
        BY <1>3, <3>1, <4>1, ExecutedAfter DEF Rest, Current
    <3>5. jobs'[q] \in Seq(Jobs)
      BY <1>3, <1>5, AppendProperties
    <3>6. PendingJobs(q)' = Append(PendingJobs(q), j)
      BY <1>5, <3>3, <3>4, <3>5, ConcatEmptySeq
    <3>7. ASSUME NEW p \in Queues \ {q}
          PROVE  PendingJobs(p)' = PendingJobs(p) /\ RunningJob(p)' = RunningJob(p)
      BY <1>5, <1>6, <1>7, <2>1, <3>1, Untouched, QueueFacts DEF RInv
    <3> QED
      BY <3>3, <3>4, <3>6, <3>7
  <2>2. CASE ~(push[t].first /\ LCurrentJobQueue[t] = NoQueue)
    <3>1. exec' = exec
      BY <2>2 DEF Enqueue
    <3>2. exec[t].queue # NoQueue => pc'[t] \in {"job", "delegate"}
      BY <1>1, <1>7, <2>2 DEF Enqueue, ReturnFromPush, TypeOK
    <3>3. exec[t].queue = NoQueue => pc'[t] = "base"
      BY <1>1, <1>7, <2>2 DEF Enqueue, ReturnFromPush, TypeOK
    <3>4. InJob(t)' <=> InJob(t)
      BY <1>3, <3>1, <3>2, <3>3 DEF InJob
    <3>5. \A u \in Threads : InJob(u)' <=> InJob(u)
      BY <1>6, <3>4 DEF Elsewhere, InJob
    <3>6. ASSUME NEW p \in Queues
          PROVE  /\ RunningJob(p)' = RunningJob(p)
                 /\ \E w \in Seq(Jobs) :
                       PendingJobs(p) = w \o jobs[p] /\ PendingJobs(p)' = w \o jobs'[p]
      BY <3>1, <3>5, Steady DEF RInv
    <3>7. PICK w \in Seq(Jobs) : PendingJobs(q) = w \o jobs[q] /\ PendingJobs(q)' = w \o jobs'[q]
      BY <1>3, <3>6
    <3>8. PendingJobs(q)' = Append(PendingJobs(q), j)
      BY <1>3, <1>5, <3>7, AppendConcat
    <3>9. \A p \in Queues \ {q} : PendingJobs(p)' = PendingJobs(p)
      BY <1>5, <3>6
    <3> QED
      BY <1>3, <3>6, <3>8, <3>9
  <2> QED
    BY <2>1, <2>2
<1>9. /\ Pending' = [Pending EXCEPT ![q] = Append(PendingJobs(q), j)]
      /\ Pending[q] = PendingJobs(q)
  BY <1>3, <1>8, OneQueue
<1>10. Running' = Running
  BY <1>8 DEF Running, Queues
<1>11. ~Serial!Known(j)
  <2>1. ~Placed(j)
    BY <1>2, <1>3 DEF RInv, Fresh
  <2> QED
    BY <1>3, <2>1, KnownPlaced DEF RInv
<1>12. Serial!Submit(q, j)
  BY <1>4, <1>9, <1>10, <1>11 DEF Serial!Submit
<1> QED
  BY <1>3, <1>12 DEF Serial!Next

\* The scheduler implements SerialExecutor: the jobs of a JobQueue run one at a
\* time, once each, in the order of their _jobs.Push, on whatever threads.
THEOREM ImplementsSerialExecutorHolds == Spec => ImplementsSerialExecutor
<1>1. Init => Serial!Init
  <2> SUFFICES ASSUME Init PROVE Serial!Init
    OBVIOUS
  <2>1. \A t \in Threads : exec[t].queue = NoQueue
    BY DEF Init, NoExec
  <2>2. \A q \in Queues : PendingJobs(q) = <<>> /\ RunningJob(q) = NoJob
    <3>1. ASSUME NEW q \in Queues PROVE PendingJobs(q) = <<>> /\ RunningJob(q) = NoJob
      <4>1. \A t \in Threads : exec[t].queue # q
        BY <2>1, QueueFacts
      <4> QED
        BY <4>1, Unexecuted DEF Init
    <3> QED
      BY <3>1
  <2> QED
    BY <2>2 DEF Init, Serial!Init, Pending, Running
<1>2. RInv /\ RInv' /\ [Next]_vars => [Serial!Next]_(Serial!vars)
  <2> SUFFICES ASSUME RInv, IInv, IInv', [Next]_vars PROVE [Serial!Next]_(Serial!vars)
    BY DEF RInv
  <2>1. ASSUME NEW t \in Threads, PushFromLoop(t) \/ PushFromJob(t) \/ Progress(t)
        PROVE  Serial!Next \/ UNCHANGED Serial!vars
    BY <2>1, QuietStep, PopAllStep, ReleaseStep, PopGlobalStep, StartJobStep, EndJobStep,
       EnqueueStep DEF Progress
  <2>2. CASE UNCHANGED vars
    BY <2>2 DEF vars, Serial!vars, Pending, Running, PendingJobs, RunningJob, Executors, InJob
  <2> QED
    BY <2>1, <2>2 DEF Next
<1> QED
  BY <1>1, <1>2, RInvariant, PTL DEF Spec, ImplementsSerialExecutor, Serial!Spec
=============================================================================
