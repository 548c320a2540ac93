------------------------------ MODULE JobTimer ------------------------------
(***************************************************************************)
(* GJobTimer: Reserve, called by a job of Room through DoTimer, and        *)
(* Distribute, to which every logic thread comes once in each turn of      *)
(* DoWorkerJob, after it has read the clock.                               *)
(*                                                                         *)
(* A step is one read of the clock, one access to _distributing, one       *)
(* critical section, or one Push to the owner of a timer.  A Push may run  *)
(* the jobs of the owner at once, so a thread inside it may call Reserve.  *)
(* The owner is always there: a job of DoTimer holds a shared_ptr to it.   *)
(***************************************************************************)
EXTENDS Integers, Sequences, FiniteSets, SequencesExt

CONSTANTS
    Threads,     \* the logic threads
    Timers,      \* bound of the model: the timers reserved, each once
    Delays,      \* the values of tickAfter
    NotReserved, \* executeTick of a timer not yet reserved
    NoTimer,     \* a thread is not in Reserve
    MaxTick      \* bound of the model: the last tick of the clock

ASSUME ConstantsAssumption ==
    /\ Delays \subseteq Nat
    /\ MaxTick \in Nat
    /\ NotReserved \notin Int
    /\ NoTimer \notin Timers

VARIABLES
    clock,        \* GetTickCount64
    items,        \* the timers in the priority queue _items
    executeTick,  \* [Timers -> tick]: executeTick of the TimerItem
    distributing, \* _distributing
    pc,           \* [Threads -> PCs]
    reserving,    \* [Threads -> the timer of the Reserve in progress]
    now,          \* [Threads -> the argument of Distribute, 0 outside it]
    batch,        \* [Threads -> Seq(Timers)]: the local vector items
    inserted,     \* history: the timers in the order in which they came to _items
    fired         \* history: the timers in the order in which their Push was called

vars == <<clock, items, executeTick, distributing, pc, reserving, now, batch, inserted, fired>>

(***************************************************************************)
(* loop      outside Distribute; a job may be running                      *)
(* exchange  before _distributing.exchange(true)                           *)
(* collect   before the critical section of Distribute                     *)
(* push      in the for loop; the Push of the last timer may still run     *)
(***************************************************************************)
PCs == {"loop", "exchange", "collect", "push"}

Init ==
    /\ clock = 0
    /\ items = {}
    /\ executeTick = [x \in Timers |-> NotReserved]
    /\ distributing = FALSE
    /\ pc = [t \in Threads |-> "loop"]
    /\ reserving = [t \in Threads |-> NoTimer]
    /\ now = [t \in Threads |-> 0]
    /\ batch = [t \in Threads |-> <<>>]
    /\ inserted = <<>> /\ fired = <<>>

Goto(t, place) == pc' = [pc EXCEPT ![t] = place]

Tick ==
    /\ clock < MaxTick
    /\ clock' = clock + 1
    /\ UNCHANGED <<items, executeTick, distributing, pc, reserving, now, batch, inserted, fired>>

-----------------------------------------------------------------------------
(* JobTimer::Reserve *)

\* Mutant: the time that has passed is taken from the delay and not added to it.
TickFromStart(tickAfter) == tickAfter - clock
ExecuteTick(tickAfter) == clock + tickAfter

Unreserved == {x \in Timers : executeTick[x] = NotReserved}
NewTimer == CHOOSE x \in Unreserved : TRUE

\* Reserve up to the lock.
Reserve(t) ==
    /\ pc[t] \in {"loop", "push"} /\ reserving[t] = NoTimer
    /\ Unreserved # {}
    /\ \E tickAfter \in Delays :
          executeTick' = [executeTick EXCEPT ![NewTimer] = ExecuteTick(tickAfter)]
    /\ reserving' = [reserving EXCEPT ![t] = NewTimer]
    /\ UNCHANGED <<clock, items, distributing, pc, now, batch, inserted, fired>>

\* The critical section of Reserve.
Insert(t) ==
    /\ reserving[t] # NoTimer
    /\ items' = items \cup {reserving[t]}
    /\ inserted' = Append(inserted, reserving[t])
    /\ reserving' = [reserving EXCEPT ![t] = NoTimer]
    /\ UNCHANGED <<clock, executeTick, distributing, pc, now, batch, fired>>

-----------------------------------------------------------------------------
(* ThreadManager::DistributeReservedJobs and JobTimer::Distribute *)

ReadNow(t) ==
    /\ pc[t] = "loop" /\ reserving[t] = NoTimer
    /\ now' = [now EXCEPT ![t] = clock]
    /\ Goto(t, "exchange")
    /\ UNCHANGED <<clock, items, executeTick, distributing, reserving, batch, inserted, fired>>

\* Mutant: whoever comes may pass.
MayPass == TRUE
Passes == ~distributing

Exchange(t) ==
    /\ pc[t] = "exchange"
    /\ distributing' = TRUE
    /\ \/ Passes /\ Goto(t, "collect") /\ UNCHANGED now
       \/ ~Passes /\ Goto(t, "loop") /\ now' = [now EXCEPT ![t] = 0]
    /\ UNCHANGED <<clock, items, executeTick, reserving, batch, inserted, fired>>

\* The timers that Distribute finds due.
Due(t) == {x \in items : executeTick[x] <= now[t]}

\* The orders in which the priority queue may hand out a set of timers: by
\* executeTick, and in any order where that is equal.
PopOrders(S) ==
    {s \in SetToSeqs(S) :
        \A i, k \in DOMAIN s : i < k => executeTick[s[i]] <= executeTick[s[k]]}

\* The critical section of Distribute.
Collect(t) ==
    /\ pc[t] = "collect"
    /\ \E s \in PopOrders(Due(t)) : batch' = [batch EXCEPT ![t] = s]
    /\ items' = items \ Due(t)
    /\ Goto(t, "push")
    /\ UNCHANGED <<clock, executeTick, distributing, reserving, now, inserted, fired>>

\* owner->Push(job, LOGIC).
PushItem(t) ==
    /\ pc[t] = "push" /\ reserving[t] = NoTimer /\ batch[t] # <<>>
    /\ fired' = Append(fired, Head(batch[t]))
    /\ batch' = [batch EXCEPT ![t] = Tail(@)]
    /\ UNCHANGED <<clock, items, executeTick, distributing, pc, reserving, now, inserted>>

\* Mutant: the flag stays up.
StillDistributing == TRUE
Released == FALSE

\* _distributing.store(false), and the rest of the turn.
EndDistribute(t) ==
    /\ pc[t] = "push" /\ reserving[t] = NoTimer /\ batch[t] = <<>>
    /\ distributing' = Released
    /\ now' = [now EXCEPT ![t] = 0]
    /\ Goto(t, "loop")
    /\ UNCHANGED <<clock, items, executeTick, reserving, batch, inserted, fired>>

-----------------------------------------------------------------------------
Step(t) ==
    \/ Insert(t)
    \/ ReadNow(t) \/ Exchange(t) \/ Collect(t) \/ PushItem(t) \/ EndDistribute(t)

Next ==
    \/ Tick
    \/ \E t \in Threads : Step(t) \/ Reserve(t)

\* Time passes, and every logic thread keeps turning: a job that a Push runs
\* returns, and the locks are held for a moment only.
Spec ==
    /\ Init /\ [][Next]_vars
    /\ WF_vars(Tick)
    /\ \A t \in Threads : WF_vars(Step(t))

-----------------------------------------------------------------------------
(* Properties *)

Ticks == 0 .. MaxTick

\* Every variable has its type.
TypeOK ==
    /\ clock \in Ticks
    /\ items \subseteq Timers
    /\ executeTick \in [Timers -> Nat \cup {NotReserved}]
    /\ distributing \in BOOLEAN
    /\ pc \in [Threads -> PCs]
    /\ reserving \in [Threads -> Timers \cup {NoTimer}]
    /\ now \in [Threads -> Ticks]
    /\ batch \in [Threads -> Seq(Timers)]
    /\ inserted \in Seq(Timers) /\ fired \in Seq(Timers)

\* x stands before y in s, or y is not in s.
NotAfter(s, x, y) ==
    \A k \in DOMAIN s : s[k] = y => \E i \in 1 .. (k - 1) : s[i] = x

\* Of two timers, the one inserted first and for an earlier tick fires first,
\* whichever threads distribute them: monsters that Room spawns one delay apart
\* enter in that order.
DistributedInOrder ==
    \A i, k \in DOMAIN inserted :
        i < k /\ executeTick[inserted[i]] < executeTick[inserted[k]]
            => NotAfter(fired, inserted[i], inserted[k])

\* Every timer fires exactly once, never before its tick, and none is left behind
\* by a thread that found another one distributing and went away.
Abstract == INSTANCE Timers WITH deadline <- executeTick
ImplementsTimers == Abstract!Spec
=============================================================================
