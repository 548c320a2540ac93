------------------------------- MODULE Timers -------------------------------
(***************************************************************************)
(* What DoTimer promises to Room: a timer fires once, not before the tick  *)
(* for which it was reserved, and it does fire once that tick has come.    *)
(* Nothing here says which thread fires it.                                *)
(***************************************************************************)
EXTENDS Integers, Sequences, Functions

CONSTANTS Timers,      \* the timers ever reserved
          Delays,      \* the values of tickAfter
          NotReserved, \* deadline[x] of a timer that nobody has reserved
          MaxTick      \* bound of the model: the last tick of the clock

VARIABLES clock,    \* GetTickCount64
          deadline, \* [Timers -> ticks \cup {NotReserved}]
          fired     \* the timers that have fired, in order

vars == <<clock, deadline, fired>>

Init ==
    /\ clock = 0
    /\ deadline = [x \in Timers |-> NotReserved]
    /\ fired = <<>>

Tick ==
    /\ clock < MaxTick
    /\ clock' = clock + 1
    /\ UNCHANGED <<deadline, fired>>

Reserve(x) ==
    /\ deadline[x] = NotReserved
    /\ \E d \in Delays : deadline' = [deadline EXCEPT ![x] = clock + d]
    /\ UNCHANGED <<clock, fired>>

Fire(x) ==
    /\ deadline[x] # NotReserved /\ deadline[x] <= clock
    /\ x \notin Range(fired)
    /\ fired' = Append(fired, x)
    /\ UNCHANGED <<clock, deadline>>

Next == Tick \/ \E x \in Timers : Reserve(x) \/ Fire(x)

Spec ==
    /\ Init /\ [][Next]_vars
    /\ WF_vars(Tick)
    /\ \A x \in Timers : WF_vars(Fire(x))
=============================================================================
