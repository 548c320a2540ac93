------------------------------ MODULE Listener ------------------------------
(***************************************************************************)
(* The accept slots of the server: StartAccept, which main runs before it  *)
(* starts the threads, RegisterAccept, ProcessAccept, and the sessions of  *)
(* Service.  Winsock keeps the clients that wait in a backlog and hands    *)
(* them to the AcceptEx calls that are pending (external).                 *)
(*                                                                         *)
(* A session is destroyed when nothing refers to it, and its address may   *)
(* then be that of a new one.  What a connected session does until it is   *)
(* released is in Session.                                                 *)
(***************************************************************************)
EXTENDS Integers, Sequences, FiniteSets, Functions

CONSTANTS
    AcceptEvents, \* _acceptEvents: _maxSessionCount slots
    Threads,      \* the logic threads
    Main,         \* the thread of main
    Clients,      \* bound of the model: the clients, each with one connection
    Sessions,     \* the addresses that sessions may have
    None,         \* nullptr; no event, no client
    MaxFailures,  \* bound of the model: AcceptEx calls that fail in a row
    CountValues   \* how many values the uint16 _curSessionCount has: 2 ^ 16

Workers == Threads \cup {Main}

\* At most MaxFailures + 2 sessions are on the stack of a thread.
ASSUME ConstantsAssumption ==
    /\ Main \notin Threads
    /\ None \notin AcceptEvents \cup Clients \cup Sessions
    /\ MaxFailures \in Nat /\ CountValues \in Nat \ {0}
    /\ IsFiniteSet(AcceptEvents) /\ IsFiniteSet(Clients) /\ IsFiniteSet(Threads)
    /\ Cardinality(Sessions) > Cardinality(AcceptEvents) + Cardinality(Clients)
                               + (MaxFailures + 2) * Cardinality(Workers)

VARIABLES
    backlog,         \* the clients that wait to be accepted, in order
    state,           \* [AcceptEvents -> States]
    session,         \* [AcceptEvents -> Sessions \cup {None}]: acceptEvent->session
    peer,            \* [Sessions -> Clients \cup {None}]: who is at the other end
    sessions,        \* Service::_sessions
    curSessionCount, \* Service::_curSessionCount
    pc,              \* [Workers -> PCs]
    holds,           \* [Workers -> AcceptEvents \cup {None}]: the argument acceptEvent
    stack,           \* [Workers -> Seq(Sessions)]: the local variables session
    crashed          \* a null pointer has ended the server

vars == <<backlog, state, session, peer, sessions, curSessionCount, pc, holds, stack, crashed>>

(***************************************************************************)
(* state: new        StartAccept has not made the event yet                *)
(*        held       in the hands of a thread                              *)
(*        posted     an AcceptEx is pending                                *)
(*        completed  queued at the completion port                         *)
(* pc:    start      main in the loop of StartAccept                       *)
(*        wait       in Iocp::Dispatch or elsewhere in the program         *)
(*        process    in ProcessAccept, before SetUpdateAcceptSocket        *)
(*        connect    in ProcessAccept, before ProcessConnect               *)
(*        register   in RegisterAccept, before CreateSession               *)
(*        acceptex   in RegisterAccept, before AcceptEx                    *)
(*        join       main has started the threads                          *)
(***************************************************************************)
States == {"new", "held", "posted", "completed"}
PCs == {"start", "wait", "process", "connect", "register", "acceptex", "join"}

Init ==
    /\ backlog = <<>>
    /\ state = [e \in AcceptEvents |-> "new"]
    /\ session = [e \in AcceptEvents |-> None]
    /\ peer = [s \in Sessions |-> None]
    /\ sessions = {} /\ curSessionCount = 0
    /\ pc = [t \in Workers |-> IF t = Main THEN "start" ELSE "wait"]
    /\ holds = [t \in Workers |-> None]
    /\ stack = [t \in Workers |-> <<>>]
    /\ crashed = FALSE

Goto(t, place) == pc' = [pc EXCEPT ![t] = place]
SetState(e, s) == state' = [state EXCEPT ![e] = s]

-----------------------------------------------------------------------------
(* Sessions and references to them *)

\* Those that a shared_ptr, or a connection that is still open, keeps.
Alive ==
    sessions \cup (Range(session) \ {None}) \cup UNION {Range(stack[t]) : t \in Workers}

NewSession == CHOOSE s \in Sessions : s \notin Alive

\* Mutant: RegisterAccept offers the session it has.
SessionAtHand(e) == IF session[e] = None THEN NewSession ELSE session[e]
\* What Service::CreateSession returns.
CreateSession(e) == NewSession

\* Mutant: the counter is an unbounded integer.
Unbounded(n) == n
\* uint16 arithmetic.
Count(n) == n % CountValues

-----------------------------------------------------------------------------
(* Clients, and Winsock *)

Busy(c) == c \in Range(backlog) \/ \E s \in Sessions : peer[s] = c

\* A client connects once the socket listens.
Connect(c) ==
    /\ ~crashed /\ ~Busy(c)
    /\ backlog' = Append(backlog, c)
    /\ UNCHANGED <<state, session, peer, sessions, curSessionCount, pc, holds, stack, crashed>>

\* A pending AcceptEx completes with the client that has waited longest.
Complete(e) ==
    /\ ~crashed /\ state[e] = "posted" /\ backlog # <<>>
    /\ SetState(e, "completed")
    /\ peer' = [peer EXCEPT ![session[e]] = Head(backlog)]
    /\ backlog' = Tail(backlog)
    /\ UNCHANGED <<session, sessions, curSessionCount, pc, holds, stack, crashed>>

\* A connected session closes: Service::ReleaseSession, at the end of its life.
ReleaseSession(s) ==
    /\ ~crashed /\ s \in sessions
    /\ sessions' = sessions \ {s}
    /\ curSessionCount' = Count(curSessionCount - 1)
    /\ peer' = [peer EXCEPT ![s] = None]
    /\ UNCHANGED <<backlog, state, session, pc, holds, stack, crashed>>

-----------------------------------------------------------------------------
(* Listener::StartAccept *)

\* One turn of the loop, up to RegisterAccept.
NewAcceptEvent ==
    /\ ~crashed /\ pc[Main] = "start"
    /\ \E e \in AcceptEvents :
          /\ state[e] = "new"
          /\ SetState(e, "held")
          /\ holds' = [holds EXCEPT ![Main] = e]
    /\ Goto(Main, "register")
    /\ UNCHANGED <<backlog, session, peer, sessions, curSessionCount, stack, crashed>>

\* StartAccept returns, and main launches the threads.
StartThreads ==
    /\ ~crashed /\ pc[Main] = "start"
    /\ \A e \in AcceptEvents : state[e] # "new"
    /\ Goto(Main, "join")
    /\ UNCHANGED <<backlog, state, session, peer, sessions, curSessionCount, holds, stack,
                   crashed>>

-----------------------------------------------------------------------------
(* Listener::RegisterAccept *)

\* CreateSession, and acceptEvent->session = session.
RegisterAccept(t) ==
    LET e == holds[t]
        s == CreateSession(e)
    IN
    /\ ~crashed /\ pc[t] = "register"
    /\ session' = [session EXCEPT ![e] = s]
    /\ stack' = [stack EXCEPT ![t] = Append(@, s)]
    /\ Goto(t, "acceptex")
    /\ UNCHANGED <<backlog, state, peer, sessions, curSessionCount, holds, crashed>>

\* Iocp::Register fails, CreateSession returns nullptr, and session->GetSocket()
\* ends the server.
CreateSessionFails(t) ==
    /\ ~crashed /\ pc[t] = "register"
    /\ session' = [session EXCEPT ![holds[t]] = None]
    /\ crashed' = TRUE
    /\ UNCHANGED <<backlog, state, peer, sessions, curSessionCount, pc, holds, stack>>

\* All calls of RegisterAccept return, and their caller with them: to the loop of
\* StartAccept or, through ProcessAccept, to Dispatch.
Return(t) ==
    /\ Goto(t, IF t = Main THEN "start" ELSE "wait")
    /\ holds' = [holds EXCEPT ![t] = None]
    /\ stack' = [stack EXCEPT ![t] = <<>>]

\* AcceptEx is done at once, in which case its completion is queued too, or is
\* pending.
AcceptEx(t) ==
    /\ ~crashed /\ pc[t] = "acceptex"
    /\ SetState(holds[t], "posted")
    /\ Return(t)
    /\ UNCHANGED <<backlog, session, peer, sessions, curSessionCount, crashed>>

\* AcceptEx fails: RegisterAccept again, one call deeper.
AcceptExFails(t) ==
    /\ ~crashed /\ pc[t] = "acceptex"
    /\ Len(stack[t]) <= MaxFailures
    /\ Goto(t, "register")
    /\ UNCHANGED <<backlog, state, session, peer, sessions, curSessionCount, holds, stack,
                   crashed>>

-----------------------------------------------------------------------------
(* Listener::Dispatch and ProcessAccept *)

Dispatch(t, e) ==
    /\ ~crashed /\ t \in Threads /\ pc[t] = "wait" /\ pc[Main] = "join"
    /\ state[e] = "completed"
    /\ SetState(e, "held")
    /\ holds' = [holds EXCEPT ![t] = e]
    /\ stack' = [stack EXCEPT ![t] = <<session[e]>>]
    /\ Goto(t, "process")
    /\ UNCHANGED <<backlog, session, peer, sessions, curSessionCount, crashed>>

\* Mutant: ProcessAccept returns without RegisterAccept.
GiveUp(t) == Return(t)
Retry(t) == Goto(t, "register") /\ UNCHANGED <<holds, stack>>

\* SetUpdateAcceptSocket or getpeername fails, as when the client has gone.
ProcessAcceptFails(t) ==
    /\ ~crashed /\ pc[t] = "process"
    /\ peer' = [peer EXCEPT ![Head(stack[t])] = None]
    /\ Retry(t)
    /\ UNCHANGED <<backlog, state, session, sessions, curSessionCount, crashed>>

\* Both succeed.
ProcessAccept(t) ==
    /\ ~crashed /\ pc[t] = "process"
    /\ Goto(t, "connect")
    /\ UNCHANGED <<backlog, state, session, peer, sessions, curSessionCount, holds, stack,
                   crashed>>

\* Mutant: ProcessAccept ends with ProcessConnect.
NothingAfter(t) == Return(t)
AcceptNext(t) == Goto(t, "register") /\ UNCHANGED <<holds, stack>>

\* session->ProcessConnect(), of which AddSession is the part that counts here.
ProcessConnect(t) ==
    /\ ~crashed /\ pc[t] = "connect"
    /\ sessions' = sessions \cup {Head(stack[t])}
    /\ curSessionCount' = Count(curSessionCount + 1)
    /\ AcceptNext(t)
    /\ UNCHANGED <<backlog, state, session, peer, crashed>>

-----------------------------------------------------------------------------
Step(t) ==
    \/ RegisterAccept(t) \/ AcceptEx(t)
    \/ ProcessAccept(t) \/ ProcessAcceptFails(t) \/ ProcessConnect(t)
    \/ \E e \in AcceptEvents : Dispatch(t, e)

Start == NewAcceptEvent \/ StartThreads

Next ==
    \/ \E c \in Clients : Connect(c)
    \/ \E e \in AcceptEvents : Complete(e)
    \/ \E s \in sessions : ReleaseSession(s)
    \/ Start
    \/ \E t \in Workers : Step(t) \/ CreateSessionFails(t) \/ AcceptExFails(t)

Spec == Init /\ [][Next]_vars

\* Threads run, main included; a completion that is queued is handed out; and
\* Winsock completes a pending AcceptEx when a client waits.
Fairness ==
    /\ WF_vars(Start)
    /\ \A t \in Workers : WF_vars(Step(t))
    /\ \A e \in AcceptEvents : SF_vars(\E t \in Threads : Dispatch(t, e))
    /\ WF_vars(\E e \in AcceptEvents : Complete(e))

FairSpec == Spec /\ Fairness

-----------------------------------------------------------------------------
(* Properties *)

\* Every variable has its type; the counter stays within its bits.
TypeOK ==
    /\ backlog \in Seq(Clients)
    /\ state \in [AcceptEvents -> States]
    /\ session \in [AcceptEvents -> Sessions \cup {None}]
    /\ peer \in [Sessions -> Clients \cup {None}]
    /\ sessions \subseteq Sessions
    /\ curSessionCount \in 0 .. CountValues - 1
    /\ pc \in [Workers -> PCs]
    /\ holds \in [Workers -> AcceptEvents \cup {None}]
    /\ stack \in [Workers -> Seq(Sessions)]
    /\ crashed \in BOOLEAN

\* No accept slot is lost or used twice, whatever fails: an event is in the hands
\* of exactly one thread, or its AcceptEx is pending or completed.
NoSlotLost ==
    \A e \in AcceptEvents :
        Cardinality({t \in Workers : holds[t] = e}) = IF state[e] = "held" THEN 1 ELSE 0

Offered == {e \in AcceptEvents : state[e] \in {"posted", "completed"}}

\* A session that is offered to a client is offered by one slot only, and is
\* not, or not any more, a connected one; the service counts the connected ones.
OwnSession ==
    /\ \A e, f \in Offered : session[e] = session[f] => e = f
    /\ \A e \in Offered : session[e] \in Sessions \ sessions
    /\ curSessionCount = Count(Cardinality(sessions))

\* A client that waits gets a connected session, or its accept fails; a server
\* with fewer slots than clients keeps accepting, unless CreateSession fails.
EveryClientAnswered ==
    \A c \in Clients :
        c \in Range(backlog)
            ~> crashed \/ ~Busy(c) \/ \E s \in sessions : peer[s] = c
=============================================================================
