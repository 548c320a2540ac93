------------------------------ MODULE Session -------------------------------
(***************************************************************************)
(* The life of one session: Listener::ProcessAccept, the four overlapped   *)
(* operations of Session (connect excepted, which only a client uses), and *)
(* Service::AddSession and ReleaseSession.                                 *)
(*                                                                         *)
(* Any thread may call Send, and any thread that waits in Iocp::Dispatch   *)
(* may be handed a completion.  A step is one access to shared memory (the *)
(* atomics _isConnected and _sendRegistered, a critical section) or one    *)
(* call of Winsock, with the local code that follows it.  A send buffer is *)
(* a value; what a packet holds and how it is cut is in RecvBuffer.        *)
(***************************************************************************)
EXTENDS Integers, Sequences, FiniteSets, Functions

CONSTANTS
    Threads, \* the logic and DB threads
    Buffers, \* bound of the model: the buffers passed to Send, each once
    None     \* no thread, no buffer

ASSUME ConstantsAssumption == None \notin Threads /\ None \notin Buffers

VARIABLES
    accept,          \* the AcceptEx of this session: "pending", "done", "refused"
    isConnected,     \* _isConnected
    sendBuffers,     \* _sendBuffers
    sendRegistered,  \* _sendRegistered
    eventBuffers,    \* _sendEvent.sendBuffers
    outstanding,     \* the events whose overlapped operation is in progress
    owner,           \* the events whose _owner is this session
    disconnect,      \* DisconnectEx: "none", "posted", "failed" at once, "done"
    inService,       \* the session is in Service::_sessions
    curSessionCount, \* Service::_curSessionCount
    pc,              \* [Threads -> PCs]
    arg,             \* [Threads -> Buffers \cup {None}]: the argument of Send
    receiver,        \* the thread between a receive and the next WSARecv, or None
    published,       \* a packet has been handled: the program knows the session
    deaf,            \* a WSARecv has failed at once
    queued,          \* the buffers pushed to _sendBuffers so far, in order
    wire,            \* the buffers WSASend has taken, in order
    dropped          \* the buffers of the WSASends that failed

sendVars == <<sendBuffers, sendRegistered, eventBuffers, queued, wire, dropped>>
serviceVars == <<inService, curSessionCount>>
vars == <<accept, isConnected, sendVars, outstanding, owner, disconnect, serviceVars,
          pc, arg, receiver, published, deaf>>

(***************************************************************************)
(* idle      elsewhere in the program, or waiting in Iocp::Dispatch        *)
(* add       in ProcessConnect, before AddSession                          *)
(* recvcheck in RegisterRecv, before the test of IsConnected               *)
(* wsarecv   in RegisterRecv, before WSARecv                               *)
(* onrecv    in OnRecv, which may call Send any number of times            *)
(* lock      in Send, past the test of IsConnected, waiting for the lock   *)
(* register  in RegisterSend, with the lock                                *)
(* wsasend   in RegisterSend, with the lock, before WSASend                *)
(* sent      in ProcessSend, waiting for the lock                          *)
(* release   in ProcessDisconnect, before ReleaseSession                   *)
(***************************************************************************)
PCs == {"idle", "add", "recvcheck", "wsarecv", "onrecv", "lock", "register",
        "wsasend", "sent", "release"}

Events == {"send", "recv", "disconnect"}

Init ==
    /\ accept = "pending"
    /\ isConnected = FALSE
    /\ sendBuffers = <<>> /\ sendRegistered = FALSE /\ eventBuffers = <<>>
    /\ outstanding = {} /\ owner = {}
    /\ disconnect = "none"
    /\ inService = FALSE /\ curSessionCount = 0
    /\ pc = [t \in Threads |-> "idle"]
    /\ arg = [t \in Threads |-> None]
    /\ receiver = None /\ published = FALSE /\ deaf = FALSE
    /\ queued = <<>> /\ wire = <<>> /\ dropped = {}

Goto(t, place) == pc' = [pc EXCEPT ![t] = place]

\* The lock of the session is held in RegisterSend only.
LockFree == \A t \in Threads : pc[t] \notin {"register", "wsasend"}

\* A Send that a packet handler made returns into OnRecv.
Return(t) == /\ Goto(t, IF receiver = t THEN "onrecv" ELSE "idle")
             /\ arg' = [arg EXCEPT ![t] = None]

\* Mutant: a Register function forgets SetOwner(shared_from_this()).
NotOwned(events, e) == events
SetOwner(events, e) == events \cup {e}

-----------------------------------------------------------------------------
\* Mutant: Disconnect does not look at what _isConnected was.
AlwaysConnected == TRUE
WasConnected == isConnected

\* Disconnect and RegisterDisconnect.  The caller leaves the events posted
\* outstanding and the events owned with an owner.
Disconnect(posted, owned) ==
    /\ isConnected' = FALSE
    /\ \/ /\ ~WasConnected
          /\ outstanding' = posted /\ owner' = owned
          /\ UNCHANGED disconnect
       \/ /\ WasConnected
          /\ outstanding' = posted \cup {"disconnect"}
          /\ owner' = SetOwner(owned, "disconnect")
          /\ disconnect' = "posted"
       \/ /\ WasConnected \* neither done nor WSA_IO_PENDING
          /\ outstanding' = posted /\ owner' = owned
          /\ disconnect' = "failed"

\* HandleError, followed by SetOwner(nullptr) of the event that failed: a reset
\* closes the session, any other error is only printed.
HandleError(e) ==
    \/ Disconnect(outstanding, owner \ {e})
    \/ /\ owner' = owner \ {e}
       /\ UNCHANGED <<isConnected, outstanding, disconnect>>

\* ProcessDisconnect, up to ReleaseSession.
ProcessDisconnect(t) ==
    /\ pc[t] = "idle" /\ "disconnect" \in outstanding
    /\ outstanding' = outstanding \ {"disconnect"}
    /\ owner' = owner \ {"disconnect"}
    /\ disconnect' = "done"
    /\ Goto(t, "release")
    /\ UNCHANGED <<accept, isConnected, sendVars, serviceVars, arg, receiver, published, deaf>>

\* Mutant: ReleaseSession only counts.
StillInService == inService
Erased == FALSE

\* ASSERT_CRASH ends the server if the session is not in the set.
ReleaseSession(t) ==
    /\ pc[t] = "release" /\ inService
    /\ inService' = Erased
    /\ curSessionCount' = curSessionCount - 1
    /\ Goto(t, "idle")
    /\ UNCHANGED <<accept, isConnected, sendVars, outstanding, owner, disconnect, arg,
                   receiver, published, deaf>>

-----------------------------------------------------------------------------
\* ProcessAccept fails: another session takes the accept event.
RefuseAccept ==
    /\ accept = "pending"
    /\ accept' = "refused"
    /\ UNCHANGED <<isConnected, sendVars, outstanding, owner, disconnect, serviceVars, pc,
                   arg, receiver, published, deaf>>

\* ProcessAccept and ProcessConnect, up to AddSession.
ProcessConnect(t) ==
    /\ accept = "pending" /\ pc[t] = "idle"
    /\ accept' = "done"
    /\ isConnected' = TRUE
    /\ receiver' = t
    /\ Goto(t, "add")
    /\ UNCHANGED <<sendVars, outstanding, owner, disconnect, serviceVars, arg, published, deaf>>

\* Mutant: AddSession only inserts.
Uncounted == curSessionCount
Counted == curSessionCount + 1

\* AddSession, and OnConnected, which does nothing.
AddSession(t) ==
    /\ pc[t] = "add"
    /\ inService' = TRUE
    /\ curSessionCount' = Counted
    /\ Goto(t, "recvcheck")
    /\ UNCHANGED <<accept, isConnected, sendVars, outstanding, owner, disconnect, arg,
                   receiver, published, deaf>>

-----------------------------------------------------------------------------
\* RegisterRecv, up to WSARecv.
RegisterRecv(t) ==
    /\ pc[t] = "recvcheck"
    /\ \/ /\ isConnected
          /\ owner' = SetOwner(owner, "recv")
          /\ Goto(t, "wsarecv")
          /\ UNCHANGED receiver
       \/ /\ ~isConnected
          /\ receiver' = None
          /\ Goto(t, "idle")
          /\ UNCHANGED owner
    /\ UNCHANGED <<accept, isConnected, sendVars, outstanding, disconnect, serviceVars, arg,
                   published, deaf>>

WSARecv(t) ==
    /\ pc[t] = "wsarecv"
    /\ receiver' = None
    /\ Goto(t, "idle")
    /\ \/ /\ disconnect # "done"
          /\ outstanding' = outstanding \cup {"recv"}
          /\ UNCHANGED <<isConnected, owner, disconnect, deaf>>
       \/ /\ HandleError("recv")
          /\ deaf' = TRUE
    /\ UNCHANGED <<accept, sendVars, serviceVars, arg, published>>

\* ProcessRecv of a receive that failed or got 0 bytes.
ProcessRecvNothing(t) ==
    /\ pc[t] = "idle" /\ "recv" \in outstanding
    /\ Disconnect(outstanding \ {"recv"}, owner \ {"recv"})
    /\ UNCHANGED <<accept, sendVars, serviceVars, pc, arg, receiver, published, deaf>>

\* ProcessRecv of a receive that got data, up to OnRecv.
ProcessRecv(t) ==
    /\ pc[t] = "idle" /\ "recv" \in outstanding
    /\ outstanding' = outstanding \ {"recv"}
    /\ owner' = owner \ {"recv"}
    /\ receiver' = t
    /\ published' = TRUE
    /\ Goto(t, "onrecv")
    /\ UNCHANGED <<accept, isConnected, sendVars, disconnect, serviceVars, arg, deaf>>

\* Mutant: RegisterRecv is missing at the end of ProcessRecv.
ReturnFromRecv(t) == Goto(t, "idle") /\ receiver' = None
ReceiveAgain(t) == Goto(t, "recvcheck") /\ UNCHANGED receiver

\* OnRecv returns: what it consumed is wrong, or the next receive is posted.
EndOnRecv(t) ==
    /\ pc[t] = "onrecv"
    /\ \/ /\ Disconnect(outstanding, owner)
          /\ receiver' = None
          /\ Goto(t, "idle")
       \/ /\ ReceiveAgain(t)
          /\ UNCHANGED <<isConnected, outstanding, owner, disconnect>>
    /\ UNCHANGED <<accept, sendVars, serviceVars, arg, published, deaf>>

-----------------------------------------------------------------------------
\* Send, by a packet handler of this session or by a job: the test of
\* IsConnected, outside the lock.  A Send that finds it FALSE does nothing.
Send(t, b) ==
    /\ published /\ pc[t] \in {"idle", "onrecv"}
    /\ b \notin Range(queued) /\ \A u \in Threads : arg[u] # b
    /\ isConnected
    /\ arg' = [arg EXCEPT ![t] = b]
    /\ Goto(t, "lock")
    /\ UNCHANGED <<accept, isConnected, sendVars, outstanding, owner, disconnect, serviceVars,
                   receiver, published, deaf>>

\* Mutant: Send registers whenever it is called.
AlwaysRegister == TRUE
NotRegistered == ~sendRegistered

\* The critical section of Send, up to RegisterSend.
PushSendBuffer(t) ==
    /\ pc[t] = "lock" /\ LockFree
    /\ sendBuffers' = Append(sendBuffers, arg[t])
    /\ queued' = Append(queued, arg[t])
    /\ sendRegistered' = TRUE
    /\ \/ NotRegistered /\ Goto(t, "register") /\ UNCHANGED arg
       \/ ~NotRegistered /\ Return(t)
    /\ UNCHANGED <<accept, isConnected, eventBuffers, outstanding, owner, disconnect,
                   serviceVars, receiver, published, deaf, wire, dropped>>

\* RegisterSend, up to WSASend.  It leaves _sendRegistered set when it returns
\* because the session is closed.
RegisterSend(t) ==
    /\ pc[t] = "register"
    /\ \/ /\ ~isConnected
          /\ Return(t)
          /\ UNCHANGED <<sendVars, owner>>
       \/ /\ isConnected
          /\ owner' = SetOwner(owner, "send")
          /\ eventBuffers' = eventBuffers \o sendBuffers
          /\ sendBuffers' = <<>>
          /\ Goto(t, "wsasend")
          /\ UNCHANGED <<sendRegistered, queued, wire, dropped, arg>>
    /\ UNCHANGED <<accept, isConnected, outstanding, disconnect, serviceVars, receiver,
                   published, deaf>>

WSASend(t) ==
    /\ pc[t] = "wsasend"
    /\ Return(t)
    /\ \/ /\ disconnect # "done"
          /\ outstanding' = outstanding \cup {"send"}
          /\ wire' = wire \o eventBuffers
          /\ UNCHANGED <<isConnected, owner, disconnect, sendRegistered, eventBuffers, dropped>>
       \/ /\ HandleError("send")
          /\ eventBuffers' = <<>>
          /\ sendRegistered' = FALSE
          /\ dropped' = dropped \cup Range(eventBuffers)
          /\ UNCHANGED wire
    /\ UNCHANGED <<accept, sendBuffers, queued, serviceVars, receiver, published, deaf>>

\* Mutant: ProcessSend leaves the buffers in the event.
NotCleared == eventBuffers
Cleared == <<>>

\* ProcessSend of a send that failed or sent 0 bytes.
ProcessSendNothing(t) ==
    /\ pc[t] = "idle" /\ "send" \in outstanding
    /\ eventBuffers' = Cleared
    /\ Disconnect(outstanding \ {"send"}, owner \ {"send"})
    /\ UNCHANGED <<accept, sendBuffers, sendRegistered, queued, wire, dropped, serviceVars, pc,
                   arg, receiver, published, deaf>>

\* ProcessSend, up to the lock.
ProcessSend(t) ==
    /\ pc[t] = "idle" /\ "send" \in outstanding
    /\ outstanding' = outstanding \ {"send"}
    /\ owner' = owner \ {"send"}
    /\ eventBuffers' = Cleared
    /\ Goto(t, "sent")
    /\ UNCHANGED <<accept, isConnected, sendBuffers, sendRegistered, queued, wire, dropped,
                   disconnect, serviceVars, arg, receiver, published, deaf>>

\* Mutant: ProcessSend does not look for buffers that came in the meantime.
NothingMore == TRUE
NothingToSend == sendBuffers = <<>>

\* The critical section of ProcessSend, up to RegisterSend.
SendNext(t) ==
    /\ pc[t] = "sent" /\ LockFree
    /\ \/ NothingToSend /\ sendRegistered' = FALSE /\ Goto(t, "idle")
       \/ ~NothingToSend /\ Goto(t, "register") /\ UNCHANGED sendRegistered
    /\ UNCHANGED <<accept, isConnected, sendBuffers, eventBuffers, queued, wire, dropped,
                   outstanding, owner, disconnect, serviceVars, arg, receiver, published, deaf>>

-----------------------------------------------------------------------------
\* The steps of a thread inside a function of the session.
Step(t) ==
    \/ AddSession(t) \/ RegisterRecv(t) \/ WSARecv(t) \/ EndOnRecv(t)
    \/ PushSendBuffer(t) \/ RegisterSend(t) \/ WSASend(t) \/ SendNext(t)
    \/ ReleaseSession(t)

SendCompletes(t) == ProcessSend(t) \/ ProcessSendNothing(t)

Next ==
    \/ RefuseAccept
    \/ \E t \in Threads :
        \/ Step(t)
        \/ ProcessConnect(t) \/ ProcessDisconnect(t)
        \/ ProcessRecv(t) \/ ProcessRecvNothing(t)
        \/ SendCompletes(t)
        \/ \E b \in Buffers : Send(t, b)

Spec == Init /\ [][Next]_vars

\* Threads run, posted sends and disconnects complete, and so does a pending
\* receive once the socket is being disconnected.  A client need not send.
Fairness ==
    /\ \A t \in Threads : WF_vars(Step(t))
    /\ WF_vars(\E t \in Threads : SendCompletes(t))
    /\ WF_vars(\E t \in Threads : ProcessDisconnect(t))
    /\ WF_vars(\E t \in Threads : disconnect = "posted" /\ ProcessRecvNothing(t))
    /\ WF_vars(\E t \in Threads : disconnect = "done" /\ ProcessRecvNothing(t))

FairSpec == Spec /\ Fairness

-----------------------------------------------------------------------------
TypeOK ==
    /\ accept \in {"pending", "done", "refused"}
    /\ isConnected \in BOOLEAN /\ sendRegistered \in BOOLEAN
    /\ sendBuffers \in Seq(Buffers) /\ eventBuffers \in Seq(Buffers)
    /\ outstanding \subseteq Events /\ owner \subseteq Events
    /\ disconnect \in {"none", "posted", "failed", "done"}
    /\ inService \in BOOLEAN /\ curSessionCount \in 0 .. 1
    /\ pc \in [Threads -> PCs] /\ arg \in [Threads -> Buffers \cup {None}]
    /\ receiver \in Threads \cup {None}
    /\ published \in BOOLEAN /\ deaf \in BOOLEAN
    /\ queued \in Seq(Buffers) /\ wire \in Seq(Buffers) /\ dropped \subseteq Buffers

\* The threads on the way from one WSASend to the next.
Senders == {t \in Threads : pc[t] \in {"register", "wsasend", "sent"}}

\* At most one send is being registered, in progress or being completed: the one
\* _sendEvent, whose buffers ProcessSend clears without the lock, is never shared.
OneSend ==
    /\ Cardinality(Senders) <= 1
    /\ "send" \in outstanding => Senders = {}

\* The buffers handed to Winsock, then the ones on their way to it.
Taken ==
    wire \o (IF \E t \in Threads : pc[t] = "wsasend" THEN eventBuffers ELSE <<>>)
         \o sendBuffers

\* Every buffer that Send queues is handed to Winsock once, in the order of the
\* pushes, or was in a WSASend that failed, or is still waiting.
SentOnceInOrder ==
    /\ Range(Taken) = Range(queued) \ dropped
    /\ \A i, j \in DOMAIN Taken, k, l \in DOMAIN queued :
          Taken[i] = queued[k] /\ Taken[j] = queued[l] => (i < j <=> k < l)

\* While the session is connected, buffers that wait have somebody to send them:
\* _sendRegistered is never left set with nobody behind it.
SenderForWaiting ==
    isConnected /\ sendBuffers # <<>>
        => sendRegistered /\ (Senders # {} \/ "send" \in outstanding)

\* _recvBuffer has no lock: a receive is in progress, or one thread handles the
\* data, never both; and never neither while the session is connected, but for a
\* WSARecv that failed with something else than a reset.
OneReceive ==
    /\ ~("recv" \in outstanding /\ receiver # None)
    /\ isConnected => deaf \/ "recv" \in outstanding \/ receiver # None

\* An event in progress owns the session: Iocp::Dispatch finds it alive when the
\* completion arrives, even after the service has let it go.
OwnedWhileOutstanding == outstanding \subseteq owner

\* ReleaseSession finds the session in the set of the service: it is called once,
\* and not before AddSession.
ReleaseFinds == \A t \in Threads : pc[t] = "release" => inService

\* A session whose DisconnectEx was posted leaves the set of the service and is
\* owned by no event any more, so that it can be destroyed.
ClosedIsReleased == disconnect = "posted" ~> ~inService /\ owner = {}

\* What Send queues reaches Winsock, or its WSASend fails, or the session closes.
QueuedIsSent ==
    \A b \in Buffers :
        b \in Range(queued) ~> b \in Range(wire) \cup dropped \/ ~isConnected
=============================================================================
