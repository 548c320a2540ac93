--------------------------- MODULE Session_proofs ---------------------------
(***************************************************************************)
(* Proofs about Session, for any number of threads and buffers.            *)
(*                                                                         *)
(* The argument: three rights are passed on and never copied.              *)
(* _sendRegistered is a lock on _sendEvent that Send takes, the completion *)
(* of the send inherits and ProcessSend or a failed WSASend gives back.    *)
(* The right to touch _recvBuffer belongs to the posted receive or to the  *)
(* thread that handles it.  And the right to close belongs to whoever      *)
(* moves _isConnected to FALSE, which happens once.                        *)
(***************************************************************************)
EXTENDS Session, SequenceLemmas, SequenceTheorems, FiniteSetTheorems, TLAPS

-----------------------------------------------------------------------------
(* The inductive invariant *)

\* Before ProcessConnect nobody knows the session.
Unborn ==
    accept # "done" =>
        /\ ~isConnected /\ ~published
        /\ outstanding = {} /\ owner = {} /\ disconnect = "none"
        /\ ~inService /\ receiver = None
        /\ \A t \in Threads : pc[t] = "idle"

\* Before the first packet nobody can have called Send.
Unpublished ==
    ~published =>
        /\ ~sendRegistered /\ "send" \notin outstanding
        /\ sendBuffers = <<>> /\ eventBuffers = <<>>
        /\ \A t \in Threads : pc[t] \notin {"onrecv", "lock", "register", "wsasend", "sent"}

\* In ProcessConnect the session has one thread and no operation in progress.
Adding ==
    \A t \in Threads : pc[t] = "add" =>
        /\ isConnected /\ ~published /\ ~inService
        /\ outstanding = {} /\ disconnect = "none"
        /\ \A u \in Threads \ {t} : pc[u] = "idle"

\* Disconnect posts at most one DisconnectEx.
Closing ==
    /\ isConnected => disconnect = "none"
    /\ "disconnect" \in outstanding <=> disconnect = "posted"

\* The service counts the session while it holds it, which is from AddSession to
\* the ReleaseSession that follows the one completed DisconnectEx.
Serving ==
    /\ curSessionCount = IF inService THEN 1 ELSE 0
    /\ accept = "done" /\ disconnect # "done" =>
          inService \/ \E t \in Threads : pc[t] = "add"
    /\ \A t \in Threads : pc[t] = "release" => inService /\ disconnect = "done"
    /\ \A t, u \in Threads : pc[t] = "release" /\ pc[u] = "release" => t = u

\* The receiver is the one thread between a receive and the next WSARecv.
Receiving ==
    /\ receiver # None =>
          pc[receiver] \in {"add", "recvcheck", "wsarecv", "onrecv", "lock", "register", "wsasend"}
    /\ \A t \in Threads : pc[t] \in {"add", "recvcheck", "wsarecv", "onrecv"} => receiver = t
    /\ "recv" \in outstanding => receiver = None
    /\ isConnected => deaf \/ "recv" \in outstanding \/ receiver # None

\* A thread in RegisterSend or ProcessSend.
Sending(t) == pc[t] \in {"register", "wsasend", "sent"}

\* _sendRegistered is a lock: one thread or one operation has it, and while the
\* session is connected it is not left set without one.
SendLock ==
    /\ \A t, u \in Threads : Sending(t) /\ Sending(u) => t = u
    /\ "send" \in outstanding => \A t \in Threads : ~Sending(t)
    /\ ~sendRegistered => "send" \notin outstanding /\ \A t \in Threads : ~Sending(t)
    /\ isConnected /\ sendRegistered => "send" \in outstanding \/ \E t \in Threads : Sending(t)

\* What the holder of the lock finds in _sendEvent and _sendBuffers.
SendEvent ==
    /\ \A t \in Threads : pc[t] = "wsasend" => sendBuffers = <<>>
    /\ eventBuffers # <<>> => "send" \in outstanding \/ \E t \in Threads : pc[t] = "wsasend"

\* An operation is owned from before it is posted until it has completed.
Owned ==
    /\ outstanding \subseteq owner
    /\ \A t \in Threads : pc[t] = "wsarecv" => "recv" \in owner
    /\ \A t \in Threads : pc[t] = "wsasend" => "send" \in owner

\* A buffer on its way into _sendBuffers is in one thread's hands.
Fresh ==
    /\ \A t \in Threads : pc[t] = "lock" => arg[t] \in Buffers \ Range(queued)
    /\ \A t, u \in Threads : pc[t] = "lock" /\ pc[u] = "lock" /\ arg[t] = arg[u] => t = u

\* Only buffers that were queued can be dropped.
Dropped == dropped \subseteq Range(queued)

Core == /\ TypeOK /\ Unborn /\ Unpublished /\ Adding /\ Closing /\ Serving /\ Receiving
        /\ SendLock /\ SendEvent /\ Owned /\ Fresh

IInv == Core /\ SenderForWaiting /\ SentOnceInOrder /\ Dropped
-----------------------------------------------------------------------------
(* One lemma for each part of the invariant *)

\* The initial state.
LEMMA InitIInv == Init => IInv
<1> SUFFICES ASSUME Init PROVE IInv
  OBVIOUS
<1> USE ConstantsAssumption DEF Init
<1>1. TypeOK
  <2>1. pc \in [Threads -> PCs] /\ arg \in [Threads -> Buffers \cup {None}]
    BY DEF PCs
  <2>2. 0 \in 0 .. 1 /\ <<>> \in Seq(Buffers)
    BY EmptySeq
  <2> QED
    BY <2>1, <2>2 DEF TypeOK
<1>2. Unborn /\ Unpublished /\ Adding /\ Closing /\ Serving
  BY DEF Unborn, Unpublished, Adding, Closing, Serving
<1>3. Receiving /\ SendLock /\ SendEvent /\ Owned /\ SenderForWaiting
  BY DEF Receiving, SendLock, Sending, SendEvent, Owned, SenderForWaiting
<1>4. Fresh
  BY DEF Fresh
<1>5. SentOnceInOrder /\ Dropped
  BY DEF SentOnceInOrder, Taken, Dropped, Range
<1> QED
  BY <1>1, <1>2, <1>3, <1>4, <1>5 DEF IInv, Core

\* The types; the count of the service stays in 0 .. 1 because a session is added
\* once and released once.
LEMMA TypeStep == Core /\ [Next]_vars => TypeOK'
<1> SUFFICES ASSUME Core, [Next]_vars PROVE TypeOK'
  OBVIOUS
<1> USE DEF Core, TypeOK, Goto, PCs, Events
<1>1. CASE UNCHANGED vars
  BY <1>1 DEF vars, sendVars, serviceVars
<1>2. CASE RefuseAccept
  BY <1>2 DEF RefuseAccept, sendVars, serviceVars
<1>3. ASSUME NEW t \in Threads, AddSession(t) PROVE TypeOK'
  BY <1>3 DEF AddSession, Counted, Adding, Serving, sendVars, serviceVars
<1>4. ASSUME NEW t \in Threads, ReleaseSession(t) PROVE TypeOK'
  <2>1. curSessionCount = 1 /\ inService' = FALSE /\ curSessionCount' = 0
    BY <1>4 DEF ReleaseSession, Erased, Serving
  <2>2. curSessionCount' \in 0 .. 1
    BY <2>1
  <2>3. pc' \in [Threads -> PCs]
    BY <1>4 DEF ReleaseSession
  <2> QED
    BY <1>4, <2>1, <2>2, <2>3 DEF ReleaseSession, sendVars
<1>5. ASSUME NEW t \in Threads, WSARecv(t) PROVE TypeOK'
  BY <1>5 DEF WSARecv, HandleError, Disconnect, SetOwner, WasConnected, sendVars, serviceVars
<1>6. ASSUME NEW t \in Threads, ProcessRecvNothing(t) PROVE TypeOK'
  BY <1>6 DEF ProcessRecvNothing, Disconnect, SetOwner, WasConnected, sendVars, serviceVars
<1>7. ASSUME NEW t \in Threads, EndOnRecv(t) PROVE TypeOK'
  BY <1>7 DEF EndOnRecv, ReceiveAgain, Disconnect, SetOwner, WasConnected, sendVars, serviceVars
<1>8. ASSUME NEW t \in Threads, PushSendBuffer(t) PROVE TypeOK'
  <2>1. arg[t] \in Buffers
    BY <1>8 DEF PushSendBuffer, Fresh
  <2>2. sendBuffers' \in Seq(Buffers) /\ queued' \in Seq(Buffers) /\ sendRegistered' \in BOOLEAN
    BY <1>8, <2>1 DEF PushSendBuffer
  <2>3. pc' \in [Threads -> PCs] /\ arg' \in [Threads -> Buffers \cup {None}]
    BY <1>8 DEF PushSendBuffer, Return
  <2> QED
    BY <1>8, <2>2, <2>3 DEF PushSendBuffer, serviceVars
<1>9. ASSUME NEW t \in Threads, RegisterSend(t) PROVE TypeOK'
  <2>0. eventBuffers \o sendBuffers \in Seq(Buffers) /\ <<>> \in Seq(Buffers)
    BY ConcatProperties, EmptySeq
  <2>1. sendBuffers' \in Seq(Buffers) /\ eventBuffers' \in Seq(Buffers)
    BY <1>9, <2>0 DEF RegisterSend, sendVars
  <2>2. /\ pc' \in [Threads -> PCs] /\ arg' \in [Threads -> Buffers \cup {None}]
        /\ owner' \subseteq Events
    BY <1>9 DEF RegisterSend, Return, SetOwner
  <2> QED
    BY <1>9, <2>1, <2>2 DEF RegisterSend, sendVars, serviceVars
<1>10. ASSUME NEW t \in Threads, WSASend(t) PROVE TypeOK'
  <2>0. wire \o eventBuffers \in Seq(Buffers) /\ <<>> \in Seq(Buffers)
    BY ConcatProperties, EmptySeq
  <2>1. wire' \in Seq(Buffers) /\ eventBuffers' \in Seq(Buffers)
    BY <1>10, <2>0 DEF WSASend
  <2>2. dropped' \subseteq Buffers
    BY <1>10, RangeOfSeq DEF WSASend
  <2>3. pc' \in [Threads -> PCs] /\ arg' \in [Threads -> Buffers \cup {None}]
    BY <1>10 DEF WSASend, Return
  <2>4. /\ isConnected' \in BOOLEAN /\ outstanding' \subseteq Events /\ owner' \subseteq Events
        /\ disconnect' \in {"none", "posted", "failed", "done"} /\ sendRegistered' \in BOOLEAN
    BY <1>10 DEF WSASend, HandleError, Disconnect, SetOwner, WasConnected
  <2> QED
    BY <1>10, <2>1, <2>2, <2>3, <2>4 DEF WSASend, serviceVars
<1>11. ASSUME NEW t \in Threads, ProcessSendNothing(t) PROVE TypeOK'
  <2>1. /\ isConnected' \in BOOLEAN /\ outstanding' \subseteq Events /\ owner' \subseteq Events
        /\ disconnect' \in {"none", "posted", "failed", "done"}
    BY <1>11 DEF ProcessSendNothing, Disconnect, SetOwner, WasConnected
  <2>2. eventBuffers' \in Seq(Buffers)
    BY <1>11, EmptySeq DEF ProcessSendNothing, Cleared
  <2> QED
    BY <1>11, <2>1, <2>2 DEF ProcessSendNothing, serviceVars
<1>12. ASSUME NEW t \in Threads, ProcessSend(t) PROVE TypeOK'
  <2>1. eventBuffers' \in Seq(Buffers)
    BY <1>12, EmptySeq DEF ProcessSend, Cleared
  <2> QED
    BY <1>12, <2>1 DEF ProcessSend, serviceVars
<1>13. ASSUME NEW t \in Threads, NEW b \in Buffers, Send(t, b) PROVE TypeOK'
  BY <1>13 DEF Send, sendVars, serviceVars
<1>14. ASSUME NEW t \in Threads,
             ProcessConnect(t) \/ ProcessDisconnect(t) \/ RegisterRecv(t) \/
             ProcessRecv(t) \/ SendNext(t)
      PROVE  TypeOK'
  BY <1>14 DEF ProcessConnect, ProcessDisconnect, RegisterRecv, ProcessRecv, SendNext, SetOwner,
         LockFree, NothingToSend, sendVars, serviceVars
<1> QED
  BY <1>1, <1>2, <1>3, <1>4, <1>5, <1>6, <1>7, <1>8, <1>9, <1>10, <1>11, <1>12, <1>13, <1>14
  DEF Next, Step, SendCompletes

\* Every function of a session that is not connected needs an event or a thread of it.
LEMMA UnbornStep == Core /\ [Next]_vars => Unborn'
<1> SUFFICES ASSUME Core, [Next]_vars PROVE Unborn'
  OBVIOUS
<1> USE DEF Core, TypeOK, Unborn, Goto
<1>1. CASE UNCHANGED vars
  BY <1>1 DEF vars, sendVars, serviceVars
<1>2. CASE RefuseAccept
  BY <1>2 DEF RefuseAccept, sendVars, serviceVars
<1>3. ASSUME NEW t \in Threads, ProcessConnect(t) PROVE Unborn'
  BY <1>3 DEF ProcessConnect, sendVars, serviceVars
<1>4. ASSUME NEW t \in Threads, NEW b \in Buffers, Send(t, b) PROVE Unborn'
  BY <1>4 DEF Send, sendVars, serviceVars
<1>5. ASSUME NEW t \in Threads,
             AddSession(t) \/ ReleaseSession(t) \/ ProcessDisconnect(t) \/
             RegisterRecv(t) \/ WSARecv(t) \/ ProcessRecvNothing(t) \/ ProcessRecv(t) \/
             EndOnRecv(t) \/ PushSendBuffer(t) \/ RegisterSend(t) \/ WSASend(t) \/
             ProcessSendNothing(t) \/ ProcessSend(t) \/ SendNext(t)
      PROVE  Unborn'
  BY <1>5 DEF AddSession, ReleaseSession, ProcessDisconnect, RegisterRecv, WSARecv,
         ProcessRecvNothing, ProcessRecv, EndOnRecv, PushSendBuffer, RegisterSend, WSASend,
         ProcessSendNothing, ProcessSend, SendNext, Counted, Erased, SetOwner, HandleError,
         Disconnect, WasConnected, ReceiveAgain, Return, LockFree, NotRegistered, Cleared,
         NothingToSend, sendVars, serviceVars
<1> QED
  BY <1>1, <1>2, <1>3, <1>4, <1>5 DEF Next, Step, SendCompletes

\* Only ProcessRecv publishes the session, and only a published session sends.
LEMMA UnpublishedStep == Core /\ [Next]_vars => Unpublished'
<1> SUFFICES ASSUME Core, [Next]_vars PROVE Unpublished'
  OBVIOUS
<1> USE DEF Core, TypeOK, Unborn, Unpublished, Goto
<1>1. CASE UNCHANGED vars
  BY <1>1 DEF vars, sendVars, serviceVars
<1>2. CASE RefuseAccept
  BY <1>2 DEF RefuseAccept, sendVars, serviceVars
<1>3. ASSUME NEW t \in Threads, ProcessRecv(t) PROVE Unpublished'
  BY <1>3 DEF ProcessRecv, sendVars, serviceVars
<1>4. ASSUME NEW t \in Threads, NEW b \in Buffers, Send(t, b) PROVE Unpublished'
  BY <1>4 DEF Send, sendVars, serviceVars
<1>5. ASSUME NEW t \in Threads,
             ProcessConnect(t) \/ AddSession(t) \/ ReleaseSession(t) \/
             ProcessDisconnect(t) \/ RegisterRecv(t) \/ WSARecv(t) \/
             ProcessRecvNothing(t) \/ EndOnRecv(t) \/ PushSendBuffer(t) \/
             RegisterSend(t) \/ WSASend(t) \/ ProcessSendNothing(t) \/ ProcessSend(t) \/
             SendNext(t)
      PROVE  Unpublished'
  BY <1>5 DEF ProcessConnect, AddSession, ReleaseSession, ProcessDisconnect, RegisterRecv,
         WSARecv, ProcessRecvNothing, EndOnRecv, PushSendBuffer, RegisterSend, WSASend,
         ProcessSendNothing, ProcessSend, SendNext, Counted, Erased, SetOwner, HandleError,
         Disconnect, WasConnected, ReceiveAgain, Return, LockFree, NotRegistered, Cleared,
         NothingToSend, sendVars, serviceVars
<1> QED
  BY <1>1, <1>2, <1>3, <1>4, <1>5 DEF Next, Step, SendCompletes

\* While ProcessConnect runs no other action of the session is possible.
LEMMA AddingStep == Core /\ [Next]_vars => Adding'
<1> SUFFICES ASSUME Core, [Next]_vars PROVE Adding'
  OBVIOUS
<1> USE DEF Core, TypeOK, Unborn, Unpublished, Adding, Goto
<1>1. CASE UNCHANGED vars
  BY <1>1 DEF vars, sendVars, serviceVars
<1>2. CASE RefuseAccept
  BY <1>2 DEF RefuseAccept, sendVars, serviceVars
<1>3. ASSUME NEW t \in Threads, ProcessConnect(t) PROVE Adding'
  BY <1>3 DEF ProcessConnect, sendVars, serviceVars
<1>4. ASSUME NEW t \in Threads, AddSession(t) PROVE Adding'
  BY <1>4 DEF AddSession, Counted, sendVars, serviceVars
<1>5. ASSUME NEW t \in Threads, NEW b \in Buffers, Send(t, b) PROVE Adding'
  BY <1>5 DEF Send, sendVars, serviceVars
<1>6. ASSUME NEW t \in Threads,
             ReleaseSession(t) \/ ProcessDisconnect(t) \/ RegisterRecv(t) \/ WSARecv(t) \/
             ProcessRecvNothing(t) \/ ProcessRecv(t) \/ EndOnRecv(t) \/ PushSendBuffer(t) \/
             RegisterSend(t) \/ WSASend(t) \/ ProcessSendNothing(t) \/ ProcessSend(t) \/
             SendNext(t)
      PROVE  Adding'
  BY <1>6 DEF ReleaseSession, ProcessDisconnect, RegisterRecv, WSARecv, ProcessRecvNothing,
         ProcessRecv, EndOnRecv, PushSendBuffer, RegisterSend, WSASend, ProcessSendNothing,
         ProcessSend, SendNext, Erased, SetOwner, HandleError, Disconnect, WasConnected,
         ReceiveAgain, Return, LockFree, NotRegistered, Cleared, NothingToSend, sendVars,
         serviceVars
<1> QED
  BY <1>1, <1>2, <1>3, <1>4, <1>5, <1>6 DEF Next, Step, SendCompletes

\* Disconnect posts only if it is the one to clear _isConnected.
LEMMA ClosingStep == Core /\ [Next]_vars => Closing'
<1> SUFFICES ASSUME Core, [Next]_vars PROVE Closing'
  OBVIOUS
<1> USE DEF Core, TypeOK, Unborn, Closing, Goto
<1>1. CASE UNCHANGED vars
  BY <1>1 DEF vars, sendVars, serviceVars
<1>2. CASE RefuseAccept
  BY <1>2 DEF RefuseAccept, sendVars, serviceVars
<1>3. ASSUME NEW t \in Threads, ProcessConnect(t) PROVE Closing'
  BY <1>3 DEF ProcessConnect, sendVars, serviceVars
<1>4. ASSUME NEW t \in Threads, ProcessDisconnect(t) PROVE Closing'
  BY <1>4 DEF ProcessDisconnect, sendVars, serviceVars
<1>5. ASSUME NEW t \in Threads, NEW b \in Buffers, Send(t, b) PROVE Closing'
  BY <1>5 DEF Send, sendVars, serviceVars
<1>6. ASSUME NEW t \in Threads,
             AddSession(t) \/ ReleaseSession(t) \/ RegisterRecv(t) \/ WSARecv(t) \/
             ProcessRecvNothing(t) \/ ProcessRecv(t) \/ EndOnRecv(t) \/ PushSendBuffer(t) \/
             RegisterSend(t) \/ WSASend(t) \/ ProcessSendNothing(t) \/ ProcessSend(t) \/
             SendNext(t)
      PROVE  Closing'
  BY <1>6 DEF AddSession, ReleaseSession, RegisterRecv, WSARecv, ProcessRecvNothing, ProcessRecv,
         EndOnRecv, PushSendBuffer, RegisterSend, WSASend, ProcessSendNothing, ProcessSend,
         SendNext, Counted, Erased, SetOwner, HandleError, Disconnect, WasConnected,
         ReceiveAgain, Return, LockFree, NotRegistered, Cleared, NothingToSend, sendVars,
         serviceVars
<1> QED
  BY <1>1, <1>2, <1>3, <1>4, <1>5, <1>6 DEF Next, Step, SendCompletes

\* A thread comes to ReleaseSession from the one DisconnectEx that was posted, and
\* by then AddSession is over.
LEMMA ServingStep == Core /\ [Next]_vars => Serving'
<1> SUFFICES ASSUME Core, [Next]_vars PROVE Serving'
  OBVIOUS
<1> USE DEF Core, TypeOK, Unborn, Adding, Closing, Serving, Goto
<1>1. CASE UNCHANGED vars
  BY <1>1 DEF vars, sendVars, serviceVars
<1>2. CASE RefuseAccept
  BY <1>2 DEF RefuseAccept, sendVars, serviceVars
<1>3. ASSUME NEW t \in Threads, ProcessConnect(t) PROVE Serving'
  BY <1>3 DEF ProcessConnect, sendVars, serviceVars
<1>4. ASSUME NEW t \in Threads, AddSession(t) PROVE Serving'
  BY <1>4 DEF AddSession, Counted, sendVars, serviceVars
<1>5. ASSUME NEW t \in Threads, ReleaseSession(t) PROVE Serving'
  BY <1>5 DEF ReleaseSession, Erased, sendVars, serviceVars
<1>6. ASSUME NEW t \in Threads, ProcessDisconnect(t) PROVE Serving'
  BY <1>6 DEF ProcessDisconnect, sendVars, serviceVars
<1>7. ASSUME NEW t \in Threads, RegisterRecv(t) PROVE Serving'
  BY <1>7 DEF RegisterRecv, SetOwner, sendVars, serviceVars
<1>8. ASSUME NEW t \in Threads, WSARecv(t) PROVE Serving'
  BY <1>8 DEF WSARecv, HandleError, Disconnect, SetOwner, WasConnected, sendVars, serviceVars
<1>9. ASSUME NEW t \in Threads, ProcessRecvNothing(t) PROVE Serving'
  BY <1>9 DEF ProcessRecvNothing, Disconnect, SetOwner, WasConnected, sendVars, serviceVars
<1>10. ASSUME NEW t \in Threads, ProcessRecv(t) PROVE Serving'
  BY <1>10 DEF ProcessRecv, sendVars, serviceVars
<1>11. ASSUME NEW t \in Threads, EndOnRecv(t) PROVE Serving'
  BY <1>11 DEF EndOnRecv, ReceiveAgain, Disconnect, SetOwner, WasConnected, sendVars, serviceVars
<1>12. ASSUME NEW t \in Threads, PushSendBuffer(t) PROVE Serving'
  BY <1>12 DEF PushSendBuffer, Return, LockFree, NotRegistered, sendVars, serviceVars
<1>13. ASSUME NEW t \in Threads, RegisterSend(t) PROVE Serving'
  BY <1>13 DEF RegisterSend, Return, SetOwner, sendVars, serviceVars
<1>14. ASSUME NEW t \in Threads, WSASend(t) PROVE Serving'
  BY <1>14 DEF WSASend, Return, HandleError, Disconnect, SetOwner, WasConnected, sendVars,
         serviceVars
<1>15. ASSUME NEW t \in Threads, ProcessSendNothing(t) PROVE Serving'
  BY <1>15 DEF ProcessSendNothing, Cleared, Disconnect, SetOwner, WasConnected, sendVars,
         serviceVars
<1>16. ASSUME NEW t \in Threads, ProcessSend(t) PROVE Serving'
  BY <1>16 DEF ProcessSend, Cleared, sendVars, serviceVars
<1>17. ASSUME NEW t \in Threads, SendNext(t) PROVE Serving'
  BY <1>17 DEF SendNext, LockFree, NothingToSend, sendVars, serviceVars
<1>18. ASSUME NEW t \in Threads, NEW b \in Buffers, Send(t, b) PROVE Serving'
  BY <1>18 DEF Send, sendVars, serviceVars
<1> QED
  BY <1>1, <1>2, <1>3, <1>4, <1>5, <1>6, <1>7, <1>8, <1>9, <1>10, <1>11, <1>12, <1>13,
     <1>14, <1>15, <1>16, <1>17, <1>18 DEF Next, Step, SendCompletes

\* A posted receive and a thread in OnRecv hand the receive buffer to each other.
LEMMA ReceivingStep == Core /\ [Next]_vars => Receiving'
<1> SUFFICES ASSUME Core, [Next]_vars PROVE Receiving'
  OBVIOUS
<1> USE ConstantsAssumption DEF Core, TypeOK, Unborn, Receiving, Goto
<1>1. CASE UNCHANGED vars
  BY <1>1 DEF vars, sendVars, serviceVars
<1>2. CASE RefuseAccept
  BY <1>2 DEF RefuseAccept, sendVars, serviceVars
<1>3. ASSUME NEW t \in Threads, ProcessConnect(t) PROVE Receiving'
  BY <1>3 DEF ProcessConnect, sendVars, serviceVars
<1>4. ASSUME NEW t \in Threads, AddSession(t) PROVE Receiving'
  BY <1>4 DEF AddSession, Counted, sendVars, serviceVars
<1>5. ASSUME NEW t \in Threads, ProcessDisconnect(t) PROVE Receiving'
  BY <1>5 DEF ProcessDisconnect, sendVars, serviceVars
<1>6. ASSUME NEW t \in Threads, RegisterRecv(t) PROVE Receiving'
  BY <1>6 DEF RegisterRecv, SetOwner, sendVars, serviceVars
<1>7. ASSUME NEW t \in Threads, WSARecv(t) PROVE Receiving'
  BY <1>7 DEF WSARecv, HandleError, Disconnect, SetOwner, WasConnected, sendVars, serviceVars
<1>8. ASSUME NEW t \in Threads, ProcessRecvNothing(t) PROVE Receiving'
  BY <1>8 DEF ProcessRecvNothing, Disconnect, SetOwner, WasConnected, sendVars, serviceVars
<1>9. ASSUME NEW t \in Threads, ProcessRecv(t) PROVE Receiving'
  BY <1>9 DEF ProcessRecv, sendVars, serviceVars
<1>10. ASSUME NEW t \in Threads, EndOnRecv(t) PROVE Receiving'
  BY <1>10 DEF EndOnRecv, ReceiveAgain, Disconnect, SetOwner, WasConnected, sendVars, serviceVars
<1>11. ASSUME NEW t \in Threads, PushSendBuffer(t) PROVE Receiving'
  BY <1>11 DEF PushSendBuffer, Return, LockFree, NotRegistered, sendVars, serviceVars
<1>12. ASSUME NEW t \in Threads, RegisterSend(t) PROVE Receiving'
  BY <1>12 DEF RegisterSend, Return, SetOwner, sendVars, serviceVars
<1>13. ASSUME NEW t \in Threads, WSASend(t) PROVE Receiving'
  BY <1>13 DEF WSASend, Return, HandleError, Disconnect, SetOwner, WasConnected, sendVars,
         serviceVars
<1>14. ASSUME NEW t \in Threads, ProcessSend(t) PROVE Receiving'
  BY <1>14 DEF ProcessSend, Cleared, sendVars, serviceVars
<1>15. ASSUME NEW t \in Threads, SendNext(t) PROVE Receiving'
  BY <1>15 DEF SendNext, LockFree, NothingToSend, sendVars, serviceVars
<1>16. ASSUME NEW t \in Threads, NEW b \in Buffers, Send(t, b) PROVE Receiving'
  BY <1>16 DEF Send, sendVars, serviceVars
<1>17. ASSUME NEW t \in Threads,
             ReleaseSession(t) \/ ProcessSendNothing(t)
      PROVE  Receiving'
  BY <1>17 DEF ReleaseSession, ProcessSendNothing, Erased, Cleared, Disconnect, SetOwner,
         WasConnected, sendVars, serviceVars
<1> QED
  BY <1>1, <1>2, <1>3, <1>4, <1>5, <1>6, <1>7, <1>8, <1>9, <1>10, <1>11, <1>12, <1>13,
     <1>14, <1>15, <1>16, <1>17 DEF Next, Step, SendCompletes

\* Whoever sets _sendRegistered, or completes the send, is alone on the way to the
\* next WSASend.
LEMMA SendLockStep == Core /\ [Next]_vars => SendLock'
<1> SUFFICES ASSUME Core, [Next]_vars PROVE SendLock'
  OBVIOUS
<1> USE DEF Core, TypeOK, Unborn, Unpublished, SendLock, Sending, Goto
<1>1. CASE UNCHANGED vars
  BY <1>1 DEF vars, sendVars, serviceVars
<1>2. CASE RefuseAccept
  BY <1>2 DEF RefuseAccept, sendVars, serviceVars
<1>3. ASSUME NEW t \in Threads, ProcessConnect(t) PROVE SendLock'
  BY <1>3 DEF ProcessConnect, sendVars, serviceVars
<1>4. ASSUME NEW t \in Threads, AddSession(t) PROVE SendLock'
  BY <1>4 DEF AddSession, Counted, sendVars, serviceVars
<1>5. ASSUME NEW t \in Threads, ReleaseSession(t) PROVE SendLock'
  BY <1>5 DEF ReleaseSession, Erased, sendVars, serviceVars
<1>6. ASSUME NEW t \in Threads, ProcessDisconnect(t) PROVE SendLock'
  BY <1>6 DEF ProcessDisconnect, sendVars, serviceVars
<1>7. ASSUME NEW t \in Threads, RegisterRecv(t) PROVE SendLock'
  BY <1>7 DEF RegisterRecv, SetOwner, sendVars, serviceVars
<1>8. ASSUME NEW t \in Threads, WSARecv(t) PROVE SendLock'
  BY <1>8 DEF WSARecv, HandleError, Disconnect, SetOwner, WasConnected, sendVars, serviceVars
<1>9. ASSUME NEW t \in Threads, ProcessRecvNothing(t) PROVE SendLock'
  BY <1>9 DEF ProcessRecvNothing, Disconnect, SetOwner, WasConnected, sendVars, serviceVars
<1>10. ASSUME NEW t \in Threads, ProcessRecv(t) PROVE SendLock'
  BY <1>10 DEF ProcessRecv, sendVars, serviceVars
<1>11. ASSUME NEW t \in Threads, EndOnRecv(t) PROVE SendLock'
  BY <1>11 DEF EndOnRecv, ReceiveAgain, Disconnect, SetOwner, WasConnected, sendVars, serviceVars
<1>12. ASSUME NEW t \in Threads, PushSendBuffer(t) PROVE SendLock'
  BY <1>12 DEF PushSendBuffer, Return, LockFree, NotRegistered, sendVars, serviceVars
<1>13. ASSUME NEW t \in Threads, RegisterSend(t) PROVE SendLock'
  BY <1>13 DEF RegisterSend, Return, SetOwner, sendVars, serviceVars
<1>14. ASSUME NEW t \in Threads, WSASend(t) PROVE SendLock'
  BY <1>14 DEF WSASend, Return, HandleError, Disconnect, SetOwner, WasConnected, sendVars,
         serviceVars
<1>15. ASSUME NEW t \in Threads, ProcessSendNothing(t) PROVE SendLock'
  BY <1>15 DEF ProcessSendNothing, Cleared, Disconnect, SetOwner, WasConnected, sendVars,
         serviceVars
<1>16. ASSUME NEW t \in Threads, ProcessSend(t) PROVE SendLock'
  BY <1>16 DEF ProcessSend, Cleared, sendVars, serviceVars
<1>17. ASSUME NEW t \in Threads, SendNext(t) PROVE SendLock'
  BY <1>17 DEF SendNext, LockFree, NothingToSend, sendVars, serviceVars
<1>18. ASSUME NEW t \in Threads, NEW b \in Buffers, Send(t, b) PROVE SendLock'
  BY <1>18 DEF Send, sendVars, serviceVars
<1> QED
  BY <1>1, <1>2, <1>3, <1>4, <1>5, <1>6, <1>7, <1>8, <1>9, <1>10, <1>11, <1>12, <1>13,
     <1>14, <1>15, <1>16, <1>17, <1>18 DEF Next, Step, SendCompletes

\* RegisterSend moves _sendBuffers into the event, and nobody can push before the
\* WSASend that follows, which runs under the lock.
LEMMA SendEventStep == Core /\ [Next]_vars => SendEvent'
<1> SUFFICES ASSUME Core, [Next]_vars PROVE SendEvent'
  OBVIOUS
<1> USE DEF Core, TypeOK, SendLock, Sending, SendEvent, Goto
<1>1. CASE UNCHANGED vars
  BY <1>1 DEF vars, sendVars, serviceVars
<1>2. CASE RefuseAccept
  BY <1>2 DEF RefuseAccept, sendVars, serviceVars
<1>3. ASSUME NEW t \in Threads, PushSendBuffer(t) PROVE SendEvent'
  BY <1>3 DEF PushSendBuffer, Return, LockFree, NotRegistered, sendVars, serviceVars
<1>4. ASSUME NEW t \in Threads, RegisterSend(t) PROVE SendEvent'
  BY <1>4 DEF RegisterSend, Return, SetOwner, sendVars, serviceVars
<1>5. ASSUME NEW t \in Threads, WSASend(t) PROVE SendEvent'
  BY <1>5 DEF WSASend, Return, HandleError, Disconnect, SetOwner, WasConnected, sendVars,
         serviceVars
<1>6. ASSUME NEW t \in Threads, ProcessSendNothing(t) PROVE SendEvent'
  BY <1>6 DEF ProcessSendNothing, Cleared, Disconnect, SetOwner, WasConnected, sendVars,
         serviceVars
<1>7. ASSUME NEW t \in Threads, ProcessSend(t) PROVE SendEvent'
  BY <1>7 DEF ProcessSend, Cleared, sendVars, serviceVars
<1>8. ASSUME NEW t \in Threads, SendNext(t) PROVE SendEvent'
  BY <1>8 DEF SendNext, LockFree, NothingToSend, sendVars, serviceVars
<1>9. ASSUME NEW t \in Threads, NEW b \in Buffers, Send(t, b) PROVE SendEvent'
  BY <1>9 DEF Send, sendVars, serviceVars
<1>10. ASSUME NEW t \in Threads,
             ProcessConnect(t) \/ AddSession(t) \/ ReleaseSession(t) \/
             ProcessDisconnect(t) \/ RegisterRecv(t) \/ WSARecv(t) \/
             ProcessRecvNothing(t) \/ ProcessRecv(t) \/ EndOnRecv(t)
      PROVE  SendEvent'
  BY <1>10 DEF ProcessConnect, AddSession, ReleaseSession, ProcessDisconnect, RegisterRecv,
         WSARecv, ProcessRecvNothing, ProcessRecv, EndOnRecv, Counted, Erased, SetOwner,
         HandleError, Disconnect, WasConnected, ReceiveAgain, sendVars, serviceVars
<1> QED
  BY <1>1, <1>2, <1>3, <1>4, <1>5, <1>6, <1>7, <1>8, <1>9, <1>10
  DEF Next, Step, SendCompletes

\* An event loses its owner only when its operation is not in progress.
LEMMA OwnedStep == Core /\ [Next]_vars => Owned'
<1> SUFFICES ASSUME Core, [Next]_vars PROVE Owned'
  OBVIOUS
<1> USE ConstantsAssumption DEF Core, TypeOK, Receiving, SendLock, Sending, Owned, Goto
<1>1. CASE UNCHANGED vars
  BY <1>1 DEF vars, sendVars, serviceVars
<1>2. CASE RefuseAccept
  BY <1>2 DEF RefuseAccept, sendVars, serviceVars
<1>3. ASSUME NEW t \in Threads, RegisterRecv(t) PROVE Owned'
  BY <1>3 DEF RegisterRecv, SetOwner, sendVars, serviceVars
<1>4. ASSUME NEW t \in Threads, WSARecv(t) PROVE Owned'
  BY <1>4 DEF WSARecv, HandleError, Disconnect, SetOwner, WasConnected, sendVars, serviceVars
<1>5. ASSUME NEW t \in Threads, ProcessRecvNothing(t) PROVE Owned'
  BY <1>5 DEF ProcessRecvNothing, Disconnect, SetOwner, WasConnected, sendVars, serviceVars
<1>6. ASSUME NEW t \in Threads, ProcessRecv(t) PROVE Owned'
  BY <1>6 DEF ProcessRecv, sendVars, serviceVars
<1>7. ASSUME NEW t \in Threads, ProcessDisconnect(t) PROVE Owned'
  BY <1>7 DEF ProcessDisconnect, sendVars, serviceVars
<1>8. ASSUME NEW t \in Threads, RegisterSend(t) PROVE Owned'
  BY <1>8 DEF RegisterSend, Return, SetOwner, sendVars, serviceVars
<1>9. ASSUME NEW t \in Threads, WSASend(t) PROVE Owned'
  BY <1>9 DEF WSASend, Return, HandleError, Disconnect, SetOwner, WasConnected, sendVars,
         serviceVars
<1>10. ASSUME NEW t \in Threads, ProcessSendNothing(t) PROVE Owned'
  BY <1>10 DEF ProcessSendNothing, Cleared, Disconnect, SetOwner, WasConnected, sendVars,
         serviceVars
<1>11. ASSUME NEW t \in Threads, ProcessSend(t) PROVE Owned'
  BY <1>11 DEF ProcessSend, Cleared, sendVars, serviceVars
<1>12. ASSUME NEW t \in Threads, EndOnRecv(t) PROVE Owned'
  BY <1>12 DEF EndOnRecv, ReceiveAgain, Disconnect, SetOwner, WasConnected, sendVars, serviceVars
<1>13. ASSUME NEW t \in Threads, NEW b \in Buffers, Send(t, b) PROVE Owned'
  BY <1>13 DEF Send, sendVars, serviceVars
<1>14. ASSUME NEW t \in Threads,
             ProcessConnect(t) \/ AddSession(t) \/ ReleaseSession(t) \/ PushSendBuffer(t) \/
             SendNext(t)
      PROVE  Owned'
  BY <1>14 DEF ProcessConnect, AddSession, ReleaseSession, PushSendBuffer, SendNext, Counted,
         Erased, Return, LockFree, NotRegistered, NothingToSend, sendVars, serviceVars
<1> QED
  BY <1>1, <1>2, <1>3, <1>4, <1>5, <1>6, <1>7, <1>8, <1>9, <1>10, <1>11, <1>12, <1>13, <1>14
  DEF Next, Step, SendCompletes

\* A buffer is in the hands of one Send or in queued, never in both.
LEMMA FreshStep == Core /\ [Next]_vars => Fresh'
<1> SUFFICES ASSUME Core, [Next]_vars PROVE Fresh'
  OBVIOUS
<1> USE DEF Core, TypeOK, Fresh, Goto
<1>1. CASE UNCHANGED vars
  BY <1>1 DEF vars, sendVars, serviceVars
<1>2. CASE RefuseAccept
  BY <1>2 DEF RefuseAccept, sendVars, serviceVars
<1>3. ASSUME NEW t \in Threads, ProcessConnect(t) PROVE Fresh'
  BY <1>3 DEF ProcessConnect, sendVars, serviceVars
<1>4. ASSUME NEW t \in Threads, AddSession(t) PROVE Fresh'
  BY <1>4 DEF AddSession, Counted, sendVars, serviceVars
<1>5. ASSUME NEW t \in Threads, ReleaseSession(t) PROVE Fresh'
  BY <1>5 DEF ReleaseSession, Erased, sendVars, serviceVars
<1>6. ASSUME NEW t \in Threads, ProcessDisconnect(t) PROVE Fresh'
  BY <1>6 DEF ProcessDisconnect, sendVars, serviceVars
<1>7. ASSUME NEW t \in Threads, RegisterRecv(t) PROVE Fresh'
  BY <1>7 DEF RegisterRecv, SetOwner, sendVars, serviceVars
<1>8. ASSUME NEW t \in Threads, WSARecv(t) PROVE Fresh'
  BY <1>8 DEF WSARecv, HandleError, Disconnect, SetOwner, WasConnected, sendVars, serviceVars
<1>9. ASSUME NEW t \in Threads, ProcessRecvNothing(t) PROVE Fresh'
  BY <1>9 DEF ProcessRecvNothing, Disconnect, SetOwner, WasConnected, sendVars, serviceVars
<1>10. ASSUME NEW t \in Threads, ProcessRecv(t) PROVE Fresh'
  BY <1>10 DEF ProcessRecv, sendVars, serviceVars
<1>11. ASSUME NEW t \in Threads, EndOnRecv(t) PROVE Fresh'
  BY <1>11 DEF EndOnRecv, ReceiveAgain, Disconnect, SetOwner, WasConnected, sendVars, serviceVars
<1>12. ASSUME NEW t \in Threads, PushSendBuffer(t) PROVE Fresh'
  <2>1. arg[t] \in Buffers /\ Range(queued') = Range(queued) \cup {arg[t]}
    BY <1>12, RangeAppend DEF PushSendBuffer
  <2>2. \A u \in Threads : pc'[u] = "lock" => u # t /\ pc[u] = "lock" /\ arg'[u] = arg[u]
    BY <1>12 DEF PushSendBuffer, Return
  <2> QED
    BY <1>12, <2>1, <2>2 DEF PushSendBuffer
<1>13. ASSUME NEW t \in Threads, RegisterSend(t) PROVE Fresh'
  <2>1. \A u \in Threads : pc'[u] = "lock" => pc[u] = "lock" /\ arg'[u] = arg[u]
    BY <1>13 DEF RegisterSend, Return
  <2> QED
    BY <1>13, <2>1 DEF RegisterSend, sendVars
<1>14. ASSUME NEW t \in Threads, WSASend(t) PROVE Fresh'
  BY <1>14 DEF WSASend, Return, HandleError, Disconnect, SetOwner, WasConnected, sendVars,
         serviceVars
<1>15. ASSUME NEW t \in Threads, ProcessSendNothing(t) PROVE Fresh'
  BY <1>15 DEF ProcessSendNothing, Cleared, Disconnect, SetOwner, WasConnected, sendVars,
         serviceVars
<1>16. ASSUME NEW t \in Threads, ProcessSend(t) PROVE Fresh'
  BY <1>16 DEF ProcessSend, Cleared, sendVars, serviceVars
<1>17. ASSUME NEW t \in Threads, SendNext(t) PROVE Fresh'
  BY <1>17 DEF SendNext, LockFree, NothingToSend, sendVars, serviceVars
<1>18. ASSUME NEW t \in Threads, NEW b \in Buffers, Send(t, b) PROVE Fresh'
  BY <1>18 DEF Send, sendVars, serviceVars
<1> QED
  BY <1>1, <1>2, <1>3, <1>4, <1>5, <1>6, <1>7, <1>8, <1>9, <1>10, <1>11, <1>12, <1>13,
     <1>14, <1>15, <1>16, <1>17, <1>18 DEF Next, Step, SendCompletes

\* A buffer that is pushed while a send is registered is found by that send: its
\* ProcessSend looks at _sendBuffers in the critical section that would clear
\* _sendRegistered, and a failed WSASend leaves nothing behind.
LEMMA SenderForWaitingStep == IInv /\ [Next]_vars => SenderForWaiting'
<1> SUFFICES ASSUME IInv, [Next]_vars PROVE SenderForWaiting'
  OBVIOUS
<1> USE DEF IInv, Core, TypeOK, Unborn, Unpublished, SendLock, Sending, SendEvent, SenderForWaiting,
          Senders, Goto
<1>1. CASE UNCHANGED vars
  BY <1>1 DEF vars, sendVars, serviceVars
<1>2. CASE RefuseAccept
  BY <1>2 DEF RefuseAccept, sendVars, serviceVars
<1>3. ASSUME NEW t \in Threads, ProcessConnect(t) PROVE SenderForWaiting'
  BY <1>3 DEF ProcessConnect, sendVars, serviceVars
<1>4. ASSUME NEW t \in Threads, PushSendBuffer(t) PROVE SenderForWaiting'
  <2>1. sendRegistered' /\ isConnected' = isConnected /\ outstanding' = outstanding
    BY <1>4 DEF PushSendBuffer
  <2>2. CASE ~sendRegistered
    BY <1>4, <2>1, <2>2 DEF PushSendBuffer, NotRegistered
  <2>3. CASE sendRegistered
    <3>1. \A u \in Threads : Sending(u) => pc'[u] = pc[u]
      BY <1>4, <2>3 DEF PushSendBuffer, NotRegistered, Return
    <3> QED
      BY <1>4, <2>1, <2>3, <3>1
  <2> QED
    BY <2>2, <2>3
<1>5. ASSUME NEW t \in Threads, RegisterSend(t) PROVE SenderForWaiting'
  BY <1>5 DEF RegisterSend, Return, SetOwner, sendVars, serviceVars
<1>6. ASSUME NEW t \in Threads, WSASend(t) PROVE SenderForWaiting'
  BY <1>6 DEF WSASend, Return, HandleError, Disconnect, SetOwner, WasConnected, sendVars,
         serviceVars
<1>7. ASSUME NEW t \in Threads, ProcessSendNothing(t) PROVE SenderForWaiting'
  BY <1>7 DEF ProcessSendNothing, Cleared, Disconnect, SetOwner, WasConnected, sendVars,
         serviceVars
<1>8. ASSUME NEW t \in Threads, ProcessSend(t) PROVE SenderForWaiting'
  BY <1>8 DEF ProcessSend, Cleared, sendVars, serviceVars
<1>9. ASSUME NEW t \in Threads, SendNext(t) PROVE SenderForWaiting'
  <2>1. CASE sendBuffers = <<>>
    BY <1>9, <2>1 DEF SendNext
  <2>2. CASE sendBuffers # <<>>
    <3>1. pc'[t] = "register" /\ UNCHANGED <<isConnected, sendBuffers, sendRegistered>>
      BY <1>9, <2>2 DEF SendNext, NothingToSend
    <3> QED
      BY <1>9, <3>1 DEF SendNext
  <2> QED
    BY <2>1, <2>2
<1>10. ASSUME NEW t \in Threads, NEW b \in Buffers, Send(t, b) PROVE SenderForWaiting'
  BY <1>10 DEF Send, sendVars, serviceVars
<1>11. ASSUME NEW t \in Threads,
             AddSession(t) \/ ReleaseSession(t) \/ ProcessDisconnect(t) \/
             RegisterRecv(t) \/ WSARecv(t) \/ ProcessRecvNothing(t) \/ ProcessRecv(t) \/
             EndOnRecv(t)
      PROVE  SenderForWaiting'
  BY <1>11 DEF AddSession, ReleaseSession, ProcessDisconnect, RegisterRecv, WSARecv,
         ProcessRecvNothing, ProcessRecv, EndOnRecv, Counted, Erased, SetOwner, HandleError,
         Disconnect, WasConnected, ReceiveAgain, sendVars, serviceVars
<1> QED
  BY <1>1, <1>2, <1>3, <1>4, <1>5, <1>6, <1>7, <1>8, <1>9, <1>10, <1>11
  DEF Next, Step, SendCompletes

-----------------------------------------------------------------------------
(* The order of the buffers *)

\* The sequence s holds what q holds but d, in the order of q, each once.
InOrder(s, q, d) ==
    /\ Range(s) = Range(q) \ d
    /\ \A i, j \in DOMAIN s, k, l \in DOMAIN q :
          s[i] = q[k] /\ s[j] = q[l] => (i < j <=> k < l)

\* The range of three sequences one after the other.
LEMMA RangeOfThree ==
    ASSUME NEW a \in Seq(Buffers), NEW e \in Seq(Buffers), NEW c \in Seq(Buffers)
    PROVE  Range((a \o e) \o c) = Range(a) \cup Range(e) \cup Range(c)
<1> DEFINE ae == a \o e
<1>1. ae \in Seq(Buffers) /\ Range(ae) = Range(a) \cup Range(e)
  BY ConcatProperties, RangeConcatenation
<1> HIDE DEF ae
<1>2. Range(ae \o c) = Range(ae) \cup Range(c)
  BY <1>1, RangeConcatenation
<1> QED
  BY <1>1, <1>2 DEF ae

\* A push appends a new buffer to both.
LEMMA InOrderAppend ==
    ASSUME NEW s \in Seq(Buffers), NEW q \in Seq(Buffers), NEW d \in SUBSET Range(q),
           InOrder(s, q, d), NEW b \in Buffers \ Range(q)
    PROVE  InOrder(Append(s, b), Append(q, b), d)
<1>1. Range(Append(s, b)) = Range(s) \cup {b} /\ Range(Append(q, b)) = Range(q) \cup {b}
  BY RangeAppend
<1>2. Range(Append(s, b)) = Range(Append(q, b)) \ d
  BY <1>1 DEF InOrder
<1>3. /\ DOMAIN s = 1 .. Len(s) /\ DOMAIN Append(s, b) = 1 .. Len(s) + 1 /\ Len(s) \in Nat
      /\ \A i \in 1 .. Len(s) : Append(s, b)[i] = s[i]
      /\ Append(s, b)[Len(s) + 1] = b
  BY AppendProperties, LenProperties
<1>4. /\ DOMAIN q = 1 .. Len(q) /\ DOMAIN Append(q, b) = 1 .. Len(q) + 1 /\ Len(q) \in Nat
      /\ \A i \in 1 .. Len(q) : Append(q, b)[i] = q[i]
      /\ Append(q, b)[Len(q) + 1] = b
  BY AppendProperties, LenProperties
<1>5. \A i \in 1 .. Len(s) : s[i] # b
  BY <1>3 DEF InOrder, Range
<1>6. \A k \in 1 .. Len(q) : q[k] # b
  BY <1>4 DEF Range
<1>7. ASSUME NEW i \in 1 .. Len(s) + 1, NEW j \in 1 .. Len(s) + 1,
             NEW k \in 1 .. Len(q) + 1, NEW l \in 1 .. Len(q) + 1,
             Append(s, b)[i] = Append(q, b)[k], Append(s, b)[j] = Append(q, b)[l]
      PROVE  i < j <=> k < l
  <2>1. i = Len(s) + 1 <=> k = Len(q) + 1
    BY <1>3, <1>4, <1>5, <1>6, <1>7
  <2>2. j = Len(s) + 1 <=> l = Len(q) + 1
    BY <1>3, <1>4, <1>5, <1>6, <1>7
  <2>3. CASE i \in 1 .. Len(s) /\ j \in 1 .. Len(s)
    <3>1. k \in 1 .. Len(q) /\ l \in 1 .. Len(q)
      BY <2>1, <2>2, <2>3, <1>3, <1>4
    <3>2. s[i] = q[k] /\ s[j] = q[l]
      BY <2>3, <3>1, <1>3, <1>4, <1>7
    <3> QED
      BY <2>3, <3>1, <3>2, <1>3, <1>4 DEF InOrder
  <2>4. CASE ~(i \in 1 .. Len(s) /\ j \in 1 .. Len(s))
    BY <2>1, <2>2, <2>4, <1>3, <1>4
  <2> QED
    BY <2>3, <2>4
<1> QED
  BY <1>2, <1>3, <1>4, <1>7 DEF InOrder

\* A WSASend that fails takes its buffers out of the middle.
LEMMA InOrderDrop ==
    ASSUME NEW a \in Seq(Buffers), NEW e \in Seq(Buffers), NEW c \in Seq(Buffers),
           NEW q \in Seq(Buffers), NEW d, InOrder((a \o e) \o c, q, d)
    PROVE  InOrder(a \o c, q, d \cup Range(e))
<1> DEFINE s == (a \o e) \o c
           r == a \o c
           F(i) == IF i <= Len(a) THEN i ELSE i + Len(e)
<1>1. /\ Len(a) \in Nat /\ Len(e) \in Nat /\ Len(c) \in Nat
      /\ DOMAIN a = 1 .. Len(a) /\ DOMAIN e = 1 .. Len(e) /\ DOMAIN c = 1 .. Len(c)
  BY LenProperties
<1>2. a \o e \in Seq(Buffers) /\ Len(a \o e) = Len(a) + Len(e)
  BY ConcatProperties
<1>3. /\ s \in Seq(Buffers) /\ Len(s) = Len(a) + Len(e) + Len(c)
      /\ r \in Seq(Buffers) /\ Len(r) = Len(a) + Len(c)
  BY <1>2, ConcatProperties
<1>4. DOMAIN s = 1 .. Len(s) /\ DOMAIN r = 1 .. Len(r)
  BY <1>3, LenProperties
<1>5. \A i \in 1 .. Len(a) + Len(e) : (a \o e)[i] = IF i <= Len(a) THEN a[i] ELSE e[i - Len(a)]
  BY ConcatProperties
<1>6. \A i \in 1 .. Len(a \o e) + Len(c) :
         s[i] = IF i <= Len(a \o e) THEN (a \o e)[i] ELSE c[i - Len(a \o e)]
  BY <1>2, ConcatProperties
<1>7. \A i \in 1 .. Len(a) + Len(c) : r[i] = IF i <= Len(a) THEN a[i] ELSE c[i - Len(a)]
  BY ConcatProperties
<1>8. \A i \in 1 .. Len(e) : i + Len(a) \in 1 .. Len(s) /\ s[i + Len(a)] = e[i]
  BY <1>1, <1>2, <1>3, <1>5, <1>6
<1>9. \A i \in 1 .. Len(r) : F(i) \in 1 .. Len(s) /\ r[i] = s[F(i)]
  <2> SUFFICES ASSUME NEW i \in 1 .. Len(r) PROVE F(i) \in 1 .. Len(s) /\ r[i] = s[F(i)]
    OBVIOUS
  <2>1. CASE i <= Len(a)
    BY <2>1, <1>1, <1>2, <1>3, <1>5, <1>6, <1>7
  <2>2. CASE ~(i <= Len(a))
    <3>1. i + Len(e) \in 1 .. Len(s) /\ ~(i + Len(e) <= Len(a \o e))
      BY <2>2, <1>1, <1>2, <1>3
    <3>2. s[i + Len(e)] = c[i + Len(e) - Len(a \o e)]
      BY <3>1, <1>2, <1>3, <1>6
    <3>3. i + Len(e) - Len(a \o e) = i - Len(a)
      BY <1>1, <1>2, <1>3
    <3> QED
      BY <2>2, <3>1, <3>2, <3>3, <1>1, <1>3, <1>7
  <2> QED
    BY <2>1, <2>2
<1>10. \A i \in 1 .. Len(s) :
          (\E j \in 1 .. Len(r) : i = F(j)) \/ \E j \in 1 .. Len(e) : i = j + Len(a)
  <2> SUFFICES ASSUME NEW i \in 1 .. Len(s)
               PROVE  (\E j \in 1 .. Len(r) : i = F(j)) \/ \E j \in 1 .. Len(e) : i = j + Len(a)
    OBVIOUS
  <2>1. CASE i <= Len(a)
    BY <2>1, <1>1, <1>3
  <2>2. CASE i > Len(a) /\ i <= Len(a) + Len(e)
    <3>1. i - Len(a) \in 1 .. Len(e) /\ i = (i - Len(a)) + Len(a)
      BY <2>2, <1>1, <1>3
    <3> QED
      BY <3>1
  <2>3. CASE i > Len(a) + Len(e)
    <3>1. i - Len(e) \in 1 .. Len(r) /\ i = F(i - Len(e))
      BY <2>3, <1>1, <1>3
    <3> QED
      BY <3>1
  <2> QED
    BY <2>1, <2>2, <2>3, <1>1, <1>3
<1> HIDE DEF s, r
<1>11. \A i, j \in 1 .. Len(r) : i < j <=> F(i) < F(j)
  BY <1>1, <1>3
<1>12. \A i, j \in DOMAIN s, k, l \in DOMAIN q : s[i] = q[k] /\ s[j] = q[l] => (i < j <=> k < l)
  BY DEF InOrder, s
<1>13. Range(s) = Range(q) \ d
  BY DEF InOrder, s
\* No buffer is in s twice.
<1>14. \A i, j \in 1 .. Len(s) : s[i] = s[j] => i = j
  <2> SUFFICES ASSUME NEW i \in 1 .. Len(s), NEW j \in 1 .. Len(s), s[i] = s[j] PROVE i = j
    OBVIOUS
  <2>1. PICK k \in DOMAIN q : q[k] = s[i]
    BY <1>4, <1>13 DEF Range
  <2>2. (i < j <=> k < k) /\ (j < i <=> k < k)
    BY <2>1, <1>4, <1>12
  <2>3. k \in Int
    BY LenProperties
  <2> QED
    BY <2>2, <2>3, <1>3, <1>1
<1>15. Range(r) = Range(s) \ Range(e)
  <2>1. \A i \in 1 .. Len(r), j \in 1 .. Len(e) : F(i) # j + Len(a)
    BY <1>1, <1>3
  <2>2. \A i \in 1 .. Len(r) : r[i] \in Range(s) \ Range(e)
    <3> SUFFICES ASSUME NEW i \in 1 .. Len(r) PROVE r[i] \in Range(s) \ Range(e)
      OBVIOUS
    <3>1. r[i] \in Range(s)
      BY <1>4, <1>9 DEF Range
    <3>2. ASSUME NEW j \in 1 .. Len(e), r[i] = e[j] PROVE FALSE
      <4>1. s[F(i)] = s[j + Len(a)] /\ F(i) \in 1 .. Len(s) /\ j + Len(a) \in 1 .. Len(s)
        BY <3>2, <1>8, <1>9
      <4>2. F(i) = j + Len(a)
        BY <4>1, <1>14
      <4> QED
        BY <4>2, <2>1
    <3> QED
      BY <3>1, <3>2, <1>1 DEF Range
  <2>3. \A i \in 1 .. Len(s) : s[i] \notin Range(e) => s[i] \in Range(r)
    <3> SUFFICES ASSUME NEW i \in 1 .. Len(s), s[i] \notin Range(e) PROVE s[i] \in Range(r)
      OBVIOUS
    <3>1. ~\E j \in 1 .. Len(e) : i = j + Len(a)
      BY <1>1, <1>8 DEF Range
    <3>2. PICK j \in 1 .. Len(r) : i = F(j)
      BY <1>10, <3>1
    <3> QED
      BY <3>2, <1>4, <1>9 DEF Range
  <2> QED
    BY <1>4, <2>2, <2>3 DEF Range
<1>16. Range(r) = Range(q) \ (d \cup Range(e))
  BY <1>13, <1>15
<1>17. ASSUME NEW i \in DOMAIN r, NEW j \in DOMAIN r, NEW k \in DOMAIN q, NEW l \in DOMAIN q,
              r[i] = q[k], r[j] = q[l]
       PROVE  i < j <=> k < l
  <2>1. s[F(i)] = q[k] /\ s[F(j)] = q[l] /\ F(i) \in DOMAIN s /\ F(j) \in DOMAIN s
    BY <1>4, <1>9, <1>17
  <2>2. F(i) < F(j) <=> k < l
    BY <2>1, <1>12
  <2> QED
    BY <2>2, <1>4, <1>11
<1> QED
  BY <1>16, <1>17 DEF InOrder, r

\* The buffers of _sendEvent count while a thread is on its way to WSASend.
Held == \E t \in Threads : pc[t] = "wsasend"

\* What Taken is, with and without a thread before WSASend.
LEMMA TakenCases ==
    ASSUME TypeOK
    PROVE  /\ Held => Taken = (wire \o eventBuffers) \o sendBuffers
           /\ ~Held => Taken = wire \o sendBuffers
           /\ Taken \in Seq(Buffers)
<1> USE DEF TypeOK
<1>1. wire \o <<>> = wire
  BY ConcatEmptySeq
<1>2. /\ Held => Taken = (wire \o eventBuffers) \o sendBuffers
      /\ ~Held => Taken = wire \o sendBuffers
  BY <1>1 DEF Taken, Held
<1>3. wire \o eventBuffers \in Seq(Buffers) /\ wire \o sendBuffers \in Seq(Buffers)
  BY ConcatProperties
<1>4. (wire \o eventBuffers) \o sendBuffers \in Seq(Buffers)
  BY <1>3, ConcatProperties
<1> QED
  BY <1>2, <1>3, <1>4

\* A step that moves nothing between the three sequences.
LEMMA TakenUnchanged ==
    ASSUME TypeOK, TypeOK', UNCHANGED <<wire, sendBuffers>>, Held' <=> Held,
           Held => UNCHANGED eventBuffers
    PROVE  Taken' = Taken
  BY DEF Taken, Held

\* Each step keeps the order: a push appends to both ends, RegisterSend and
\* WSASend only move the buffers along, and a WSASend that fails drops its own.
LEMMA OrderStep == IInv /\ [Next]_vars => SentOnceInOrder' /\ Dropped'
<1> SUFFICES ASSUME IInv, [Next]_vars PROVE SentOnceInOrder' /\ Dropped'
  OBVIOUS
<1>1. Core /\ TypeOK /\ TypeOK'
  BY TypeStep DEF IInv, Core
<1>2. InOrder(Taken, queued, dropped) /\ Dropped
  BY DEF IInv, SentOnceInOrder, InOrder
<1>3. SUFFICES InOrder(Taken', queued', dropped') /\ Dropped'
  BY DEF SentOnceInOrder, InOrder
<1>4. ASSUME UNCHANGED <<wire, sendBuffers, queued, dropped>>, Held' <=> Held,
             Held => UNCHANGED eventBuffers
      PROVE  InOrder(Taken', queued', dropped') /\ Dropped'
  BY <1>1, <1>2, <1>4, TakenUnchanged DEF Dropped
<1>5. CASE UNCHANGED vars
  BY <1>4, <1>5 DEF vars, sendVars, Held
<1>6. CASE RefuseAccept
  BY <1>4, <1>6 DEF RefuseAccept, sendVars, Held
<1>7. ASSUME NEW t \in Threads,
             \/ UNCHANGED sendVars /\ pc[t] # "wsasend" /\ pc'[t] # "wsasend"
             \/ /\ UNCHANGED <<wire, sendBuffers, queued, dropped>> /\ ~Held
                /\ pc'[t] # "wsasend",
             \A u \in Threads \ {t} : pc'[u] = pc[u]
      PROVE  InOrder(Taken', queued', dropped') /\ Dropped'
  BY <1>4, <1>7 DEF sendVars, Held
<1>8. ASSUME NEW t \in Threads, ProcessConnect(t) \/ AddSession(t) \/ ReleaseSession(t) \/
             ProcessDisconnect(t) \/ RegisterRecv(t) \/ WSARecv(t) \/ ProcessRecvNothing(t) \/
             ProcessRecv(t) \/ EndOnRecv(t)
      PROVE  UNCHANGED sendVars /\ pc[t] # "wsasend" /\ pc'[t] # "wsasend"
  BY <1>1, <1>8 DEF TypeOK, Goto, ProcessConnect, AddSession, ReleaseSession, ProcessDisconnect,
         RegisterRecv, WSARecv, ProcessRecvNothing, ProcessRecv, EndOnRecv, ReceiveAgain
<1>9. ASSUME NEW t \in Threads, ProcessConnect(t) \/ AddSession(t) \/ ReleaseSession(t) \/
             ProcessDisconnect(t) \/ RegisterRecv(t) \/ WSARecv(t) \/ ProcessRecvNothing(t) \/
             ProcessRecv(t) \/ EndOnRecv(t)
      PROVE  \A u \in Threads \ {t} : pc'[u] = pc[u]
  BY <1>1, <1>9 DEF TypeOK, Goto, ProcessConnect, AddSession, ReleaseSession, ProcessDisconnect,
         RegisterRecv, WSARecv, ProcessRecvNothing, ProcessRecv, EndOnRecv, ReceiveAgain
<1>10. ASSUME NEW t \in Threads, NEW b \in Buffers, Send(t, b)
       PROVE  InOrder(Taken', queued', dropped') /\ Dropped'
  <2>1. UNCHANGED sendVars /\ pc[t] # "wsasend" /\ pc'[t] # "wsasend"
    BY <1>1, <1>10 DEF TypeOK, Send, Goto
  <2>2. \A u \in Threads \ {t} : pc'[u] = pc[u]
    BY <1>1, <1>10 DEF TypeOK, Send, Goto
  <2> QED
    BY <2>1, <2>2, <1>7
<1>11. ASSUME NEW t \in Threads, PushSendBuffer(t)
       PROVE  InOrder(Taken', queued', dropped') /\ Dropped'
  <2>1. arg[t] \in Buffers \ Range(queued) /\ UNCHANGED <<wire, dropped>> /\ ~Held
    BY <1>1, <1>11 DEF PushSendBuffer, LockFree, Held, Core, Fresh
  <2>2. ~Held'
    BY <1>1, <1>11, <2>1 DEF PushSendBuffer, Return, Goto, TypeOK, Held
  <2>3. Taken = wire \o sendBuffers /\ Taken' = wire \o Append(sendBuffers, arg[t])
    <3>1. wire' = wire /\ sendBuffers' = Append(sendBuffers, arg[t])
      BY <1>11 DEF PushSendBuffer
    <3>2. wire' \in Seq(Buffers) /\ wire' \o <<>> = wire'
      BY <1>1, ConcatEmptySeq DEF TypeOK
    <3> QED
      BY <1>1, <2>1, <2>2, <3>1, <3>2, TakenCases DEF Taken, Held
  <2>4. wire \o Append(sendBuffers, arg[t]) = Append(Taken, arg[t])
    BY <1>1, <2>1, <2>3 DEF TypeOK
  <2>5. queued' = Append(queued, arg[t])
    BY <1>11 DEF PushSendBuffer
  <2>6. Range(queued') = Range(queued) \cup {arg[t]}
    BY <1>1, <2>1, <2>5, RangeAppend DEF TypeOK
  <2>7. Dropped'
    BY <1>2, <2>1, <2>6 DEF Dropped
  <2>8. InOrder(Append(Taken, arg[t]), Append(queued, arg[t]), dropped)
    <3>1. Taken \in Seq(Buffers) /\ queued \in Seq(Buffers) /\ dropped \in SUBSET Range(queued)
      BY <1>1, <1>2, TakenCases DEF TypeOK, Dropped
    <3> QED
      BY <3>1, <2>1, <1>2, InOrderAppend
  <2> QED
    BY <2>1, <2>3, <2>4, <2>5, <2>7, <2>8
<1>12. ASSUME NEW t \in Threads, RegisterSend(t)
       PROVE  InOrder(Taken', queued', dropped') /\ Dropped'
  <2>1. ~Held /\ "send" \notin outstanding
    BY <1>1, <1>12 DEF Core, SendLock, Sending, RegisterSend, Held
  <2>2. CASE ~isConnected
    <3>1. ~Held' /\ UNCHANGED sendVars
      BY <1>1, <1>12, <2>1, <2>2 DEF RegisterSend, Return, Goto, TypeOK, Held
    <3> QED
      BY <1>4, <2>1, <3>1 DEF sendVars
  <2>3. CASE isConnected
    <3>1. eventBuffers = <<>>
      BY <1>1, <2>1 DEF Core, SendEvent, Held
    <3>2. /\ UNCHANGED <<wire, queued, dropped>>
          /\ eventBuffers' = eventBuffers \o sendBuffers /\ sendBuffers' = <<>>
      BY <1>12, <2>3 DEF RegisterSend
    <3>3. Held'
      BY <1>1, <1>12, <2>3 DEF RegisterSend, Goto, TypeOK, Held
    <3>4. eventBuffers' = sendBuffers
      BY <1>1, <3>1, <3>2, ConcatEmptySeq DEF TypeOK
    <3>5. Taken' = (wire' \o eventBuffers') \o sendBuffers'
      BY <3>3 DEF Taken, Held
    <3>6. wire \o sendBuffers \in Seq(Buffers)
      BY <1>1, ConcatProperties DEF TypeOK
    <3>7. Taken' = wire \o sendBuffers
      BY <3>2, <3>4, <3>5, <3>6, ConcatEmptySeq
    <3>8. Taken' = Taken
      BY <1>1, <2>1, <3>7, TakenCases
    <3> QED
      BY <1>2, <3>2, <3>8 DEF Dropped
  <2> QED
    BY <2>2, <2>3
<1>13. ASSUME NEW t \in Threads, WSASend(t)
       PROVE  InOrder(Taken', queued', dropped') /\ Dropped'
  <2>1. Held /\ ~Held' /\ UNCHANGED <<sendBuffers, queued>>
    BY <1>1, <1>13 DEF WSASend, Return, Goto, TypeOK, Held, Core, SendLock, Sending
  <2>2. Taken = (wire \o eventBuffers) \o sendBuffers
    BY <1>1, <2>1, TakenCases
  <2>3. Taken' = wire' \o sendBuffers
    <3>1. wire' \in Seq(Buffers) /\ wire' \o <<>> = wire'
      BY <1>1, ConcatEmptySeq DEF TypeOK
    <3> QED
      BY <2>1, <3>1 DEF Taken, Held
  <2>4. CASE wire' = wire \o eventBuffers /\ UNCHANGED dropped
    BY <1>2, <2>1, <2>2, <2>3, <2>4 DEF Dropped
  <2>5. CASE UNCHANGED wire /\ dropped' = dropped \cup Range(eventBuffers)
    <3>1. InOrder(wire \o sendBuffers, queued, dropped \cup Range(eventBuffers))
      <4>1. /\ wire \in Seq(Buffers) /\ eventBuffers \in Seq(Buffers)
            /\ sendBuffers \in Seq(Buffers) /\ queued \in Seq(Buffers)
        BY <1>1 DEF TypeOK
      <4>2. InOrder((wire \o eventBuffers) \o sendBuffers, queued, dropped)
        BY <1>2, <2>2
      <4> QED
        BY <4>1, <4>2, InOrderDrop
    <3>2. Range(eventBuffers) \subseteq Range(queued)
      BY <1>1, <1>2, <2>2, RangeOfThree DEF TypeOK, InOrder
    <3> QED
      BY <1>2, <2>1, <2>3, <2>5, <3>1, <3>2 DEF Dropped
  <2> QED
    BY <1>13, <2>4, <2>5 DEF WSASend
<1>14. ASSUME NEW t \in Threads, ProcessSendNothing(t) \/ ProcessSend(t)
       PROVE  InOrder(Taken', queued', dropped') /\ Dropped'
  <2>1. ~Held /\ UNCHANGED <<wire, sendBuffers, queued, dropped>>
    BY <1>1, <1>14 DEF Core, SendLock, Sending, ProcessSendNothing, ProcessSend, Held
  <2>2. pc'[t] # "wsasend" /\ \A u \in Threads \ {t} : pc'[u] = pc[u]
    BY <1>1, <1>14 DEF ProcessSendNothing, ProcessSend, Goto, TypeOK
  <2> QED
    BY <1>7, <2>1, <2>2
<1>15. ASSUME NEW t \in Threads, SendNext(t)
       PROVE  InOrder(Taken', queued', dropped') /\ Dropped'
  <2>1. ~Held /\ UNCHANGED <<wire, sendBuffers, queued, dropped>>
    BY <1>15 DEF SendNext, LockFree, Held
  <2>2. pc'[t] # "wsasend" /\ \A u \in Threads \ {t} : pc'[u] = pc[u]
    BY <1>1, <1>15 DEF SendNext, Goto, TypeOK
  <2> QED
    BY <1>7, <2>1, <2>2
<1> QED
  BY <1>5, <1>6, <1>7, <1>8, <1>9, <1>10, <1>11, <1>12, <1>13, <1>14, <1>15
  DEF Next, Step, SendCompletes

-----------------------------------------------------------------------------
(* Theorems *)

\* The parts together are inductive.
THEOREM Inductive == Spec => []IInv
<1>1. IInv /\ [Next]_vars => IInv'
  BY TypeStep, UnbornStep, UnpublishedStep, AddingStep, ClosingStep, ServingStep, ReceivingStep,
     SendLockStep, SendEventStep, OwnedStep, FreshStep, SenderForWaitingStep, OrderStep
  DEF IInv, Core
<1> QED
  BY InitIInv, <1>1, PTL DEF Spec

\* The variables of a session keep their types.
THEOREM TypeCorrect == Spec => []TypeOK
  BY Inductive, PTL DEF IInv, Core

\* At most one send of a session is being registered, in progress or being
\* completed, whatever the threads that call Send.
THEOREM OneSendHolds == Spec => []OneSend
<1>1. IInv => OneSend
  <2> SUFFICES ASSUME IInv PROVE OneSend
    OBVIOUS
  <2>1. \A t, u \in Senders : t = u
    BY DEF IInv, Core, SendLock, Sending, Senders
  <2>2. Senders = {} \/ \E t : Senders = {t}
    BY <2>1
  <2>3. Cardinality(Senders) = 0 \/ Cardinality(Senders) = 1
    BY <2>2, FS_EmptySet, FS_Singleton
  <2>4. "send" \in outstanding => Senders = {}
    BY DEF IInv, Core, SendLock, Sending, Senders
  <2> QED
    BY <2>3, <2>4 DEF OneSend
<1> QED
  BY <1>1, Inductive, PTL

\* What Send queues is handed to Winsock once and in order, but for the buffers
\* of a WSASend that failed.
THEOREM SentOnceInOrderHolds == Spec => []SentOnceInOrder
  BY Inductive, PTL DEF IInv

\* Buffers that wait in a connected session have a sender.
THEOREM SenderForWaitingHolds == Spec => []SenderForWaiting
  BY Inductive, PTL DEF IInv

\* The receive buffer, which has no lock, has one user.
THEOREM OneReceiveHolds == Spec => []OneReceive
<1>1. IInv => OneReceive
  BY DEF IInv, Core, Receiving, OneReceive
<1> QED
  BY <1>1, Inductive, PTL

\* An operation in progress keeps the session alive.
THEOREM OwnedWhileOutstandingHolds == Spec => []OwnedWhileOutstanding
<1>1. IInv => OwnedWhileOutstanding
  BY DEF IInv, Core, Owned, OwnedWhileOutstanding
<1> QED
  BY <1>1, Inductive, PTL

\* ReleaseSession never fails its assertion.
THEOREM ReleaseFindsHolds == Spec => []ReleaseFinds
<1>1. IInv => ReleaseFinds
  BY DEF IInv, Core, Serving, ReleaseFinds
<1> QED
  BY <1>1, Inductive, PTL
=============================================================================
