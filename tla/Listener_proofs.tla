-------------------------- MODULE Listener_proofs ---------------------------
(***************************************************************************)
(* Proofs about Listener, for any number of accept slots, threads and      *)
(* clients, and any width of the counter of sessions.                      *)
(*                                                                         *)
(* The argument: a thread that has an event has it alone, from the moment  *)
(* it takes it to the AcceptEx that gives it back.  The session of an      *)
(* event that is offered, or being accepted, belongs to that event alone:  *)
(* CreateSession returns one that nothing refers to, and there is one, as  *)
(* no two connected sessions have the same client and the calls of         *)
(* RegisterAccept on a thread are bounded.                                 *)
(***************************************************************************)
EXTENDS Listener, SequenceLemmas, SequenceTheorems, FiniteSetTheorems, TLAPS

-----------------------------------------------------------------------------
(* The inductive invariant *)

\* An event is held by one thread or by none, and state says which.
Hands ==
    /\ \A t \in Workers : holds[t] # None => state[holds[t]] = "held"
    /\ \A t, u \in Workers : holds[t] = holds[u] /\ holds[t] # None => t = u
    /\ \A e \in AcceptEvents : state[e] = "held" => \E t \in Workers : holds[t] = e

\* Where a thread that holds an event is, and what is on its stack.
Located ==
    \A t \in Workers :
        /\ holds[t] = None <=> pc[t] \in {"start", "wait", "join"}
        /\ holds[t] = None => stack[t] = <<>>
        /\ Len(stack[t]) <= MaxFailures + 2
        /\ pc[t] = "register" => Len(stack[t]) <= MaxFailures + 1
        /\ pc[t] \in {"process", "connect"} => stack[t] = <<session[holds[t]]>>

Accepting(t) == pc[t] \in {"acceptex", "process", "connect"}

\* The event has a session that it may offer, offers, or has just connected.
HasOwn(e) ==
    \/ state[e] \in {"posted", "completed"}
    \/ \E t \in Workers : holds[t] = e /\ Accepting(t)

Own ==
    /\ \A e \in AcceptEvents : HasOwn(e) => session[e] \in Sessions \ sessions
    /\ \A e, f \in AcceptEvents : HasOwn(e) /\ HasOwn(f) /\ session[e] = session[f] => e = f

\* A client waits, or is at the other end of one session.
Peers ==
    /\ IsInjective(backlog)
    /\ \A s \in Sessions : peer[s] \notin Range(backlog)
    /\ \A s, r \in Sessions : peer[s] = peer[r] /\ peer[s] # None => s = r
    /\ \A s \in sessions : peer[s] # None
    /\ \A e \in AcceptEvents : state[e] = "completed" => peer[session[e]] # None
    /\ \A t \in Workers : pc[t] \in {"process", "connect"} => peer[session[holds[t]]] # None

\* The counter follows _sessions.
Counted == IsFiniteSet(sessions) /\ curSessionCount = Count(Cardinality(sessions))

IInv == TypeOK /\ Hands /\ Located /\ Own /\ Peers /\ Counted

-----------------------------------------------------------------------------
(* Counting modulo CountValues *)

\* A number is the quotient times the divisor and the remainder.
LEMMA Division ==
    ASSUME NEW n \in Int
    PROVE  /\ n = CountValues * (n \div CountValues) + (n % CountValues)
           /\ n \div CountValues \in Int /\ n % CountValues \in 0 .. CountValues - 1
  BY ConstantsAssumption

\* A remainder is not another one plus a multiple of the divisor.
LEMMA NoMultiple ==
    ASSUME NEW k \in Int, NEW a \in 0 .. CountValues - 1, NEW b \in 0 .. CountValues - 1,
           CountValues * k + a = b
    PROVE  k = 0
<1>1. CASE k >= 1
  <2>1. CountValues * k >= CountValues
    BY <1>1, ConstantsAssumption
  <2> QED
    BY <2>1, ConstantsAssumption
<1>2. CASE k <= -1
  <2>1. CountValues * k <= -CountValues
    BY <1>2, ConstantsAssumption
  <2> QED
    BY <2>1, ConstantsAssumption
<1> QED
  BY <1>1, <1>2

\* The remainder is unique.
LEMMA Remainder ==
    ASSUME NEW q \in Int, NEW r \in 0 .. CountValues - 1
    PROVE  Count(CountValues * q + r) = r
<1> DEFINE n == CountValues * q + r
           d == n \div CountValues
           m == n % CountValues
<1>1. n \in Int
  BY ConstantsAssumption
<1>2. n = CountValues * d + m /\ d \in Int /\ m \in 0 .. CountValues - 1
  <2> HIDE DEF n
  <2> QED
    BY <1>1, Division
<1> HIDE DEF d, m
<1>3. CountValues * (d - q) + m = r
  BY <1>2, ConstantsAssumption
<1>4. d - q = 0
  BY <1>2, <1>3, NoMultiple
<1>5. m = r
  BY <1>2, <1>3, <1>4, ConstantsAssumption
<1> QED
  BY <1>5 DEF Count, m

\* Adding or subtracting one commutes with the overflow of the counter.
LEMMA CountSteps ==
    ASSUME NEW n \in Int
    PROVE  /\ Count(n) \in 0 .. CountValues - 1
           /\ Count(Count(n) + 1) = Count(n + 1) /\ Count(Count(n) - 1) = Count(n - 1)
<1> DEFINE q == n \div CountValues
           r == n % CountValues
<1>1. n = CountValues * q + r /\ q \in Int /\ r \in 0 .. CountValues - 1
  BY Division
<1>2. Count(n) = r
  BY DEF Count
<1> HIDE DEF q, r
<1> USE ConstantsAssumption
<1>3. Count(r + 1) = Count(n + 1)
  <2>1. CASE r + 1 < CountValues
    <3>1. /\ n + 1 = CountValues * q + (r + 1) /\ r + 1 = CountValues * 0 + (r + 1)
          /\ r + 1 \in 0 .. CountValues - 1 /\ 0 \in Int
      BY <1>1, <2>1
    <3> QED
      BY <1>1, <3>1, Remainder
  <2>2. CASE r + 1 = CountValues
    <3>1. /\ n + 1 = CountValues * (q + 1) + 0 /\ r + 1 = CountValues * 1 + 0
          /\ 0 \in 0 .. CountValues - 1 /\ 1 \in Int /\ q + 1 \in Int
      BY <1>1, <2>2
    <3> QED
      BY <3>1, Remainder
  <2> QED
    BY <1>1, <2>1, <2>2
<1>4. Count(r - 1) = Count(n - 1)
  <2>1. CASE r > 0
    <3>1. /\ n - 1 = CountValues * q + (r - 1) /\ r - 1 = CountValues * 0 + (r - 1)
          /\ r - 1 \in 0 .. CountValues - 1 /\ 0 \in Int
      BY <1>1, <2>1
    <3> QED
      BY <1>1, <3>1, Remainder
  <2>2. CASE r = 0
    <3>1. /\ n - 1 = CountValues * (q - 1) + (CountValues - 1)
          /\ r - 1 = CountValues * (-1) + (CountValues - 1)
          /\ CountValues - 1 \in 0 .. CountValues - 1 /\ -1 \in Int /\ q - 1 \in Int
      BY <1>1, <2>2
    <3> QED
      BY <3>1, Remainder
  <2> QED
    BY <1>1, <2>1, <2>2
<1> QED
  BY <1>1, <1>2, <1>3, <1>4

-----------------------------------------------------------------------------
(* There is always a session to create *)

\* No more sessions are connected than there are clients.
LEMMA ConnectedBound ==
    ASSUME TypeOK, Peers
    PROVE  IsFiniteSet(sessions) /\ Cardinality(sessions) <= Cardinality(Clients)
<1> DEFINE f == [s \in sessions |-> peer[s]]
<1>1. f \in [sessions -> Clients]
  BY DEF TypeOK, Peers
<1>2. IsInjective(f)
  BY DEF TypeOK, Peers, IsInjective
<1>3. f \in Injection(sessions, Clients)
  BY <1>1, <1>2 DEF Injection
<1> QED
  BY <1>3, FS_Injection, ConstantsAssumption

\* The events refer to no more sessions than there are events.
LEMMA EventBound ==
    ASSUME TypeOK
    PROVE  /\ IsFiniteSet(Range(session) \ {None})
           /\ Cardinality(Range(session) \ {None}) <= Cardinality(AcceptEvents)
<1> DEFINE R == Range(session)
<1>1. session \in Surjection(AcceptEvents, R)
  BY DEF TypeOK, Surjection, Range
<1> HIDE DEF R
<1>2. IsFiniteSet(R) /\ Cardinality(R) <= Cardinality(AcceptEvents)
  BY <1>1, FS_Surjection, ConstantsAssumption
<1>3. R \ {None} \in SUBSET R
  OBVIOUS
<1>4. IsFiniteSet(R \ {None}) /\ Cardinality(R \ {None}) <= Cardinality(R)
  BY <1>2, <1>3, FS_Subset
<1>5. /\ Cardinality(R) \in Nat /\ Cardinality(R \ {None}) \in Nat
      /\ Cardinality(AcceptEvents) \in Nat
  BY <1>2, <1>4, FS_CardinalityType, ConstantsAssumption
<1> QED
  BY <1>2, <1>4, <1>5 DEF R

OnStacks == UNION {Range(stack[t]) : t \in Workers}

\* The sessions on the stacks have at most so many places.
LEMMA StackBound ==
    ASSUME TypeOK, Located
    PROVE  /\ IsFiniteSet(OnStacks) /\ IsFiniteSet(Workers)
           /\ Cardinality(OnStacks) <= (MaxFailures + 2) * Cardinality(Workers)
<1> DEFINE K == MaxFailures + 2
           P == Workers \X (1 .. K)
           At(s, p) == p[2] \in DOMAIN stack[p[1]] /\ stack[p[1]][p[2]] = s
           f == [s \in OnStacks |-> CHOOSE p \in P : At(s, p)]
<1>1. ASSUME NEW s \in OnStacks PROVE f[s] \in P /\ At(s, f[s])
  <2>0. PICK t \in Workers : s \in Range(stack[t])
    BY <1>1 DEF OnStacks
  <2>1. PICK i \in DOMAIN stack[t] : stack[t][i] = s
    BY <2>0 DEF Range
  <2>2. DOMAIN stack[t] = 1 .. Len(stack[t]) /\ Len(stack[t]) \in Nat /\ Len(stack[t]) <= K
    BY LenProperties DEF TypeOK, Located
  <2>3. i \in 1 .. K
    BY <2>1, <2>2, ConstantsAssumption
  <2>4. <<t, i>> \in P /\ At(s, <<t, i>>)
    BY <2>1, <2>3
  <2>5. \E p \in P : At(s, p)
    BY <2>4
  <2> QED
    BY <2>5
<1> HIDE DEF P
<1>2. f \in [OnStacks -> P]
  BY <1>1
<1>3. IsInjective(f)
  <2>1. DOMAIN f = OnStacks
    OBVIOUS
  <2> HIDE DEF f
  <2> QED
    BY <1>1, <2>1 DEF IsInjective
<1>4. f \in Injection(OnStacks, P)
  BY <1>2, <1>3 DEF Injection
<1> HIDE DEF f
<1>5. IsFiniteSet(Workers)
  BY FS_AddElement, ConstantsAssumption DEF Workers
<1>6. K \in Nat /\ IsFiniteSet(1 .. K) /\ Cardinality(1 .. K) = K
  BY FS_Interval, ConstantsAssumption
<1>7. IsFiniteSet(P) /\ Cardinality(P) = Cardinality(Workers) * K
  BY <1>5, <1>6, FS_Product DEF P
<1>8. IsFiniteSet(OnStacks) /\ Cardinality(OnStacks) <= Cardinality(P)
  BY <1>4, <1>7, FS_Injection
<1>9. Cardinality(Workers) \in Nat
  BY <1>5, FS_CardinalityType
<1>10. Cardinality(Workers) * K = (MaxFailures + 2) * Cardinality(Workers)
  BY <1>6, <1>9
<1> QED
  BY <1>5, <1>7, <1>8, <1>10

\* CreateSession returns a session to which nothing refers.
LEMMA NewIsNew ==
    ASSUME TypeOK, Peers, Located
    PROVE  NewSession \in Sessions \ Alive
<1> DEFINE E == Range(session) \ {None}
           A == sessions \cup E
           a == Cardinality(AcceptEvents)
           c == Cardinality(Clients)
           w == (MaxFailures + 2) * Cardinality(Workers)
<1>1. IsFiniteSet(sessions) /\ IsFiniteSet(E) /\ IsFiniteSet(OnStacks) /\ IsFiniteSet(Workers)
  BY ConnectedBound, EventBound, StackBound
<1>2. /\ Cardinality(sessions) <= c /\ Cardinality(E) <= a /\ Cardinality(OnStacks) <= w
  BY ConnectedBound, EventBound, StackBound
<1>3. Alive = A \cup OnStacks
  BY DEF Alive, OnStacks
<1> HIDE DEF E
<1>4. /\ IsFiniteSet(A)
      /\ Cardinality(A) = Cardinality(sessions) + Cardinality(E) - Cardinality(sessions \cap E)
  BY <1>1, FS_Union
<1> HIDE DEF A
<1>5. /\ IsFiniteSet(Alive)
      /\ Cardinality(Alive) = Cardinality(A) + Cardinality(OnStacks) - Cardinality(A \cap OnStacks)
  BY <1>1, <1>3, <1>4, FS_Union
<1>6. IsFiniteSet(sessions \cap E) /\ IsFiniteSet(A \cap OnStacks)
  <2>1. sessions \cap E \in SUBSET E /\ A \cap OnStacks \in SUBSET OnStacks
    OBVIOUS
  <2> QED
    BY <1>1, <2>1, FS_Subset
<1>7. /\ Cardinality(sessions) \in Nat /\ Cardinality(E) \in Nat /\ Cardinality(OnStacks) \in Nat
      /\ Cardinality(sessions \cap E) \in Nat /\ Cardinality(A \cap OnStacks) \in Nat
      /\ Cardinality(A) \in Nat /\ a \in Nat /\ c \in Nat /\ Cardinality(Workers) \in Nat
  BY <1>1, <1>4, <1>6, FS_CardinalityType, ConstantsAssumption
<1>8. w \in Nat
  BY <1>7, ConstantsAssumption
<1> HIDE DEF w, a, c
<1>9. Cardinality(Alive) <= a + c + w
  BY <1>2, <1>4, <1>5, <1>7, <1>8
<1>10. Cardinality(Sessions) > a + c + w
  BY ConstantsAssumption DEF a, c, w
<1>11. \E s \in Sessions : s \notin Alive
  <2> SUFFICES ASSUME Sessions \in SUBSET Alive PROVE FALSE
    OBVIOUS
  <2>1. IsFiniteSet(Sessions) /\ Cardinality(Sessions) <= Cardinality(Alive)
    BY <1>5, FS_Subset
  <2>2. Cardinality(Sessions) \in Nat /\ Cardinality(Alive) \in Nat
    BY <1>5, <2>1, FS_CardinalityType
  <2> QED
    BY <1>7, <1>8, <1>9, <1>10, <2>1, <2>2
<1> QED
  BY <1>11 DEF NewSession

-----------------------------------------------------------------------------
(* The actions *)

\* What the actions need of the constants.
LEMMA Basics ==
    /\ Main \notin Threads /\ Main \in Workers /\ MaxFailures \in Nat /\ CountValues \in Nat \ {0}
    /\ None \notin AcceptEvents /\ None \notin Clients /\ None \notin Sessions
  BY ConstantsAssumption DEF Workers

\* Whoever registers, accepts or connects holds an event, and alone.
LEMMA Holder ==
    ASSUME TypeOK, Located, Hands, NEW t \in Workers, pc[t] \notin {"start", "wait", "join"}
    PROVE  /\ holds[t] \in AcceptEvents /\ holds[t] # None
           /\ \A u \in Workers : u # t => holds[u] # holds[t]
  BY Basics DEF TypeOK, Located, Hands

\* A client that connects is not yet in the backlog, nor at the end of a session.
LEMMA ConnectStep == ASSUME IInv, NEW c \in Clients, Connect(c) PROVE IInv'
<1>1. /\ backlog' \in Seq(Clients) /\ IsInjective(backlog')
      /\ Range(backlog') = Range(backlog) \cup {c}
  <2>1. backlog \in Seq(Clients) /\ IsInjective(backlog) /\ c \notin Range(backlog)
    BY DEF IInv, TypeOK, Peers, Connect, Busy
  <2> QED
    BY <2>1, AppendNew DEF Connect
<1>2. TypeOK'
  BY <1>1 DEF IInv, Connect, TypeOK
<1>3. Hands' /\ Located' /\ Own'
  BY DEF IInv, Connect, Hands, Located, Own, HasOwn, Accepting
<1>4. Peers'
  BY <1>1 DEF IInv, Connect, Peers, TypeOK, Busy
<1>5. Counted'
  BY DEF IInv, Connect, Counted
<1> QED
  BY <1>2, <1>3, <1>4, <1>5 DEF IInv

\* The client that has waited longest is at the end of the session of the event,
\* which has no other and is not connected.
LEMMA CompleteStep == ASSUME IInv, NEW e \in AcceptEvents, Complete(e) PROVE IInv'
<1>1. /\ Head(backlog) \in Clients /\ Head(backlog) \in Range(backlog)
      /\ backlog' \in Seq(Clients) /\ IsInjective(backlog')
      /\ Range(backlog') = Range(backlog) \ {Head(backlog)}
  <2>1. backlog \in Seq(Clients) /\ IsInjective(backlog) /\ backlog # <<>> /\ backlog' = Tail(backlog)
    BY DEF IInv, TypeOK, Peers, Complete
  <2> QED
    BY <2>1, TailInjective
<1>2. session[e] \in Sessions \ sessions
  BY DEF IInv, Own, HasOwn, Complete
<1>3. TypeOK'
  BY <1>1, <1>2 DEF IInv, Complete, TypeOK, SetState, States
<1>4. Hands'
  BY DEF IInv, Complete, Hands, TypeOK, SetState
<1>5. Located'
  BY DEF IInv, Complete, Located, TypeOK, SetState
<1>6. Own'
  BY DEF IInv, Complete, Own, HasOwn, Accepting, TypeOK, SetState
<1>7. Peers'
  <2> DEFINE s == session[e]
  <2>1. /\ peer' = [peer EXCEPT ![s] = Head(backlog)] /\ state' = [state EXCEPT ![e] = "completed"]
        /\ UNCHANGED <<session, sessions, pc, holds>>
    BY DEF Complete, SetState
  <2>2. Head(backlog) \in Clients /\ None \notin Clients /\ s \in Sessions \ sessions
    BY <1>1, <1>2, Basics
  <2>3. /\ peer'[s] = Head(backlog) /\ peer'[s] # None
        /\ \A r \in Sessions : r # s => peer'[r] = peer[r]
    BY <2>1, <2>2 DEF IInv, TypeOK
  <2>4. \A r \in Sessions : peer[r] # Head(backlog)
    BY <1>1 DEF IInv, Peers
  <2>5. ASSUME NEW f \in AcceptEvents, state'[f] = "completed" PROVE peer'[session'[f]] # None
    BY <2>1, <2>3, <2>5 DEF IInv, TypeOK, Peers, Own, HasOwn
  <2>6. ASSUME NEW t \in Workers, pc'[t] \in {"process", "connect"}
        PROVE  peer'[session'[holds'[t]]] # None
    <3>1. holds[t] \in AcceptEvents /\ HasOwn(holds[t])
      BY <2>1, <2>6 DEF IInv, TypeOK, Located, HasOwn, Accepting
    <3>2. session[holds[t]] \in Sessions
      BY <3>1 DEF IInv, Own
    <3> QED
      BY <2>1, <2>3, <2>6, <3>2 DEF IInv, Peers
  <2>7. /\ IsInjective(backlog') /\ \A r \in Sessions : peer'[r] \notin Range(backlog')
    BY <1>1, <2>2, <2>3 DEF IInv, Peers
  <2>8. \A q, r \in Sessions : peer'[q] = peer'[r] /\ peer'[q] # None => q = r
    BY <2>2, <2>3, <2>4 DEF IInv, Peers
  <2>9. \A r \in sessions' : peer'[r] # None
    BY <2>1, <2>2, <2>3 DEF IInv, Peers, TypeOK
  <2> QED
    BY <2>5, <2>6, <2>7, <2>8, <2>9 DEF Peers
<1>8. Counted'
  BY DEF IInv, Complete, Counted
<1> QED
  BY <1>3, <1>4, <1>5, <1>6, <1>7, <1>8 DEF IInv

\* A session that closes frees its client, and the counter follows.
LEMMA ReleaseStep == ASSUME IInv, NEW s \in sessions, ReleaseSession(s) PROVE IInv'
<1>1. IsFiniteSet(sessions') /\ Cardinality(sessions') = Cardinality(sessions) - 1
  BY FS_RemoveElement DEF IInv, Counted, ReleaseSession
<1>2. Cardinality(sessions) \in Int /\ Cardinality(sessions) - 1 \in Int
  BY FS_CardinalityType DEF IInv, Counted
<1>3. curSessionCount' \in 0 .. CountValues - 1
  BY <1>2, CountSteps DEF IInv, Counted, ReleaseSession
<1>4. TypeOK'
  BY <1>3 DEF IInv, ReleaseSession, TypeOK
<1>5. Hands' /\ Located'
  BY DEF IInv, ReleaseSession, Hands, Located
<1>6. Own'
  BY DEF IInv, ReleaseSession, Own, HasOwn, Accepting
<1>7. Peers'
  <2>1. /\ peer' = [peer EXCEPT ![s] = None] /\ sessions' = sessions \ {s}
        /\ UNCHANGED <<backlog, state, session, pc, holds>>
    BY DEF ReleaseSession
  <2>2. s \in Sessions /\ peer'[s] = None /\ \A r \in Sessions : r # s => peer'[r] = peer[r]
    BY <2>1 DEF IInv, TypeOK
  <2>3. None \notin Range(backlog)
    BY Basics DEF IInv, TypeOK, Range
  <2>4. ASSUME NEW f \in AcceptEvents, HasOwn(f) PROVE session[f] \in Sessions /\ session[f] # s
    BY <2>4 DEF IInv, Own
  <2>5. \A f \in AcceptEvents : state'[f] = "completed" => peer'[session'[f]] # None
    BY <2>1, <2>2, <2>4 DEF IInv, Peers, HasOwn
  <2>6. ASSUME NEW t \in Workers, pc'[t] \in {"process", "connect"}
        PROVE  peer'[session'[holds'[t]]] # None
    <3>1. holds[t] \in AcceptEvents /\ HasOwn(holds[t])
      BY <2>1, <2>6 DEF IInv, TypeOK, Located, HasOwn, Accepting
    <3> QED
      BY <2>1, <2>2, <2>4, <2>6, <3>1 DEF IInv, Peers
  <2>7. /\ IsInjective(backlog') /\ \A r \in Sessions : peer'[r] \notin Range(backlog')
    BY <2>1, <2>2, <2>3 DEF IInv, Peers
  <2>8. \A q, r \in Sessions : peer'[q] = peer'[r] /\ peer'[q] # None => q = r
    BY <2>2 DEF IInv, Peers
  <2>9. \A r \in sessions' : peer'[r] # None
    BY <2>1, <2>2 DEF IInv, Peers, TypeOK
  <2> QED
    BY <2>5, <2>6, <2>7, <2>8, <2>9 DEF Peers
<1>8. Counted'
  BY <1>1, <1>2, CountSteps DEF IInv, ReleaseSession, Counted
<1> QED
  BY <1>4, <1>5, <1>6, <1>7, <1>8 DEF IInv

\* main takes an event that nobody has.
LEMMA NewAcceptEventStep == ASSUME IInv, NewAcceptEvent PROVE IInv'
<1>1. stack[Main] = <<>> /\ Len(<<>>) = 0
  BY DEF IInv, Located, NewAcceptEvent, Workers
<1>2. TypeOK'
  BY DEF IInv, NewAcceptEvent, TypeOK, SetState, Goto, States, PCs, Workers
<1>3. Hands'
  BY Basics DEF IInv, NewAcceptEvent, Hands, Located, TypeOK, SetState, Goto, Workers
<1>4. Located'
  BY <1>1, EmptySeq, Basics DEF IInv, NewAcceptEvent, Located, TypeOK, Goto, Workers
<1>5. Own'
  BY DEF IInv, NewAcceptEvent, Own, HasOwn, Accepting, TypeOK, SetState, Goto, Workers
<1>6. Peers'
  BY DEF IInv, NewAcceptEvent, Peers, TypeOK, SetState, Goto, Workers
<1>7. Counted'
  BY DEF IInv, NewAcceptEvent, Counted
<1> QED
  BY <1>2, <1>3, <1>4, <1>5, <1>6, <1>7 DEF IInv

\* main goes to wait for the threads.
LEMMA StartThreadsStep == ASSUME IInv, StartThreads PROVE IInv'
<1>1. TypeOK'
  BY DEF IInv, StartThreads, TypeOK, Goto, PCs, Workers
<1>2. Hands'
  BY DEF IInv, StartThreads, Hands
<1>3. Located'
  BY DEF IInv, StartThreads, Located, TypeOK, Goto, Workers
<1>4. Own'
  BY DEF IInv, StartThreads, Own, HasOwn, Accepting, TypeOK, Goto, Workers
<1>5. Peers'
  BY DEF IInv, StartThreads, Peers, TypeOK, Goto, Workers
<1>6. Counted'
  BY DEF IInv, StartThreads, Counted
<1> QED
  BY <1>1, <1>2, <1>3, <1>4, <1>5, <1>6 DEF IInv

\* The new session is that of no other event, and not connected.
LEMMA RegisterAcceptStep == ASSUME IInv, NEW t \in Workers, RegisterAccept(t) PROVE IInv'
<1> DEFINE e == holds[t]
           n == NewSession
<1>1. e \in AcceptEvents /\ n \in Sessions \ Alive /\ pc[t] = "register" /\ e # None
  BY Holder, NewIsNew, Basics DEF IInv, RegisterAccept
<1>2. /\ session' = [session EXCEPT ![e] = n] /\ pc' = [pc EXCEPT ![t] = "acceptex"]
      /\ stack' = [stack EXCEPT ![t] = Append(stack[t], n)]
      /\ UNCHANGED <<backlog, state, peer, sessions, curSessionCount, holds, crashed>>
  BY DEF RegisterAccept, CreateSession, Goto
<1> HIDE DEF n
<1>3. TypeOK'
  <2>1. stack[t] \in Seq(Sessions) /\ Append(stack[t], n) \in Seq(Sessions)
    BY <1>1, AppendProperties DEF IInv, TypeOK
  <2> QED
    BY <1>1, <1>2, <2>1 DEF IInv, TypeOK, PCs
<1>4. Hands'
  BY <1>2 DEF IInv, RegisterAccept, Hands
<1>5. Located'
  <2>1. Len(stack'[t]) = Len(stack[t]) + 1 /\ Len(stack[t]) <= MaxFailures + 1 /\ Len(stack[t]) \in Nat
    BY <1>1, <1>2, AppendProperties, LenProperties DEF IInv, TypeOK, Located
  <2>2. ASSUME NEW u \in Workers, u # t, pc'[u] \in {"process", "connect"}
        PROVE  stack'[u] = <<session'[holds'[u]]>>
    BY <1>1, <1>2, <2>2 DEF IInv, TypeOK, Located, Hands
  <2> QED
    BY <1>1, <1>2, <2>1, <2>2, Basics DEF IInv, TypeOK, Located
<1>6. Own'
  <2>1. n \notin sessions /\ \A f \in AcceptEvents : session[f] # n
    BY <1>1, Basics DEF IInv, TypeOK, Alive, Range
  <2>2. ASSUME NEW f \in AcceptEvents, f # e PROVE HasOwn(f)' <=> HasOwn(f)
    BY <1>1, <1>2, <2>2 DEF IInv, TypeOK, HasOwn, Accepting
  <2>3. session'[e] = n /\ \A f \in AcceptEvents : f # e => session'[f] = session[f]
    BY <1>1, <1>2 DEF IInv, TypeOK
  <2>4. ASSUME NEW f \in AcceptEvents, HasOwn(f)' PROVE session'[f] \in Sessions \ sessions'
    BY <1>1, <1>2, <2>1, <2>2, <2>3, <2>4 DEF IInv, Own
  <2>5. ASSUME NEW f \in AcceptEvents, NEW g \in AcceptEvents, HasOwn(f)', HasOwn(g)',
               session'[f] = session'[g]
        PROVE  f = g
    BY <2>1, <2>2, <2>3, <2>5 DEF IInv, Own
  <2> QED
    BY <2>4, <2>5 DEF Own, HasOwn
<1>7. Peers'
  <2>1. /\ \A f \in AcceptEvents : f # e => session'[f] = session[f]
        /\ state[e] = "held"
    BY <1>1, <1>2 DEF IInv, TypeOK, Hands
  <2>2. ASSUME NEW u \in Workers, pc'[u] \in {"process", "connect"}
        PROVE  peer'[session'[holds'[u]]] # None
    <3>1. u # t /\ pc[u] = pc'[u]
      BY <1>1, <1>2, <2>2 DEF IInv, TypeOK
    <3>2. pc[u] \notin {"start", "wait", "join"}
      BY <2>2, <3>1
    <3>3. holds[u] \in AcceptEvents /\ holds[u] # e
      BY <3>1, <3>2, Holder DEF IInv
    <3> QED
      BY <1>2, <2>1, <2>2, <3>1, <3>3 DEF IInv, Peers
  <2> QED
    BY <1>2, <2>1, <2>2 DEF IInv, Peers
<1>8. Counted'
  BY <1>2 DEF IInv, RegisterAccept, Counted
<1> QED
  BY <1>3, <1>4, <1>5, <1>6, <1>7, <1>8 DEF IInv

\* A server that has crashed leaves the others as they were.
LEMMA CreateSessionFailsStep == ASSUME IInv, NEW t \in Workers, CreateSessionFails(t) PROVE IInv'
<1>1. holds[t] \in AcceptEvents /\ holds[t] # None /\ pc[t] = "register"
  BY Holder, Basics DEF IInv, CreateSessionFails
<1>2. \A u \in Workers : u # t => holds[u] # holds[t]
  BY <1>1 DEF IInv, Hands
<1>3. TypeOK'
  BY <1>1 DEF IInv, CreateSessionFails, TypeOK
<1>4. Hands'
  BY DEF IInv, CreateSessionFails, Hands
<1>5. Located'
  BY <1>1, <1>2 DEF IInv, CreateSessionFails, Located, Hands, TypeOK
<1>6. Own'
  BY <1>1, <1>2, Basics DEF IInv, CreateSessionFails, Own, HasOwn, Accepting, Hands, TypeOK
<1>7. Peers'
  <2>1. \A u \in Workers : pc[u] \in {"process", "connect"} => holds[u] \in AcceptEvents \ {holds[t]}
    <3> SUFFICES ASSUME NEW u \in Workers, pc[u] \in {"process", "connect"}
                 PROVE  holds[u] \in AcceptEvents \ {holds[t]}
      OBVIOUS
    <3> QED
      BY <1>1, <1>2, Holder DEF IInv
  <2> QED
    BY <1>1, <1>2, <2>1 DEF IInv, Peers, Hands, TypeOK, CreateSessionFails
<1>8. Counted'
  BY DEF IInv, CreateSessionFails, Counted
<1> QED
  BY <1>3, <1>4, <1>5, <1>6, <1>7, <1>8 DEF IInv

\* The event is given back with its session.
LEMMA AcceptExStep == ASSUME IInv, NEW t \in Workers, AcceptEx(t) PROVE IInv'
<1>1. holds[t] \in AcceptEvents /\ holds[t] # None /\ pc[t] = "acceptex"
  BY Holder, Basics DEF IInv, AcceptEx
<1>2. Len(<<>>) = 0
  OBVIOUS
<1>3. TypeOK'
  BY <1>1, EmptySeq DEF IInv, AcceptEx, TypeOK, SetState, Return, Goto, States, PCs
<1>4. Hands'
  BY <1>1 DEF IInv, AcceptEx, Hands, TypeOK, SetState, Return
<1>5. Located'
  BY <1>1, <1>2, Basics DEF IInv, AcceptEx, Located, TypeOK, Return, Goto
<1>6. Own'
  <2>1. \A f \in AcceptEvents : HasOwn(f)' => HasOwn(f)
    BY <1>1, Basics DEF IInv, TypeOK, HasOwn, Accepting, AcceptEx, SetState, Return, Goto
  <2>2. UNCHANGED <<session, sessions>>
    BY DEF AcceptEx
  <2> QED
    BY <2>1, <2>2 DEF IInv, Own, HasOwn
<1>7. Peers'
  BY <1>1 DEF IInv, AcceptEx, Peers, TypeOK, SetState, Return, Goto
<1>8. Counted'
  BY DEF IInv, AcceptEx, Counted
<1> QED
  BY <1>3, <1>4, <1>5, <1>6, <1>7, <1>8 DEF IInv

\* RegisterAccept calls itself.
LEMMA AcceptExFailsStep == ASSUME IInv, NEW t \in Workers, AcceptExFails(t) PROVE IInv'
<1>1. TypeOK'
  BY DEF IInv, AcceptExFails, TypeOK, Goto, PCs
<1>2. Hands'
  BY DEF IInv, AcceptExFails, Hands
<1>3. Located'
  BY LenProperties, Basics DEF IInv, AcceptExFails, Located, TypeOK, Goto
<1>4. Own'
  BY DEF IInv, AcceptExFails, Own, HasOwn, Accepting, TypeOK, Goto
<1>5. Peers'
  BY DEF IInv, AcceptExFails, Peers, TypeOK, Goto
<1>6. Counted'
  BY DEF IInv, AcceptExFails, Counted
<1> QED
  BY <1>1, <1>2, <1>3, <1>4, <1>5, <1>6 DEF IInv

\* A thread takes a completed event that no other has.
LEMMA DispatchStep == ASSUME IInv, NEW t \in Workers, NEW e \in AcceptEvents, Dispatch(t, e) PROVE IInv'
<1>1. e # None /\ session[e] \in Sessions /\ holds[t] = None /\ state[e] = "completed"
  BY Basics DEF IInv, Dispatch, Own, HasOwn, Located
<1>2. <<session[e]>> \in Seq(Sessions) /\ Len(<<session[e]>>) = 1
  BY <1>1
<1>3. TypeOK'
  BY <1>1, <1>2 DEF IInv, Dispatch, TypeOK, SetState, Goto, States, PCs
<1>4. Hands'
  BY <1>1, Basics DEF IInv, Dispatch, Hands, Located, TypeOK, SetState
<1>5. Located'
  BY <1>1, <1>2, Basics DEF IInv, Dispatch, Located, TypeOK, Goto
<1>6. Own'
  <2>1. \A f \in AcceptEvents : HasOwn(f)' => HasOwn(f)
    BY <1>1, Basics DEF IInv, TypeOK, HasOwn, Accepting, Dispatch, SetState, Goto
  <2>2. UNCHANGED <<session, sessions>>
    BY DEF Dispatch
  <2> QED
    BY <2>1, <2>2 DEF IInv, Own, HasOwn
<1>7. Peers'
  BY <1>1 DEF IInv, Dispatch, Peers, TypeOK, SetState, Goto
<1>8. Counted'
  BY DEF IInv, Dispatch, Counted
<1> QED
  BY <1>3, <1>4, <1>5, <1>6, <1>7, <1>8 DEF IInv

\* Both calls of ProcessAccept succeed.
LEMMA ProcessAcceptStep == ASSUME IInv, NEW t \in Workers, ProcessAccept(t) PROVE IInv'
<1>1. TypeOK'
  BY DEF IInv, ProcessAccept, TypeOK, Goto, PCs
<1>2. Hands'
  BY DEF IInv, ProcessAccept, Hands
<1>3. Located'
  BY DEF IInv, ProcessAccept, Located, TypeOK, Goto
<1>4. Own'
  BY DEF IInv, ProcessAccept, Own, HasOwn, Accepting, TypeOK, Goto
<1>5. Peers'
  BY DEF IInv, ProcessAccept, Peers, TypeOK, Goto
<1>6. Counted'
  BY DEF IInv, ProcessAccept, Counted
<1> QED
  BY <1>1, <1>2, <1>3, <1>4, <1>5, <1>6 DEF IInv

\* The client has gone; its session is that of no other event.
LEMMA ProcessAcceptFailsStep == ASSUME IInv, NEW t \in Workers, ProcessAcceptFails(t) PROVE IInv'
<1>1. /\ holds[t] \in AcceptEvents /\ holds[t] # None /\ pc[t] = "process" /\ HasOwn(holds[t])
      /\ Head(stack[t]) = session[holds[t]] /\ Len(stack[t]) = 1
  <2>1. pc[t] = "process" /\ pc[t] \notin {"start", "wait", "join"}
    BY DEF ProcessAcceptFails
  <2>2. holds[t] \in AcceptEvents /\ holds[t] # None /\ stack[t] = <<session[holds[t]]>>
    BY <2>1, Holder DEF IInv, Located
  <2>3. HasOwn(holds[t])
    BY <2>1, <2>2 DEF HasOwn, Accepting
  <2>4. \A x : Head(<<x>>) = x /\ Len(<<x>>) = 1
    OBVIOUS
  <2> QED
    BY <2>1, <2>2, <2>3, <2>4
<1>2. session[holds[t]] \in Sessions \ sessions
  BY <1>1 DEF IInv, Own
<1>3. TypeOK'
  BY <1>1, <1>2 DEF IInv, ProcessAcceptFails, TypeOK, Retry, Goto, PCs
<1>4. Hands'
  BY DEF IInv, ProcessAcceptFails, Hands, Retry
<1>5. Located'
  <2>1. /\ pc'[t] = "register" /\ \A u \in Workers : u # t => pc'[u] = pc[u]
        /\ UNCHANGED <<session, holds, stack>>
    BY DEF IInv, TypeOK, ProcessAcceptFails, Retry, Goto
  <2>2. Len(stack[t]) <= MaxFailures + 1
    BY <1>1, Basics
  <2>3. SUFFICES ASSUME NEW u \in Workers
                 PROVE  /\ holds'[u] = None <=> pc'[u] \in {"start", "wait", "join"}
                        /\ holds'[u] = None => stack'[u] = <<>>
                        /\ Len(stack'[u]) <= MaxFailures + 2
                        /\ pc'[u] = "register" => Len(stack'[u]) <= MaxFailures + 1
                        /\ pc'[u] \in {"process", "connect"} => stack'[u] = <<session'[holds'[u]]>>
    BY DEF Located
  <2>4. CASE u = t
    BY <1>1, <2>1, <2>2, <2>4 DEF IInv, Located
  <2>5. CASE u # t
    BY <2>1, <2>5 DEF IInv, Located
  <2> QED
    BY <2>4, <2>5
<1>6. Own'
  <2>1. \A f \in AcceptEvents : HasOwn(f)' => HasOwn(f) /\ f # holds[t]
    BY <1>1, <1>2, Basics DEF IInv, TypeOK, Hands, HasOwn, Accepting, ProcessAcceptFails, Retry, Goto
  <2> QED
    BY <2>1 DEF IInv, Own, HasOwn, ProcessAcceptFails
<1>7. Peers'
  <2> DEFINE s == session[holds[t]]
  <2>1. ASSUME NEW f \in AcceptEvents, HasOwn(f), f # holds[t] PROVE session[f] # s
    BY <1>1, <2>1 DEF IInv, Own
  <2>2. ASSUME NEW u \in Workers, pc'[u] \in {"process", "connect"}
        PROVE  /\ pc[u] \in {"process", "connect"} /\ holds[u] \in AcceptEvents /\ holds[u] # holds[t]
               /\ HasOwn(holds[u])
    BY <1>1, <2>2 DEF IInv, TypeOK, Hands, Located, HasOwn, Accepting, ProcessAcceptFails, Retry, Goto
  <2>3. /\ peer' = [peer EXCEPT ![s] = None]
        /\ UNCHANGED <<backlog, state, session, sessions, holds>>
    BY <1>1 DEF ProcessAcceptFails, Retry
  <2>4. peer'[s] = None /\ \A r \in Sessions : r # s => peer'[r] = peer[r]
    BY <1>2, <2>3 DEF IInv, TypeOK
  <2>5. None \notin Range(backlog)
    BY Basics DEF IInv, TypeOK, Range
  <2>6. ASSUME NEW f \in AcceptEvents, state'[f] = "completed" PROVE peer'[session'[f]] # None
    <3>1. HasOwn(f) /\ f # holds[t]
      BY <1>1, <2>3, <2>6 DEF IInv, Hands, HasOwn
    <3> QED
      BY <2>1, <2>3, <2>4, <2>6, <3>1 DEF IInv, Peers, Own
  <2>7. \A u \in Workers : pc'[u] \in {"process", "connect"} => peer'[session'[holds'[u]]] # None
    BY <2>1, <2>2, <2>3, <2>4 DEF IInv, Peers, Own
  <2>8. \A r \in sessions' : peer'[r] # None
    BY <1>2, <2>3, <2>4 DEF IInv, Peers, TypeOK
  <2>9. /\ IsInjective(backlog') /\ \A r \in Sessions : peer'[r] \notin Range(backlog')
        /\ \A q, r \in Sessions : peer'[q] = peer'[r] /\ peer'[q] # None => q = r
    BY <2>3, <2>4, <2>5 DEF IInv, Peers
  <2> QED
    BY <2>6, <2>7, <2>8, <2>9 DEF Peers
<1>8. Counted'
  BY DEF IInv, ProcessAcceptFails, Counted
<1> QED
  BY <1>3, <1>4, <1>5, <1>6, <1>7, <1>8 DEF IInv

\* The session is connected; it was not before, so the counter follows.
LEMMA ProcessConnectStep == ASSUME IInv, NEW t \in Workers, ProcessConnect(t) PROVE IInv'
<1>1. /\ holds[t] \in AcceptEvents /\ holds[t] # None /\ pc[t] = "connect" /\ HasOwn(holds[t])
      /\ Head(stack[t]) = session[holds[t]] /\ Len(stack[t]) = 1
  <2>1. pc[t] = "connect" /\ pc[t] \notin {"start", "wait", "join"}
    BY DEF ProcessConnect
  <2>2. holds[t] \in AcceptEvents /\ holds[t] # None /\ stack[t] = <<session[holds[t]]>>
    BY <2>1, Holder DEF IInv, Located
  <2>3. HasOwn(holds[t])
    BY <2>1, <2>2 DEF HasOwn, Accepting
  <2>4. \A x : Head(<<x>>) = x /\ Len(<<x>>) = 1
    OBVIOUS
  <2> QED
    BY <2>1, <2>2, <2>3, <2>4
<1>2. session[holds[t]] \in Sessions \ sessions
  BY <1>1 DEF IInv, Own
<1>3. IsFiniteSet(sessions') /\ Cardinality(sessions') = Cardinality(sessions) + 1
  <2>1. sessions' = sessions \cup {session[holds[t]]}
    BY <1>1 DEF ProcessConnect
  <2> QED
    BY <1>2, <2>1, FS_AddElement DEF IInv, Counted
<1>4. Cardinality(sessions) \in Int /\ Cardinality(sessions) + 1 \in Int
  BY FS_CardinalityType DEF IInv, Counted
<1>5. curSessionCount' \in 0 .. CountValues - 1
  BY <1>4, CountSteps DEF IInv, Counted, ProcessConnect
<1>6. TypeOK'
  BY <1>1, <1>2, <1>5 DEF IInv, ProcessConnect, TypeOK, AcceptNext, Goto, PCs
<1>7. Hands'
  BY DEF IInv, ProcessConnect, Hands, AcceptNext
<1>8. Located'
  <2>1. /\ pc'[t] = "register" /\ \A u \in Workers : u # t => pc'[u] = pc[u]
        /\ UNCHANGED <<session, holds, stack>>
    BY DEF IInv, TypeOK, ProcessConnect, AcceptNext, Goto
  <2>2. Len(stack[t]) <= MaxFailures + 1
    BY <1>1, Basics
  <2>3. SUFFICES ASSUME NEW u \in Workers
                 PROVE  /\ holds'[u] = None <=> pc'[u] \in {"start", "wait", "join"}
                        /\ holds'[u] = None => stack'[u] = <<>>
                        /\ Len(stack'[u]) <= MaxFailures + 2
                        /\ pc'[u] = "register" => Len(stack'[u]) <= MaxFailures + 1
                        /\ pc'[u] \in {"process", "connect"} => stack'[u] = <<session'[holds'[u]]>>
    BY DEF Located
  <2>4. CASE u = t
    BY <1>1, <2>1, <2>2, <2>4 DEF IInv, Located
  <2>5. CASE u # t
    BY <2>1, <2>5 DEF IInv, Located
  <2> QED
    BY <2>4, <2>5
<1>9. Own'
  <2>1. \A f \in AcceptEvents : HasOwn(f)' => HasOwn(f) /\ f # holds[t]
    BY <1>1, <1>2, Basics DEF IInv, TypeOK, Hands, HasOwn, Accepting, ProcessConnect, AcceptNext, Goto
  <2> QED
    BY <1>1, <2>1 DEF IInv, Own, HasOwn, ProcessConnect
<1>10. Peers'
  <2> DEFINE s == session[holds[t]]
  <2>1. ASSUME NEW f \in AcceptEvents, HasOwn(f), f # holds[t] PROVE session[f] # s
    BY <1>1, <2>1 DEF IInv, Own
  <2>2. ASSUME NEW u \in Workers, pc'[u] \in {"process", "connect"}
        PROVE  /\ pc[u] \in {"process", "connect"} /\ holds[u] \in AcceptEvents /\ holds[u] # holds[t]
               /\ HasOwn(holds[u])
    BY <1>1, <2>2 DEF IInv, TypeOK, Hands, Located, HasOwn, Accepting, ProcessConnect, AcceptNext, Goto
  <2>3. sessions' = sessions \cup {s} /\ UNCHANGED <<backlog, state, session, peer, holds>>
    BY <1>1 DEF ProcessConnect, AcceptNext
  <2>4. peer[s] # None
    BY <1>1 DEF IInv, Peers
  <2> QED
    BY <2>2, <2>3, <2>4 DEF IInv, Peers
<1>11. Counted'
  BY <1>3, <1>4, CountSteps DEF IInv, ProcessConnect, Counted
<1> QED
  BY <1>6, <1>7, <1>8, <1>9, <1>10, <1>11 DEF IInv

\* A step that changes nothing.
LEMMA StutterStep == IInv /\ UNCHANGED vars => IInv'
  BY DEF IInv, TypeOK, Hands, Located, Own, HasOwn, Accepting, Peers, Counted, vars

\* The server starts in the invariant.
LEMMA InitIInv == Init => IInv
<1> SUFFICES ASSUME Init PROVE IInv
  OBVIOUS
<1>1. Count(0) = 0
  <2>1. CountValues * 0 + 0 = 0 /\ 0 \in 0 .. CountValues - 1 /\ 0 \in Int
    BY Basics
  <2> QED
    BY <2>1, Remainder
<1>2. TypeOK
  <2>1. 0 \in 0 .. CountValues - 1
    BY Basics
  <2>2. pc \in [Workers -> PCs]
    BY DEF Init, PCs
  <2> QED
    BY <2>1, <2>2, EmptyRange DEF Init, TypeOK, States
<1>3. Hands
  BY DEF Init, Hands
<1>4. Located
  BY Basics DEF Init, Located
<1>5. Own
  BY DEF Init, Own, HasOwn, Accepting
<1>6. Peers
  BY EmptyRange DEF Init, Peers
<1>7. Counted
  BY <1>1, FS_EmptySet DEF Init, Counted
<1> QED
  BY <1>2, <1>3, <1>4, <1>5, <1>6, <1>7 DEF IInv

-----------------------------------------------------------------------------
(* Theorems *)

\* The parts together are inductive.
THEOREM Inductive == Spec => []IInv
<1>1. IInv /\ [Next]_vars => IInv'
  BY ConnectStep, CompleteStep, ReleaseStep, NewAcceptEventStep, StartThreadsStep,
     RegisterAcceptStep, CreateSessionFailsStep, AcceptExStep, AcceptExFailsStep, DispatchStep,
     ProcessAcceptStep, ProcessAcceptFailsStep, ProcessConnectStep, StutterStep
  DEF Next, Start, Step
<1> QED
  BY InitIInv, <1>1, PTL DEF Spec

\* The variables of the listener keep their types, the counter its width.
THEOREM TypeCorrect == Spec => []TypeOK
  BY Inductive, PTL DEF IInv

\* No accept slot is lost or used twice, whatever fails.
THEOREM NoSlotLostHolds == Spec => []NoSlotLost
<1>1. IInv => NoSlotLost
  <2> SUFFICES ASSUME IInv, NEW e \in AcceptEvents
               PROVE  Cardinality({t \in Workers : holds[t] = e}) = IF state[e] = "held" THEN 1 ELSE 0
    BY DEF NoSlotLost
  <2> DEFINE H == {t \in Workers : holds[t] = e}
  <2>1. e # None
    BY Basics
  <2>2. CASE state[e] = "held"
    <3>1. PICK t \in Workers : holds[t] = e
      BY <2>2 DEF IInv, Hands
    <3>2. H = {t}
      BY <2>1, <3>1 DEF IInv, Hands
    <3> QED
      BY <2>2, <3>2, FS_Singleton
  <2>3. CASE state[e] # "held"
    <3>1. H = {}
      BY <2>1, <2>3 DEF IInv, Hands
    <3> QED
      BY <2>3, <3>1, FS_EmptySet
  <2> QED
    BY <2>2, <2>3
<1> QED
  BY <1>1, Inductive, PTL

\* A session is offered by one slot and not connected meanwhile, and the service
\* counts the connected ones.
THEOREM OwnSessionHolds == Spec => []OwnSession
<1>1. IInv => OwnSession
  BY DEF IInv, Own, HasOwn, Counted, OwnSession, Offered
<1> QED
  BY <1>1, Inductive, PTL
=============================================================================
