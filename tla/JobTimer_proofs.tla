-------------------------- MODULE JobTimer_proofs ---------------------------
(***************************************************************************)
(* Proofs about JobTimer, for any number of threads, timers and delays.    *)
(*                                                                         *)
(* The argument: _distributing is a lock, so there is one batch at a time. *)
(* A timer passes from Reserve to _items, to the batch and to its Push     *)
(* without ever being in two of these places.  When a timer leaves _items  *)
(* with a batch, every timer inserted before it with an earlier tick has   *)
(* left before or leaves with it, ahead of it.                             *)
(***************************************************************************)
EXTENDS JobTimer, SequenceLemmas, SequenceTheorems, FiniteSetTheorems, TLAPS

-----------------------------------------------------------------------------
(* The inductive invariant *)

Distributes(t) == pc[t] \in {"collect", "push"}

\* _distributing is a lock.
Lock ==
    /\ \A t \in Threads : Distributes(t) => distributing
    /\ \A t, u \in Threads : Distributes(t) /\ Distributes(u) => t = u
    /\ \A t \in Threads : pc[t] # "push" => batch[t] = <<>>

\* Where a timer is between Reserve and its Push.
Places ==
    /\ IsFiniteSet(items)
    /\ items \subseteq Range(inserted) /\ Range(fired) \subseteq Range(inserted)
    /\ \A t \in Threads : Range(batch[t]) \subseteq Range(inserted)
    /\ \A x \in Range(inserted) :
          x \in items \/ x \in Range(fired) \/ \E t \in Threads : x \in Range(batch[t])

\* It is in one place only.
OnePlace ==
    /\ items \cap Range(fired) = {}
    /\ \A t \in Threads :
          /\ IsInjective(batch[t])
          /\ Range(batch[t]) \cap Range(fired) = {} /\ Range(batch[t]) \cap items = {}
          /\ reserving[t] \notin Range(inserted)
    /\ \A t, u \in Threads : reserving[t] = reserving[u] /\ reserving[t] # NoTimer => t = u

\* The ticks of the timers that have been reserved, and of those that are due.
Reserved ==
    /\ \A x \in Range(inserted) : executeTick[x] \in Nat
    /\ \A t \in Threads : reserving[t] # NoTimer => executeTick[reserving[t]] \in Nat
    /\ \A t \in Threads : now[t] <= clock
    /\ \A t \in Threads : \A x \in Range(batch[t]) : executeTick[x] <= now[t]

\* x was inserted before y, and for an earlier tick.
Precedes(x, y) ==
    \E i, k \in DOMAIN inserted :
        i < k /\ x = inserted[i] /\ y = inserted[k] /\ executeTick[x] < executeTick[y]

\* The batch continues the order of what has fired, and what is still in _items
\* precedes none of it.
BatchInOrder ==
    \A x, y \in Timers : Precedes(x, y) =>
        /\ \A t \in Threads :
              y \in Range(batch[t]) => x \in Range(fired) \/ NotAfter(batch[t], x, y)
        /\ NotAfter(fired, x, y)

IInv == TypeOK /\ Lock /\ Places /\ OnePlace /\ Reserved /\ BatchInOrder

-----------------------------------------------------------------------------
(* The order of two timers in a sequence *)

\* A sequence without y keeps the order between any x and y.
LEMMA NotAfterVacuous ==
    ASSUME NEW s, NEW x, NEW y, y \notin Range(s)
    PROVE  NotAfter(s, x, y)
  BY DEF NotAfter, Range

\* y may follow x at the end.
LEMMA NotAfterAppend ==
    ASSUME NEW S, NEW s \in Seq(S), NEW e \in S, NEW x, NEW y,
           NotAfter(s, x, y), e = y => x \in Range(s)
    PROVE  NotAfter(Append(s, e), x, y)
<1>1. /\ DOMAIN Append(s, e) = 1 .. Len(s) + 1 /\ DOMAIN s = 1 .. Len(s) /\ Len(s) \in Nat
      /\ \A i \in 1 .. Len(s) : Append(s, e)[i] = s[i]
      /\ Append(s, e)[Len(s) + 1] = e
  BY AppendProperties, LenProperties
<1> SUFFICES ASSUME NEW k \in 1 .. Len(s) + 1, Append(s, e)[k] = y
             PROVE  \E i \in 1 .. (k - 1) : Append(s, e)[i] = x
  BY <1>1 DEF NotAfter
<1>2. CASE k \in 1 .. Len(s)
  <2>1. PICK i \in 1 .. (k - 1) : s[i] = x
    BY <1>1, <1>2 DEF NotAfter
  <2>2. i \in 1 .. Len(s)
    BY <1>1, <1>2
  <2> QED
    BY <1>1, <2>1, <2>2
<1>3. CASE k = Len(s) + 1
  <2>1. PICK i \in 1 .. Len(s) : s[i] = x
    BY <1>1, <1>3 DEF Range
  <2> QED
    BY <1>1, <1>3, <2>1
<1> QED
  BY <1>1, <1>2, <1>3

\* The head of a sequence comes after nothing.
LEMMA NotAfterHead ==
    ASSUME NEW S, NEW s \in Seq(S), s # <<>>, NEW x, NotAfter(s, x, Head(s))
    PROVE  FALSE
<1>1. 1 \in DOMAIN s /\ s[1] = Head(s)
  BY EmptySeq, LenProperties
<1> QED
  BY <1>1 DEF NotAfter

\* What is true of the rest once the head is gone.
LEMMA NotAfterTail ==
    ASSUME NEW S, NEW s \in Seq(S), s # <<>>, NEW x, NEW y, NotAfter(s, x, y), x # Head(s)
    PROVE  NotAfter(Tail(s), x, y)
<1>1. /\ Len(s) \in Nat \ {0} /\ DOMAIN s = 1 .. Len(s) /\ Head(s) = s[1]
      /\ DOMAIN Tail(s) = 1 .. Len(s) - 1 /\ \A i \in 1 .. Len(s) - 1 : Tail(s)[i] = s[i + 1]
  BY EmptySeq, LenProperties, HeadTailProperties
<1> SUFFICES ASSUME NEW k \in 1 .. Len(s) - 1, s[k + 1] = y
             PROVE  \E i \in 1 .. (k - 1) : Tail(s)[i] = x
  BY <1>1 DEF NotAfter
<1>2. PICK i \in 1 .. k : s[i] = x
  BY <1>1 DEF NotAfter
<1>3. i - 1 \in 1 .. (k - 1) /\ Tail(s)[i - 1] = x
  BY <1>1, <1>2
<1> QED
  BY <1>3

\* A way to hand out a set is a sequence of all its members without duplicates.
LEMMA SetToSeqsProperties ==
    ASSUME NEW S, IsFiniteSet(S), NEW s \in SetToSeqs(S)
    PROVE  s \in Seq(S) /\ IsInjective(s) /\ Range(s) = S
<1>1. Cardinality(S) \in Nat
  BY FS_CardinalityType
<1>2. s \in [1 .. Cardinality(S) -> S] /\ IsInjective(s)
  BY DEF SetToSeqs, IsInjective
<1>3. s \in Seq(S)
  BY <1>1, <1>2, SeqDef
<1>4. s \in Injection(1 .. Cardinality(S), S)
  BY <1>2 DEF Injection
<1>5. Cardinality(1 .. Cardinality(S)) = Cardinality(S)
  BY <1>1, FS_Interval
<1>6. s \in Surjection(1 .. Cardinality(S), S)
  BY <1>4, <1>5, FS_Injection
<1>7. Range(s) = S
  BY <1>2, <1>6 DEF Surjection, Range
<1> QED
  BY <1>2, <1>3, <1>7

-----------------------------------------------------------------------------
(* What the actions have in common *)

\* A step that moves no timer keeps the places and the order.
LEMMA StayPut ==
    ASSUME IInv, UNCHANGED <<items, executeTick, reserving, batch, inserted, fired>>
    PROVE  Places' /\ OnePlace' /\ BatchInOrder'
  BY DEF IInv, Places, OnePlace, BatchInOrder, Precedes, NotAfter

\* While one thread distributes, no other holds a batch.
LEMMA OneBatch ==
    ASSUME TypeOK, Lock, NEW t \in Threads, pc[t] \in {"collect", "push"}
    PROVE  \A u \in Threads : u # t => batch[u] = <<>> /\ pc[u] \notin {"collect", "push"}
  BY DEF Lock, Distributes

\* The clock starts at a tick.
LEMMA ZeroTick == 0 \in Ticks /\ 0 \in Nat
  BY ConstantsAssumption DEF Ticks

\* A new thread, timer or clock starts in the invariant.
LEMMA InitIInv == Init => IInv
<1> SUFFICES ASSUME Init PROVE IInv
  OBVIOUS
<1>1. TypeOK
  BY ZeroTick, EmptyRange DEF Init, TypeOK, PCs
<1>2. Lock
  BY DEF Init, Lock, Distributes
<1>3. Places /\ OnePlace
  BY EmptyRange, FS_EmptySet DEF Init, Places, OnePlace
<1>4. Reserved
  BY EmptyRange DEF Init, Reserved
<1>5. BatchInOrder
  BY DEF Init, BatchInOrder, Precedes
<1> QED
  BY <1>1, <1>2, <1>3, <1>4, <1>5 DEF IInv

-----------------------------------------------------------------------------
(* The actions *)

\* The clock only grows.
LEMMA TickStep == IInv /\ Tick => IInv'
<1> SUFFICES ASSUME IInv, Tick PROVE IInv'
  OBVIOUS
<1>1. TypeOK'
  BY ConstantsAssumption DEF IInv, Tick, TypeOK, Ticks
<1>2. Lock'
  BY DEF IInv, Tick, Lock, Distributes
<1>3. Reserved'
  BY DEF IInv, Tick, Reserved, TypeOK, Ticks
<1>4. Places' /\ OnePlace' /\ BatchInOrder'
  BY StayPut DEF Tick
<1> QED
  BY <1>1, <1>2, <1>3, <1>4 DEF IInv

\* Reserve takes a timer that is nowhere yet.
LEMMA ReserveStep == ASSUME IInv, NEW t \in Threads, Reserve(t) PROVE IInv'
<1> DEFINE n == NewTimer
<1>1. /\ n \in Timers /\ executeTick[n] = NotReserved /\ n # NoTimer
      /\ reserving' = [reserving EXCEPT ![t] = n] /\ reserving[t] = NoTimer
  BY ConstantsAssumption DEF Reserve, NewTimer, Unreserved
<1>2. PICK d \in Delays : executeTick' = [executeTick EXCEPT ![n] = clock + d]
  BY DEF Reserve, ExecuteTick
<1>3. /\ UNCHANGED <<clock, items, distributing, pc, now, batch, inserted, fired>>
  BY DEF Reserve
<1> HIDE DEF n
<1>4. n \notin Range(inserted) /\ \A u \in Threads : reserving[u] # n
  BY <1>1, ConstantsAssumption DEF IInv, Reserved
<1>5. /\ executeTick'[n] = clock + d /\ clock + d \in Nat
      /\ \A x \in Timers : x # n => executeTick'[x] = executeTick[x]
  BY <1>1, <1>2, ConstantsAssumption DEF IInv, TypeOK, Ticks
<1>6. TypeOK'
  BY <1>1, <1>2, <1>3, <1>5 DEF IInv, TypeOK
<1>7. Lock' /\ Places'
  BY <1>3 DEF IInv, Lock, Places, Distributes
<1>8. Range(inserted) \subseteq Timers
  BY DEF IInv, TypeOK, Range
<1>9. OnePlace'
  BY <1>1, <1>3, <1>4 DEF IInv, OnePlace, TypeOK
<1>10. Reserved'
  <2>1. \A x \in Range(inserted) : executeTick'[x] = executeTick[x]
    BY <1>4, <1>5, <1>8
  <2>2. \A x \in Range(inserted') : executeTick'[x] \in Nat
    BY <1>3, <2>1 DEF IInv, Reserved
  <2>3. ASSUME NEW u \in Threads, reserving'[u] # NoTimer PROVE executeTick'[reserving'[u]] \in Nat
    <3>1. CASE u = t
      BY <1>1, <1>5, <3>1 DEF IInv, TypeOK
    <3>2. CASE u # t
      BY <1>1, <1>4, <1>5, <2>3, <3>2 DEF IInv, TypeOK, Reserved
    <3> QED
      BY <3>1, <3>2
  <2>4. \A u \in Threads : \A x \in Range(batch'[u]) : executeTick'[x] <= now'[u]
    BY <1>3, <2>1 DEF IInv, Reserved, Places
  <2> QED
    BY <1>3, <2>2, <2>3, <2>4 DEF IInv, Reserved
<1>11. \A x, y : Precedes(x, y)' => Precedes(x, y)
  <2> SUFFICES ASSUME NEW x, NEW y, NEW i \in DOMAIN inserted, NEW k \in DOMAIN inserted,
                      i < k, x = inserted[i], y = inserted[k], executeTick'[x] < executeTick'[y]
               PROVE  Precedes(x, y)
    BY <1>3 DEF Precedes
  <2>1. x \in Range(inserted) /\ y \in Range(inserted)
    BY DEF Range
  <2> QED
    BY <2>1, <1>4, <1>5, <1>8 DEF Precedes
<1>12. BatchInOrder'
  BY <1>3, <1>11 DEF IInv, BatchInOrder, NotAfter
<1> QED
  BY <1>6, <1>7, <1>9, <1>10, <1>12 DEF IInv

\* A timer that comes to _items is the last one inserted.
LEMMA InsertStep == ASSUME IInv, NEW t \in Threads, Insert(t) PROVE IInv'
<1> DEFINE e == reserving[t]
<1>1. /\ e \in Timers /\ e # NoTimer /\ items' = items \cup {e}
      /\ inserted' = Append(inserted, e) /\ inserted \in Seq(Timers)
      /\ reserving' = [reserving EXCEPT ![t] = NoTimer]
      /\ UNCHANGED <<clock, executeTick, distributing, pc, now, batch, fired>>
  BY DEF Insert, IInv, TypeOK
<1>2. e \notin Range(inserted) /\ executeTick[e] \in Nat
      /\ \A u \in Threads : u # t => reserving[u] # e
  BY <1>1 DEF IInv, OnePlace, Reserved
<1> HIDE DEF e
<1>3. Range(inserted') = Range(inserted) \cup {e}
  BY <1>1, RangeAppend
<1>4. TypeOK'
  BY <1>1, AppendProperties DEF IInv, TypeOK
<1>5. Lock'
  BY <1>1 DEF IInv, Lock, Distributes
<1>6. Places'
  <2>1. IsFiniteSet(items')
    BY <1>1, FS_AddElement DEF IInv, Places
  <2> QED
    BY <1>1, <1>3, <2>1 DEF IInv, Places
<1>7. Range(inserted) \subseteq Timers
  BY <1>1 DEF Range
<1>8. OnePlace'
  <2>1. e \notin Range(fired) /\ \A u \in Threads : e \notin Range(batch[u])
    BY <1>2 DEF IInv, Places
  <2>2. ASSUME NEW u \in Threads PROVE reserving'[u] \notin Range(inserted')
    <3>1. CASE u = t
      BY <1>1, <1>3, <1>7, <3>1, ConstantsAssumption DEF IInv, TypeOK
    <3>2. CASE u # t
      BY <1>1, <1>2, <1>3, <3>2 DEF IInv, TypeOK, OnePlace
    <3> QED
      BY <3>1, <3>2
  <2>3. \A u, v \in Threads : reserving'[u] = reserving'[v] /\ reserving'[u] # NoTimer => u = v
    BY <1>1 DEF IInv, OnePlace, TypeOK
  <2> QED
    BY <1>1, <2>1, <2>2, <2>3 DEF IInv, OnePlace
<1>9. Reserved'
  BY <1>1, <1>2, <1>3 DEF IInv, Reserved, TypeOK
<1>10. ASSUME NEW x, NEW y, Precedes(x, y)'
       PROVE  Precedes(x, y) \/ y = e
  <2>1. /\ DOMAIN inserted' = 1 .. Len(inserted) + 1 /\ DOMAIN inserted = 1 .. Len(inserted)
        /\ Len(inserted) \in Nat /\ inserted'[Len(inserted) + 1] = e
        /\ \A i \in 1 .. Len(inserted) : inserted'[i] = inserted[i]
    BY <1>1, AppendProperties, LenProperties
  <2>2. PICK i, k \in DOMAIN inserted' :
           i < k /\ x = inserted'[i] /\ y = inserted'[k] /\ executeTick'[x] < executeTick'[y]
    BY <1>10 DEF Precedes
  <2>3. CASE k = Len(inserted) + 1
    BY <2>1, <2>2, <2>3
  <2>4. CASE k # Len(inserted) + 1
    <3>1. i \in 1 .. Len(inserted) /\ k \in 1 .. Len(inserted)
      BY <2>1, <2>2, <2>4
    <3> QED
      BY <1>1, <2>1, <2>2, <3>1 DEF Precedes
  <2> QED
    BY <2>3, <2>4
<1>11. BatchInOrder'
  <2> SUFFICES ASSUME NEW x \in Timers, NEW y \in Timers, Precedes(x, y)'
               PROVE  /\ \A u \in Threads : y \in Range(batch'[u]) =>
                             x \in Range(fired') \/ NotAfter(batch'[u], x, y)
                      /\ NotAfter(fired', x, y)
    BY DEF BatchInOrder, NotAfter
  <2>1. CASE Precedes(x, y)
    BY <1>1, <2>1 DEF IInv, BatchInOrder
  <2>2. CASE y = e
    <3>1. y \notin Range(fired) /\ \A u \in Threads : y \notin Range(batch[u])
      BY <1>2, <2>2 DEF IInv, Places
    <3> QED
      BY <1>1, <3>1, NotAfterVacuous
  <2> QED
    BY <1>10, <2>1, <2>2
<1> QED
  BY <1>4, <1>5, <1>6, <1>8, <1>9, <1>11 DEF IInv

\* Outside the loop of Distribute a thread has no batch, so its clock may change.
LEMMA ReadNowStep == ASSUME IInv, NEW t \in Threads, ReadNow(t) PROVE IInv'
<1>1. TypeOK'
  BY DEF IInv, ReadNow, Goto, TypeOK, PCs
<1>2. Lock'
  BY DEF IInv, ReadNow, Goto, TypeOK, Lock, Distributes
<1>3. Reserved'
  <2>1. batch[t] = <<>>
    BY DEF IInv, ReadNow, Lock
  <2> QED
    BY <2>1, EmptyRange DEF IInv, ReadNow, Reserved, TypeOK, Ticks
<1>4. Places' /\ OnePlace' /\ BatchInOrder'
  BY StayPut DEF ReadNow
<1> QED
  BY <1>1, <1>2, <1>3, <1>4 DEF IInv

\* One thread at most passes _distributing.exchange(true).
LEMMA ExchangeStep == ASSUME IInv, NEW t \in Threads, Exchange(t) PROVE IInv'
<1>1. TypeOK'
  BY ZeroTick DEF IInv, Exchange, Goto, TypeOK, PCs
<1>2. Lock'
  BY DEF IInv, Exchange, Passes, Goto, TypeOK, Lock, Distributes
<1>3. Reserved'
  <2>1. batch[t] = <<>>
    BY DEF IInv, Exchange, Lock
  <2>2. \A u \in Threads : now'[u] <= clock' /\ (u # t => now'[u] = now[u])
    BY DEF IInv, Exchange, Reserved, TypeOK, Ticks
  <2> QED
    BY <2>1, <2>2, EmptyRange DEF IInv, Exchange, Reserved
<1>4. Places' /\ OnePlace' /\ BatchInOrder'
  BY StayPut DEF Exchange
<1> QED
  BY <1>1, <1>2, <1>3, <1>4 DEF IInv

\* The thread that leaves Distribute has handed out its whole batch.
LEMMA EndDistributeStep == ASSUME IInv, NEW t \in Threads, EndDistribute(t) PROVE IInv'
<1>1. TypeOK'
  BY ZeroTick DEF IInv, EndDistribute, Released, Goto, TypeOK, PCs
<1>2. Lock'
  BY DEF IInv, EndDistribute, Goto, TypeOK, Lock, Distributes
<1>3. Reserved'
  BY EmptyRange DEF IInv, EndDistribute, Reserved, TypeOK, Ticks
<1>4. Places' /\ OnePlace' /\ BatchInOrder'
  BY StayPut DEF EndDistribute
<1> QED
  BY <1>1, <1>2, <1>3, <1>4 DEF IInv

\* The batch holds what is due in the order of the ticks, and what stays in
\* _items has a later tick than all of it.
LEMMA CollectStep == ASSUME IInv, NEW t \in Threads, Collect(t) PROVE IInv'
<1>1. PICK s \in PopOrders(Due(t)) : batch' = [batch EXCEPT ![t] = s]
  BY DEF Collect
<1>2. /\ pc[t] = "collect" /\ items' = items \ Due(t) /\ pc' = [pc EXCEPT ![t] = "push"]
      /\ UNCHANGED <<clock, executeTick, distributing, reserving, now, inserted, fired>>
  BY DEF Collect, Goto
<1>3. Due(t) \subseteq items /\ IsFiniteSet(Due(t)) /\ IsFiniteSet(items')
  <2>1. Due(t) \in SUBSET items /\ items' \in SUBSET items
    BY <1>2 DEF Due
  <2> QED
    BY <2>1, FS_Subset DEF IInv, Places
<1>4. s \in Seq(Due(t)) /\ IsInjective(s) /\ Range(s) = Due(t)
  BY <1>1, <1>3, SetToSeqsProperties DEF PopOrders
<1>5. \A i, k \in DOMAIN s : i < k => executeTick[s[i]] <= executeTick[s[k]]
  BY DEF PopOrders
<1>6. /\ items \subseteq Timers /\ items \subseteq Range(inserted) /\ batch[t] = <<>>
      /\ \A x \in items : executeTick[x] \in Nat
  BY <1>2 DEF IInv, TypeOK, Places, Lock, Reserved
<1>7. s \in Seq(Timers)
  BY <1>3, <1>4, <1>6
<1>8. batch'[t] = s /\ \A u \in Threads : u # t => batch'[u] = <<>>
  BY <1>1, <1>2, OneBatch DEF IInv, TypeOK
<1>9. TypeOK'
  BY <1>1, <1>2, <1>6, <1>7 DEF IInv, TypeOK, PCs
<1>10. Lock'
  BY <1>2, <1>8 DEF IInv, TypeOK, Lock, Distributes
<1>11. Places'
  <2>1. ASSUME NEW u \in Threads PROVE Range(batch'[u]) \subseteq Range(inserted')
    BY <1>2, <1>3, <1>4, <1>6, <1>8, EmptyRange
  <2>2. ASSUME NEW x \in Range(inserted')
        PROVE  x \in items' \/ x \in Range(fired') \/ \E u \in Threads : x \in Range(batch'[u])
    <3>1. x \in items \/ x \in Range(fired)
      BY <1>2, <1>6, OneBatch, EmptyRange DEF IInv, Places
    <3> QED
      BY <1>2, <1>4, <1>8, <3>1
  <2> QED
    BY <1>2, <1>3, <2>1, <2>2 DEF IInv, Places
<1>12. OnePlace'
  <2>1. ASSUME NEW u \in Threads
        PROVE  /\ IsInjective(batch'[u])
               /\ Range(batch'[u]) \cap Range(fired') = {} /\ Range(batch'[u]) \cap items' = {}
    BY <1>2, <1>3, <1>4, <1>8, EmptyRange DEF IInv, OnePlace
  <2> QED
    BY <1>2, <2>1 DEF IInv, OnePlace
<1>13. Reserved'
  <2>1. \A x \in Range(s) : executeTick[x] <= now[t]
    BY <1>4 DEF Due
  <2> QED
    BY <1>2, <1>8, <2>1, EmptyRange DEF IInv, Reserved
<1>14. BatchInOrder'
  <2> SUFFICES ASSUME NEW x \in Timers, NEW y \in Timers, Precedes(x, y)'
               PROVE  /\ \A u \in Threads : y \in Range(batch'[u]) =>
                             x \in Range(fired') \/ NotAfter(batch'[u], x, y)
                      /\ NotAfter(fired', x, y)
    BY DEF BatchInOrder, NotAfter
  <2>1. Precedes(x, y)
    BY <1>2 DEF Precedes
  <2>2. NotAfter(fired', x, y)
    BY <1>2, <2>1 DEF IInv, BatchInOrder
  <2>3. ASSUME y \in Range(s), x \notin Range(fired) PROVE NotAfter(s, x, y)
    <3>1. x \in Range(inserted) /\ executeTick[x] < executeTick[y]
      BY <2>1 DEF Precedes, Range
    <3>2. x \in items
      BY <1>2, <1>6, <2>3, <3>1, OneBatch, EmptyRange DEF IInv, Places
    <3>3. y \in items /\ executeTick[y] <= now[t] /\ now[t] \in Nat
      BY <1>4, <2>3 DEF Due, IInv, TypeOK, Ticks
    <3>4. x \in Range(s)
      BY <1>4, <1>6, <3>1, <3>2, <3>3 DEF Due
    <3>5. PICK i \in DOMAIN s : s[i] = x
      BY <3>4 DEF Range
    <3> SUFFICES ASSUME NEW k \in DOMAIN s, s[k] = y PROVE \E j \in 1 .. (k - 1) : s[j] = x
      BY DEF NotAfter
    <3>6. DOMAIN s = 1 .. Len(s) /\ Len(s) \in Nat
      BY <1>4, LenProperties
    <3>7. ~(k <= i)
      BY <1>5, <1>6, <3>1, <3>2, <3>3, <3>5, <3>6
    <3> QED
      BY <3>5, <3>6, <3>7
  <2> QED
    BY <1>2, <1>8, <2>2, <2>3, EmptyRange
<1> QED
  BY <1>9, <1>10, <1>11, <1>12, <1>13, <1>14 DEF IInv

\* The head of the batch is the next to fire.
LEMMA PushItemStep == ASSUME IInv, NEW t \in Threads, PushItem(t) PROVE IInv'
<1> DEFINE b == batch[t]
<1> DEFINE h == Head(batch[t])
<1>1. /\ pc[t] = "push" /\ b # <<>> /\ fired' = Append(fired, h)
      /\ batch' = [batch EXCEPT ![t] = Tail(b)]
      /\ UNCHANGED <<clock, items, executeTick, distributing, pc, reserving, now, inserted>>
  BY DEF PushItem
<1>2. b \in Seq(Timers) /\ fired \in Seq(Timers) /\ IsInjective(b)
  BY DEF IInv, TypeOK, OnePlace
<1>3. /\ h \in Timers /\ h \in Range(b) /\ Tail(b) \in Seq(Timers)
      /\ IsInjective(Tail(b)) /\ Range(Tail(b)) = Range(b) \ {h}
  BY <1>1, <1>2, TailInjective
<1>4. Range(fired') = Range(fired) \cup {h} /\ fired' \in Seq(Timers)
  BY <1>1, <1>2, <1>3, RangeAppend, AppendProperties
<1>5. batch'[t] = Tail(b) /\ \A u \in Threads : u # t => batch'[u] = <<>>
  BY <1>1, OneBatch DEF IInv, TypeOK
<1>6. TypeOK'
  BY <1>1, <1>3, <1>4 DEF IInv, TypeOK
<1>7. Lock'
  BY <1>1, <1>5 DEF IInv, Lock, Distributes
<1>8. Places'
  <2>1. ASSUME NEW u \in Threads PROVE Range(batch'[u]) \subseteq Range(inserted')
    BY <1>1, <1>3, <1>5, EmptyRange DEF IInv, Places
  <2>2. ASSUME NEW x \in Range(inserted')
        PROVE  x \in items' \/ x \in Range(fired') \/ \E u \in Threads : x \in Range(batch'[u])
    <3>1. x \in items \/ x \in Range(fired) \/ x \in Range(b)
      BY <1>1, OneBatch, EmptyRange DEF IInv, Places
    <3> QED
      BY <1>1, <1>3, <1>4, <1>5, <3>1
  <2> QED
    BY <1>1, <1>3, <1>4, <2>1, <2>2 DEF IInv, Places
<1>9. OnePlace'
  <2>1. ASSUME NEW u \in Threads
        PROVE  /\ IsInjective(batch'[u])
               /\ Range(batch'[u]) \cap Range(fired') = {} /\ Range(batch'[u]) \cap items' = {}
    <3>1. CASE u = t
      BY <1>1, <1>3, <1>4, <1>5, <3>1 DEF IInv, OnePlace
    <3>2. CASE u # t
      BY <1>5, <3>2, EmptyRange
    <3> QED
      BY <3>1, <3>2
  <2>2. items' \cap Range(fired') = {}
    BY <1>1, <1>3, <1>4 DEF IInv, OnePlace
  <2> QED
    BY <1>1, <2>1, <2>2 DEF IInv, OnePlace
<1>10. Reserved'
  BY <1>1, <1>3, <1>5, EmptyRange DEF IInv, Reserved
<1>11. BatchInOrder'
  <2> SUFFICES ASSUME NEW x \in Timers, NEW y \in Timers, Precedes(x, y)'
               PROVE  /\ \A u \in Threads : y \in Range(batch'[u]) =>
                             x \in Range(fired') \/ NotAfter(batch'[u], x, y)
                      /\ NotAfter(fired', x, y)
    BY DEF BatchInOrder, NotAfter
  <2>1. Precedes(x, y)
    BY <1>1 DEF Precedes
  <2>2. /\ NotAfter(fired, x, y)
        /\ y \in Range(b) => x \in Range(fired) \/ NotAfter(b, x, y)
    BY <2>1 DEF IInv, BatchInOrder
  <2>3. h = y => x \in Range(fired)
    BY <1>1, <1>2, <1>3, <2>2, NotAfterHead
  <2>4. NotAfter(fired', x, y)
    BY <1>1, <1>2, <1>3, <2>2, <2>3, NotAfterAppend
  <2>5. ASSUME y \in Range(Tail(b)) PROVE x \in Range(fired') \/ NotAfter(Tail(b), x, y)
    BY <1>1, <1>2, <1>3, <1>4, <2>2, <2>5, NotAfterTail
  <2> QED
    BY <1>5, <2>4, <2>5, EmptyRange
<1> QED
  BY <1>6, <1>7, <1>8, <1>9, <1>10, <1>11 DEF IInv

\* A step that changes nothing.
LEMMA StutterStep == IInv /\ UNCHANGED vars => IInv'
<1> SUFFICES ASSUME IInv, UNCHANGED vars PROVE IInv'
  OBVIOUS
<1>1. TypeOK' /\ Lock' /\ Reserved'
  BY DEF IInv, TypeOK, Lock, Distributes, Reserved, vars
<1>2. Places' /\ OnePlace' /\ BatchInOrder'
  BY StayPut DEF vars
<1> QED
  BY <1>1, <1>2 DEF IInv

-----------------------------------------------------------------------------
(* Theorems *)

\* The parts together are inductive.
THEOREM Inductive == Spec => []IInv
<1>1. IInv /\ [Next]_vars => IInv'
  BY TickStep, ReserveStep, InsertStep, ReadNowStep, ExchangeStep, CollectStep, PushItemStep,
     EndDistributeStep, StutterStep
  DEF Next, Step
<1> QED
  BY InitIInv, <1>1, PTL DEF Spec

\* The variables of the timer keep their types.
THEOREM TypeCorrect == Spec => []TypeOK
  BY Inductive, PTL DEF IInv

\* Of two timers, the one inserted first and for an earlier tick fires first,
\* however many threads come to Distribute.
THEOREM DistributedInOrderHolds == Spec => []DistributedInOrder
<1>1. IInv => DistributedInOrder
  <2> SUFFICES ASSUME IInv, NEW i \in DOMAIN inserted, NEW k \in DOMAIN inserted,
                      i < k, executeTick[inserted[i]] < executeTick[inserted[k]]
               PROVE  NotAfter(fired, inserted[i], inserted[k])
    BY DEF DistributedInOrder
  <2>1. inserted[i] \in Timers /\ inserted[k] \in Timers
    BY DEF IInv, TypeOK
  <2> QED
    BY <2>1 DEF IInv, BatchInOrder, Precedes
<1> QED
  BY <1>1, Inductive, PTL

\* Every step of the threads is a step of Timers or none: a timer is reserved
\* once, fires once, and not before its tick.
THEOREM ImplementsTimersSteps == Spec => Abstract!Init /\ [][Abstract!Next]_(Abstract!vars)
<1>1. Init => Abstract!Init
  BY DEF Init, Abstract!Init
<1>2. IInv /\ [Next]_vars => [Abstract!Next]_(Abstract!vars)
  <2> SUFFICES ASSUME IInv, [Next]_vars PROVE [Abstract!Next]_(Abstract!vars)
    OBVIOUS
  <2> USE DEF Abstract!vars
  <2>1. CASE Tick
    BY <2>1 DEF Tick, Abstract!Next, Abstract!Tick
  <2>2. ASSUME NEW t \in Threads, Reserve(t) PROVE Abstract!Next
    <3>1. NewTimer \in Timers /\ executeTick[NewTimer] = NotReserved
      BY <2>2 DEF Reserve, NewTimer, Unreserved
    <3>2. Abstract!Reserve(NewTimer)
      BY <2>2, <3>1 DEF Reserve, ExecuteTick, Abstract!Reserve
    <3> QED
      BY <3>1, <3>2 DEF Abstract!Next
  <2>3. ASSUME NEW t \in Threads, PushItem(t) PROVE Abstract!Next
    <3> DEFINE h == Head(batch[t])
    <3>1. h \in Timers /\ h \in Range(batch[t])
      BY <2>3, TailInjective DEF PushItem, IInv, TypeOK, OnePlace
    <3>2. h \notin Range(fired) /\ executeTick[h] <= now[t] /\ now[t] <= clock
      BY <3>1 DEF IInv, OnePlace, Reserved
    <3>3. executeTick[h] \in Nat
      BY <3>1 DEF IInv, Places, Reserved
    <3>4. executeTick[h] # NotReserved /\ executeTick[h] <= clock
      BY <3>2, <3>3, ConstantsAssumption DEF IInv, TypeOK, Ticks
    <3>5. Abstract!Fire(h)
      BY <2>3, <3>2, <3>4 DEF PushItem, Abstract!Fire, Range, Abstract!Range
    <3> QED
      BY <3>1, <3>5 DEF Abstract!Next
  <2>4. ASSUME NEW t \in Threads,
               Insert(t) \/ ReadNow(t) \/ Exchange(t) \/ Collect(t) \/ EndDistribute(t)
        PROVE  UNCHANGED Abstract!vars
    BY <2>4 DEF Insert, ReadNow, Exchange, Collect, EndDistribute
  <2>5. CASE UNCHANGED vars
    BY <2>5 DEF vars
  <2> QED
    BY <2>1, <2>2, <2>3, <2>4, <2>5 DEF Next, Step
<1> QED
  BY <1>1, <1>2, Inductive, PTL DEF Spec
=============================================================================
