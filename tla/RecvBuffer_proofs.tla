------------------------- MODULE RecvBuffer_proofs -------------------------
(***************************************************************************)
(* Proofs about RecvBuffer, for every buffer size, every number of buffers *)
(* from three on, every stream of packets and every way it is received.    *)
(*                                                                         *)
(* The argument: between the cursors the buffer holds consecutive bytes of *)
(* the stream, the first of them a packet boundary.  What OnRecv leaves is *)
(* less than a packet, hence less than one of the three buffers, so that   *)
(* Clean moves it over a distance greater than its size.                   *)
(***************************************************************************)
EXTENDS RecvBuffer, TLAPS

\* The buffer is at least three times the longest packet.
LEMMA CapacityFacts == Capacity \in Nat /\ Capacity >= 3 * BufferSize
<1>1. BufferSize \in Nat /\ BUFFER_COUNT \in Nat /\ BUFFER_COUNT >= 3
  BY BufferAssumption
<1>2. \A b, c \in Nat : c >= 3 => b * c \in Nat /\ b * c >= 3 * b
  OBVIOUS
<1> QED
  BY <1>1, <1>2 DEF Capacity

-----------------------------------------------------------------------------
(* The inductive invariant *)

\* The offset in the stream of the byte at readPos.
Consumed == arrived - DataSize

\* The bytes between the cursors are consecutive and come last of what arrived.
Contiguous ==
    state # "closed" =>
        /\ DataSize <= arrived /\ arrived <= StreamLength
        /\ \A i \in 0 .. Capacity - 1 :
              readPos <= i /\ i < writePos => buffer[i] = Consumed + (i - readPos)

\* OnRecv stands at the end of the packets delivered so far.
AtBoundary == state # "closed" => NextStart = Consumed + processLen

\* A posted receive is for all the space behind the data, which is less than a
\* packet and leaves a buffer free.
Posted ==
    state = "recv" =>
        /\ posted.pos = writePos /\ posted.len = FreeSize
        /\ FreeSize >= BufferSize
        /\ processLen = 0
        /\ DataSize < SizeAt[Consumed]

IInv == TypeOK /\ Contiguous /\ AtBoundary /\ Posted /\ Framing /\ OnlyClientCloses

-----------------------------------------------------------------------------
\* A packet that begins in the data has a size between the header's and BufferSize.
LEMMA SizeFacts ==
    ASSUME NEW o \in Nat, o <= StreamLength
    PROVE  SizeAt[o] \in Nat /\ HeaderSize <= SizeAt[o] /\ SizeAt[o] <= BufferSize
  BY BufferAssumption

\* The cursors, as numbers.
LEMMA CursorFacts ==
    ASSUME TypeOK
    PROVE  /\ readPos \in Nat /\ writePos \in Nat /\ processLen \in Nat /\ arrived \in Nat
           /\ readPos + processLen <= writePos /\ readPos <= writePos /\ writePos <= Capacity
           /\ Capacity \in Nat /\ StreamLength \in Nat /\ HeaderSize \in Nat /\ HeaderSize >= 1
<1>1. /\ readPos \in Nat /\ writePos \in Nat /\ processLen \in Nat /\ arrived \in Nat
      /\ readPos + processLen <= writePos /\ writePos <= Capacity
  BY Zenon DEF TypeOK
<1>2. StreamLength \in Nat /\ HeaderSize \in Nat /\ HeaderSize >= 1
  BY BufferAssumption
<1> QED
  BY <1>1, <1>2, CapacityFacts

\* Appending the next packet keeps the chain.
LEMMA FramingStep ==
    ASSUME TypeOK, Framing, NEW start \in Nat, start = NextStart, start <= StreamLength,
           delivered' = Append(delivered, [start |-> start, size |-> SizeAt[start], intact |-> TRUE])
    PROVE  Framing' /\ NextStart' = start + SizeAt[start]
<1> DEFINE packet == [start |-> start, size |-> SizeAt[start], intact |-> TRUE]
           n == Len(delivered)
<1>0. delivered \in Seq(Packets)
  BY DEF TypeOK
<1>1. n \in Nat
  BY <1>0
<1>2. packet \in Packets
  BY SizeFacts DEF Packets
<1>3. /\ delivered' # <<>> /\ Len(delivered') = n + 1 /\ delivered'[n + 1] = packet
      /\ \A i \in 1 .. n : delivered'[i] = delivered[i]
      /\ DOMAIN delivered' = 1 .. n + 1 /\ DOMAIN delivered = 1 .. n
  <2> HIDE DEF packet
  <2>1. delivered' = Append(delivered, packet)
    BY DEF packet
  <2> QED
    BY <1>0, <1>2, <2>1
<1>4. NextStart' = start + SizeAt[start]
  BY <1>3 DEF NextStart
<1>5. ASSUME NEW i \in 1 .. n + 1
      PROVE  /\ delivered'[i].intact
             /\ delivered'[i].size = SizeAt[delivered'[i].start]
             /\ delivered'[i].start = IF i = 1 THEN 0
                                      ELSE delivered'[i - 1].start + delivered'[i - 1].size
  <2>1. CASE i \in 1 .. n
    <3>1. /\ delivered[i].intact
          /\ delivered[i].size = SizeAt[delivered[i].start]
          /\ delivered[i].start = IF i = 1 THEN 0
                                  ELSE delivered[i - 1].start + delivered[i - 1].size
      BY <1>3, <2>1 DEF Framing
    <3>2. i # 1 => i - 1 \in 1 .. n
      BY <1>1, <2>1
    <3> QED
      BY <1>3, <2>1, <3>1, <3>2
  <2>2. CASE i = n + 1
    <3>1. delivered'[i].intact /\ delivered'[i].size = SizeAt[delivered'[i].start]
      BY <1>3, <2>2
    <3>2. CASE n = 0
      <4>1. delivered = <<>>
        BY <1>0, <1>1, <3>2
      <4> QED
        BY <1>1, <1>3, <2>2, <3>1, <3>2, <4>1 DEF NextStart
    <3>3. CASE n # 0
      <4>1. delivered # <<>> /\ n \in 1 .. n
        BY <1>1, <3>3
      <4>2. start = delivered[n].start + delivered[n].size
        BY <4>1 DEF NextStart
      <4>3. i # 1 /\ i - 1 = n
        BY <1>1, <2>2, <3>3
      <4> QED
        BY <1>3, <2>2, <3>1, <4>1, <4>2, <4>3
    <3> QED
      BY <3>2, <3>3
  <2> QED
    BY <1>1, <2>1, <2>2
<1> QED
  BY <1>3, <1>4, <1>5 DEF Framing

\* The initial state: nothing has arrived, the whole buffer is posted.
LEMMA InitIInv == Init => IInv
<1> SUFFICES ASSUME Init PROVE IInv
  OBVIOUS
<1> USE BufferAssumption, CapacityFacts DEF Init
<1>1. TypeOK
  BY DEF TypeOK
<1>2. Contiguous
  BY DEF Contiguous, DataSize, Consumed
<1>3. AtBoundary
  BY DEF AtBoundary, NextStart, Consumed, DataSize
<1>4. Posted
  BY SizeFacts DEF Posted, FreeSize, DataSize, Consumed
<1>5. Framing /\ OnlyClientCloses
  BY DEF Framing, OnlyClientCloses
<1> QED
  BY <1>1, <1>2, <1>3, <1>4, <1>5 DEF IInv

-----------------------------------------------------------------------------
(* Each step keeps it *)

\* The bytes of a receive are the next of the stream.
LEMMA ReceiveStep ==
    ASSUME IInv, NEW n \in 1 .. Capacity, Receive(n)
    PROVE  IInv'
<1> USE DEF IInv
<1>0. n \in Nat /\ n >= 1
  BY CapacityFacts
<1>1. /\ state = "recv" /\ posted.pos = writePos /\ posted.len = Capacity - writePos
      /\ n <= Capacity - writePos /\ n <= StreamLength - arrived
      /\ readPos \in Nat /\ writePos \in Nat /\ arrived \in Nat /\ readPos <= writePos
  BY CursorFacts DEF Receive, Posted, FreeSize
<1>2. /\ OnWriteOK(n) /\ writePos' = writePos + n /\ state' = "parse" /\ processLen' = 0
      /\ arrived' = arrived + n /\ readPos' = readPos
      /\ UNCHANGED <<cause, posted, delivered>>
  BY <1>1 DEF Receive, OnWriteOK, FreeSize
<1>3. buffer' = [i \in DOMAIN buffer |-> IF writePos <= i /\ i < writePos + n
                                         THEN arrived + (i - writePos) ELSE buffer[i]]
  BY <1>1 DEF Receive
<1>4. DOMAIN buffer = 0 .. Capacity - 1
  BY DEF TypeOK
<1>5. TypeOK'
  <2>1. buffer' \in [0 .. Capacity - 1 -> Nat \cup {Garbage}]
    <3>1. \A i \in 0 .. Capacity - 1 :
             /\ buffer[i] \in Nat \cup {Garbage}
             /\ writePos <= i => arrived + (i - writePos) \in Nat
      <4>1. \A i \in 0 .. Capacity - 1 : buffer[i] \in Nat \cup {Garbage}
        BY DEF TypeOK
      <4>2. \A i \in 0 .. Capacity - 1 : writePos <= i => arrived + (i - writePos) \in Nat
        BY <1>1, CapacityFacts
      <4> QED
        BY <4>1, <4>2
    <3> QED
      BY <1>3, <1>4, <3>1
  <2> QED
    <3>1. /\ readPos' \in Nat /\ writePos' \in Nat /\ processLen' \in Nat /\ arrived' \in Nat
          /\ readPos' + processLen' <= writePos' /\ writePos' <= Capacity
      BY <1>0, <1>1, <1>2, CursorFacts
    <3>2. state' = "parse" /\ posted' = posted /\ delivered' = delivered /\ cause' = cause
      BY <1>2
    <3> QED
      BY <2>1, <3>1, <3>2 DEF TypeOK
<1>6. Consumed' = Consumed /\ DataSize' = DataSize + n
  BY <1>0, <1>1, <1>2 DEF Consumed, DataSize
<1>7. Contiguous'
  <2>1. DataSize' <= arrived' /\ arrived' <= StreamLength
    BY <1>0, <1>1, <1>2, CursorFacts DEF DataSize, Contiguous
  <2>2. ASSUME NEW i \in 0 .. Capacity - 1, readPos <= i, i < writePos + n
        PROVE  buffer'[i] = Consumed + (i - readPos)
    <3>1. CASE i < writePos
      <4>1. buffer[i] = Consumed + (i - readPos)
        BY <1>1, <2>2, <3>1 DEF Contiguous
      <4>2. buffer'[i] = buffer[i]
        BY <1>1, <1>3, <1>4, <3>1
      <4> QED
        BY <4>1, <4>2
    <3>2. CASE i >= writePos
      <4>1. buffer'[i] = arrived + (i - writePos)
        BY <1>0, <1>1, <1>3, <1>4, <2>2, <3>2
      <4> QED
        BY <1>1, <4>1 DEF Consumed, DataSize
    <3> QED
      BY <1>1, <3>1, <3>2
  <2> QED
    BY <1>2, <1>6, <2>1, <2>2 DEF Contiguous
<1>8. AtBoundary'
  BY <1>1, <1>2, <1>6 DEF AtBoundary, NextStart, Posted
<1>9. Posted' /\ Framing' /\ OnlyClientCloses'
  BY <1>2 DEF Posted, Framing, OnlyClientCloses
<1> QED
  BY <1>5, <1>7, <1>8, <1>9

\* Where the next packet starts, and that its header is read from there.
LEMMA HeaderFacts ==
    ASSUME IInv, state = "parse", Remaining >= HeaderSize
    PROVE  /\ Consumed + processLen \in Nat /\ Consumed + processLen < StreamLength
           /\ buffer[readPos + processLen] = Consumed + processLen
           /\ HeaderAt(readPos + processLen) = SizeAt[Consumed + processLen]
<1> USE DEF IInv
<1>1. /\ readPos \in Nat /\ writePos \in Nat /\ processLen \in Nat /\ arrived \in Nat
      /\ writePos <= Capacity /\ writePos - readPos <= arrived /\ arrived <= StreamLength
      /\ readPos + processLen < writePos
  BY CursorFacts DEF Contiguous, Remaining, DataSize
<1>2. Consumed + processLen \in Nat /\ Consumed + processLen < StreamLength
  BY <1>1, CursorFacts DEF Consumed, DataSize
<1>3. buffer[readPos + processLen] = Consumed + processLen
  <2>1. readPos + processLen \in 0 .. Capacity - 1
    BY <1>1, CursorFacts
  <2>2. buffer[readPos + processLen] = Consumed + ((readPos + processLen) - readPos)
    BY <1>1, <2>1 DEF Contiguous
  <2> QED
    BY <1>1, <2>2
<1> QED
  BY <1>2, <1>3, BufferAssumption DEF HeaderAt

\* A packet that is handed over is the next one and whole.
LEMMA ParseStep == ASSUME IInv, ParsePacket PROVE IInv'
<1> USE DEF IInv
<1> DEFINE p == readPos + processLen
           start == Consumed + processLen
<1>1. state = "parse" /\ Remaining >= HeaderSize /\ Remaining >= HeaderAt(p)
  BY DEF ParsePacket, PacketComplete
<1>2. start \in Nat /\ start <= StreamLength /\ buffer[p] = start /\ HeaderAt(p) = SizeAt[start]
  BY <1>1, HeaderFacts, CursorFacts
<1>3. SizeAt[start] \in Nat
  BY <1>2, SizeFacts
<1>4. /\ readPos \in Nat /\ writePos \in Nat /\ processLen \in Nat /\ writePos <= Capacity
      /\ processLen + SizeAt[start] <= writePos - readPos /\ arrived \in Nat
  BY <1>1, <1>2, <1>3, CursorFacts DEF Remaining, DataSize
<1>5. \A k \in 0 .. SizeAt[start] - 1 : buffer[p + k] = start + k
  <2> TAKE k \in 0 .. SizeAt[start] - 1
  <2>1. p + k \in 0 .. Capacity - 1 /\ readPos <= p + k /\ p + k < writePos
    BY <1>3, <1>4, CursorFacts
  <2>2. buffer[p + k] = Consumed + ((p + k) - readPos)
    BY <1>1, <2>1 DEF Contiguous
  <2> QED
    BY <1>3, <1>4, <2>2 DEF Consumed, DataSize
<1>6. /\ delivered' = Append(delivered, [start |-> start, size |-> SizeAt[start], intact |-> TRUE])
      /\ processLen' = processLen + SizeAt[start]
      /\ UNCHANGED <<buffer, readPos, writePos, state, posted, arrived, cause>>
  <2>1. /\ delivered' = Append(delivered, [start |-> buffer[p], size |-> HeaderAt(p),
              intact |-> \A k \in 0 .. HeaderAt(p) - 1 : buffer[p + k] = buffer[p] + k])
        /\ processLen' = processLen + HeaderAt(p)
        /\ UNCHANGED <<buffer, readPos, writePos, state, posted, arrived, cause>>
    BY DEF ParsePacket
  <2>2. (\A k \in 0 .. HeaderAt(p) - 1 : buffer[p + k] = buffer[p] + k) = TRUE
    BY <1>2, <1>5
  <2> QED
    BY <1>2, <2>1, <2>2
<1>7. Consumed' = Consumed /\ DataSize' = DataSize
  BY <1>6 DEF Consumed, DataSize
<1>8. Framing' /\ NextStart' = start + SizeAt[start]
  BY <1>1, <1>2, <1>6, FramingStep DEF AtBoundary
<1>9. TypeOK'
  <2>1. [start |-> start, size |-> SizeAt[start], intact |-> TRUE] \in Packets
    BY <1>2, <1>3 DEF Packets
  <2>2. delivered' \in Seq(Packets)
    <3>1. delivered \in Seq(Packets)
      BY DEF TypeOK
    <3> HIDE DEF start
    <3> QED
      BY <1>6, <2>1, <3>1
  <2>3. processLen' \in Nat /\ readPos' + processLen' <= writePos'
    BY <1>3, <1>4, <1>6
  <2>4. UNCHANGED <<buffer, readPos, writePos, state, posted, arrived, cause>>
    BY <1>6
  <2> QED
    BY <2>2, <2>3, <2>4 DEF TypeOK
<1>10. AtBoundary'
  BY <1>3, <1>4, <1>6, <1>7, <1>8 DEF AtBoundary, Consumed, DataSize
<1>11. Contiguous' /\ Posted' /\ OnlyClientCloses'
  BY <1>1, <1>6, <1>7 DEF Contiguous, Posted, OnlyClientCloses
<1> QED
  BY <1>8, <1>9, <1>10, <1>11

\* What OnRecv leaves is less than a packet, and Clean moves it, if at all,
\* without overlap to where a buffer is free behind it.
LEMMA EndParseStep == ASSUME IInv, EndParse PROVE IInv'
<1> USE DEF IInv
<1> DEFINE r == readPos + processLen
           size == writePos - r
           start == Consumed + processLen
<1>1. state = "parse" /\ ~PacketComplete
  BY DEF EndParse
<1>2. /\ readPos \in Nat /\ writePos \in Nat /\ processLen \in Nat /\ arrived \in Nat
      /\ r \in Nat /\ size \in Nat /\ r <= writePos /\ writePos <= Capacity
      /\ Capacity \in Nat /\ StreamLength \in Nat /\ Capacity >= 3 * BufferSize
      /\ BufferSize \in Nat /\ HeaderSize \in Nat /\ HeaderSize >= 1
  BY CursorFacts, CapacityFacts, BufferAssumption
<1>3. writePos - readPos <= arrived /\ arrived <= StreamLength
  BY <1>1 DEF Contiguous, DataSize
<1>4. start \in Nat /\ start <= StreamLength /\ start = arrived - size
  BY <1>2, <1>3 DEF Consumed, DataSize
<1>5. SizeAt[start] \in Nat /\ HeaderSize <= SizeAt[start] /\ SizeAt[start] <= BufferSize
  BY <1>4, SizeFacts
<1>6. size < SizeAt[start] /\ size = Remaining
  <2>1. size = Remaining
    BY <1>2 DEF Remaining, DataSize
  <2>2. CASE Remaining >= HeaderSize
    <3>1. HeaderAt(r) = SizeAt[start]
      BY <1>1, <2>2, HeaderFacts
    <3>2. ~(Remaining >= HeaderAt(r))
      BY <1>1, <2>2 DEF PacketComplete
    <3> QED
      BY <1>2, <1>5, <2>1, <3>1, <3>2
  <2>3. CASE ~(Remaining >= HeaderSize)
    BY <1>2, <1>5, <2>1, <2>3
  <2> QED
    BY <2>1, <2>2, <2>3
<1>7. /\ Clean(r) /\ posted' = [pos |-> writePos', len |-> Capacity - writePos']
      /\ state' = "recv" /\ processLen' = 0 /\ UNCHANGED <<cause, arrived, delivered>>
  <2>1. 0 <= processLen /\ processLen <= DataSize
    BY <1>2 DEF DataSize
  <2>2. ~(processLen < 0 \/ processLen > DataSize)
    BY <1>2 DEF DataSize
  <2> QED
    BY <2>1, <2>2 DEF EndParse
<1>8. DOMAIN buffer = 0 .. Capacity - 1 /\ buffer \in [0 .. Capacity - 1 -> Nat \cup {Garbage}]
  BY DEF TypeOK
<1>9. \A i \in 0 .. Capacity - 1 : r <= i /\ i < writePos => buffer[i] = start + (i - r)
  <2> SUFFICES ASSUME NEW i \in 0 .. Capacity - 1, r <= i, i < writePos
               PROVE  buffer[i] = start + (i - r)
    OBVIOUS
  <2>1. buffer[i] = Consumed + (i - readPos)
    BY <1>1, <1>2 DEF Contiguous
  <2> QED
    BY <1>2, <2>1 DEF Consumed, DataSize
<1>10. /\ readPos' \in Nat /\ writePos' \in Nat /\ readPos' <= writePos'
       /\ writePos' - readPos' = size /\ Capacity - writePos' >= BufferSize
       /\ buffer' \in [0 .. Capacity - 1 -> Nat \cup {Garbage}]
       /\ \A i \in 0 .. Capacity - 1 :
             readPos' <= i /\ i < writePos' => buffer'[i] = start + (i - readPos')
  <2>1. CASE size = 0
    <3>1. readPos' = 0 /\ writePos' = 0 /\ buffer' = buffer
      BY <1>7, <2>1 DEF Clean
    <3> QED
      BY <1>2, <1>8, <2>1, <3>1
  <2>2. CASE size # 0 /\ MustMove(FreeSize)
    <3>1. size <= r
      BY <1>2, <1>5, <1>6, <2>2 DEF MustMove, FreeSize
    <3>2. /\ readPos' = 0 /\ writePos' = size
          /\ buffer' = [i \in DOMAIN buffer |->
                           IF i < size THEN IF size <= r THEN buffer[r + i] ELSE Garbage
                           ELSE buffer[i]]
      BY <1>7, <2>2 DEF Clean
    <3>3. \A i \in 0 .. Capacity - 1 :
             i < size => r + i \in 0 .. Capacity - 1 /\ buffer'[i] = buffer[r + i]
      BY <1>2, <1>8, <3>1, <3>2
    <3>4. \A i \in 0 .. Capacity - 1 : i < size => buffer'[i] = start + (i - 0)
      <4> TAKE i \in 0 .. Capacity - 1
      <4> HAVE i < size
      <4>1. r + i \in 0 .. Capacity - 1 /\ r <= r + i /\ r + i < writePos /\ (r + i) - r = i
        BY <1>2, <3>3
      <4>2. buffer[r + i] = start + ((r + i) - r)
        BY <1>9, <4>1
      <4> QED
        BY <1>2, <3>3, <4>1, <4>2
    <3>5. buffer' \in [0 .. Capacity - 1 -> Nat \cup {Garbage}]
      BY <1>8, <3>2, <3>3
    <3>6. Capacity - size >= BufferSize
      BY <1>2, <1>5, <1>6
    <3> QED
      BY <1>2, <3>2, <3>4, <3>5, <3>6
  <2>3. CASE size # 0 /\ ~MustMove(FreeSize)
    <3>1. readPos' = r /\ buffer' = buffer /\ writePos' = writePos
      BY <1>7, <2>3 DEF Clean
    <3>2. Capacity - writePos >= BufferSize
      BY <1>2, <2>3 DEF MustMove, FreeSize
    <3> QED
      BY <1>2, <1>8, <1>9, <3>1, <3>2
  <2> QED
    BY <2>1, <2>2, <2>3
<1>10a. /\ processLen' = 0 /\ arrived' = arrived
      /\ posted' = [pos |-> writePos', len |-> Capacity - writePos']
  BY <1>7
<1>10b. /\ readPos' \in Nat /\ writePos' \in Nat /\ readPos' <= writePos'
      /\ Capacity - writePos' >= BufferSize
  BY <1>10
<1>10c. Capacity \in Nat /\ BufferSize \in Nat /\ arrived \in Nat
  BY <1>2
<1>10d. writePos' <= Capacity /\ Capacity - writePos' \in Nat
  <2> DEFINE w == writePos'
             c == Capacity
  <2>1. w \in Nat /\ c \in Nat /\ BufferSize \in Nat /\ c - w >= BufferSize
    BY <1>10b, <1>10c
  <2> HIDE DEF w, c
  <2>2. w <= c /\ c - w \in Nat
    BY <2>1
  <2> QED
    BY <2>2 DEF w, c
<1> HIDE DEF r, size
<1>11. Consumed' = start /\ DataSize' = size
  BY <1>2, <1>4, <1>7, <1>10 DEF Consumed, DataSize
<1>12. TypeOK'
  <2>1. /\ readPos' \in Nat /\ writePos' \in Nat /\ processLen' \in Nat /\ arrived' \in Nat
        /\ readPos' + processLen' <= writePos' /\ writePos' <= Capacity
    <3> DEFINE rp == readPos'
               wp == writePos'
    <3>1. rp \in Nat /\ wp \in Nat /\ rp <= wp
      BY <1>10b
    <3>2. rp + 0 <= wp
      <4> HIDE DEF rp, wp
      <4> QED
        BY <3>1
    <3>3. readPos' + processLen' <= writePos'
      BY <1>10a, <3>2
    <3>4. processLen' \in Nat /\ arrived' \in Nat
      BY <1>10a, <1>10c
    <3> QED
      BY <1>10d, <3>1, <3>3, <3>4
  <2>2. posted' \in [pos : Nat, len : Nat]
    BY <1>10a, <1>10b, <1>10d
  <2> QED
    BY <1>7, <1>10, <2>1, <2>2 DEF TypeOK
<1>13. Contiguous'
  <2>1. size <= arrived /\ arrived <= StreamLength
    BY <1>2, <1>3, <1>4
  <2>2. DataSize' <= arrived' /\ arrived' <= StreamLength
    BY <1>10a, <1>11, <2>1
  <2>3. \A i \in 0 .. Capacity - 1 :
           readPos' <= i /\ i < writePos' => buffer'[i] = Consumed' + (i - readPos')
    <3>1. \A i \in 0 .. Capacity - 1 :
             readPos' <= i /\ i < writePos' => buffer'[i] = start + (i - readPos')
      BY <1>10
    <3> HIDE DEF start
    <3> QED
      BY <1>11, <3>1
  <2> QED
    BY <2>2, <2>3 DEF Contiguous
<1>14. AtBoundary'
  <2>1. NextStart' = NextStart /\ NextStart = start
    BY <1>1, <1>7 DEF NextStart, AtBoundary
  <2> QED
    BY <1>4, <1>7, <1>11, <2>1 DEF AtBoundary
<1>15. Posted'
  BY <1>6, <1>7, <1>10, <1>11 DEF Posted, FreeSize
<1>16. Framing' /\ OnlyClientCloses'
  BY <1>7 DEF Framing, OnlyClientCloses
<1> QED
  BY <1>12, <1>13, <1>14, <1>15, <1>16

\* The invariant holds in every reachable state of the receive path.
THEOREM Inductive == Spec => []IInv
<1>1. IInv /\ [Next]_vars => IInv'
  <2> SUFFICES ASSUME IInv, [Next]_vars PROVE IInv'
    OBVIOUS
  <2>1. CASE ReceiveNothing
    BY <2>1 DEF ReceiveNothing, Disconnect, IInv, TypeOK, Contiguous, AtBoundary, Posted, Framing,
       OnlyClientCloses
  <2>2. CASE UNCHANGED vars
    BY <2>2 DEF vars, IInv, TypeOK, Contiguous, AtBoundary, Posted, Framing, OnlyClientCloses,
       Consumed, DataSize, FreeSize, NextStart
  <2> QED
    BY <2>1, <2>2, ReceiveStep, ParseStep, EndParseStep DEF Next
<1> QED
  BY <1>1, InitIInv, PTL DEF Spec

\* Every variable keeps its type, the cursors stay ordered and in the buffer.
THEOREM TypeCorrect == Spec => []TypeOK
<1>1. IInv => TypeOK
  BY DEF IInv
<1> QED
  BY <1>1, Inductive, PTL

\* OnRecvPacket is called with exactly the packets of the stream, in order,
\* each with the bytes that were sent.
THEOREM FramingHolds == Spec => []Framing
<1>1. IInv => Framing
  BY DEF IInv
<1> QED
  BY <1>1, Inductive, PTL

\* A packet is delivered in the receive that completes it.
THEOREM NothingHeldBackHolds == Spec => []NothingHeldBack
<1>1. IInv => NothingHeldBack
  <2> SUFFICES ASSUME IInv, state = "recv" PROVE arrived - NextStart < SizeAt[NextStart]
    BY DEF NothingHeldBack
  <2>1. /\ NextStart = Consumed + processLen /\ processLen = 0 /\ DataSize < SizeAt[Consumed]
        /\ TypeOK
    BY DEF IInv, AtBoundary, Posted
  <2>2. NextStart = Consumed /\ arrived - Consumed = DataSize
    BY <2>1, CursorFacts DEF Consumed, DataSize
  <2> QED
    BY <2>1, <2>2
<1> QED
  BY <1>1, Inductive, PTL

\* Every receive has at least BUFFER_SIZE bytes of space, inside the buffer.
THEOREM RoomToReceiveHolds == Spec => []RoomToReceive
<1>1. IInv => RoomToReceive
  <2> SUFFICES ASSUME IInv, state = "recv"
               PROVE  posted.len >= BufferSize /\ posted.pos + posted.len <= Capacity
    BY DEF RoomToReceive
  <2>1. /\ posted.pos = writePos /\ posted.len = Capacity - writePos
        /\ Capacity - writePos >= BufferSize /\ TypeOK
    BY DEF IInv, Posted, FreeSize
  <2> QED
    BY <2>1, CursorFacts
<1> QED
  BY <1>1, Inductive, PTL

\* Neither overflow test of ProcessRecv ever drops a session.
THEOREM OnlyClientClosesHolds == Spec => []OnlyClientCloses
<1>1. IInv => OnlyClientCloses
  BY DEF IInv
<1> QED
  BY <1>1, Inductive, PTL
=============================================================================
