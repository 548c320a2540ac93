----------------------------- MODULE RecvBuffer -----------------------------
(***************************************************************************)
(* The receive path of a session: RecvBuffer, Session::RegisterRecv and    *)
(* ProcessRecv, and the loop of PacketSession::OnRecv that cuts the byte   *)
(* stream of a client into packets.                                        *)
(*                                                                         *)
(* A byte is its offset in the stream, so that a lost, repeated or         *)
(* overwritten byte shows.  A client sends whole packets, whose headers    *)
(* hold their size, the header included, as MakeSendBuffer builds them.    *)
(***************************************************************************)
EXTENDS Integers, Sequences

CONSTANTS
    BufferSize,   \* Session::BUFFER_SIZE (0x10000)
    BUFFER_COUNT, \* RecvBuffer::BUFFER_COUNT (10)
    HeaderSize,   \* sizeof(PacketHeader) (4)
    SizeAt,       \* the size of a packet that starts at an offset of the stream
    StreamLength, \* bound of the model: the bytes a client sends
    Garbage       \* what an overlapping memcpy leaves behind

\* A size is a uint16, so that no packet is longer than BUFFER_SIZE; two buffers
\* would not be enough for Clean.
ASSUME BufferAssumption ==
    /\ BufferSize \in Nat /\ BUFFER_COUNT \in Nat /\ BUFFER_COUNT >= 3
    /\ HeaderSize \in Nat \ {0} /\ HeaderSize <= BufferSize
    /\ StreamLength \in Nat
    /\ SizeAt \in [0 .. StreamLength -> HeaderSize .. BufferSize]
    /\ Garbage \notin Nat

Capacity == BufferSize * BUFFER_COUNT

VARIABLES
    buffer,     \* [0 .. Capacity - 1 -> bytes]: _buffer
    readPos,    \* _readPos
    writePos,   \* _writePos
    state,      \* "recv": WSARecv is posted; "parse": in OnRecv; "closed"
    processLen, \* the local of OnRecv
    posted,     \* the buffer of the posted WSARecv, [pos, len]
    arrived,    \* how many bytes of the stream have been received
    delivered,  \* the calls of OnRecvPacket: [start, size, intact]
    cause       \* why Disconnect was called, or "none"

vars == <<buffer, readPos, writePos, state, processLen, posted, arrived, delivered, cause>>

DataSize == writePos - readPos
FreeSize == Capacity - writePos

Init ==
    /\ buffer = [i \in 0 .. Capacity - 1 |-> Garbage]
    /\ readPos = 0
    /\ writePos = 0
    /\ state = "recv"
    /\ processLen = 0
    /\ posted = [pos |-> 0, len |-> Capacity]
    /\ arrived = 0
    /\ delivered = <<>>
    /\ cause = "none"

-----------------------------------------------------------------------------
Disconnect(why) ==
    /\ state' = "closed"
    /\ cause' = why

\* The client closes: the receive completes with 0 bytes.
ReceiveNothing ==
    /\ state = "recv"
    /\ Disconnect("Recv 0")
    /\ UNCHANGED <<buffer, readPos, writePos, processLen, posted, arrived, delivered>>

\* Mutant: the test of OnWrite is off by a buffer.
OnWriteStrict(n) == n <= FreeSize - BufferSize
OnWriteOK(n) == n <= FreeSize

\* n bytes arrive in the posted buffer; ProcessRecv and OnWrite, up to OnRecv.
Receive(n) ==
    /\ state = "recv"
    /\ n <= posted.len /\ n <= StreamLength - arrived
    /\ buffer' = [i \in DOMAIN buffer |->
                     IF posted.pos <= i /\ i < posted.pos + n
                     THEN arrived + (i - posted.pos) ELSE buffer[i]]
    /\ arrived' = arrived + n
    /\ \/ /\ OnWriteOK(n)
          /\ writePos' = writePos + n
          /\ state' = "parse"
          /\ processLen' = 0
          /\ UNCHANGED cause
       \/ /\ ~OnWriteOK(n)
          /\ Disconnect("OnWrite Overflow")
          /\ UNCHANGED <<writePos, processLen>>
    /\ UNCHANGED <<readPos, posted, delivered>>

\* What the loop of OnRecv still has to look at, and the size in its header.
Remaining == DataSize - processLen
HeaderAt(p) == IF buffer[p] = Garbage THEN 0 ELSE SizeAt[buffer[p]]

\* Mutant: a packet is taken as complete when its header is.
HeaderComplete == Remaining >= HeaderSize
\* Mutant: one more byte than the packet has is waited for.
PacketExceeded ==
    /\ Remaining >= HeaderSize
    /\ Remaining > HeaderAt(readPos + processLen)
PacketComplete ==
    /\ Remaining >= HeaderSize
    /\ Remaining >= HeaderAt(readPos + processLen)

\* One turn of the loop of OnRecv: a packet is handed to OnRecvPacket.
ParsePacket ==
    LET p == readPos + processLen
        size == HeaderAt(p)
    IN  /\ state = "parse" /\ PacketComplete
        /\ delivered' = Append(delivered,
              [start |-> buffer[p], size |-> size,
               intact |-> \A k \in 0 .. size - 1 : buffer[p + k] = buffer[p] + k])
        /\ processLen' = processLen + size
        /\ UNCHANGED <<buffer, readPos, writePos, state, posted, arrived, cause>>

\* Mutant: the data is only moved when there is no space left at all.
NoSpaceLeft(free) == free = 0
MustMove(free) == free < BufferSize

\* Clean, with the cursor that OnRead has moved to r.  memcpy may leave anything
\* behind where its source and its target overlap.
Clean(r) ==
    LET size == writePos - r IN
    \/ /\ size = 0
       /\ readPos' = 0 /\ writePos' = 0
       /\ UNCHANGED buffer
    \/ /\ size # 0 /\ MustMove(FreeSize)
       /\ buffer' = [i \in DOMAIN buffer |->
                        IF i < size THEN IF size <= r THEN buffer[r + i] ELSE Garbage
                        ELSE buffer[i]]
       /\ readPos' = 0 /\ writePos' = size
    \/ /\ size # 0 /\ ~MustMove(FreeSize)
       /\ readPos' = r
       /\ UNCHANGED <<buffer, writePos>>

\* OnRecv returns: OnRead, Clean and RegisterRecv.
EndParse ==
    /\ state = "parse" /\ ~PacketComplete
    /\ \/ /\ 0 <= processLen /\ processLen <= DataSize
          /\ Clean(readPos + processLen)
          /\ posted' = [pos |-> writePos', len |-> Capacity - writePos']
          /\ state' = "recv"
          /\ UNCHANGED cause
       \/ /\ processLen < 0 \/ processLen > DataSize
          /\ Disconnect("OnRead Overflow")
          /\ UNCHANGED <<buffer, readPos, writePos, posted>>
    /\ processLen' = 0
    /\ UNCHANGED <<arrived, delivered>>

Next ==
    \/ ReceiveNothing
    \/ \E n \in 1 .. Capacity : Receive(n)
    \/ ParsePacket
    \/ EndParse

Spec == Init /\ [][Next]_vars

-----------------------------------------------------------------------------
(* Properties *)

Packets == [start : Nat, size : Nat, intact : BOOLEAN]

\* Every variable has its type, and the cursors are ordered and in the buffer.
TypeOK ==
    /\ buffer \in [0 .. Capacity - 1 -> Nat \cup {Garbage}]
    /\ readPos \in Nat /\ writePos \in Nat /\ processLen \in Nat
    /\ readPos + processLen <= writePos /\ writePos <= Capacity
    /\ state \in {"recv", "parse", "closed"}
    /\ posted \in [pos : Nat, len : Nat]
    /\ arrived \in Nat
    /\ delivered \in Seq(Packets)
    /\ cause \in {"none", "Recv 0", "OnWrite Overflow", "OnRead Overflow"}

\* Where the stream continues after the packets delivered so far.
NextStart ==
    IF delivered = <<>> THEN 0
    ELSE delivered[Len(delivered)].start + delivered[Len(delivered)].size

\* The handlers get exactly the client's packets: each whole, with the bytes
\* that were sent, in order, none skipped and none twice, however the stream is
\* cut into receives and wherever Clean moves the data.
Framing ==
    \A i \in DOMAIN delivered :
        /\ delivered[i].intact
        /\ delivered[i].size = SizeAt[delivered[i].start]
        /\ delivered[i].start = IF i = 1 THEN 0
                                ELSE delivered[i - 1].start + delivered[i - 1].size

\* A packet that has arrived completely is not kept waiting for the next receive.
NothingHeldBack == state = "recv" => arrived - NextStart < SizeAt[NextStart]

\* A receive is always posted for a full BUFFER_SIZE inside the buffer.  Without
\* space it would complete with 0 bytes, which ProcessRecv takes for the end of
\* the connection.
RoomToReceive ==
    state = "recv" => posted.len >= BufferSize /\ posted.pos + posted.len <= Capacity

\* A session is never dropped but for the client: neither overflow test of
\* ProcessRecv fails.
OnlyClientCloses == cause \in {"none", "Recv 0"}
=============================================================================
