SPECIFICATION Spec
CONSTANTS
    BufferSize = 5
    BUFFER_COUNT = 3
    HeaderSize = 2
    StreamLength = 45
    Garbage = Garbage
    SizeAt <- MCSizeAt
\* A session ends when its client closes.
CHECK_DEADLOCK FALSE
INVARIANTS
    TypeOK
    Framing
    NothingHeldBack
    RoomToReceive
    OnlyClientCloses
