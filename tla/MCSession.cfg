SPECIFICATION FairSpec
CONSTANTS
    t1 = t1
    t2 = t2
    t3 = t3
    t4 = t4
    b1 = b1
    b2 = b2
    b3 = b3
    None = None
    Threads <- MCThreads
    Buffers <- MCBuffers
CHECK_DEADLOCK FALSE
INVARIANTS
    TypeOK
    OneSend
    SentOnceInOrder
    SenderForWaiting
    OneReceive
    OwnedWhileOutstanding
    ReleaseFinds
PROPERTIES
    ClosedIsReleased
    QueuedIsSent
