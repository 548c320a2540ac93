SPECIFICATION Spec
CONSTANTS
    logic1 = logic1
    logic2 = logic2
    x1 = x1
    x2 = x2
    x3 = x3
    NotReserved = NotReserved
    NoTimer = NoTimer
    Threads <- MCThreads
    Timers <- MCTimers
    Delays <- MCDelays
    MaxTick = 3
INVARIANTS
    TypeOK
    DistributedInOrder
PROPERTIES
    ImplementsTimers
