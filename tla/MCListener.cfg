SPECIFICATION FairSpec
CONSTANTS
    e1 = e1
    e2 = e2
    logic1 = logic1
    logic2 = logic2
    c1 = c1
    c2 = c2
    Main = Main
    None = None
    AcceptEvents = {e1, e2}
    Threads = {logic1, logic2}
    Clients = {c1, c2}
    Sessions <- MCSessions
    MaxFailures = 1
    CountValues = 2
\* The server stops when it crashes.
CHECK_DEADLOCK FALSE
INVARIANTS
    TypeOK
    NoSlotLost
    OwnSession
PROPERTIES
    EveryClientAnswered
