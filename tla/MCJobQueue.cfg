SPECIFICATION Spec
CONSTANTS
    logic1 = logic1
    logic2 = logic2
    db1 = db1
    db2 = db2
    room = room
    users = users
    j1 = j1
    j2 = j2
    j3 = j3
    j4 = j4
    NoQueue = NoQueue
    NoJob = NoJob
    LogicThreads = {logic1, logic2}
    DBThreads = {db1, db2}
    LogicQueues = {room}
    DBQueues = {users}
    Jobs <- MCJobs
SYMMETRY Symmetric
INVARIANTS
    TypeOK
    SerialExecution
    OneOwner
    CountAccurate
    LogicStaysOnLogicThreads
PROPERTIES
    ImplementsSerialExecutor
