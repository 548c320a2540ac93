SPECIFICATION Spec
CONSTANTS
    conn1 = conn1
    alice = alice
    bob = bob
    secret = secret
    other = other
    Empty = Empty
    NoJob = NoJob
    NoConnection = NoConnection
    Connections = {conn1}
    Jobs <- MCJobs
\* The server stops when it crashes, and the model when every job is served.
CHECK_DEADLOCK FALSE
INVARIANT
    UniqueNicknames
