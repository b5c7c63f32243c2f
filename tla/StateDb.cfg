SPECIFICATION Spec
CONSTANTS
    Accounts = {a1}
    Readers = {r1}
    QueueSize = 2
    PoolSize = 1
    LastBlock = 2
    MaxStops = 1
    Absent = Absent
INVARIANTS
    ReadsExact
    CommittedWhole
PROPERTIES
    CommitReturns
CHECK_DEADLOCK FALSE
