SPECIFICATION FairSpec
CONSTANTS
    p1 = p1
    p2 = p2
    Workers <- TwoWorkers
    Cpus = 2
    ForkFails = TRUE
    EndsHoldingMutex = TRUE
    NoOwner = NoOwner
    DeadOwner = DeadOwner
    MaxConnects = 8
    Batch = 1
    MaxBacklog = 1
    MaxOpen = 9
    UIntMod = 256
INVARIANTS
    TypeOK
    OneAcceptor
    HeldOnlyByOwner
    NeverTooMany
    OverloadSatOut
PROPERTIES
    Worker1Reaped
    Worker1Serves
\* The system stops when the master has exited and no worker is left.
CHECK_DEADLOCK FALSE
