SPECIFICATION FairSpec
CONSTANTS
    p1 = p1
    p2 = p2
    Workers <- TwoWorkers
    Cpus = 1
    ForkFails = FALSE
    EndsHoldingMutex = TRUE
    NoOwner = NoOwner
    DeadOwner = DeadOwner
    MaxConnects = 8
    Batch = 1
    MaxBacklog = 1
    MaxOpen = 1
    UIntMod = 256
PROPERTY WorkerGetsLock
\* The system stops when the master has exited and no worker is left.
CHECK_DEADLOCK FALSE
