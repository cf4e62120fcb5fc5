SPECIFICATION Spec
CONSTANTS
    p1 = p1
    p2 = p2
    Workers <- TwoWorkers
    Cpus = 2
    ForkFails = FALSE
    EndsHoldingMutex = FALSE
    NoOwner = NoOwner
    DeadOwner = DeadOwner
    MaxConnects = 8
    Batch = 1
    MaxBacklog = 1
    MaxOpen = 1
    UIntMod = 256
SYMMETRY WorkerSymmetry
INVARIANT AsleepWithAllWorkers
\* The system stops when the master has exited and no worker is left.
CHECK_DEADLOCK FALSE
