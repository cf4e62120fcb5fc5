SPECIFICATION Spec
CONSTANTS
    p1 = p1
    p2 = p2
    Workers <- TwoWorkers
    Cpus = 2
    ForkFails = FALSE
    EndsHoldingMutex = FALSE
    NoOwner = NoOwner
    DeadOwner = DeadOwner
    MaxConnects = 16
    Batch = 2
    MaxBacklog = 3
    MaxOpen = 18
    UIntMod = 256
SYMMETRY WorkerSymmetry
INVARIANT WithinMaxConnects
\* The system stops when the master has exited and no worker is left.
CHECK_DEADLOCK FALSE
