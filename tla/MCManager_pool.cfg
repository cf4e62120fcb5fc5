SPECIFICATION Spec
CONSTANTS
    t1 = t1
    t2 = t2
    t3 = t3
    t4 = t4
    i1 = i1
    i2 = i2
    NoTask = NoTask
    Tasks <- FourTasks
    Interfaces <- OneInterface
    InterfaceReturns = TRUE
    MaxTask = 2
    MaxNum = 3
    MaxIdle = 2
    MinIdle = 1
    SpawnFailures = 1
    FlagFloor = 1
    UIntMod = 32
SYMMETRY TaskSymmetry
\* The system stops: when it is freed, when the mover died with the pool's
\* mutex, and when every task left is on a thread that was never started.
CHECK_DEADLOCK FALSE
INVARIANTS
    TypeOK
    TaskAccounting
    CountersExact
    IdleReserve
    DispatchFindsThread
    NoSleepingWorker
    NoSleepingMover
    SubmitNeverRefused
PROPERTIES
    NoOverwrite
    DestroyReadsQuiet
    ImplementsTaskService
