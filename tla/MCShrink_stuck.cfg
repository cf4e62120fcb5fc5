SPECIFICATION ShrinkFairSpec
CONSTANTS
    t1 = t1
    t2 = t2
    t3 = t3
    i1 = i1
    NoTask = NoTask
    Tasks <- ThreeTasks
    Interfaces <- OneInterface
    InterfaceReturns = FALSE
    MaxTask = 2
    MaxNum = 3
    MaxIdle = 1
    MinIdle = 1
    SpawnFailures = 0
    FlagFloor = 1
    UIntMod = 32
    FuncCancellable = FALSE
PROPERTY ShrinkReturns
CHECK_DEADLOCK FALSE
