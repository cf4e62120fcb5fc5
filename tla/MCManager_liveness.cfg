SPECIFICATION FairSpec
CONSTANTS
    t1 = t1
    t2 = t2
    t3 = t3
    t4 = t4
    i1 = i1
    i2 = i2
    NoTask = NoTask
    Tasks <- ThreeTasks
    Interfaces <- TwoInterfaces
    InterfaceReturns = FALSE
    MaxTask = 1
    MaxNum = 2
    MaxIdle = 1
    MinIdle = 1
    SpawnFailures = 0
    FlagFloor = 1
    UIntMod = 32
PROPERTIES
    ProducerReleased
    ImplementsService
