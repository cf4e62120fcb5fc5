SPECIFICATION FairSpec
CONSTANTS
    Pids = {p1, p2, p3, p4}
    Clients = {c1, c2}
    None = None
INVARIANTS
    TypeOK
    OnlyRelaysBeside
    OneRelay
PROPERTIES
    QueuedServed
    EndReachesClient
    PortReleased
\* The system stops when every process has ended.
CHECK_DEADLOCK FALSE
