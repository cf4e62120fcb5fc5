SPECIFICATION FairSpec
CONSTANTS
    MaxSend = 2
    MaxData = 1
    Room = 1
    Pipelining = FALSE
INVARIANTS
    StreamIntact
    AcceptFindsConnection
PROPERTIES
    Delivered
    EndPassedOn
\* The system stops when the relay has ended.
CHECK_DEADLOCK FALSE
