SPECIFICATION Spec
CONSTANTS
    MaxSend = 2
    MaxData = 1
    Room = 1
    Pipelining = TRUE
INVARIANT AcceptFindsConnection
\* The system stops when the relay has ended.
CHECK_DEADLOCK FALSE
