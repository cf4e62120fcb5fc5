SPECIFICATION Spec
CONSTANTS
    Fds <- OneFd
    InitialAlloc = 16
    BufLen = 2
    SndBuf = 2
    MaxRcv = 1
    GreetLen = 1
    Responses <- AnyResponse
INVARIANTS
    ResponseWhole
