SPECIFICATION Spec
CONSTANTS
    Fds <- TwoFds
    InitialAlloc = 16
    BufLen = 2
    SndBuf = 2
    MaxRcv = 2
    GreetLen = 2
    Responses <- AnyResponse
INVARIANT EntryExists
