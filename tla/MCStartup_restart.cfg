SPECIFICATION Spec
CONSTANTS
    Servers = {s1, s2}
    Cpus = 2
INVARIANT ServesPortAsked
CHECK_DEADLOCK FALSE
