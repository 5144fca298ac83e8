\* Timeouts of one descriptor and of timers, which expire.
SPECIFICATION Spec
CONSTANTS
    f1 = f1
    f2 = f2
    Fds = {f1}
    Nodes = {n1, n2, n3}
    Ops <- TimedOps
    Timeouts <- TimedTimeouts
    MaxTime = 3
    MaxInput = 1
    CanStop = FALSE
    TIMEO = TIMEO
    NOTIMEO = NOTIMEO
    STACK = STACK
    NULL = NULL
INVARIANTS
    OnePlace
    TreeCoherent
CHECK_DEADLOCK FALSE
