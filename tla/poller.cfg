\* Events of two descriptors against del, mod and stop; the clock stands still.
SPECIFICATION FairSpec
CONSTANTS
    f1 = f1
    f2 = f2
    Fds = {f1, f2}
    Nodes = {n1, n2, n3}
    Ops <- BusyOps
    Timeouts <- BusyTimeouts
    MaxTime = 1
    MaxInput = 1
    CanStop = TRUE
    TIMEO = TIMEO
    NOTIMEO = NOTIMEO
    STACK = STACK
    NULL = NULL
INVARIANTS
    TableMatchesEpoll
    OnePlace
PROPERTIES
    DeletedDelivered
CHECK_DEADLOCK FALSE
