\* A service with one accepted connection and up to two requests on it, two handler
\* threads, a replying thread for each request, unbind and deinit at any time.
SPECIFICATION Spec
CONSTANTS
    NONE = NONE
    Main = Main
    h1 = h1
    h2 = h2
    Handlers = {h1, h2}
    listen_fd = 3
    Fds = {3, 4}
    nthreads = 1
    MaxSeq = 2
SYMMETRY Symmetry
INVARIANTS
    NoUseAfterFree
    RefsCount
    AliveListRight
    SessionToldOnce
    WriteNotDeleted
    NothingLeaks
CHECK_DEADLOCK FALSE
