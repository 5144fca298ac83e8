\* Two sessions over two connections that belong to different pollers, one
\* handler thread and a second one that may come and go, and deinit at any time.
SPECIFICATION Spec
CONSTANTS
    NONE = NONE
    Main = Main
    s1 = s1
    s2 = s2
    h1 = h1
    h2 = h2
    Sessions = {s1, s2}
    Workers = {h1, h2}
    Started = {h1}
    Fds = {4, 5}
    nthreads = 2
    MaxResize = 2
SYMMETRY Symmetry
INVARIANTS
    NoUseAfterFree
    HandledOnce
    IdleIsWatched
    NobodyForgotten
CHECK_DEADLOCK FALSE
