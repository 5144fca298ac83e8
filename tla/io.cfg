\* Three sessions, two handlers, a failing or deleted event_fd, unbind any time.
SPECIFICATION Spec
CONSTANTS
    NONE = NONE
    Main = Main
    HEAD = HEAD
    s1 = s1
    s2 = s2
    s3 = s3
    h1 = h1
    h2 = h2
    Sessions = {s1, s2, s3}
    Handlers = {h1, h2}
    event_fd = 3
    Fds = {3}
    nthreads = 1
INVARIANTS
    NoUseAfterUnbound
    HandledBeforeUnbound
PROPERTIES
    UnbindEnds
CHECK_DEADLOCK FALSE
