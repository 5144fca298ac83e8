\* put_head and get by two threads: the splice without the lock.
SPECIFICATION Spec
CONSTANTS
    Putters = {p1}
    PutHeaders = {h}
    Getters = {g1}
    Setters = {}
    Msgs = {m1, m2, m3}
    MsgMax = 2
    SizeMax = 7
    Spurious = FALSE
    NULL = NULL
INVARIANT SpliceExcludesGet
CHECK_DEADLOCK FALSE
