\* Growing, shrinking, using and destroying pools of up to three threads.
\* A pool that is not destroyed ends with its workers waiting for tasks.
SPECIFICATION FairSpec
CONSTANTS
    a1 = a1
    a2 = a2
    m1 = m1
    m2 = m2
    Apps = {a1, a2}
    Workers = {w1, w2, w3}
    Tasks = {m1, m2}
    Programs <- PoolPrograms
    EXIT = EXIT
    NULL = NULL
INVARIANTS
    ThreadAccounting
    NoUseAfterFree
    CleanShutdown
    

    
CHECK_DEADLOCK FALSE
