\* Nested parallel tasks, with and without subtasks, and a series.
SPECIFICATION FairSpec
CONSTANTS
    root = root
    inner = inner
    none = none
    a = a
    b = b
    c = c
    d = d
    last = last
    Tasks = {root, inner, none, a, b, c, d, last}
    Parallels = {root, inner, none}
    Subtasks <- TreeSubtasks
    Successor <- TreeSuccessor
    Root = root
    Threads = {t1, t2, t3}
    NULL = NULL
INVARIANTS
    NoUseAfterDone
    ParentLast
PROPERTIES
    AllTasksDone
