\* A consumer that also puts messages back in front, as thrdpool_decrease
\* does when a task calls it, beside two producers.
SPECIFICATION Spec
CONSTANTS
    Putters = {p1, p2}
    PutHeaders = {h}
    Getters = {h}
    Setters = {s}
    Msgs = {m1, m2, m3, m4}
    MsgMax = 2
    SizeMax = 7
    Spurious = TRUE
    NULL = NULL
PROPERTIES
    ImplementsDeque
