\* Two producers and two consumers of a queue of one message, with the mode
\* changed at any time and spurious wakeups (which nothing forces to come).
SPECIFICATION FairSpec
CONSTANTS
    Putters = {p1, p2}
    PutHeaders = {}
    Getters = {g1, g2}
    Setters = {s}
    Msgs = {m1, m2, m3}
    MsgMax = 1
    SizeMax = 7
    Spurious = TRUE
    NULL = NULL
INVARIANTS
    NoWildRead
    NoLostWakeup
    OneWaiter
    NoLostSpace
PROPERTIES
    ImplementsDeque
    EveryMessageDelivered
    WaitingPutterWoken
    NonblockReleasesAll
