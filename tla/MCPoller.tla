------------------------------ MODULE MCPoller ------------------------------
(* Instances of Poller for TLC.                                             *)
EXTENDS Poller, TLC

CONSTANTS f1, f2

\* A descriptor for most kinds of handlers, and one that connects, with a
\* timeout.  No timers.
BusyOps == (f1 :> {"read", "write", "listen", "recvfrom"})
           @@ (f2 :> {"connect"})
BusyTimeouts == (f1 :> {-1}) @@ (f2 :> {1}) @@ (NULL :> {})

\* One descriptor and timers, whose timeouts can be entered in any order: at
\* once, after a tick and after two.
TimedOps == f1 :> {"event"}
TimedTimeouts == (f1 :> {0, 2}) @@ (NULL :> {0, 1})

\* Descriptors without timeouts, and no timers.
Connecting == [f \in Fds |-> {"connect"}]
Never == [f \in Fds \cup {NULL} |-> IF f = NULL THEN {} ELSE {-1}]
=============================================================================
