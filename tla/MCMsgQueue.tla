----------------------------- MODULE MCMsgQueue -----------------------------
(* Instances of MsgQueue for TLC.  The messages are interchangeable, and so *)
(* are the threads that play the same part.                                 *)
EXTENDS MsgQueue, TLC

Symmetry ==
    Permutations(Msgs) \cup Permutations(Putters) \cup Permutations(Getters)

\* Once a mutex was released under its holder, two getters can resurrect
\* each other's messages forever; their history is cut off here.
DeliveredMax == 4
DeliveredBound == Len(delivered) <= DeliveredMax
=============================================================================
