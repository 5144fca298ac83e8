------------------------------ MODULE MCRbTree ------------------------------
(* Instance of RbTree for TLC: numbered nodes, two of each timeout.         *)
EXTENDS RbTree

PairKey(n) == (n + 1) \div 2
=============================================================================
