--------------------------- MODULE MCCommService --------------------------
(* CommService for TLC; the handlers may be exchanged.                     *)
EXTENDS CommService, TLC

CONSTANTS h1, h2

Symmetry == Permutations(Handlers)
===========================================================================
