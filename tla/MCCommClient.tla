--------------------------- MODULE MCCommClient ---------------------------
(* CommClient for TLC; the sessions may be exchanged.                      *)
EXTENDS CommClient, TLC

CONSTANTS s1, s2, h1, h2

Symmetry == Permutations(Sessions)
===========================================================================
