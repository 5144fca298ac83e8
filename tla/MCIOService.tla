---------------------------- MODULE MCIOService ----------------------------
(* IOService for TLC.                                                       *)
EXTENDS IOService

CONSTANTS s1, s2, s3, h1, h2
============================================================================
