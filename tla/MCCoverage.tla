------------------------------ MODULE MCCoverage ------------------------------
(* TLC instances of Coverage.                                               *)
EXTENDS Coverage, TLC

CONSTANTS t1, t2
=============================================================================
