------------------------------ MODULE MCDevices ------------------------------
(* TLC instances of Devices.                                                *)
EXTENDS Devices, TLC

CONSTANTS t1, t2

TokenSymmetry == Permutations(Tokens)
=============================================================================
