----------------------------- MODULE MCRelayPath -----------------------------
(* A TLC instance of RelayPath.   *)
EXTENDS RelayPath

CONSTANTS w, v
=============================================================================
