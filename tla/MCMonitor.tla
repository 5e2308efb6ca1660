----------------------------- MODULE MCMonitor -----------------------------
(* TLC instances of Monitor.                                                *)
EXTENDS Monitor
=============================================================================
