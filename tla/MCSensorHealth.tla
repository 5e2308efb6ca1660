--------------------------- MODULE MCSensorHealth ---------------------------
(* TLC instance of SensorHealth. An age of 2 is one period of the timer.    *)
EXTENDS SensorHealth
=============================================================================
