--------------------------- MODULE MCControlFleet ---------------------------
(* ControlFleet with a receptor that missed the quake while covered and     *)
(* alone: near the threshold, the control's location being fresh; or in the *)
(* middle of the radius, with the late notice, the location being too old.  *)
EXTENDS ControlFleet

Alone == [aws |-> "covered", partner |-> "none", reading |-> "fresh", late |-> FALSE, explained |-> TRUE]
MissesVal == {Alone, [Alone EXCEPT !.reading = "old", !.late = TRUE, !.explained = FALSE]}
=============================================================================
