--------------------------- MODULE MCCertificate ---------------------------
(* Certificate on a day of a few minutes, with the last minute before it.   *)
(* The public receptor is listed or not yet.                                *)
EXTENDS Certificate
ListingsVal == {Sensors, Canaries}
============================================================================
