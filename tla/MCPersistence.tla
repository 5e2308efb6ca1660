--------------------------- MODULE MCPersistence ---------------------------
(* TLC instance of what the gateway keeps: a JSON file with three callers,  *)
(* writes that fail and a process that dies in between; and the heartbeats  *)
(* of one sensor, whose two clocks outlive the process. The two do not      *)
(* touch, so a behaviour is of one part and the other part rests.           *)
EXTENDS JsonFile, Heartbeats

VARIABLE part

PartInit == Init /\ BeatsInit /\ part \in {"file", "heartbeats"}

PartNext ==
  \/ part = "file" /\ Next /\ UNCHANGED <<beatsVars, part>>
  \/ part = "heartbeats" /\ BeatsNext /\ UNCHANGED <<vars, part>>

(* The fairness is the file's. Of the heartbeats only safety is asked.      *)
PartSpec == PartInit /\ [][PartNext]_<<vars, beatsVars, part>> /\ Fairness
=============================================================================
