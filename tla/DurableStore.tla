---------------------------- MODULE DurableStore ----------------------------
(***************************************************************************)
(* What the gateway's JSON files promise to the handlers that use them: a  *)
(* store in memory, a durable copy, and for each change a promise that is  *)
(* resolved only when the durable copy holds that change.                  *)
(*                                                                         *)
(* A store's contents are the set of changes made to it so far: the        *)
(* promise is about which changes a copy includes, not about their text.   *)
(***************************************************************************)

CONSTANT Changes        \* the changes that callers may ask to be made

VARIABLES
  memory,               \* the changes the running process has applied
  disk,                 \* the changes a restarted process would start from
  promise               \* what the caller of each change has been told

vars == <<memory, disk, promise>>

Waiting == "waiting"
Answers == {"none", "waiting", "resolved", "rejected", "lost"}

TypeOK ==
  /\ memory \in SUBSET Changes
  /\ disk \in SUBSET Changes
  /\ promise \in [Changes -> Answers]

Init ==
  /\ memory = {}
  /\ disk = {}
  /\ promise = [c \in Changes |-> "none"]

(* A caller changes the store and waits. It may ask again for a change that *)
(* it was told had failed, or whose answer it never got.                    *)
Change(c) ==
  /\ promise[c] \in {"none", "rejected", "lost"}
  /\ memory' = memory \cup {c}
  /\ promise' = [promise EXCEPT ![c] = Waiting]
  /\ UNCHANGED disk

(* The durable copy moves forward to a state the memory was in, and callers *)
(* whose change it holds are told so.                                       *)
Save ==
  /\ disk' \in SUBSET memory
  /\ disk \subseteq disk'
  /\ \E told \in SUBSET {c \in disk' : promise[c] = Waiting} :
        promise' = [c \in Changes |-> IF c \in told THEN "resolved" ELSE promise[c]]
  /\ UNCHANGED memory

(* Some waiting callers are told that their change could not be saved.      *)
Refuse ==
  /\ \E told \in SUBSET {c \in Changes : promise[c] = Waiting} :
        promise' = [c \in Changes |-> IF c \in told THEN "rejected" ELSE promise[c]]
  /\ UNCHANGED <<memory, disk>>

(* The process dies and starts again from the durable copy; nobody who was  *)
(* waiting ever hears.                                                      *)
Restart ==
  /\ memory' = disk
  /\ promise' = [c \in Changes |-> IF promise[c] = Waiting THEN "lost" ELSE promise[c]]
  /\ UNCHANGED disk

Next ==
  \/ \E c \in Changes : Change(c)
  \/ Save
  \/ Refuse
  \/ Restart

Spec == Init /\ [][Next]_vars

=============================================================================
