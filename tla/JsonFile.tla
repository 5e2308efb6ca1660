------------------------------ MODULE JsonFile ------------------------------
(***************************************************************************)
(* createJsonFile of gateway/src/server.js: a store held in memory and     *)
(* rewritten as a whole, one write at a time, to a temporary file that is  *)
(* then renamed. A persist() made while a write runs shares the single     *)
(* next write, which takes its snapshot when it starts.                    *)
(*                                                                         *)
(* Every user of the store (devices, subscriptions, announced coverage,    *)
(* heartbeats) changes the data and calls persist() in the same turn of    *)
(* the event loop, so a change and its persist() are one action here.      *)
(***************************************************************************)
EXTENDS Naturals

CONSTANTS
  Changes,        \* the changes that callers make, each a caller of its own
  MaxFailures,    \* bound: how many writes may fail
  MaxCrashes      \* bound: how many times the process may die

ASSUME BoundsAssumption ==
  /\ MaxFailures \in Nat
  /\ MaxCrashes \in Nat

VARIABLES
  memory,         \* `data`: the changes applied in the running process
  file,           \* what `file` holds
  tmp,            \* what `file`.tmp holds
  running,        \* the write in progress, if any
  queued,         \* TRUE when a next write has been promised
  promise,        \* the promise each caller holds
  failures, crashes

vars == <<memory, file, tmp, running, queued, promise, failures, crashes>>

-----------------------------------------------------------------------------
(* Contents of a file: `whole` is FALSE while a write to it is half done.   *)

Contents == [whole : BOOLEAN, changes : SUBSET Changes]
Whole(S) == [whole |-> TRUE, changes |-> S]
Torn == [whole |-> FALSE, changes |-> {}]

Phases == {"idle", "writing", "renaming"}
Idle == [phase |-> "idle", snapshot |-> {}]
IsIdle == running.phase = "idle"

Pending == {"running", "queued"}
Settled == {"resolved", "rejected", "lost"}
Promises == {"none"} \cup Pending \cup Settled

TypeOK ==
  /\ memory \in SUBSET Changes
  /\ file \in Contents
  /\ tmp \in Contents
  /\ running \in [phase : Phases, snapshot : SUBSET Changes]
  /\ queued \in BOOLEAN
  /\ promise \in [Changes -> Promises]
  /\ failures \in 0 .. MaxFailures
  /\ crashes \in 0 .. MaxCrashes

Init ==
  /\ memory = {}
  /\ file = Whole({})
  /\ tmp = Whole({})
  /\ running = Idle
  /\ queued = FALSE
  /\ promise = [c \in Changes |-> "none"]
  /\ failures = 0
  /\ crashes = 0

-----------------------------------------------------------------------------
(* The callers whose promise is in state `from` now see `to`.               *)
Settle(from, to) ==
  [c \in Changes |-> IF promise[c] = from THEN to ELSE promise[c]]

(* write(): the snapshot is taken at once; writeFile then truncates and     *)
(* fills the temporary file.                                                *)
StartWrite(data) ==
  /\ running' = [phase |-> "writing", snapshot |-> data]
  /\ tmp' = Torn
  /\ UNCHANGED file

(* A caller changes the data and calls persist(). A failed or unanswered    *)
(* caller may ask again.                                                    *)
Asks(c) ==
  /\ promise[c] \in {"none", "rejected", "lost"}
  /\ memory' = memory \cup {c}
  /\ UNCHANGED <<failures, crashes>>

PersistNow(c) ==
  /\ IsIdle
  /\ ~queued
  /\ Asks(c)
  /\ StartWrite(memory')
  /\ promise' = [promise EXCEPT ![c] = "running"]
  /\ UNCHANGED queued

(* Slip: a persist() made while a write runs is given that write.          *)
PersistQueuedOnRunning(c) ==
  /\ queued \/ ~IsIdle
  /\ Asks(c)
  /\ promise' = [promise EXCEPT ![c] = "running"]
  /\ UNCHANGED <<file, tmp, running, queued>>

PersistQueued(c) ==
  /\ queued \/ ~IsIdle
  /\ Asks(c)
  /\ queued' = TRUE
  /\ promise' = [promise EXCEPT ![c] = "queued"]
  /\ UNCHANGED <<file, tmp, running>>

Persist(c) == PersistNow(c) \/ PersistQueued(c)

(* The queued write starts once the running one has settled, either way.    *)
StartQueued ==
  /\ queued
  /\ IsIdle
  /\ queued' = FALSE
  /\ StartWrite(memory)
  /\ promise' = Settle("queued", "running")
  /\ UNCHANGED <<memory, failures, crashes>>

TmpWritten ==
  /\ running.phase = "writing"
  /\ tmp' = Whole(running.snapshot)
  /\ running' = [running EXCEPT !.phase = "renaming"]
  /\ UNCHANGED <<memory, file, queued, promise, failures, crashes>>

(* Slip: `running` is not reset after a write.                             *)
RenamedWithoutReset ==
  /\ running.phase = "renaming"
  /\ file' = tmp
  /\ running' = [running EXCEPT !.phase = "done"]
  /\ promise' = Settle("running", "resolved")
  /\ UNCHANGED <<memory, tmp, queued, failures, crashes>>

(* Slip: a finished write also resolves those who wait for the next one.   *)
RenamedSettlesAll ==
  /\ running.phase = "renaming"
  /\ file' = tmp
  /\ running' = Idle
  /\ promise' = [c \in Changes |-> IF promise[c] \in Pending THEN "resolved" ELSE promise[c]]
  /\ UNCHANGED <<memory, tmp, queued, failures, crashes>>

Renamed ==
  /\ running.phase = "renaming"
  /\ file' = tmp
  /\ running' = Idle
  /\ promise' = Settle("running", "resolved")
  /\ UNCHANGED <<memory, tmp, queued, failures, crashes>>

(* Slip: `running` is reset by .then instead of .finally.                  *)
WriteFailsWithoutReset ==
  /\ ~IsIdle
  /\ failures < MaxFailures
  /\ running' = [running EXCEPT !.phase = "failed"]
  /\ promise' = Settle("running", "rejected")
  /\ failures' = failures + 1
  /\ UNCHANGED <<memory, file, tmp, queued, crashes>>

(* writeFile or rename rejects: the file stays as it was.                   *)
WriteFails ==
  /\ ~IsIdle
  /\ failures < MaxFailures
  /\ running' = Idle
  /\ promise' = Settle("running", "rejected")
  /\ failures' = failures + 1
  /\ UNCHANGED <<memory, file, tmp, queued, crashes>>

(* The process dies at any point and starts again from the file, which it   *)
(* can only parse if it is whole.                                           *)
Restart ==
  /\ crashes < MaxCrashes
  /\ file.whole
  /\ memory' = file.changes
  /\ running' = Idle
  /\ queued' = FALSE
  /\ promise' = [c \in Changes |-> IF promise[c] \in Pending THEN "lost" ELSE promise[c]]
  /\ crashes' = crashes + 1
  /\ UNCHANGED <<file, tmp, failures>>

Next ==
  \/ \E c \in Changes : Persist(c)
  \/ StartQueued
  \/ TmpWritten
  \/ Renamed
  \/ WriteFails
  \/ Restart

Spec == Init /\ [][Next]_vars

(* The file system answers every call (a failure is an answer), the event   *)
(* loop runs every ready callback, and callers retry what was not saved.    *)
Fairness ==
  /\ WF_vars(StartQueued)
  /\ WF_vars(TmpWritten \/ WriteFails)
  /\ WF_vars(Renamed \/ WriteFails)
  /\ \A c \in Changes : WF_vars(Persist(c))

FairSpec == Spec /\ Fairness

-----------------------------------------------------------------------------
(* "Each caller's promise settles once a write that includes its change is  *)
(* on disk": a resolved caller's change is in the file, now and after any   *)
(* number of later failed writes, crashes and restarts.                     *)
Durable ==
  \A c \in Changes : promise[c] = "resolved" => c \in file.changes

(* "A crash leaves the old or the new file, never half of one": the file    *)
(* the next start parses is whole in every state a crash can strike.        *)
FileWhole == file.whole

(* A write never puts back an older state over a newer one, not even the    *)
(* first write of a restarted process.                                      *)
NeverBackwards == [][file.changes \subseteq file'.changes]_file

(* "A failed write rejects its callers, and the next call writes again"     *)
(* (gateway/test/store.test.js): once failures stop, a caller that retries  *)
(* gets its change to disk.                                                 *)
RetriesSucceed == <>[](file.changes = Changes)

(* The promise of a caller as the abstract store sees it.                   *)
PromiseSeen ==
  [c \in Changes |-> IF promise[c] \in Pending THEN "waiting" ELSE promise[c]]

Store == INSTANCE DurableStore WITH disk <- file.changes, promise <- PromiseSeen

(* The coalesced, atomic rewrite implements the durable store.              *)
ImplementsStore == Store!Spec
=============================================================================
