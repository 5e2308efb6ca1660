-------------------------- MODULE PersistenceProofs --------------------------
(***************************************************************************)
(* What the gateway keeps over a crash: proofs about JsonFile, for any set *)
(* of callers and any number of failed writes and crashes, and about the   *)
(* heartbeats, whose file is one of those, for any number of sensors, any  *)
(* freshness window and any number of crashes and lost writes.             *)
(***************************************************************************)
EXTENDS JsonFile, Heartbeats, TLAPS

(* The inductive invariant: what a write in progress holds lies between the *)
(* file and the memory, and each promise says where its change already is.  *)
WriteBetween ==
  /\ file.changes \subseteq memory
  /\ ~IsIdle => /\ file.changes \subseteq running.snapshot
                /\ running.snapshot \subseteq memory
  /\ running.phase = "renaming" => tmp = Whole(running.snapshot)

PromiseTells(c) ==
  /\ promise[c] = "running" => ~IsIdle /\ c \in running.snapshot
  /\ promise[c] = "queued" => queued /\ c \in memory
  /\ promise[c] = "resolved" => c \in file.changes

IInv ==
  /\ TypeOK
  /\ FileWhole
  /\ WriteBetween
  /\ \A c \in Changes : PromiseTells(c)

-----------------------------------------------------------------------------
(* The state a step starts from and the shape of the contents it writes.    *)

LEMMA WholeIsContents ==
  \A S \in SUBSET Changes : /\ Whole(S) \in Contents
                            /\ Whole(S).whole
                            /\ Whole(S).changes = S
  BY DEF Whole, Contents

LEMMA TornIsContents == Torn \in Contents
  BY DEF Torn, Contents

LEMMA InitIInv == Init => IInv
<1> SUFFICES ASSUME Init PROVE IInv
  OBVIOUS
<1>1. TypeOK
  <2>1. file \in Contents /\ tmp \in Contents
    BY WholeIsContents DEF Init
  <2>2. running \in [phase : Phases, snapshot : SUBSET Changes]
    BY DEF Init, Idle, Phases
  <2>3. failures \in 0 .. MaxFailures /\ crashes \in 0 .. MaxCrashes
    BY BoundsAssumption DEF Init
  <2> QED BY <2>1, <2>2, <2>3 DEF Init, TypeOK, Promises
<1>2. FileWhole /\ WriteBetween
  BY WholeIsContents DEF Init, FileWhole, WriteBetween, IsIdle, Idle, Whole
<1>3. \A c \in Changes : PromiseTells(c)
  BY DEF Init, PromiseTells
<1> QED BY <1>1, <1>2, <1>3 DEF IInv

LEMMA PersistIInv ==
  ASSUME IInv, NEW c \in Changes, Persist(c)
  PROVE  IInv'
<1> USE DEF IInv
<1>1. CASE PersistNow(c)
  <2>1. /\ IsIdle /\ ~queued
        /\ memory' = memory \cup {c}
        /\ running' = [phase |-> "writing", snapshot |-> memory']
        /\ tmp' = Torn /\ file' = file
        /\ promise' = [promise EXCEPT ![c] = "running"]
        /\ queued' = queued /\ failures' = failures /\ crashes' = crashes
    BY <1>1 DEF PersistNow, Asks, StartWrite
  <2>2. TypeOK'
    BY <2>1, TornIsContents DEF TypeOK, Phases, Promises, Pending, Settled
  <2>3. FileWhole' /\ WriteBetween'
    BY <2>1 DEF FileWhole, WriteBetween, IsIdle
  <2>4. \A d \in Changes : PromiseTells(d)'
    BY <2>1 DEF PromiseTells, IsIdle, WriteBetween, TypeOK
  <2> QED BY <2>2, <2>3, <2>4
<1>2. CASE PersistQueued(c)
  <2>1. /\ memory' = memory \cup {c}
        /\ queued' = TRUE
        /\ promise' = [promise EXCEPT ![c] = "queued"]
        /\ UNCHANGED <<file, tmp, running, failures, crashes>>
    BY <1>2 DEF PersistQueued, Asks
  <2>2. TypeOK'
    BY <2>1 DEF TypeOK, Promises, Pending
  <2>3. FileWhole' /\ WriteBetween'
    BY <2>1 DEF FileWhole, WriteBetween, IsIdle, Whole
  <2>4. \A d \in Changes : PromiseTells(d)'
    BY <2>1 DEF PromiseTells, IsIdle, TypeOK
  <2> QED BY <2>2, <2>3, <2>4
<1> QED BY <1>1, <1>2 DEF Persist

LEMMA StartQueuedIInv == IInv /\ StartQueued => IInv'
<1> SUFFICES ASSUME IInv, StartQueued PROVE IInv'
  OBVIOUS
<1> USE DEF IInv
<1>1. /\ queued /\ IsIdle
      /\ queued' = FALSE
      /\ running' = [phase |-> "writing", snapshot |-> memory]
      /\ tmp' = Torn
      /\ promise' = Settle("queued", "running")
      /\ UNCHANGED <<memory, file, failures, crashes>>
  BY DEF StartQueued, StartWrite
<1>2. TypeOK'
  BY <1>1, TornIsContents DEF TypeOK, Settle, Phases, Promises, Pending
<1>3. FileWhole' /\ WriteBetween'
  BY <1>1 DEF FileWhole, WriteBetween, IsIdle
<1>4. \A d \in Changes : PromiseTells(d)'
  BY <1>1 DEF PromiseTells, IsIdle, TypeOK, Settle
<1> QED BY <1>2, <1>3, <1>4

LEMMA TmpWrittenIInv == IInv /\ TmpWritten => IInv'
<1> SUFFICES ASSUME IInv, TmpWritten PROVE IInv'
  OBVIOUS
<1> USE DEF IInv
<1>1. /\ running.phase = "writing"
      /\ tmp' = Whole(running.snapshot)
      /\ running' = [running EXCEPT !.phase = "renaming"]
      /\ UNCHANGED <<memory, file, queued, promise, failures, crashes>>
  BY DEF TmpWritten
<1>2. running'.phase = "renaming" /\ running'.snapshot = running.snapshot
  BY <1>1 DEF TypeOK
<1>3. TypeOK'
  BY <1>1, WholeIsContents DEF TypeOK, Phases
<1>4. FileWhole' /\ WriteBetween'
  BY <1>1, <1>2 DEF FileWhole, WriteBetween, IsIdle, Whole
<1>5. \A d \in Changes : PromiseTells(d)'
  BY <1>1, <1>2 DEF PromiseTells, IsIdle
<1> QED BY <1>3, <1>4, <1>5

LEMMA RenamedIInv == IInv /\ Renamed => IInv'
<1> SUFFICES ASSUME IInv, Renamed PROVE IInv'
  OBVIOUS
<1> USE DEF IInv
<1>1. /\ running.phase = "renaming"
      /\ file' = tmp
      /\ running' = Idle
      /\ promise' = Settle("running", "resolved")
      /\ UNCHANGED <<memory, tmp, queued, failures, crashes>>
  BY DEF Renamed
<1>2. file' = Whole(running.snapshot) /\ file'.whole /\ file'.changes = running.snapshot
  BY <1>1, WholeIsContents DEF WriteBetween, TypeOK
<1>3. ~IsIdle
  BY <1>1 DEF IsIdle
<1>4. TypeOK'
  BY <1>1, <1>2 DEF TypeOK, Settle, Idle, Phases, Promises, Settled
<1>5. FileWhole' /\ WriteBetween'
  BY <1>1, <1>2, <1>3 DEF FileWhole, WriteBetween, IsIdle, Idle
<1>6. \A d \in Changes : PromiseTells(d)'
  BY <1>1, <1>2, <1>3 DEF PromiseTells, IsIdle, Idle, TypeOK, Settle, WriteBetween
<1> QED BY <1>4, <1>5, <1>6

LEMMA WriteFailsIInv == IInv /\ WriteFails => IInv'
<1> SUFFICES ASSUME IInv, WriteFails PROVE IInv'
  OBVIOUS
<1> USE DEF IInv
<1>1. /\ failures < MaxFailures /\ failures' = failures + 1
      /\ running' = Idle
      /\ promise' = Settle("running", "rejected")
      /\ UNCHANGED <<memory, file, tmp, queued, crashes>>
  BY DEF WriteFails
<1>2. TypeOK'
  BY <1>1, BoundsAssumption DEF TypeOK, Settle, Idle, Phases, Promises, Settled
<1>3. FileWhole' /\ WriteBetween'
  BY <1>1 DEF FileWhole, WriteBetween, IsIdle, Idle
<1>4. \A d \in Changes : PromiseTells(d)'
  BY <1>1 DEF PromiseTells, IsIdle, Idle, TypeOK, Settle
<1> QED BY <1>2, <1>3, <1>4

LEMMA RestartIInv == IInv /\ Restart => IInv'
<1> SUFFICES ASSUME IInv, Restart PROVE IInv'
  OBVIOUS
<1> USE DEF IInv
<1>1. /\ crashes < MaxCrashes /\ crashes' = crashes + 1
      /\ memory' = file.changes
      /\ running' = Idle
      /\ queued' = FALSE
      /\ promise' = [c \in Changes |-> IF promise[c] \in Pending THEN "lost" ELSE promise[c]]
      /\ UNCHANGED <<file, tmp, failures>>
  BY DEF Restart
<1>2. TypeOK'
  <2>1. memory' \in SUBSET Changes
    BY <1>1 DEF TypeOK, Contents
  <2>2. running' \in [phase : Phases, snapshot : SUBSET Changes]
    BY <1>1 DEF Idle, Phases
  <2>3. promise' \in [Changes -> Promises]
    BY <1>1 DEF TypeOK, Promises, Pending, Settled
  <2>4. crashes' \in 0 .. MaxCrashes
    BY <1>1, BoundsAssumption DEF TypeOK
  <2> QED BY <1>1, <2>1, <2>2, <2>3, <2>4 DEF TypeOK
<1>3. FileWhole' /\ WriteBetween'
  BY <1>1 DEF FileWhole, WriteBetween, IsIdle, Idle
<1>4. \A d \in Changes : PromiseTells(d)'
  BY <1>1 DEF PromiseTells, TypeOK, Pending
<1> QED BY <1>2, <1>3, <1>4

LEMMA StutterIInv == IInv /\ UNCHANGED vars => IInv'
  BY DEF IInv, TypeOK, FileWhole, WriteBetween, PromiseTells, IsIdle, vars

LEMMA NextIInv == IInv /\ [Next]_vars => IInv'
  BY PersistIInv, StartQueuedIInv, TmpWrittenIInv, RenamedIInv, WriteFailsIInv,
     RestartIInv, StutterIInv DEF Next

THEOREM AlwaysIInv == Spec => []IInv
  BY InitIInv, NextIInv, PTL DEF Spec

-----------------------------------------------------------------------------
(* Every state of the store is well typed.                                  *)
THEOREM TypeCorrect == Spec => []TypeOK
<1>1. IInv => TypeOK
  BY DEF IInv
<1> QED BY <1>1, AlwaysIInv, PTL

(* createJsonFile's promise: a resolved caller's change is in the file, and *)
(* stays there through later writes, failures and restarts.                 *)
THEOREM ResolvedIsDurable == Spec => []Durable
<1>1. IInv => Durable
  BY DEF IInv, PromiseTells, Durable
<1> QED BY <1>1, AlwaysIInv, PTL

(* A crash at any point leaves a file that the next start can parse.        *)
THEOREM CrashLeavesWholeFile == Spec => []FileWhole
<1>1. IInv => FileWhole
  BY DEF IInv
<1> QED BY <1>1, AlwaysIInv, PTL

(* No write puts back an older state over a newer one.                      *)
THEOREM NeverGoesBack == Spec => NeverBackwards
<1>1. IInv /\ [Next]_vars => [file.changes \subseteq file'.changes]_file
  <2> SUFFICES ASSUME IInv, [Next]_vars, file' # file
               PROVE  file.changes \subseteq file'.changes
    OBVIOUS
  <2>1. Renamed
    BY DEF Next, vars, Persist, PersistNow, PersistQueued, StartWrite, StartQueued,
           TmpWritten, WriteFails, Restart
  <2> QED
    BY <2>1, WholeIsContents DEF Renamed, IInv, WriteBetween, IsIdle, TypeOK
<1> QED BY <1>1, AlwaysIInv, PTL DEF Spec, NeverBackwards

-----------------------------------------------------------------------------
(* Each step of the file as a step of the durable store it implements.      *)

LEMMA PersistIsChange ==
  ASSUME IInv, NEW c \in Changes, Persist(c)
  PROVE  Store!Change(c)
<1>1. /\ promise[c] \in {"none", "rejected", "lost"}
      /\ memory' = memory \cup {c}
      /\ file' = file
  BY DEF Persist, PersistNow, PersistQueued, Asks, StartWrite
<1>2. \E p \in Pending : promise' = [promise EXCEPT ![c] = p]
  BY DEF Persist, PersistNow, PersistQueued, Pending
<1>3. PromiseSeen[c] \in {"none", "rejected", "lost"}
  BY <1>1 DEF PromiseSeen, Pending
<1>4. PromiseSeen' = [PromiseSeen EXCEPT ![c] = "waiting"]
  BY <1>2 DEF PromiseSeen, IInv, TypeOK
<1> QED BY <1>1, <1>3, <1>4 DEF Store!Change, Store!Waiting

LEMMA RenamedIsSave == IInv /\ Renamed => Store!Save
<1> SUFFICES ASSUME IInv, Renamed PROVE Store!Save
  OBVIOUS
<1>1. /\ memory' = memory
      /\ running.phase = "renaming"
      /\ promise' = Settle("running", "resolved")
      /\ file'.changes = running.snapshot
  BY WholeIsContents DEF Renamed, IInv, WriteBetween, TypeOK
<1>2. file.changes \subseteq file'.changes /\ file'.changes \subseteq memory
  BY <1>1 DEF IInv, WriteBetween, IsIdle
<1> DEFINE told == {c \in Changes : promise[c] = "running"}
<1>3. told \in SUBSET {c \in file'.changes : PromiseSeen[c] = "waiting"}
  BY <1>1 DEF IInv, PromiseTells, PromiseSeen, Pending
<1>4. PromiseSeen' = [c \in Changes |-> IF c \in told THEN "resolved" ELSE PromiseSeen[c]]
  BY <1>1 DEF PromiseSeen, Pending, Settle, IInv, TypeOK
<1> QED BY <1>1, <1>2, <1>3, <1>4 DEF Store!Save, Store!Waiting

LEMMA WriteFailsIsRefuse == IInv /\ WriteFails => Store!Refuse
<1> SUFFICES ASSUME IInv, WriteFails PROVE Store!Refuse
  OBVIOUS
<1>1. /\ UNCHANGED <<memory, file>>
      /\ promise' = Settle("running", "rejected")
  BY DEF WriteFails
<1> DEFINE told == {c \in Changes : promise[c] = "running"}
<1>2. told \in SUBSET {c \in Changes : PromiseSeen[c] = "waiting"}
  BY DEF PromiseSeen, Pending
<1>3. PromiseSeen' = [c \in Changes |-> IF c \in told THEN "rejected" ELSE PromiseSeen[c]]
  BY <1>1 DEF PromiseSeen, Pending, Settle, IInv, TypeOK
<1> QED BY <1>1, <1>2, <1>3 DEF Store!Refuse, Store!Waiting

LEMMA RestartIsRestart == IInv /\ Restart => Store!Restart
<1> SUFFICES ASSUME IInv, Restart PROVE Store!Restart
  OBVIOUS
<1>1. /\ memory' = file.changes
      /\ file' = file
      /\ promise' = [c \in Changes |-> IF promise[c] \in Pending THEN "lost" ELSE promise[c]]
  BY DEF Restart
<1>2. PromiseSeen' = [c \in Changes |-> IF PromiseSeen[c] = "waiting" THEN "lost" ELSE PromiseSeen[c]]
  BY <1>1 DEF PromiseSeen, Pending, Settled, Promises, IInv, TypeOK
<1> QED BY <1>1, <1>2 DEF Store!Restart, Store!Waiting

LEMMA InternalIsStutter ==
  IInv /\ (StartQueued \/ TmpWritten \/ UNCHANGED vars) => UNCHANGED Store!vars
<1> SUFFICES ASSUME IInv, StartQueued \/ TmpWritten \/ UNCHANGED vars
             PROVE  UNCHANGED Store!vars
  OBVIOUS
<1>1. UNCHANGED <<memory, file>>
  BY DEF StartQueued, StartWrite, TmpWritten, vars
<1>2. promise' = Settle("queued", "running") \/ promise' = promise
  BY DEF StartQueued, TmpWritten, vars
<1>3. PromiseSeen' = PromiseSeen
  BY <1>2 DEF PromiseSeen, Pending, Settle, IInv, TypeOK
<1> QED BY <1>1, <1>3 DEF Store!vars

(* The coalesced rewrite of the whole file is a durable store: a caller is  *)
(* told its change is saved only when a restart would find it.              *)
THEOREM FileImplementsStore == Spec => ImplementsStore
<1>1. Init => Store!Init
  BY WholeIsContents DEF Init, Store!Init, PromiseSeen, Pending
<1>2. IInv /\ [Next]_vars => [Store!Next]_Store!vars
  BY PersistIsChange, RenamedIsSave, WriteFailsIsRefuse, RestartIsRestart, InternalIsStutter
     DEF Next, Store!Next
<1> QED BY <1>1, <1>2, AlwaysIInv, PTL DEF Spec, ImplementsStore, Store!Spec
-----------------------------------------------------------------------------
(* What the process holds of a sensor, and what the file holds of it, is    *)
(* something that was really heard, no later than it was last heard.        *)
Backed(entry, s) ==
  /\ entry.beat <= lastBeat[s]
  /\ entry.aea.at <= lastReport[s].at

BeatsTyped ==
  /\ clock \in Nat
  /\ beats \in [Sensors -> [beat : Int, aea : [at : Int, ok : BOOLEAN]]]
  /\ disk \in [Sensors -> [beat : Int, aea : [at : Int, ok : BOOLEAN]]]
  /\ lastBeat \in [Sensors -> Int]
  /\ lastReport \in [Sensors -> [at : Int, ok : BOOLEAN]]

InTime(entry) == entry.beat \in Never .. clock /\ entry.aea.at \in Never .. clock

AllBacked == \A s \in Sensors : Backed(beats[s], s) /\ Backed(disk[s], s)
AllInTime == \A s \in Sensors : InTime(beats[s]) /\ InTime(disk[s])

BeatsIInv == BeatsTyped /\ AllBacked /\ AllInTime

(* The invariant holds when the gateway first starts.                       *)
LEMMA InitBeats == BeatsInit => BeatsIInv
<1> SUFFICES ASSUME BeatsInit PROVE BeatsIInv
  OBVIOUS
<1>0. /\ clock = 0 /\ disk = beats
      /\ beats = [s \in Sensors |-> [beat |-> -1, aea |-> [at |-> -1, ok |-> FALSE]]]
      /\ lastBeat = [s \in Sensors |-> -1]
      /\ lastReport = [s \in Sensors |-> [at |-> -1, ok |-> FALSE]]
  BY DEF BeatsInit, NoEntry, NoReport, Never
<1>a. \A s \in Sensors : /\ beats[s].beat = -1 /\ beats[s].aea.at = -1
                          /\ lastBeat[s] = -1 /\ lastReport[s].at = -1
  BY <1>0
<1>b. clock = 0 /\ disk = beats
  BY <1>0
<1>1. BeatsTyped
  BY <1>0 DEF BeatsTyped
<1>2. \A s \in Sensors : Backed(beats[s], s) /\ InTime(beats[s])
  <2> TAKE s \in Sensors
  <2>1. -1 <= -1 /\ -1 \in -1 .. 0
    OBVIOUS
  <2>2. Backed(beats[s], s)
    BY <1>a, <2>1 DEF Backed
  <2>3. InTime(beats[s])
    BY <1>a, <1>b, <2>1 DEF InTime, Never
  <2> QED
    BY <2>2, <2>3
<1>3. AllBacked /\ AllInTime
  BY <1>2, <1>b DEF AllBacked, AllInTime
<1> QED
  BY <1>1, <1>3 DEF BeatsIInv

(* One field of one sensor's entry is replaced.                             *)
LEMMA EntryUpdated ==
  ASSUME NEW table \in [Sensors -> [beat : Int, aea : [at : Int, ok : BOOLEAN]]],
         NEW s \in Sensors, NEW at \in Int, NEW ok \in BOOLEAN
  PROVE /\ [table EXCEPT ![s].beat = at] \in [Sensors -> [beat : Int, aea : [at : Int, ok : BOOLEAN]]]
        /\ [table EXCEPT ![s].aea = [at |-> at, ok |-> ok]]
             \in [Sensors -> [beat : Int, aea : [at : Int, ok : BOOLEAN]]]
<1>1. table[s] \in [beat : Int, aea : [at : Int, ok : BOOLEAN]]
  OBVIOUS
<1>2. [table[s] EXCEPT !.beat = at] \in [beat : Int, aea : [at : Int, ok : BOOLEAN]]
  BY <1>1
<1>3. [table[s] EXCEPT !.aea = [at |-> at, ok |-> ok]] \in [beat : Int, aea : [at : Int, ok : BOOLEAN]]
  BY <1>1
<1>4. [table EXCEPT ![s].beat = at] \in [Sensors -> [beat : Int, aea : [at : Int, ok : BOOLEAN]]]
  BY <1>2
<1>5. [table EXCEPT ![s].aea = [at |-> at, ok |-> ok]]
        \in [Sensors -> [beat : Int, aea : [at : Int, ok : BOOLEAN]]]
  BY <1>3
<1> QED
  BY <1>4, <1>5

(* Every step keeps it: only what is heard raises what is held, and a crash *)
(* only goes back to what was saved.                                        *)
LEMMA NextBeats == BeatsIInv /\ [BeatsNext]_beatsVars => BeatsIInv'
<1> SUFFICES ASSUME BeatsIInv, [BeatsNext]_beatsVars PROVE BeatsIInv'
  OBVIOUS
<1> USE DEF BeatsIInv, BeatsTyped, AllBacked, AllInTime, Backed, InTime, Never
<1>1. ASSUME NEW s \in Sensors, ListenerBeats(s) PROVE BeatsIInv'
  <2> USE <1>1 DEF ListenerBeats
  <2>1. /\ clock' = clock /\ disk' = disk /\ lastReport' = lastReport
        /\ beats' = [beats EXCEPT ![s].beat = clock]
        /\ lastBeat' = [lastBeat EXCEPT ![s] = clock]
    OBVIOUS
  <2>2. BeatsTyped'
    <3>1. clock \in Int /\ clock' \in Nat
      BY <2>1
    <3>2. beats' \in [Sensors -> [beat : Int, aea : [at : Int, ok : BOOLEAN]]]
      <4>1. beats \in [Sensors -> [beat : Int, aea : [at : Int, ok : BOOLEAN]]]
        OBVIOUS
      <4>2. [beats EXCEPT ![s].beat = clock]
              \in [Sensors -> [beat : Int, aea : [at : Int, ok : BOOLEAN]]]
        BY ONLY <4>1, <3>1, EntryUpdated
      <4> QED
        BY ONLY <4>2, <2>1
    <3>3. lastBeat' \in [Sensors -> Int]
      BY <2>1, <3>1
    <3> QED
      BY <2>1, <3>1, <3>2, <3>3
  <2>3. ASSUME NEW u \in Sensors
        PROVE /\ beats'[u].aea = beats[u].aea
              /\ beats'[u].beat = IF u = s THEN clock ELSE beats[u].beat
              /\ lastBeat'[u] = IF u = s THEN clock ELSE lastBeat[u]
    BY <2>1
  <2>4. AllBacked'
    BY <2>1, <2>3
  <2>5. AllInTime'
    BY <2>1, <2>3
  <2> QED
    BY <2>2, <2>4, <2>5
<1>2. ASSUME NEW s \in Sensors, NEW ok \in BOOLEAN, WatcherReports(s, ok) PROVE BeatsIInv'
  <2> USE <1>2 DEF WatcherReports
  <2>1. /\ clock' = clock /\ disk' = disk /\ lastBeat' = lastBeat
        /\ beats' = [beats EXCEPT ![s].aea = [at |-> clock, ok |-> ok]]
        /\ lastReport' = [lastReport EXCEPT ![s] = [at |-> clock, ok |-> ok]]
    OBVIOUS
  <2>2. BeatsTyped'
    <3>1. clock \in Int /\ clock' \in Nat
      BY <2>1
    <3>2. beats' \in [Sensors -> [beat : Int, aea : [at : Int, ok : BOOLEAN]]]
      <4>1. beats \in [Sensors -> [beat : Int, aea : [at : Int, ok : BOOLEAN]]]
        OBVIOUS
      <4>2. [beats EXCEPT ![s].aea = [at |-> clock, ok |-> ok]]
              \in [Sensors -> [beat : Int, aea : [at : Int, ok : BOOLEAN]]]
        BY ONLY <4>1, <3>1, EntryUpdated
      <4> QED
        BY ONLY <4>2, <2>1
    <3>3. lastReport' \in [Sensors -> [at : Int, ok : BOOLEAN]]
      BY <2>1, <3>1
    <3> QED
      BY <2>1, <3>1, <3>2, <3>3
  <2>3. ASSUME NEW u \in Sensors
        PROVE /\ beats'[u].beat = beats[u].beat
              /\ beats'[u].aea.at = IF u = s THEN clock ELSE beats[u].aea.at
              /\ lastReport'[u].at = IF u = s THEN clock ELSE lastReport[u].at
    BY <2>1
  <2>4. AllBacked'
    BY <2>1, <2>3
  <2>5. AllInTime'
    BY <2>1, <2>3
  <2> QED
    BY <2>2, <2>4, <2>5
<1>3. ASSUME NEW s \in Sensors, ReportSilent(s) PROVE BeatsIInv'
  BY <1>3 DEF ReportSilent
<1>4. CASE Saved
  BY <1>4 DEF Saved
<1>5. CASE RestartAsSaved
  BY <1>5 DEF RestartAsSaved
<1>6. CASE Tick
  <2>1. clock' = clock + 1 /\ UNCHANGED <<beats, disk, lastBeat, lastReport>>
    BY <1>6 DEF Tick
  <2>2. AllInTime'
    BY <2>1
  <2> QED
    BY <2>1, <2>2
<1>7. CASE UNCHANGED beatsVars
  BY <1>7 DEF beatsVars
<1> QED
  BY <1>1, <1>2, <1>3, <1>4, <1>5, <1>6, <1>7 DEF BeatsNext

(* What is held of the beats, at every moment.                             *)
THEOREM AlwaysBeats == BeatsSpec => []BeatsIInv
<1> QED
  BY InitBeats, NextBeats, PTL DEF BeatsSpec

(* handleHeartbeat, sensorHealth and the restart: a sensor counts as        *)
(* working only if its listener and its watcher were both really heard      *)
(* within the window, whatever was lost in a crash.                         *)
THEOREM GreenIsFresh == BeatsSpec => []WorksIsFresh
<1>0. StaleAfter \in Nat
  BY HeartbeatsAssumption
<1>1. BeatsIInv => WorksIsFresh
  <2> SUFFICES ASSUME BeatsIInv, NEW s \in Sensors, SensorWorks(s)
               PROVE IsFresh(lastBeat[s]) /\ IsFresh(lastReport[s].at)
    BY DEF WorksIsFresh
  <2>1. beats[s].beat <= lastBeat[s] /\ beats[s].aea.at <= lastReport[s].at
    BY DEF BeatsIInv, AllBacked, Backed
  <2>2. beats[s].beat # Never /\ clock - beats[s].beat <= StaleAfter
    BY DEF SensorWorks, ListenerFresh, IsFresh
  <2>3. beats[s].aea.at # Never /\ clock - beats[s].aea.at <= StaleAfter
    BY DEF SensorWorks, IsFresh
  <2> QED
    BY <1>0, <2>1, <2>2, <2>3 DEF BeatsIInv, BeatsTyped, AllInTime, InTime, IsFresh, Never
<1> QED
  BY <1>1, AlwaysBeats, PTL
=============================================================================
