----------------------------- MODULE Heartbeats -----------------------------
(***************************************************************************)
(* How the gateway knows that a sensor works: the beats of its listener and *)
(* the reports of the host watcher, which are two clocks of their own, the  *)
(* freshness rule, what of it survives a restart, and the report of a       *)
(* public sensor that never spoke (gateway/src/server.js).                  *)
(*                                                                          *)
(* The degraded channels, the other half of sensorHealth, are AlertFanout's *)
(* and Coverage's. The names Beats... keep this module apart from JsonFile, *)
(* which PersistenceProofs and MCPersistence extend with it.                *)
(***************************************************************************)
EXTENDS Integers

CONSTANTS
  Sensors,
  Public,                 \* the sensors offered to users
  StaleAfter,             \* STALE_AFTER_MS
  Grace,                  \* startupGraceMs: as long as StaleAfter unless configured
  MaxClock, MaxRestarts   \* bounds: time, process deaths

ASSUME HeartbeatsAssumption ==
  /\ Public \subseteq Sensors
  /\ {StaleAfter, Grace, MaxClock, MaxRestarts} \subseteq Nat

VARIABLES
  clock, startedAt,
  beats,          \* heartbeats.data and its two maps: per sensor, the last beat and report
  disk,           \* heartbeats.json
  silent,         \* `reportedSilent`
  lastBeat,       \* history: when a listener really was last heard
  lastReport,     \* history: the last report of a watcher that was received
  restarts

beatsVars == <<clock, startedAt, beats, disk, silent, lastBeat, lastReport, restarts>>

-----------------------------------------------------------------------------
Never == -1
Times == {Never} \cup 0 .. MaxClock
Report == [at : Times, ok : BOOLEAN]
NoReport == [at |-> Never, ok |-> FALSE]
Entry == [beat : Times, aea : Report]
NoEntry == [beat |-> Never, aea |-> NoReport]

BeatsTypeOK ==
  /\ clock \in 0 .. MaxClock /\ startedAt \in 0 .. MaxClock
  /\ beats \in [Sensors -> Entry] /\ disk \in [Sensors -> Entry]
  /\ silent \in SUBSET Public
  /\ lastBeat \in [Sensors -> Times] /\ lastReport \in [Sensors -> Report]
  /\ restarts \in 0 .. MaxRestarts

BeatsInit ==
  /\ clock = 0 /\ startedAt = 0
  /\ beats = [s \in Sensors |-> NoEntry] /\ disk = beats
  /\ silent = {}
  /\ lastBeat = [s \in Sensors |-> Never] /\ lastReport = [s \in Sensors |-> NoReport]
  /\ restarts = 0

-----------------------------------------------------------------------------
(* sensorHealth.                                                            *)
IsFresh(at) == at # Never /\ clock - at <= StaleAfter

ListenerFresh(s) == IsFresh(beats[s].beat)
SensorWorks(s) == ListenerFresh(s) /\ IsFresh(beats[s].aea.at) /\ beats[s].aea.ok

(* POST /heartbeat of the listener; the answer does not wait for the save.  *)
ListenerBeats(s) ==
  /\ beats' = [beats EXCEPT ![s].beat = clock]
  /\ lastBeat' = [lastBeat EXCEPT ![s] = clock]
  /\ UNCHANGED <<clock, startedAt, disk, silent, lastReport, restarts>>

(* Slip: any heartbeat of a sensor counts as its listener's.                *)
WatcherBeats(s, ok) ==
  /\ beats' = [beats EXCEPT ![s] = [beat |-> clock, aea |-> [at |-> clock, ok |-> ok]]]
  /\ lastReport' = [lastReport EXCEPT ![s] = [at |-> clock, ok |-> ok]]
  /\ UNCHANGED <<clock, startedAt, disk, silent, lastBeat, restarts>>

(* POST /heartbeat with aea_ok, of the host watcher.                        *)
WatcherReports(s, ok) ==
  /\ beats' = [beats EXCEPT ![s].aea = [at |-> clock, ok |-> ok]]
  /\ lastReport' = [lastReport EXCEPT ![s] = [at |-> clock, ok |-> ok]]
  /\ UNCHANGED <<clock, startedAt, disk, silent, lastBeat, restarts>>

(* A write of heartbeats.json, which takes its snapshot of every sensor.    *)
Saved ==
  /\ disk # beats
  /\ disk' = beats
  /\ UNCHANGED <<clock, startedAt, beats, silent, lastBeat, lastReport, restarts>>

(* Once per sensor and process, after the grace and a full stale window.    *)
ReportSilent(s) ==
  /\ s \in Public
  /\ clock - startedAt >= Grace + StaleAfter
  /\ beats[s].beat = Never
  /\ s \notin silent
  /\ silent' = silent \cup {s}
  /\ UNCHANGED <<clock, startedAt, beats, disk, lastBeat, lastReport, restarts>>

RestartAsSaved ==
  /\ restarts < MaxRestarts
  /\ restarts' = restarts + 1
  /\ startedAt' = clock
  /\ beats' = disk
  /\ silent' = {}
  /\ UNCHANGED <<clock, disk, lastBeat, lastReport>>

Tick ==
  /\ clock < MaxClock
  /\ clock' = clock + 1
  /\ UNCHANGED <<startedAt, beats, disk, silent, lastBeat, lastReport, restarts>>

BeatsNext ==
  \/ \E s \in Sensors : \/ ListenerBeats(s) \/ ReportSilent(s)
                        \/ \E ok \in BOOLEAN : WatcherReports(s, ok)
  \/ Saved
  \/ RestartAsSaved
  \/ Tick

BeatsSpec == BeatsInit /\ [][BeatsNext]_beatsVars

-----------------------------------------------------------------------------
(* "A sensor already dead before the restart stays red", and a watcher that *)
(* lives does not stand in for a listener that died: a sensor counts as     *)
(* working only if both were really heard within the window.                *)
WorksIsFresh ==
  \A s \in Sensors : SensorWorks(s) => IsFresh(lastBeat[s]) /\ IsFresh(lastReport[s].at)

=============================================================================
