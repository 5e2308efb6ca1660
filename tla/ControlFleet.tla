---------------------------- MODULE ControlFleet ----------------------------
(***************************************************************************)
(* The control: an emulator watched by scripts/lab.py on the operator's     *)
(* machine, and what monitor/verify.py makes of its silence. A quake that   *)
(* an AWS receptor missed is excused when the control, which was there, had *)
(* no alert either; it fails when the control had it.                       *)
(*                                                                          *)
(* One control, and the receptor it controls. lab.py polls every five       *)
(* minutes, appends what it finds to lab-log.jsonl at once, and saves       *)
(* lab-state.json when the loop ends; it can die in between, and the        *)
(* machine can be off. Left out of the poll: its notices about the AEA      *)
(* component, the position and the guest's clock.                           *)
(***************************************************************************)
EXTENDS Naturals, Sequences, SequencesExt, FiniteSetsExt

CONSTANTS
  Quakes,             \* quakes whose radius reaches both receptors
  Stale,              \* STALE_DEVICE_MIN, in loops
  CanaryEvery,        \* CANARY_EVERY_H
  RetiredAt,          \* MAC_RETIRED_AT
  Misses,             \* what else can be known of a miss, see Miss
  MaxTime,            \* bound: loops
  MaxTrouble          \* bound: outages, repairs, deaths, wipes, failed reads

Miss == [aws : {"covered", "down", "unknown"},         \* coverage_lookup, for the receptor
         partner : {"none", "captured", "silent"},     \* a canary pair's other half, where it counts
         reading : {"none", "unknown", "fresh", "old"},\* the control's location, read near the quake
         late : BOOLEAN,                               \* the receptor had the late notice, eew_update
         explained : BOOLEAN]                          \* near the threshold, at the edge, not felt

ASSUME ControlFleetAssumption ==
  /\ {Stale, CanaryEvery, RetiredAt, MaxTime, MaxTrouble} \subseteq Nat
  /\ CanaryEvery > 0 /\ IsFiniteSet(Quakes) /\ Misses \subseteq Miss
  /\ "fixture" \notin Quakes

VARIABLES
  clock,
  up, listens,        \* the control answers adb; its listener works
  file,               \* its notification-evidence.jsonl
  quakes,             \* the quakes so far, and what became of each
  mem, saved,         \* lab.py: state["devices"][d] and state["canary"], and lab-state.json
  pc,                 \* where the loop is
  log,                \* lab-log.jsonl: what was captured, and the device notices in order
  trouble,            \* disturbances left
  away,               \* history: loops at which the lab was off or lost what it had not saved
  wipes,              \* history: wipes so far
  outgrown,           \* history: a wiped file had passed the old count when it was read
  deaf,               \* history: when the file of the dead listener was first read, by the process
                      \* and as the state file knows it
  spoiled             \* history: the last canary that was due for a dead listener and not posted

vars == <<clock, up, listens, file, quakes, mem, saved, pc, log, trouble, away, wipes, outgrown, deaf, spoiled>>

-----------------------------------------------------------------------------
Time == 0 .. MaxTime
Never == MaxTime + 1
Fixture == "fixture"
Quake == [at : Time, miss : Misses,
          heard : Time \cup {Never}]      \* history: when the control was last there, to the lab's knowledge
(* of is history: the wipes when seen was counted.                          *)
Device == [seen : Nat, of : 0 .. MaxTrouble, online : Time \cup {Never}, last : Time \cup {Never}, alerted : BOOLEAN,
           fired : Time \cup {Never}, ok : Time \cup {Never}]
(* A canary a loop, one more after a death, and the alerts.                 *)
MaxEntries == MaxTime + 1 + MaxTrouble + Cardinality(Quakes)
HeardAll == [mem |-> Never, saved |-> Never]
NewDevice == [seen |-> 0, of |-> 0, online |-> Never, last |-> Never, alerted |-> FALSE, fired |-> Never, ok |-> Never]
Told == {"caido", "recuperado", "rota"}

TypeOK ==
  /\ clock \in Time /\ up \in BOOLEAN /\ listens \in BOOLEAN
  /\ file \in Seq(Quakes \cup {Fixture})
  /\ DOMAIN quakes \subseteq Quakes /\ \A q \in DOMAIN quakes : quakes[q] \in Quake
  /\ mem \in Device /\ saved \in Device
  /\ mem.seen <= MaxEntries /\ saved.seen <= MaxEntries
  /\ pc \in {"poll", "canary", "save", "sleep", "off"}
  /\ log.captured \subseteq Quakes /\ log.told \in Seq([what : Told, at : Time])
  /\ trouble \in 0 .. MaxTrouble
  /\ away \subseteq Time /\ wipes \in 0 .. MaxTrouble /\ outgrown \in BOOLEAN
  /\ deaf \in [mem : Time \cup {Never}, saved : Time \cup {Never}] /\ spoiled \in Time

Init ==
  /\ clock = 0 /\ up \in BOOLEAN /\ listens = TRUE
  /\ file = <<>> /\ quakes = <<>>
  /\ mem = NewDevice /\ saved = NewDevice
  /\ pc = "poll" /\ log = [captured |-> {}, told |-> <<>>]
  /\ trouble = MaxTrouble /\ away = {} /\ wipes = 0 /\ outgrown = FALSE
  /\ deaf = HeardAll /\ spoiled = 0

-----------------------------------------------------------------------------
(* Around the lab. Between two loops only: a loop takes seconds.            *)
Idle == pc \in {"sleep", "off"}

(* Google alerts, or does not, and the control's listener writes it down.   *)
QuakeHappens(q) ==
  /\ Idle /\ q \notin DOMAIN quakes
  /\ \E alert \in BOOLEAN, miss \in Misses :
       /\ quakes' = [p \in DOMAIN quakes \cup {q} |->
                       IF p = q THEN [at |-> clock, miss |-> miss, heard |-> IF up THEN clock ELSE mem.last]
                       ELSE quakes[p]]
       /\ file' = IF alert /\ up /\ listens THEN Append(file, q) ELSE file
  /\ UNCHANGED <<clock, up, listens, mem, saved, pc, log, trouble, away, wipes, outgrown, deaf, spoiled>>

Disturb == Idle /\ trouble > 0 /\ trouble' = trouble - 1

ControlTurns ==
  /\ Disturb
  /\ up' = ~up
  /\ UNCHANGED <<clock, listens, file, quakes, mem, saved, pc, log, away, wipes, outgrown, deaf, spoiled>>

ListenerTurns ==
  /\ Disturb
  /\ listens' = ~listens /\ deaf' = HeardAll /\ spoiled' = 0
  /\ UNCHANGED <<clock, up, file, quakes, mem, saved, pc, log, away, wipes, outgrown>>

Wipe ==
  /\ Disturb
  /\ file' = <<>> /\ wipes' = wipes + 1
  /\ UNCHANGED <<clock, up, listens, quakes, mem, saved, pc, log, away, outgrown, deaf, spoiled>>

(* main's sleep, and the next loop. While the lab is off only time passes.  *)
Tick ==
  /\ Idle /\ clock < MaxTime
  /\ clock' = clock + 1
  /\ pc' = IF pc = "off" THEN "off" ELSE "poll"
  /\ away' = IF pc = "off" THEN away \cup {clock, clock'} ELSE away
  /\ UNCHANGED <<up, listens, file, quakes, mem, saved, log, trouble, wipes, outgrown, deaf, spoiled>>

Die ==
  /\ pc # "off" /\ trouble > 0 /\ trouble' = trouble - 1
  /\ pc' = "off" /\ mem' = saved
  /\ away' = away \cup {clock} /\ deaf' = [deaf EXCEPT !.mem = deaf.saved]
  /\ UNCHANGED <<clock, up, listens, file, quakes, saved, log, wipes, outgrown, spoiled>>

Start ==
  /\ pc = "off"
  /\ pc' = "poll"
  /\ UNCHANGED <<clock, up, listens, file, quakes, mem, saved, log, trouble, away, wipes, outgrown, deaf, spoiled>>

-----------------------------------------------------------------------------
Tell(told, what) == Append(told, [what |-> what, at |-> clock])

(* poll_devices: the control does not answer. It is told once, when the     *)
(* silence is longer than Stale.                                            *)
PollOffline ==
  /\ pc = "poll" /\ ~up
  /\ LET online == IF mem.online = Never THEN clock ELSE mem.online
         caido == mem.last # Never /\ clock - mem.last > Stale /\ ~mem.alerted
     IN /\ mem' = [mem EXCEPT !.online = online, !.alerted = @ \/ caido]
        /\ log' = IF caido THEN [log EXCEPT !.told = Tell(@, "caido")] ELSE log
  /\ pc' = "canary"
  /\ UNCHANGED <<clock, up, listens, file, quakes, saved, trouble, away, wipes, outgrown, deaf, spoiled>>

Answering ==
  [mem EXCEPT !.online = IF @ = Never THEN clock ELSE @, !.alerted = FALSE, !.last = clock]
TellBack == IF mem.alerted THEN Tell(log.told, "recuperado") ELSE log.told

(* Slip: a file that was wiped is read from the old count on.               *)
FirstUnseenByCount == mem.seen + 1

(* A file shorter than the count was wiped, and is read from its start.     *)
FirstUnseen == IF Len(file) < mem.seen THEN 1 ELSE mem.seen + 1

(* Slip: what was read is added to the count.                               *)
SeenAndMore == mem.seen + Len(file)

SeenNow == Len(file)

Unseen == {file[i] : i \in {j \in DOMAIN file : j >= FirstUnseen}}

(* It answers, and its evidence is read: what is new is logged, and a       *)
(* fixture notification is the canary's return.                             *)
PollOnline ==
  /\ pc = "poll" /\ up
  /\ mem' = [Answering EXCEPT !.seen = SeenNow, !.of = wipes,
                               !.ok = IF Fixture \in Unseen THEN clock ELSE @]
  /\ log' = [captured |-> log.captured \cup (Unseen \ {Fixture}), told |-> TellBack]
  /\ pc' = "canary"
  /\ deaf' = [deaf EXCEPT !.mem = IF listens \/ @ # Never THEN @ ELSE clock]
  /\ outgrown' = (outgrown \/ (mem.of # wipes /\ Len(file) >= mem.seen /\ mem.seen > 0))
  /\ UNCHANGED <<clock, up, listens, file, quakes, saved, trouble, away, wipes, spoiled>>

(* It answers, but its evidence cannot be read.                             *)
PollUnread ==
  /\ pc = "poll" /\ up /\ trouble > 0
  /\ mem' = Answering
  /\ log' = [log EXCEPT !.told = TellBack]
  /\ pc' = "canary" /\ trouble' = trouble - 1
  /\ UNCHANGED <<clock, up, listens, file, quakes, saved, away, wipes, outgrown, deaf, spoiled>>

(* Slip: the age of the last return is that of the last canary.             *)
BrokenSinceFired(device) ==
  LET lastOk == IF device.fired # Never THEN device.fired ELSE device.online
  IN clock - lastOk > 2 * CanaryEvery

(* A listener that never caught one counts from when the device came online.*)
Broken(device) ==
  LET lastOk == IF device.ok # Never THEN device.ok ELSE device.online
  IN clock - lastOk > 2 * CanaryEvery

CanaryDue == mem.fired = Never \/ clock - mem.fired >= CanaryEvery
Posted == IF listens THEN Append(file, Fixture) ELSE file

NoCanary ==
  /\ ~CanaryDue
  /\ UNCHANGED <<mem, file, log, trouble, spoiled>>

(* The control is in `fired`, and told if no canary came back for twice the *)
(* period.                                                                  *)
CanaryPosted ==
  /\ CanaryDue /\ up
  /\ mem' = [mem EXCEPT !.fired = clock] /\ file' = Posted
  /\ log' = IF Broken(mem) THEN [log EXCEPT !.told = Tell(@, "rota")] ELSE log
  /\ UNCHANGED <<trouble, spoiled>>

(* It is not: it is away, device_online fails this time, or the broadcast   *)
(* does, which may have been delivered all the same. The canary counts as   *)
(* fired, and who is not in `fired` is not looked at.                       *)
CanarySpoiled ==
  /\ CanaryDue
  /\ \/ ~up /\ file' = file /\ UNCHANGED trouble
     \/ up /\ trouble > 0 /\ trouble' = trouble - 1 /\ file' \in {file, Posted}
  /\ mem' = [mem EXCEPT !.fired = clock] /\ spoiled' = IF listens THEN spoiled ELSE clock
  /\ UNCHANGED log

(* run_canary: every CanaryEvery a fixture notification is posted.          *)
RunCanary ==
  /\ pc = "canary" /\ pc' = "save"
  /\ NoCanary \/ CanaryPosted \/ CanarySpoiled
  /\ UNCHANGED <<clock, up, listens, quakes, saved, away, wipes, outgrown, deaf>>

Save ==
  /\ pc = "save" /\ pc' = "sleep"
  /\ saved' = mem /\ deaf' = [deaf EXCEPT !.saved = deaf.mem]
  /\ UNCHANGED <<clock, up, listens, file, quakes, mem, log, trouble, away, wipes, outgrown, spoiled>>

Loop == PollOffline \/ PollOnline \/ PollUnread \/ RunCanary \/ Save
Next ==
  \/ \E q \in Quakes : QuakeHappens(q)
  \/ ControlTurns \/ ListenerTurns \/ Wipe \/ Tick \/ Die \/ Start \/ Loop

Spec == Init /\ [][Next]_vars

-----------------------------------------------------------------------------
(* mac_down_intervals: from a "caido" to the "recuperado" after it.         *)
DownIntervals ==
  LET told == log.told
      isDown(i) == told[i].what = "caido"
      back(i) == {j \in DOMAIN told : j > i /\ told[j].what = "recuperado"}
      last(i) == ~\E j \in DOMAIN told : /\ j > i /\ isDown(j)
                                         /\ \A k \in back(i) : k > j
  IN {[from |-> told[i].at, to |-> IF back(i) = {} THEN Never ELSE told[Min(back(i))].at] :
        i \in {j \in DOMAIN told : isDown(j) /\ last(j)}}

(* control_fresh. Without a reading close enough nothing speaks against it. *)
ControlFresh(q) == quakes[q].miss.reading \notin {"unknown", "old"}

(* Slip: the notices of the lab are not looked at.                          *)
ControlCoveredByLastSeen(q) ==
  /\ saved.online # Never /\ saved.last # Never
  /\ saved.online <= quakes[q].at /\ quakes[q].at <= saved.last + Stale
  /\ ControlFresh(q)

(* coverage_lookup for the control. False here is its None: nothing known.  *)
ControlCovered(q) ==
  /\ saved.online # Never /\ saved.last # Never
  /\ saved.online <= quakes[q].at /\ quakes[q].at <= saved.last + Stale
  /\ \A d \in DownIntervals : ~(d.from <= quakes[q].at /\ quakes[q].at <= d.to)
  /\ ControlFresh(q)

(* mac_captures: the alerts in the lab's log.                               *)
MacCaptures == log.captured

(* receivers: the control's "until".                                        *)
Retired(q) == quakes[q].at > RetiredAt

(* classify: captured_by, for the control.                                  *)
Control(q) ==
  IF Retired(q) THEN "none"
  ELSE IF q \in MacCaptures THEN "captured"
  ELSE IF ControlCovered(q) THEN "silent" ELSE "none"

(* miss_cause *)
MissCause(q) ==
  LET miss == quakes[q].miss
  IN CASE miss.aws = "down" -> "DOWN"
       [] miss.aws # "down" /\ miss.partner = "captured" -> "PAIR_CAPTURED"
       [] miss.aws # "down" /\ miss.partner = "silent" -> "PAIR_SILENT"
       [] miss.aws # "down" /\ miss.partner = "none" ->
            CASE Control(q) = "captured" -> "CONTROL_CAPTURED"
              [] Control(q) = "silent" -> "GOOGLE_SILENT"
              [] Control(q) = "none" -> IF miss.explained THEN "EXPLAINED" ELSE "UNEXPLAINED"

FailingCauses == {"DOWN", "CONTROL_CAPTURED", "PAIR_CAPTURED", "UNEXPLAINED"}

(* classify, for a receptor within the radius that had no early alert.      *)
Verdict(q) == IF quakes[q].miss.late THEN "UPDATE_ONLY" ELSE "MISS"

Fails(q) == Verdict(q) = "UPDATE_ONLY" \/ MissCause(q) \in FailingCauses

-----------------------------------------------------------------------------
Paired(q) == quakes[q].miss.partner # "none"

(* An alert that the control wrote down, and a loop that read its file has  *)
(* passed since, fails the receptor that missed it: however the lab died    *)
(* between the log and the state file, or the file was wiped afterwards.    *)
(* Known exception: a wiped file that outgrows the old count between two    *)
(* polls (poll_devices' EVIDENCE_RESET does not see it).                    *)
NoCaptureLost ==
  \A q \in DOMAIN quakes :
    /\ /\ pc = "canary" /\ up /\ ~outgrown /\ mem.of = wipes
       /\ mem.seen = Len(file) /\ Contains(file, q)
       => q \in log.captured
    /\ q \in log.captured /\ ~Paired(q) /\ ~Retired(q) => Fails(q)

(* The control's silence excuses a miss only if the control was there to    *)
(* hear: it answered at the time of the quake, or had been silent for Stale *)
(* at most, or the lab was away in that silence. Known exceptions: a        *)
(* control that never answered counts from the first poll on (poll_devices  *)
(* sets online_since before it asks), and the lab's own absence, with the   *)
(* control gone too, is not an outage in its log.                           *)
SilenceIsEvidence ==
  \A q \in DOMAIN quakes :
    LET quake == quakes[q] IN
    MissCause(q) = "GOOGLE_SILENT" /\ quake.heard # Never
      => quake.at - quake.heard <= Stale \/ \E t \in away : quake.heard <= t /\ t <= quake.at

(* A listener that stopped is told within three canaries of the first time  *)
(* that its file was read, and again with each canary: whatever failed      *)
(* since then, polls, reads or the lab, unless a canary was spoiled in the  *)
(* last CanaryEvery loops. A read that the lab forgets, because it dies     *)
(* before the save, does not count: the canary's return that it found is    *)
(* found again later, and taken for a new one. Known exception: a control   *)
(* to which the canary could not be posted is not looked at (`fired`).      *)
DeadListenerIsTold ==
  /\ pc \in {"save", "sleep"} /\ spoiled + CanaryEvery <= clock
  /\ deaf.mem # Never /\ deaf.mem + 3 * CanaryEvery <= clock
  => \E i \in DOMAIN log.told : log.told[i].what = "rota" /\ log.told[i].at + CanaryEvery > clock

=============================================================================
