# Verification of earthquake-alert

TLA+ models of the earthquake alert relay, the TLC runs that check them and the
theorems TLAPS proves about them. Everything is translated from `src/`; a definition
carries the name of the code it stands for where TLA+ allows it, and `PROJECT.json`
gives the lines of each one.

## The system

A receptor is an Android phone (or emulator) that gets Android's own earthquake alerts.
A listener app on it reads the notification and posts a signed event to the gateway,
one Node process, which pushes it to the iPhones (APNs) and browsers (web push) that
follow that receptor. Around it: a host watcher per receptor, a monitor that certifies
the service from outside, an iOS app that keeps the phone's registration right, and the
scripts that deploy all this.

| Component | State it keeps | Operations | What is hard |
|---|---|---|---|
| Gateway, JSON files (`createJsonFile`) | the data in memory, `file`, `file.tmp`, the running and the queued write | `persist` | callers share a write that may fail or be cut by a crash |
| Gateway, alert fan-out | `seen`, `notifiedQuakes`, `degradedSince`, alerts on their way (memory only) | `POST /events`, `deliverAlert`, rounds of sends, cleanup | two alerts of one quake, retries against registrations that change, answers that come late |
| Gateway, coverage announcements | `coverage.json`, `coverage_told` of each device | the check every minute, the notice on registering | a check and registrations interleave; pushes, saves and the process fail |
| Gateway, heartbeats and health | `heartbeats.json`, two clocks per sensor, `reportedSilent` | `POST /heartbeat`, `sensorHealth`, the silent report | saved without waiting; a dead reporter must turn the sensor red |
| Gateway, devices | `devices.json` | `POST`/`DELETE /devices`, telemetry switch, cleanup, "no coverage yet" | answers promise what is on disk |
| Gateway, web subscriptions | `subscriptions.json` | `POST /subscribe`, cleanup | moved browsers, the limit |
| Gateway, tests, bursts, arrivals | `lastTestPushAt`, `burstsRunning`, `telemetrySeen`, `telemetry.ndjson` | `POST /devices/test`, `/probe/apns-burst`, `/telemetry/arrivals` | overlapping uploads, pacing |
| Gateway, monitor API | `evidence.ndjson` | `GET /evidence`, `/telemetry`, `POST /probe` | paging by time while lines are appended |
| Android listener | a single-thread executor, the notifications on screen | capture, forward with retries, replay on connect | process death, rebinds, deadlines |
| iOS client (RelayCore, AppModel) | stored token, stored subscription, pending work | register, unregister, sync, withdraw consent | a reentrant actor, overlapping POST and DELETE |
| iOS arrivals | the push log, the upload watermark | notification extension appends, app uploads | two processes rewrite one file |
| Sensor health agent (`sensor-health.py`, `aea-geofix.py`) | `sensor-health-state.json`, saved at the end of each run | read Play Services and the event log, report, reboot, nudge | runs that die, one file for all the receptors of a host, evidence that rolls out of the log |
| Monitor (`monitor.py`) | `state.json`, and append-only `health`, `evidence` and `live-alerts` files | a step a minute: health, live notices, evidence pages, findings, the day's certificate, save | exceptions and deaths inside a step, told once, days that end while it is off |
| Certifier (`verify.py`) | none: functions of the files | restart and intervention windows, coverage of a day, cause of a miss, verdict | which outage a deploy excuses |
| Lab (`lab.py`) | `lab-state.json`, `lab-log.jsonl` | poll the control devices, canary, notices | log and state file are written at different times; the control can be gone, deaf or wiped |
| Deploy (`remote.sh`) and infrastructure | the live and previous directories | swap, restart, roll back | a deploy that dies half way |
| Web pages, fixture app, placement script | | | none of their own |

How they interact. The listener calls the gateway (`/events`, `/heartbeat`) and takes a 202
as "done", although the pushes are only sent afterwards. The watcher calls `/heartbeat` with
`aea_ok`. Phones and browsers call `/devices` and `/subscribe`, and are called back through
the push services, whose answers (2xx, gone, retryable, refused) make the gateway remove
registrations. `sensor-health.py` is that watcher. The monitor reads `/status` and `/evidence`, and the lab's files for the
control; `remote.sh` writes the DEPLOY lines the certifier excuses restarts by. Inside the gateway everything runs in one event loop: between two `await`s a
handler is atomic, so the interleavings that matter are those at the awaits: a save, a push, a
back-off, `setImmediate`, the timer. All memory but the four JSON files is lost at a restart.
The Python programs are single loops: what interleaves with them is the world they read and the death of the process.

What makes each part correct, in one line each:

* JSON files: what was answered as saved is on disk and stays; a crash finds a whole file.
* Fan-out: one ring per quake and phone, no event id or claim used up for nothing, nobody's live
  registration cleaned up, every accepted alert ends.
* Coverage: news alternate, a lasting loss reaches its phones, and nobody told "lost" is forgotten.
* Heartbeats: green means that both reporters were heard in time.
* Devices: an answered registration or opt-in holds through crashes.
* Relay path: a gateway process takes a warning in once, and a sensor that sees a young warning has sent it,
  is sending it or has tried in vain.
* Sensor health: "ok" is only said of a location AEA really holds, reboots keep their spacing, a nudge counts only if the
  trip was made and does not leave the receptor off its site, and a receptor that lost its location gets one again.
* Monitor: an outage or failure is told, once; no line of the gateway's evidence is skipped; a day that ended is certified.
* Certifier: a deploy excuses what its own restart takes, an unexcused outage fails the day, a certified day was served.
* Lab: a captured alert is not lost, the control's silence is evidence only while it was there to hear, and a deaf control is told.

## The modules

| Module | Models | Checked by |
|---|---|---|
| `DurableStore` | what a JSON file promises: memory, durable copy, a promise per change | refinement target |
| `JsonFile` | `createJsonFile`: temporary file, rename, running and queued write, failures, crashes | `persistence`, proved in `PersistenceProofs` |
| `AlertFanout` | `handleEvent`, `claimQuake`, `deliverAlert`, `sendAllWithRetry`, cleanup, `POST /subscribe` with its limit, `updateDegraded` | `alert_quake`, `alert_rounds`, `alert_sandbox`, proved in `AlertFanoutProofs` |
| `Coverage` | `announceCoverageChanges`, `tellCoverage`, `tellNewDeviceAboutLostCoverage`, the saves | `coverage`, proved in `CoverageProofs` |
| `RelayPath` | `CaptureService`, `Forwarder.relay`, and `handleEvent`'s expiry and dedup | `relay_path`, proved in `RelayPathProofs` |
| `Heartbeats` | `handleHeartbeat`, `sensorHealth`, `reportSilentPublicSensors` | `persistence`, proved in `PersistenceProofs` |
| `Devices` | `/devices`, telemetry switch, cleanup, `tellNoCoverageYet`, over the file | `devices`, proved in `DevicesProofs` |
| `SensorHealth` | a run of `sensor-health.py` over one receptor, `aea-geofix.py`, and the guest: boots, Play Services' fix, AEA's copy | `sensor_health`, proved in `SensorHealthProofs` |
| `Monitor` | a step of `monitor.py`, and the gateway's `recordEvidence` and `handleEvidence` | `monitor`, proved in `MonitorProofs` |
| `Certificate` | `restart_windows`, `planned_deploys`, `intervention_windows`, `coverage_stats` and `verdict` over any history of a day | `certificate`, `certificate_deploy`, proved in `VerifyProofs` |
| `ControlFleet` | the loop of `lab.py` for a control, and what `verify.py` makes of it: `mac_down_intervals`, `coverage_lookup`, `mac_captures`, `miss_cause` | `control_fleet`, proved in `VerifyProofs` |

`MC*` modules give the constants their values. Operators marked "Slip" are not part of the specifications: each is the code with one plausible mistake, and
substituting it makes a run fail, which shows that the property it is listed with can see it.

### JsonFile and DurableStore

A store's contents are the set of changes made to it. A handler changes the data and calls
`persist()` in one turn of the event loop, so this is one action, `Persist(c)`; it either starts
a write (`PersistNow`) or joins the single queued one (`PersistQueued`), which takes its
snapshot only when it starts (`StartQueued`). A write tears the temporary file, fills it
(`TmpWritten`) and renames it (`Renamed`); it may fail at either step (`WriteFails`), and the
process may die between any two (`Restart`). A caller that was refused, or whose process died,
may ask again. `DurableStore` says the same without files: changes, saves of some state
between the durable one and the memory, refusals and restarts. `ImplementsStore` maps `disk` to
the file's contents and the two kinds of waiting to one.

### AlertFanout

State: the registrations and subscriptions, `seen`, the claims of `notifiedQuakes`, per event
where it is in `deliverAlert`, per event and channel its `sendAllWithRetry` (what is left of
the round, what is in flight and with which APNs host, the last result of each recipient, the
round), `degraded`, and what the outside is: which recipients are alive, how often each rang.

`Accept` remembers the id and answers; `Deliver` is the `setImmediate` turn that picks the
recipients, claims the quake for each phone and starts both channels. `Send` looks the APNs
host up as `sendApns` does, at send time. `Answer` is nondeterministic over what the services can
say: a token sent to the other APNs environment is a `BadDeviceToken` (counted as gone), a dead
recipient is gone, the rest are delivered, passing or rejected. `NextRound` and `Finish` are the
end of a round; `Finish` releases claims and cleans up; `Record` runs `updateDegraded` when both
channels have ended. `Subscribe` and `SubscribeRefused` are `subscriptions.add`: the browser's own
subscription leaves the count first. `strayed` is history: the phones a job pushed to on the APNs that does not know their token.

Abstractions: statuses are the four classes the code tells apart; magnitudes are one class of
weak events; time is a clock of a few steps; a phone may re-register, leave, or die at any
moment. `rings` counts acknowledged pushes: a push that timed out may also have been delivered,
and `apns-collapse-id` is what hides the copy; that belongs to Apple. Saving a registration is
`Devices`' matter. Canary events, dry run, the provider token's refresh, the session pool and the
text of the messages are left out.

### Coverage

One sensor, both channels (sensors do not interact: the check takes them one after the other).
Health is `works` (heartbeats, external), `degraded` and the kill switch. The check reads health
and recipients in one turn, then per channel saves the new announced state and pushes. APNs
recipients depend on `coverage_told`, which is set only after the pushes were answered; the
notice on registering runs the same code beside it. Registrations wait for their save, and go
on with the sensors they named even if the phone has moved since. A push is one step with its
final outcome. `announcedDisk` and `phonesDisk` are what a restart reads.

`excused`, `cut` and `lastNews` are history: they name exactly the situations in which the
properties are not claimed (see "known exceptions"). A phone stops being excused when it
registers again in quiet times (no check running, APNs not announced down) with nothing left of
its past: not remembered as told "lost", no notice on its way, no registration pending.

### RelayPath

What leads up to `AlertFanout`'s `Accept`. State of the sensor phone: the warnings on screen, whether the
listener is bound, the sender's queue with the attempts made for its first event, and the attempt
under way; of the network: requests whose sender stopped waiting; of the gateway: `seen` and the kill switch.
An event's id is the alert with the quake's time or, when Google leaves that out, the notification's; the same
time is what `originOf` reads. So a repost of a warning without the quake's time has a new id, and the
properties are per id.

`OnNotificationPosted` captures and queues in one step, `OnListenerConnected` replays what is on screen
and young, `Die` empties queue and thread. `Post`, `GiveUp`, `Succeed` and `Fail` are the loop over
`RETRY_BACKOFF_MS`; `Fail` is any other answer, a broken connection or the read timeout, after which the
request may still arrive (`strays`). The gateway's four answers are the ways through `handleEvent`.

Abstractions: both sides share one clock that does not jump; a wrong secret (401), rate limits, canaries and an
unknown sensor are configuration and left out; a request that never arrives is one whose step is never taken. A
stray arrives at whichever gateway process runs. An old warning that turns into the update Google sends minutes
later is a `Dismiss`, as no sensor relays that channel.

### Heartbeats

Per sensor the listener's beat and the watcher's report, in memory and in `heartbeats.json`;
saving is not waited for, so `Saved` may come late or never before a crash. `lastBeat` and
`lastReport` are what was really heard. `BeatsInit`, `BeatsNext` and the like have their prefix because
`PersistenceProofs` reads this module together with `JsonFile`; `DayInit` of `Certificate` is told apart from `ControlFleet`'s in the same way.

### Devices

The devices file is used as `JsonFile` shows it to behave: a write takes its snapshot when it
starts, one runs at a time, later callers share the next. Calls are numbered so that an answer is
credited to the call that waits for it; `promised` and `telemetry` hold what the app and the
monitor were last answered, as long as they have asked nothing since.

### SensorHealth

The guest is its uptime, the place its console points GPS to, Play Services' fix and AEA's copy, each with
an age; `file` is the state file, `state` what the run has loaded, `row` what its check read. The steps of a run
are those of `check_all`: `StartRun` (load), `GeoFix`, `Check`, `Repair` (`reboot_if_stuck`), `Report`, `NudgeStep`,
`EndRun` (save by rename), with `OthersRow` for the other receptors of the host, which share `last_host_reboot`.
`Die` may end a run anywhere, also before it was started. Between two runs the world moves: Play Services takes
a fix once per boot (or all the time with GpsKeeper), AEA is handed the first fix of a boot and then only a move,
`aea-geofix.py` feeds the site early in a boot, and the guest may boot on its own.

Abstractions: ages stop growing at `Cap`, above every threshold; time goes in half periods of the timer, because
the code compares stamps taken in different steps, which are never equal; a place is the site, the far end of a
nudge or the emulator's default. Whatever disturbs (a boot, a death, a command that fails, an unreadable guest, an alert in
progress, a `geo fix` of a run or inside `nudge_step`, which fails without a word) spends from a bounded number; a log that rolled is free. Play Services and AEA are external, modelled from what the
script's comments and parsing take them to do. Two of the properties speak about history (`ownReal`, `hostReal`, `trip`,
`away`), which no action reads. `forgot` notes that the run that ordered a reboot died before it saved: nothing the code has
could tell the next run.

### Monitor

One receptor, whose state at each minute is arbitrary; the gateway's evidence file grows beside it, and a line may be
appended a minute after it was stamped. A step is `Poll`, `Notices` (`live_coverage_notices` over the tail of the
records), pages of evidence (`FetchPage`, `PagesDone`), `Verdicts`, `Certificate`, `Save`. What is appended is durable at
once; `mem` is lost when the process dies and `saved` is what it starts with again. An exception in the evidence job
ends the job, anywhere else the step; neither ends the loop. The tail is the last `TailLength` records. `lost` and `passed` are history.

Abstractions: every copied record stands for one failing finding; the catalogs, the location and clock polls and the text are
left out, and so is an append to the monitor's own log that fails after `uncovered` or `notified` was set (`monitor.py:738-741`, `:764-765`). Records are appended around the pages only: elsewhere their order with the monitor's steps makes no difference.

### Certificate

The history is what varies: a health record or none each minute, with the receptors it saw covered and the gateway's
`started_at`; crashes, restarts, deploys, rollbacks, declared work. Each start of the gateway reads `sensors.json`
(`names`), a record names what was listed then, and `coverage_stats` skips a receptor in the records that do not name it. The certificate is a function of it, written as the
code computes it, and may be asked for at any moment of the day. `deploys` is history: which restart was really a deploy's, and whether it
was rolled back. `Decision` is the certificate of the day so far.
Only the coverage side of `verdict` is modelled; quakes are `ControlFleet`'s. Minutes are whole: the seconds
between a DEPLOY line and its restart are at most one step.

### ControlFleet

The control answers or not, and its listener works or not; its evidence file can be wiped. `PollOffline`, `PollOnline` and
`PollUnread` are the three ways through `poll_devices`, `RunCanary` is `run_canary`, in three ways: `NoCanary` when none is due,
`CanaryPosted`, and `CanarySpoiled` when the control is away or the second `device_online` or the broadcast fails, so that the control is not in `fired` and its last
canary not looked at; `Save` the end of the loop; what is found is
logged at once, so a death in between leaves log and state file apart. On the reader's side `MissCause` is `miss_cause`, with what
the control cannot influence (the receptor's own coverage, a canary pair's partner, freshness, other explanations, a late notice,
when the control's location was read) taken from a small set. `Verdict` and `Fails` are what `classify` makes of it; `Retired` is the end
of the control's own term. `heard`, `away`, `wipes`, `outgrown`, `deaf` (when the file of a listener
that stopped was first read, by the process and as the state file knows it) and `spoiled` are history.

## The runs

| Run | Instance | Shows |
|---|---|---|
| `persistence` | a file with 3 callers, 2 failures, 2 crashes; beside it the heartbeats of 1 sensor, 4 clock steps, 2 restarts; 43 thousand states | `Durable`, `ImplementsStore`, `WorksIsFresh`; under fairness `RetriesSucceed` |
| `alert_quake` | 2 sensors, 1 phone, 2 events one window apart, one of them weak, 2 rounds, 6 clock steps, 2 client calls, 1 restart, 2 million states | `OneRingPerQuake`, `ClaimsAreBacked` |
| `alert_rounds` | 1 development phone, 2 browsers with room for 1, a phone and a browser may die, 3 client calls, 2 rounds, 1 restart, 0.3 million states | `NoLiveRegistrationDropped`, and under fairness `AlertsEnd` |
| `alert_sandbox` | the same with 1 browser | violated: `SandboxTokenKept` |
| `coverage` | 1 phone, 2 registrations, 2 changes of health, 1 restart, pushes and saves may fail | `NobodyLeftBehind`, `NewsAlternates`; under fairness `LossReachesPhones` |
| `devices` | 2 phones and room for 1, 5 calls, 1 failed write, 1 crash | `RegisteredIsKept`, `TelemetryIsKept` |
| `relay_path` | 2 warnings, one of them with the quake's time, 2 posts, 2 attempts, 1 break of the listener, any number of gateway restarts, 4 clock steps, 0.9 million states | `AcceptedOncePerProcess`, `YoungWarningsAreHeld` |
| `sensor_health` | 1 receptor with and without GpsKeeper, 2 disturbances, ages up to 11 half periods, 0.6 million states | `OkIsTrue`, `AwayBriefly`, `TripConfirmedIsMade`, `RebootsSpaced`; under fairness `UsableAgain` |
| `monitor` | 5 minutes in days of 2, 2 evidence records, pages of 1, 2 pages a poll, a tail of 3 records, 1 disturbance, 6 million states | `ToldOncePerOutage`, `LongOutageIsTold`, `NoEvidenceSkipped`, `FailuresToldOnce`, `DayIsCertified` |
| `certificate` | 1 public receptor, 1 canary, `sensors.json` lists both or the canary alone, a day of 4 minutes, 2 events, 1 million states | `ExcusedByItsDeploy`, `OutageFailsTheDay`, `CertifiedDayWasServed` |
| `certificate_deploy` | the same with a day of 5 and a shorter restart | violated: `DeployExcusesItsRestartOnly` |
| `control_fleet` | 1 control, 1 quake, 7 loops, 3 disturbances, 10 million states | `NoCaptureLost`, `SilenceIsEvidence`, `DeadListenerIsTold` |

Each run but `alert_rounds` and the violated ones also checks `TypeOK` (`DayTypeOK` in `certificate`). In `persistence` a behaviour is of the file or of
the heartbeats, while the other part rests: the two do not touch.

Why the bounds are enough to be interesting.

* `persistence`: with three callers one can hold the running write, one the queued one and one can
  arrive in between; the second failure or crash hits what was repaired after the first. For the heartbeats a window of one step
  and four steps of clock let a sensor go stale and return before, between and after the restarts; no sensor's beats touch another's.
* `alert_quake`: the property is about pairs of events, so two suffice; the clock runs past
  `SEEN_TTL_MS` (5 steps), so ids and claims are pruned, an id is accepted again, and an event may
  expire during the rounds. With two rounds every item is tried, retried and given up. Two calls are a registration and a move,
  or a registration and a deletion, at any point of the alerts.
* `alert_rounds`: three calls are a registration, a deletion and a new
  registration, which is what a late answer can hurt, for a token that only the development APNs knows; or two subscriptions,
  the second of which is refused or moves the first. The theorem is for any number of phones, tokens of both kinds and any limit.
* `coverage`: two changes of health make the sensor fail and recover (or two channels fail); two
  registrations let one overtake the other's save and notice; the restart can strike between any
  two steps. The run leaves the kill switch off: with both settings the same properties hold on
  the same instance (1.4 million states), which takes minutes rather than seconds.
* `devices`: five calls allow register, opt in, remove, register again and one more while a
  write runs; a limit below the number of phones makes it bite.
* `relay_path`: two posts are two warnings, or one and its repost; the second can be queued behind the
  first one's attempts. A step is about three minutes, so an event expires by its capture or by its quake, and the last step is
  after the id is forgotten. One break is an unbind, a death or a reboot at any point. The theorem
  removes these bounds.
* `sensor_health`: time has no end, ages only stop growing past the largest threshold. The thresholds keep the order they have in the code
  (leg and boot window, nudge, retries, reboot spacing, the age that is a problem) within nine half periods. Two
  disturbances are a death on top of a boot, or a failed command and then an unsaved run. The theorems remove these bounds for
  all four safety properties.
* `monitor`: five minutes cover three days' beginnings and an outage that passes both thresholds, ends and begins again. Two
  records with pages of one are what a cursor can jump over, and one may be stamped before the cursor and appended
  after. The tail is shorter than the run, so that an outage outlives it, as one of more than 24 hours does.
* `certificate`: the first minute lies before the day, so windows reach into it; four minutes hold an outage
  longer than `FailMin` and a remainder; two events are a crash and a deploy, a deploy and its rollback, two
  restarts, or work beside one of these. A restart can change what is listed. A public receptor and a canary are the two cases of `verdict`. Three events take
  six minutes instead of one and pass as well; it was there that `ExcusedByItsDeploy`, as it was first stated, turned out to need
  `Spaced`. The theorems remove these bounds.
* `control_fleet`: seven loops are past three canaries and past `MAC_RETIRED_AT`; three disturbances are an outage, its end and a death, or a
  listener that stops, with a canary that cannot be posted, a wipe or an unreadable file. The miss is of a receptor alone: no property speaks of a canary pair's.
  The theorems remove these bounds, and hold for the misses of pairs too.

Deadlock checking is off where the instance really stops (all calls made, clock at its end, all
pushes ended, the last minute gone). `coverage` and `sensor_health` keep it on: their world never stops.

### Fairness

* `JsonFile`: the file system answers every call (failing is an answer) and the event loop runs
  what is ready. `RetriesSucceed` also takes callers to ask again after an error, as the app's next
  registration and a sensor's next heartbeat do; failures are bounded.
* `AlertFanout`: the event loop runs every ready callback, and every push is answered or
  cancelled after `PUSH_TIMEOUT_MS`; so each job makes progress while it can. Nothing is assumed of
  sensors, phones or the clock.
* `SensorHealth`: the timer fires, time passes, and a run's steps follow each other (weak fairness); Play Services
  takes a fix, and hands it to AEA, if it is offered one again and again (strong fairness: a boot or a run may come between). Without that
  no nudge could ever work. Deaths, reboots and failures are never forced, and there are finitely many: with
  unlimited ones no receptor can be promised to recover.
* `Coverage`: `setInterval` fires, the grace ends, pushes and saves end one way or the other. How
  they end is never assumed.

## What is proved

Checked by TLAPS for every value of the constants (any callers, sensors, windows, numbers of
failures and crashes).

`PersistenceProofs`, on the JSON file from `BoundsAssumption` only. The inductive invariant `IInv` adds to `TypeOK` and
`FileWhole`: `WriteBetween` (the file is included in the snapshot of the write in progress, which
is included in the memory; before the rename, the temporary file is that snapshot) and
`PromiseTells` (a "running" caller's change is in the snapshot, a "queued" one's in the memory with a
write promised, a resolved one's in the file). `Durable` alone is not inductive: that a caller
resolved by `Renamed` has its change in the file follows only from what was known when the write
started. From `IInv`: `TypeCorrect`, `ResolvedIsDurable`, `CrashLeavesWholeFile`,
`NeverGoesBack` (an action property) and `FileImplementsStore`, the refinement: `Persist` is
`Change`, `Renamed` is `Save`, `WriteFails` is `Refuse`, `Restart` is `Restart`, the rest stutters.

`AlertFanoutProofs`, from `FanoutAssumption` (an id is remembered for longer than an origin may lie ahead, the window
of one quake and the life of an alert together, as 15 minutes are). `OneRing` and `NoIdleClaim` share an invariant. `SoundJob`: an item of a round is to be sent, or in
flight once, or has its result, so a ring is a result "delivered" and retries cannot double it (`Counted`). `Remembered`: an
event accepted in this life of the process is in `seen`, or too old to come again. `Claimed` and `Backed` tie claims to alerts in both directions.
The property is about two events, so the step that matters is a phone that is claimed for the second: `Exclusive` says that two alerts of
one quake have a phone in common only when the quake is over, and then one of them has not reached it. Claims are pruned by age, which
is why it must speak of the time. `FanoutTyped` comes first; `CleanupSparesTheLiving` is an action property with an
invariant of its own, for phones of both environments: every push in flight is with the host that was recorded for it, one that went to the other APNs is in `strayed`,
and a recipient that is "gone" is dead or in `strayed`. For the limit, `WithinLimit`: subscriptions never exceed it, so a browser that is refused had none to
lose (`RefusedHadNone`).

`CoverageProofs`, from `CoverageAssumption`. `WhoIsToldLostIsToldRestored` is `NobodyLeftBehind`, which speaks of quiet times only; what makes it
inductive is what a check knows while it waits. `NobodyMissed`: a phone that is owed "restored" is among those the running check read,
and then among those it sends to or has reached, although phones register and move in between. `TellsFollowers`: those it sends to
followed the sensor when it began. `AnnouncedFirst`: the announced state is saved before the push. `Squared`: with APNs up and no news on
the way nobody is owed any. `NoticesExcuse`: the notice on registering is sent only to phones that the property excepts. `TakesTurns` is for the action property
`LossesAndRecoveriesAlternate`: but for a save that failed or a death before the push, memory, disk and last news of a channel agree.

`DevicesProofs`, from `DevicesAssumption`. `AnsweredRegistrationIsKept` and `AnsweredTelemetryIsKept`: `Kept` says that what was answered holds
in memory, in the file and in the write that will replace the file; `Coming` says the same of what will be answered, in memory
and in the write that answers it, as long as nothing newer was asked. Without `Coming` nothing is known at the moment of an answer.
`DevicesTyped` needs `OneNoticePerCall`, a count of the calls that wait.

`PersistenceProofs`, on the heartbeats from `HeartbeatsAssumption`. `GreenIsFresh`: a sensor that counts as working was
really heard by listener and watcher within the window. `BeatsIInv` says that what memory and file
hold of a sensor is never newer than what was heard, and never in the future; the file must be
part of it, as a crash brings it back.

`RelayPathProofs`, from `RelayAssumption` (an id is remembered at least as long as an alert may be accepted after
its quake). `OnceUnlessForgotten`: a gateway process takes each id in at most once. Alone it is not
inductive; `IInv` adds that every event, in the queue or on the wire, is named after a time that
has passed (`Sent`), and that an id taken in is still in `seen`, or so old that every copy has
expired (`Remembered`): pruning goes by when the id was accepted, expiry by when the quake was, and acceptance
is never before the quake. `RelayTyped` comes from the same invariant. `NoYoungWarningLeftBehind` has its own: `Honest`
says that an id in `seen`, or one just answered with a 2xx, was taken in; that a replay queues every young warning needs
that a finite set can be put into a sequence.

`SensorHealthProofs`, from `SensorHealthAssumption` (natural thresholds, all below `Cap`). `ReportedOkIsTrue` and
`RebootsAreSpaced` share one invariant. `Remembers`: a delivery that the state file still counts for this boot is no younger than
the location AEA really holds. It must hold of the file as well as of the loaded state, and through boots that no run has seen
yet: that a remembered age is compared with the uptime is what makes it true. `Spaced`: what is written of the last reboots
is never older than what is real, unless `forgot` says why. `RowIsTrue` is `OkIsTrue` with the problem that was read.
`AgentTyped` comes first: ages may be None, and the arithmetic needs to know when they are not.

`ConfirmedTripsWereMade` is an action property, under `AgesReach`: ages are told apart for as long as a way out can last, which is a leg
and a period for each run that can be lost. The code's ages are seconds without a bound, so this is a condition on `Cap` only. A way
out that is remembered was made, or is older than the boot, or AEA still has what it had when it began (`Grounded`); a run confirms
by comparing these ages. That needs the length of a way out (`LegEnds`).

`AwayOnlyBriefly` is `AwayBriefly` under `LegIsPeriods`: a leg is a whole number of the timer's periods (15 minutes are three of 5).
Runs see ages at whole periods, and a leg that ended between two of them would last until the later one. `Short` bounds a way out by the
runs that were lost, and keeps that its age is even at a run; `LeftNorth` bounds the stay of a receptor whose leg was dropped
until the next geo fix.

`MonitorProofs`, from `MonitorAssumption`. The invariant has one part per theorem. `EvidenceKept`: every cursor
(the page's, the memory's and the file's, in this order) is past only what was copied or came late; a lemma about
`Page` says that a page takes everything below the stamp it goes on from, for any page size, which needs the library's facts
about finite sets. `ToldKept`: what is remembered as told was told, and what was told and is not remembered was lost at a
noted time. `DaysKept`: the file's day is the last that passed, and memory is ahead of it only with the day in
between certified. From these: `EvidenceIsRead`, `FailuresAreToldOnce`, `DaysAreCertified`, and `MonitorTyped`.
`OutagesAreToldOnce` and `LongOutagesAreTold` need that the records are in order (`InOrder`). Their invariant relates the last outage of the tail, which the code
computes anew each time, to the notices kept for its beginning: as long as the outage has not outlived the tail, its beginning is where the records say it is
(`SinceOf`). The properties themselves except an outage longer than the tail (`OutlivesTail`).

`VerifyProofs`, on the control, from `ControlFleetAssumption` (which says that the canary's own notification is no quake). `TypeOK` bounds what
was counted of the file by the loops that ran, and is not inductive: `FitsRoom` bounds the file and both counts of it by the canaries and quakes
that there were, `CountsOnce` the wipes by the disturbances. `CapturesAreKept` needs `AllRead`: what memory or state file has counted of the file as
it is now was logged. `SilenceCounts` relates things that change in different steps: when the
control was last there (`heard`), the lab's memory and its file, the notices in the log, and the intervals that `verify.py` makes of
them. `OutageTold`: an outage longer than the limit is known, and one that is known and was not interrupted is the last thing told.
`UnheardIsTold`: a quake that the control was gone for lies in a told outage that ended after it, or goes on and is known in memory and
file, so that no later poll tells it again and cuts it. `AllInTime`: no stamp is of the future. `SpanIsDown`: such an outage is
one of `DownIntervals`. `DeafListenersAreTold` needs `DeafIsTold`, for memory and file: since the dead listener's file was first read no
canary came back, and one that was posted late enough and looked at was told (`DeafSince`); and the last one is less than a period old (`FiredLately`).

`VerifyProofs`, on the certificate, from `CertificateAssumption`. One invariant, `History`, says what the records, lines and deploys that
the certificate reads have to do with each other. `RecordsGrow`: minutes go up. `StartsGrow`: `started_at` never goes back, and where two answers differ
the gateway started in between. `DeploysRestart`: a deploy parts the answers into those that name an earlier start and those that name its own or
a later one. `LinesAreDeploys`: each deploy's line has a deploy of its own, in order, and one that was taken back has its rollback's line in time.
The rest is about the functions of `verify.py`. `LinesTaken`: whatever the history, only restarts take lines, none is taken twice, and a
restart that a line fits takes it or an earlier one, unless an earlier restart did. `DeployOf` is a recursive
function over the records, and induction is a least counterexample (`TakenExists`, `LinesTaken`).
`DeploysExcuseTheirOwn` is `ExcusedByItsDeploy`; its third part, `LineIsTakenAtOnce`, finds the first answer after a deploy, shows
that it is a restart, and that the line is gone with it. `OutagesFailTheDay` has both directions: a gap is a run of uncovered minutes (`LongestGaps`), and
where no deploy stands no line is left that could excuse one (`NothingExcused`). `CertifiedDaysWereServed` counts: what was seen
of the day is covered, uncovered, excused, or in a record that does not name the receptor. `CertificateTyped` says that a window does not end before it begins.

Only model-checked:

* What needs fairness, which TLAPS does not reason about: `RetriesSucceed`, `AlertsEnd`, `LossReachesPhones`, `UsableAgain`.

## Findings

Two statements of the repository have a run that refutes them.

**A deploy excuses the outage before it** (`certificate_deploy`). `verify.py:254-255` says of a restart's blind time
"at most this long is blamed on the restart, not on the receiver". `restart_windows` (`:296`) begins the window at the last
record with sensors before the restart. A gateway that is down gives none, so the deploy that brings it back excuses
the whole outage: two hours down and then a deploy leave no uncovered minute for the verdict. The shortest trace: a crash, three minutes
without an answer, a deploy.

**A development phone can lose its new registration** (`alert_sandbox`). `ios-contract.md:33-34` says that a sandbox token "is never sent
to production or deleted because of `BadDeviceToken`". `apnsEnvOf` (`server.js:516`) answers
"production" for a token that is not registered, and is asked at each send (`:941`). Delete during an
alert, and the push or retry of a sandbox token goes to production; register again, and the `BadDeviceToken` of that push removes the new
registration when the rounds end (`:1017`). `NoLiveRegistrationDropped` says what still holds, for phones of both kinds: cleanup takes a phone that
works only after such a push.

### Known exceptions

Met while modelling; none has a run of its own, and the properties state them as exceptions
where they touch one. The first five are against what a comment, a test or a document says.

* "Lost" without "restored". The notice on registering (`server.js:1577`) does not mark
  the channel as announced down. If the sensor recovers before a check saw it down, no check has
  anything to announce; `relay-failures.test.js:688` says that each phone hears each change once.
* A 204 for a registration still on disk. A DELETE for a token that is not in
  memory is answered at once (`server.js:1423`), also when the earlier DELETE's write failed: nothing writes the file again, and
  a restart brings the registration back (`ios-contract.md:111`: "so the app can retry safely").
* An outage longer than the tail is told again every minute. The notices look at `24 * 60` records, and the outage seems to begin where they do
  (`monitor.py:738-739` against `verify.py:540-541`, "once per outage"). `OutlivesTail` in the monitor's properties.
* A receptor that the records do not name. `coverage_stats` skips a record without it (`verify.py:348-349`), while completeness counts the
  record as seen: one that `sensors.json` lists since the last restart only is certified for the whole day, against "what was not seen cannot be
  certified" (`:245-246`). `Unnamed` in `CertifiedDayWasServed`.
* A deaf control's silence excuses misses before "Cadena rota" is told, and after it too: `coverage_lookup` asks whether the control answered, not
  whether its canary came back (`monitor.py:406`, against `lab.py:347-348`, "su silencio no significa nada").
* Two registrations before the first notice was acknowledged: "Servicio interrumpido" twice
  (`server.js:1164` reads what `:1170` sets later), and in the same way "no coverage yet" twice
  (`:1220`).
* A phone that registers while the sensor is back but still announced down gets no notice; if the
  sensor fails again before the next check, neither the check nor anything else tells it.
* A crash after "down" was saved and before the pushes left: that loss is never pushed.
* A notice noted after a "restored" round leaves the phone remembered as told "lost"; a notice noted
  after the phone left the sensor leaves a mark that is used when it comes back.
* `degradedSince` is written when an alert's rounds end: an older alert that gives up after a newer
  one was delivered leaves the channel degraded until another alert (`server.js:758` says "last").
* A last `aea_ok: false` that was not saved before a crash is lost: the sensor may show green until
  the older report's window ends.
* The comment at `server.js:1538` ("Heartbeats live in memory on purpose") is older than
  `heartbeats.json`: after a restart a sensor with fresh saved reports is covered at once.
* The sensor stops at the first 202, which the gateway sends before any push: a gateway that dies in
  between loses the alert for every phone. `server.js:1084` says that this is on purpose. Two comments in `Forwarder.java` are
  older: "the gateway keeps a failed alert retryable" (`:75`) and the 409 of `:88`, which the gateway never answers.
* A warning refused on all its attempts (a gateway away for more than their 15 to 47 seconds) is not tried again
  until the listener reconnects.
* The comment in `subscriptions.add` (`server.js:488-490`) says that at the limit a phone that moves loses its old sensor and gets a 400. Its own
  subscription is out of the count by then, so it is moved; one that is refused had none to lose. Only a limit that was lowered
  between two starts would do what the comment says, and it is a constant of the code.
* `claimQuake`'s comment lists the races it accepts; the model has the first (a second sensor's alert
  skips a phone whose first push then fails), and `ClaimsAreBacked` is what still holds.
* Sensor health: `adb reboot` is recorded as done although it may have failed. Two other guests of the host that never recover
  take each free slot of its reboots and can starve a third. A run that orders a reboot may also send the receptor north; the next one
  drops that leg, after its geo fix still pointed north. A run whose report fails skips `nudge_step`, so the out leg
  can outlast its 15 minutes. A way back whose run died unsaved can confirm the out leg. A run that
  dies after it ordered a reboot forgets it, and the next one may order another (`forgot`).
* Monitor: while the gateway is down the step ends before the notices. A covered poll whose step raises first loses its
  "restored". An outage across midnight counts per day; `coverage_stats` ends a gap at a minute the monitor could not see, which the
  live notices bridge. An evidence line that the gateway appends after the cursor has passed its stamp is never read (`server.js:684`; `late`).
* A day is certified by the first step of a later day that gets so far. Minutes just before midnight may have no evidence yet, a
  false alert is called so only 24 hours later and is never in an automatic certificate, and a day whose next day had no complete step is certified by none.
* What was told is remembered by the merged event's first id, which can change when another source arrives.
* Certifier: of two deploys within `DEPLOY_BEFORE_START_S` of each other, the first one's restart not seen by a poll, the second restart
  takes the first line, and a restart that nobody ordered takes the second (`Spaced`). A canary that is down holds the windows of the public receptors open too. A deploy shortly after an unplanned restart falls into
  the earlier window and counts. The minute at which a window begins is excused. A DEPLOY line left by a failed run can
  excuse a second restart.
* Lab: when lab and control were both off, the whole time counts as control available once both are back. `online_since` is
  set at the first poll even if the device did not answer. A control to which the canary could not be posted is not looked at until the next one
  (`spoiled`). "Cadena rota" is told falsely after two days off. A wiped file that outgrows the old count between two polls hides its first lines
  (`outgrown`). A death loses `alerted_down`. The Mac fleet is retired (`MAC_RETIRED_AT`); the live controls are the canary pairs, whose other half
  is an input here.

## Not modelled, and why

* Android GPS keeper (as a program: its effect is in `SensorHealth`), boot receiver and evidence log; the fixture app; the web pages; the iOS screens,
  texts, receptor chooser and purchases; `receptor-placement.py` and `translations.py`: no protocol of their own, or
  pure functions of geometry and text.
* Of the monitor: the earthquake catalogs and felt-intensity rules (numbers and text), the push receiver, the location and clock
  polls. Of the lab: the catalog poll, corroboration, the position and clock notices.
* HMAC and signatures, rate limits, HTTP routing, static files.
* HTTP/2 sessions and the provider token: to the fan-out one more passing failure.
* Backup, HTTPS, CloudWatch and bootstrap scripts, and the directory swap of `remote.sh`: shell around cloud services.

## Plan

In this order; each item names what composes with what. `RelayPath` ends where `AlertFanout` begins: the
latter's `Accept` leaves open when and how often events arrive, so it covers whatever the former sends.

1. `TokenLifecycle`: the reentrant actor of the app with `SubscriptionEngine`, `AppModel` and the
   server's set of tokens: withdrawn consent means that no registration stays, overlapping POST and
   DELETE, retries and relaunches.
2. `Arrivals`: the push log of two processes, the uploader's watermark and the gateway's dedup of
   overlapping uploads; with it the burst and the web subscriptions' file.
3. `Deploy`: the swap and rollback of `remote.sh`, composed with `Certificate`; `SensorHealth` composed with `Heartbeats`.
4. Proofs: every safety property that a run checks has its theorem. What is left is to state more: that `JsonFile` under
   `Devices` and `Coverage` is what they assume of it, and `Accept` of `AlertFanout` as the far end of `RelayPath`, each as a refinement.
