---------------------------- MODULE SensorHealth ----------------------------
(***************************************************************************)
(* The agent that runs beside the emulators every five minutes              *)
(* (scripts/sensor-health.py): it keeps a receptor's GPS on its site, tells *)
(* the gateway whether AEA can still alert, reboots a guest whose location  *)
(* Play Services can no longer use, and renews AEA's own copy of the        *)
(* location by moving the receptor 2 km and back.                           *)
(*                                                                          *)
(* One receptor is modelled in detail. The others of its host run the same  *)
(* code and reach it only through the host's last reboot (OthersRow).       *)
(*                                                                          *)
(* Time is kept as ages, which stop growing at Cap, in half periods of the  *)
(* timer: runs and what the world does in between alternate, so that two    *)
(* stamps taken in different steps are never equal.                         *)
(***************************************************************************)
EXTENDS Integers

CONSTANTS
  MaxAge,             \* MAX_LOCATION_AGE_S, 20 h
  NudgeAfter,         \* NUDGE_AFTER_S, 6 h
  UnknownAfter,       \* NUDGE_UNKNOWN_AFTER_UPTIME_S, 30 min
  FailedRetry,        \* NUDGE_RETRY_AFTER_FAILED_S, 2 h
  Leg,                \* NUDGE_LEG_S, 15 min
  BootWindow,         \* BOOT_WINDOW_S, 15 min
  FeedWindow,         \* aea-geofix's BOOT_WINDOW_S, 12 min
  RebootInterval,     \* MIN_REBOOT_INTERVAL_S, 1 h
  HostSpacing,        \* MIN_HOST_REBOOT_SPACING_S, 30 min
  ProblemRuns,        \* PROBLEM_RUNS_BEFORE_REBOOT
  KeeperChoices,      \* whether the guest runs GpsKeeper: the cases to look at
  Cap,                \* bound: ages above it are not told apart
  MaxTrouble          \* bound: disturbances of any kind

Thresholds == {MaxAge, NudgeAfter, UnknownAfter, FailedRetry, 2 * Leg, BootWindow,
               FeedWindow, RebootInterval, HostSpacing}

ASSUME SensorHealthAssumption ==
  /\ Thresholds \cup {Leg, ProblemRuns, Cap, MaxTrouble} \subseteq Nat
  /\ ProblemRuns > 0 /\ \A t \in Thresholds : t < Cap
  /\ KeeperChoices \subseteq BOOLEAN

VARIABLES
  keeper,             \* the guest runs GpsKeeper
  guest,              \* uptime, where the console points GPS, Play Services' fix and AEA's copy
  file,               \* sensor-health-state.json
  pc, state, row,     \* the run: where it is, the loaded state, what its check read
  trouble,            \* disturbances left
  ownReal, hostReal,  \* history: since the last reboot really ordered here, and on the host
  forgot,             \* history: whose last reboot is unknown, as its run died before the save
  away,               \* history: how long of the last nudge GPS has pointed to its north
  trip                \* history: whether AEA was handed a location on the last way out

agent == <<file, pc, state, row>>
history == <<ownReal, hostReal, forgot, away, trip>>
vars == <<keeper, guest, agent, trouble, history>>

-----------------------------------------------------------------------------
None == -1
Age == 0 .. Cap
Grown(age) == IF age < Cap THEN age + 1 ELSE Cap
MaybeGrown(age) == IF age = None THEN None ELSE Grown(age)

(* "far" is the emulator's default, "north" the far end of a nudge.         *)
Place == {"site", "north", "far"}
Location == [place : Place, age : Age]
NoLocation == [place |-> "far", age |-> None]
Known(location) == location.age # None

NoNudge == [phase |-> "none", elapsed |-> 0, outOk |-> FALSE]
Nudge == {NoNudge} \cup [phase : {"out", "back"}, elapsed : Age, outOk : BOOLEAN]
Begun(phase, outOk) == [phase |-> phase, elapsed |-> 0, outOk |-> outOk]

(* The default of rebooted_at and nudge_failed_at is 0, decades ago.        *)
State == [problemRuns : 0 .. ProblemRuns, rebooted : Age, delivered : Age \cup {None},
          nudge : Nudge, failed : Age, host : Age]
FreshState == [problemRuns |-> 0, rebooted |-> Cap, delivered |-> None,
               nudge |-> NoNudge, failed |-> Cap, host |-> Cap]

Problem == {"none", "missing", "drift", "stale"}
Row == [ok : BOOLEAN, problem : Problem, up : Age \cup {None}, age : Age \cup {None},
        source : {"none", "uptime", "remembered", "eventlog"}]
NotRead == [ok |-> FALSE, problem |-> "none", up |-> None, age |-> None, source |-> "none"]

Steps == {"row", "check", "repair", "report", "nudge", "end"}

TypeOK ==
  /\ keeper \in KeeperChoices
  /\ guest \in [up : Age \cup {None}, gps : Place,
                fix : Location \cup {NoLocation}, aea : Location \cup {NoLocation}]
  /\ file \in State /\ state \in State /\ row \in Row
  /\ pc \in Steps \cup {"due", "ran", "world"}
  /\ trouble \in 0 .. MaxTrouble
  /\ ownReal \in Age /\ hostReal \in Age
  /\ forgot \in SUBSET {"own", "host"} /\ away \in Age /\ trip \in {"none", "begun", "made"}

Booted(gps) == [up |-> 0, gps |-> gps, fix |-> NoLocation, aea |-> NoLocation]

Init ==
  /\ keeper \in KeeperChoices
  /\ \E gps \in {"site", "far"} : guest = Booted(gps)
  /\ file = FreshState /\ state = FreshState /\ row = NotRead
  /\ pc = "world"
  /\ trouble = MaxTrouble
  /\ ownReal = Cap /\ hostReal = Cap
  /\ forgot = {} /\ away = 0 /\ trip = "none"

(* Calm steps cost nothing; a disturbance is one of a bounded number.       *)
Spend(disturbed) ==
  /\ disturbed => trouble > 0
  /\ trouble' = IF disturbed THEN trouble - 1 ELSE trouble

-----------------------------------------------------------------------------
(* The guest and aea-geofix, between the runs.                              *)

(* Play Services takes the GPS once per boot, or all the time while         *)
(* GpsKeeper holds it open.                                                 *)
Taken == IF keeper THEN [place |-> guest.gps, age |-> 0] ELSE guest.fix

TakeFix ==
  /\ pc = "world" /\ guest.up > 0 /\ ~Known(guest.fix)
  /\ guest' = [guest EXCEPT !.fix = [place |-> guest.gps, age |-> 0]]
  /\ UNCHANGED <<keeper, agent, trouble, history>>

(* AEA is handed the first fix of a boot and then only a move.              *)
HandOver ==
  /\ pc = "world" /\ Known(guest.fix)
  /\ ~Known(guest.aea) \/ guest.aea.place # Taken.place
  /\ guest' = [guest EXCEPT !.fix = Taken, !.aea = [place |-> Taken.place, age |-> 0]]
  /\ trip' = IF trip = "begun" THEN "made" ELSE trip
  /\ UNCHANGED <<keeper, agent, trouble, ownReal, hostReal, forgot, away>>

(* aea-geofix.main: the site's place, again and again, early in a boot.     *)
FeedSite ==
  /\ pc = "world" /\ guest.up < FeedWindow
  /\ guest' = [guest EXCEPT !.gps = "site"]
  /\ UNCHANGED <<keeper, agent, trouble, history>>

TripAfterBoot == IF trip = "begun" THEN "none" ELSE trip

(* A crash, an operator, or an emulator that starts again with its default. *)
GuestBoots ==
  /\ pc = "world"
  /\ Spend(TRUE)
  /\ \E gps \in {guest.gps, "far"} : guest' = Booted(gps)
  /\ trip' = TripAfterBoot
  /\ UNCHANGED <<keeper, agent, ownReal, hostReal, forgot, away>>

GrownLocation(location) ==
  [location EXCEPT !.age = IF location = NoLocation THEN None ELSE Grown(@)]
GrownState(s) ==
  [s EXCEPT !.rebooted = Grown(@), !.delivered = MaybeGrown(@), !.failed = Grown(@),
            !.host = Grown(@), !.nudge.elapsed = IF s.nudge = NoNudge THEN 0 ELSE Grown(@)]

(* Half a period passes. GpsKeeper keeps Play Services' own fix fresh.      *)
Later ==
  /\ pc \in {"ran", "world"}
  /\ pc' = IF pc = "ran" THEN "world" ELSE "due"
  /\ guest' = [guest EXCEPT !.up = Grown(@), !.aea = GrownLocation(@),
                 !.fix = IF keeper /\ Known(@) THEN Taken ELSE GrownLocation(@)]
  /\ file' = GrownState(file)
  /\ ownReal' = Grown(ownReal) /\ hostReal' = Grown(hostReal)
  /\ away' = IF guest.gps = "north" THEN Grown(away) ELSE 0
  /\ UNCHANGED <<keeper, state, row, trouble, forgot, trip>>

-----------------------------------------------------------------------------
(* The run. main holds the lock, so there is one at a time.                 *)

(* check_all: load_state.                                                   *)
StartRun ==
  /\ pc = "due"
  /\ pc' = "row" /\ state' = file
  /\ UNCHANGED <<keeper, guest, file, row, trouble, history>>

(* The rows of the host's other receptors, before and after this one: only  *)
(* a reboot of theirs is seen here.                                         *)
OthersRow ==
  /\ pc \in {"row", "end"}
  /\ state.host >= HostSpacing
  /\ Spend(TRUE)
  /\ state' = [state EXCEPT !.host = 0]
  /\ hostReal' = 0 /\ forgot' = forgot \ {"host"}
  /\ UNCHANGED <<keeper, guest, file, pc, row, ownReal, away, trip>>

(* geo_fix_target.                                                          *)
GeoFixTarget(nudge) == IF nudge.phase = "out" THEN "north" ELSE "site"

(* geo_fix: an adb call that fails changes nothing and is not noticed.      *)
PointTo(place) ==
  \E failed \in BOOLEAN :
    /\ Spend(failed)
    /\ guest' = IF failed THEN guest ELSE [guest EXCEPT !.gps = place]

GeoFix ==
  /\ pc = "row"
  /\ pc' = "check"
  /\ PointTo(GeoFixTarget(state.nudge))
  /\ UNCHANGED <<keeper, file, state, row, history>>

(* Slip: a delivery of an earlier boot is taken for this one's.             *)
AgeOfAnyBoot(up, inLog, remembered) ==
  CASE inLog -> [age |-> guest.aea.age, source |-> "eventlog"]
    [] ~inLog /\ remembered # None -> [age |-> remembered, source |-> "remembered"]
    [] OTHER -> [age |-> up, source |-> "uptime"]

(* check: the age of AEA's copy, from the event log if its line is still    *)
(* there, from an earlier run's reading of this boot, or as the uptime.     *)
AgeReading(up, inLog, remembered) ==
  CASE inLog -> [age |-> guest.aea.age, source |-> "eventlog"]
    [] ~inLog /\ remembered # None /\ remembered < up -> [age |-> remembered, source |-> "remembered"]
    [] OTHER -> [age |-> up, source |-> "uptime"]

Reading(registered, inLog) ==
  LET up == guest.up
      aea == AgeReading(up, inLog, state.delivered)
      seen == [NotRead EXCEPT !.up = up]
      read == [seen EXCEPT !.age = aea.age, !.source = aea.source]
  IN CASE ~Known(guest.fix) ->
            IF up < BootWindow THEN seen ELSE [seen EXCEPT !.problem = "missing"]
       [] Known(guest.fix) /\ guest.fix.place = "far" -> [seen EXCEPT !.problem = "drift"]
       [] Known(guest.fix) /\ guest.fix.place # "far" /\ guest.fix.age > MaxAge ->
            [seen EXCEPT !.problem = "stale"]
       [] OTHER ->
            IF aea.age > MaxAge THEN [read EXCEPT !.problem = "stale"]
            ELSE [read EXCEPT !.ok = registered /\ aea.source # "uptime"]

(* A guest on its way down, or that does not answer, cannot be read; a log  *)
(* that rolled is no disturbance, GpsKeeper's own lines roll it.            *)
Check ==
  /\ pc = "check"
  /\ pc' = "repair"
  /\ \E readable, registered, inLog \in BOOLEAN :
       /\ inLog => Known(guest.aea)
       /\ Spend(~readable \/ ~registered)
       /\ row' = IF readable THEN Reading(registered, inLog) ELSE NotRead
  /\ state' = IF row'.source = "eventlog" THEN [state EXCEPT !.delivered = row'.age] ELSE state
  /\ UNCHANGED <<keeper, guest, file, history>>

(* Slip: every run counts its problem as the first.                         *)
CountedAfresh(runs) == IF row.problem = "none" THEN 0 ELSE 1

Counted(runs) == IF row.problem = "none" THEN 0
                 ELSE IF runs < ProblemRuns THEN runs + 1 ELSE runs

(* Slip: the spacing over the host's guests is not looked at.               *)
MayRebootAlone(s) == s.problemRuns >= ProblemRuns /\ s.rebooted >= RebootInterval

MayReboot(s) ==
  /\ s.problemRuns >= ProblemRuns
  /\ s.rebooted >= RebootInterval
  /\ s.host >= HostSpacing

(* recent_alert: the listener wrote down an alert in the last ten minutes.  *)
AlertInProgress == Spend(TRUE)

(* reboot_if_stuck. The command is recorded as done although adb may fail.  *)
(* A rebooting guest comes up, at uptime 0, with the next half period.      *)
Repair ==
  /\ pc = "repair"
  /\ pc' = "report"
  /\ LET counted == [state EXCEPT !.problemRuns = Counted(@)]
     IN \/ /\ ~MayReboot(counted)
           /\ state' = counted
           /\ UNCHANGED <<guest, trouble, ownReal, hostReal, forgot>>
        \/ /\ MayReboot(counted)        \* put off
           /\ AlertInProgress
           /\ state' = counted
           /\ UNCHANGED <<guest, ownReal, hostReal, forgot>>
        \/ /\ MayReboot(counted)
           /\ state' = [counted EXCEPT !.rebooted = 0, !.host = 0, !.problemRuns = 0]
           /\ ownReal' = 0 /\ hostReal' = 0 /\ forgot' = {}
           /\ \E failed \in BOOLEAN :
                /\ Spend(failed)
                /\ guest' = IF failed THEN guest
                            ELSE [Booted(guest.gps) EXCEPT !.up = None]
  /\ trip' = IF guest'.up = None THEN TripAfterBoot ELSE trip
  /\ UNCHANGED <<keeper, file, row, away>>

(* report: if the gateway refuses it the rest of the row is skipped.        *)
Report ==
  /\ pc = "report"
  /\ \E refused \in BOOLEAN :
       /\ Spend(refused)
       /\ pc' = IF refused THEN "end" ELSE "nudge"
  /\ UNCHANGED <<keeper, guest, file, state, row, history>>

-----------------------------------------------------------------------------
(* nudge_step, on what this run's check read.                               *)

(* Slip: nudges outlive a reboot.                                           *)
NeverAborted(nudge) == nudge

(* A way from before the guest's boot is dropped: the boot's own delivery   *)
(* must not confirm it.                                                     *)
Aborted(nudge) ==
  IF nudge # NoNudge /\ row.up # None /\ nudge.elapsed > row.up THEN NoNudge ELSE nudge

WantsNudge ==
  /\ row.age # None
  /\ row.age > NudgeAfter \/ (row.source = "uptime" /\ row.up > UnknownAfter)
  /\ state.failed >= FailedRetry

Delivered(nudge) == row.age # None /\ row.age < nudge.elapsed

(* Without an alert in progress. A guest that just went down, or is         *)
(* unreadable, does not show its GpsKeeper (has_gps_keeper).                *)
GoOut ==
  \/ /\ keeper
     /\ state' = [state EXCEPT !.nudge = Begun("out", FALSE)]
     /\ PointTo("north")
     /\ trip' = IF guest.up = None THEN "none" ELSE "begun"
     /\ away' = 0
  \/ /\ Spend(keeper /\ guest.up # None)
     /\ state' = [state EXCEPT !.nudge = NoNudge]
     /\ UNCHANGED <<guest, away, trip>>

(* Slip: the out leg waits for its delivery, however long.                  *)
WayOutUntilDelivered(nudge) ==
  LET turns == Delivered(nudge)
  IN /\ state' = [state EXCEPT !.nudge = IF turns THEN Begun("back", TRUE) ELSE nudge]
     /\ IF turns THEN PointTo("site") ELSE UNCHANGED <<guest, trouble>>
     /\ UNCHANGED <<away, trip>>

WayOut(nudge) ==
  LET turns == Delivered(nudge) \/ nudge.elapsed >= Leg
  IN /\ state' = [state EXCEPT !.nudge = IF turns THEN Begun("back", Delivered(nudge)) ELSE nudge]
     /\ IF turns THEN PointTo("site") ELSE UNCHANGED <<guest, trouble>>
     /\ UNCHANGED <<away, trip>>

(* Slip: a nudge that is over is kept, with its verdict.                    *)
WayBackKept(nudge) ==
  LET fails == ~Delivered(nudge) /\ nudge.elapsed >= 2 * Leg
  IN /\ state' = [state EXCEPT
           !.nudge = IF Delivered(nudge) \/ fails THEN [nudge EXCEPT !.phase = "none"] ELSE nudge,
           !.failed = IF fails THEN 0 ELSE @]
     /\ UNCHANGED <<guest, trouble, away, trip>>

(* NUDGE, or NUDGE_FAILED after two legs.                                   *)
WayBack(nudge) ==
  LET fails == ~Delivered(nudge) /\ nudge.elapsed >= 2 * Leg
  IN /\ state' = [state EXCEPT !.nudge = IF Delivered(nudge) \/ fails THEN NoNudge ELSE nudge,
                               !.failed = IF fails THEN 0 ELSE @]
     /\ UNCHANGED <<guest, trouble, away, trip>>

NudgeStep ==
  /\ pc = "nudge"
  /\ pc' = "end"
  /\ LET nudge == Aborted(state.nudge)
         dropped == [state EXCEPT !.nudge = nudge]
     IN \/ /\ nudge = NoNudge /\ ~WantsNudge
           /\ state' = dropped /\ UNCHANGED <<guest, trouble, away, trip>>
        \/ /\ nudge = NoNudge /\ WantsNudge
           /\ GoOut
        \/ /\ nudge # NoNudge \/ WantsNudge     \* the alert may still be on its way out
           /\ AlertInProgress
           /\ state' = dropped /\ UNCHANGED <<guest, away, trip>>
        \/ nudge.phase = "out" /\ WayOut(nudge)
        \/ nudge.phase = "back" /\ WayBack(nudge)
  /\ UNCHANGED <<keeper, file, row, ownReal, hostReal, forgot>>

-----------------------------------------------------------------------------
(* save_state, by rename.                                                   *)
EndRun ==
  /\ pc = "end"
  /\ pc' = "ran" /\ file' = state
  /\ state' = FreshState /\ row' = NotRead
  /\ UNCHANGED <<keeper, guest, trouble, history>>

Unsaved == (IF state.rebooted # file.rebooted THEN {"own"} ELSE {})
             \cup (IF state.host # file.host THEN {"host"} ELSE {})

(* The run dies, cannot save, or is never started.                          *)
Die ==
  /\ pc \in Steps \cup {"due"}
  /\ Spend(TRUE)
  /\ pc' = "ran"
  /\ forgot' = forgot \cup (IF pc = "due" THEN {} ELSE Unsaved)
  /\ state' = FreshState /\ row' = NotRead
  /\ UNCHANGED <<keeper, guest, file, ownReal, hostReal, away, trip>>

Run == StartRun \/ OthersRow \/ GeoFix \/ Check \/ Repair \/ Report \/ NudgeStep \/ EndRun
World == TakeFix \/ HandOver \/ FeedSite \/ GuestBoots
Next == Run \/ World \/ Die \/ Later

Spec == Init /\ [][Next]_vars

(* The timer fires and a run comes to its end; a location path that is      *)
(* offered a fix again and again takes one.                                 *)
Fairness ==
  /\ WF_vars(StartRun \/ GeoFix \/ Check \/ Repair \/ Report \/ NudgeStep \/ EndRun)
  /\ WF_vars(Later)
  /\ SF_vars(TakeFix) /\ SF_vars(HandOver)

FairSpec == Spec /\ Fairness

-----------------------------------------------------------------------------
(* What the run tells the gateway is true: "ok" only if AEA holds a         *)
(* location of this boot, not older than MAX_LOCATION_AGE_S, also when the  *)
(* delivery was read by an earlier run and the guest rebooted since (check, *)
(* and `remembered`). Between check and report the guest can only change by *)
(* the run's own reboot, and a row that is ok reboots nothing.              *)
OkIsTrue ==
  pc \in {"repair", "report"} /\ row.ok => Known(guest.aea) /\ guest.aea.age <= MaxAge

(* Two reboots of one guest are an hour apart and two of one host half an   *)
(* hour (reboot_if_stuck), over all runs, failed commands and the rows of   *)
(* other receptors; unless the run that ordered the last one died before it *)
(* saved, when the code cannot know.                                        *)
RebootsSpaced ==
  [][ /\ ownReal' < ownReal => ownReal >= RebootInterval \/ "own" \in forgot
      /\ hostReal' < hostReal => hostReal >= HostSpacing \/ "host" \in forgot ]_vars

(* A way out counts as confirmed only if AEA was handed a location since it *)
(* began and the guest did not boot in between: not by a delivery of before *)
(* it, nor by a boot's own (nudge_step's docstring, 24-sep 23:25), also     *)
(* when runs in between died.                                               *)
TripConfirmedIsMade ==
  [][pc = "nudge" /\ state'.nudge.outOk /\ ~state.nudge.outOk => trip = "made"]_vars

(* A receptor is 2 km off its site for one leg of a nudge and not longer    *)
(* (nudge_step: "The out leg ends after 15 min even unconfirmed"), but for  *)
(* a period for a boot that drops the leg, as that run's geo fix still      *)
(* pointed north, and one per run that was lost: it died, its command, its  *)
(* geo fix or its report failed, or an alert was on its way.                *)
AwayBriefly == away <= Leg + 2 + 2 * (MaxTrouble - trouble)

(* A receptor AEA cannot alert with is usable again some day: that is what  *)
(* nudges and reboots are for.                                              *)
Usable == Known(guest.aea) /\ guest.aea.place # "far" /\ guest.aea.age <= MaxAge
UsableAgain == ~Usable ~> Usable
=============================================================================
