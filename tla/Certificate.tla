---------------------------- MODULE Certificate ----------------------------
(***************************************************************************)
(* The coverage side of the daily certificate (monitor/monitor.py,          *)
(* certificate, over monitor/verify.py): which minutes without coverage a   *)
(* planned deploy or a declared piece of work excuses, what is left of the  *)
(* day for each receptor, and the verdict that follows.                     *)
(*                                                                          *)
(* The history the certificate is made from grows here minute by minute:    *)
(* one health record or none, restarts of the gateway, deploys that stand   *)
(* or are rolled back (infra/deploy/remote.sh), work on a receptor. Each    *)
(* start of the gateway may find another sensors.json. The                  *)
(* certificate is a function of it, and may be asked for at any moment.     *)
(* Init, Next and Spec are DayInit, DayNext and DaySpec here, because       *)
(* VerifyProofs reads this module together with ControlFleet.               *)
(***************************************************************************)
EXTENDS Naturals, Sequences, FiniteSets, FiniteSetsExt

CONSTANTS
  Public, Canaries,   \* the receptors that are certified, if listed
  Listings,           \* the lists that a sensors.json may hold
  RestartBlind,       \* RESTART_BLIND_S, in minutes
  BeforeStart,        \* DEPLOY_BEFORE_START_S
  RollbackAfter,      \* ROLLBACK_AFTER_S
  DegradedMin,        \* 15, minutes of the day
  FailMin,            \* 60, minutes in a row
  SeenPart, SeenOf,   \* 9 and 10: the share of the minutes that must be seen
  DayStart, Day,      \* the first minute of the day, and its minutes
  MaxWork,            \* an intervention's max_min
  MaxEvents           \* bound: crashes, restarts, deploys, interventions

Sensors == Public \cup Canaries

ASSUME CertificateAssumption ==
  /\ Public # {} /\ Public \cap Canaries = {} /\ IsFiniteSet(Sensors)
  /\ Listings \subseteq (SUBSET Sensors) \ {{}}
  /\ {RestartBlind, BeforeStart, RollbackAfter, DegradedMin, FailMin, DayStart, MaxWork,
      MaxEvents} \subseteq Nat
  /\ {SeenPart, SeenOf, Day} \subseteq Nat \ {0} /\ SeenPart <= SeenOf

VARIABLES
  minute,             \* the last minute that went by
  health,             \* health.jsonl
  lines,              \* the DEPLOY lines of the evidence
  gatewayUp, started, \* the gateway, and the started_at of its /status
  names,              \* the receptors of its sensors.json, read at its start
  interventions,      \* interventions.json
  deploys,            \* history: each deploy's restart, and whether it stands
  events              \* events left

dayVars == <<minute, health, lines, gatewayUp, started, names, interventions, deploys, events>>

-----------------------------------------------------------------------------
End == DayStart + Day
Minute == 0 .. End - 1
Unanswered(at, seen) == [at |-> at, seen |-> seen, named |-> {}, covered |-> {}, started |-> 0]
HealthRecord ==
  [at : Minute, seen : {"status", "gateway", "ssh"}, named : SUBSET Sensors, covered : SUBSET Sensors, started : Minute]

DayInit ==
  /\ minute = 0 /\ gatewayUp = TRUE /\ started = 0 /\ names \in Listings
  /\ health = <<[at |-> 0, seen |-> "status", named |-> names, covered |-> names, started |-> 0]>>
  /\ lines = {} /\ interventions = {} /\ deploys = {}
  /\ events = MaxEvents

(* poll_health, or a minute in which the monitor is off. "gateway" is spot  *)
(* too, and "ssh" aws-cli.                                                  *)
Poll ==
  /\ minute < End - 1
  /\ minute' = minute + 1
  /\ \/ /\ gatewayUp
        /\ \E covered \in SUBSET names :
             health' = Append(health, [at |-> minute', seen |-> "status", named |-> names, covered |-> covered,
                                       started |-> started])
     \/ /\ ~gatewayUp
        /\ health' = Append(health, Unanswered(minute', "gateway"))
     \/ health' = Append(health, Unanswered(minute', "ssh"))
     \/ UNCHANGED health
  /\ UNCHANGED <<lines, gatewayUp, started, names, interventions, deploys, events>>

Crash ==
  /\ events > 0 /\ gatewayUp
  /\ gatewayUp' = FALSE /\ events' = events - 1
  /\ UNCHANGED <<minute, health, lines, started, names, interventions, deploys>>

(* systemd, or somebody by hand: no DEPLOY line.                            *)
Restart ==
  /\ events > 0 /\ started # minute
  /\ gatewayUp' = TRUE /\ started' = minute /\ names' \in Listings /\ events' = events - 1
  /\ UNCHANGED <<minute, health, lines, interventions, deploys>>

(* remote.sh: the DEPLOY line, and seconds later the restart.               *)
DeployGateway(by, at) ==
  /\ events > 0 /\ started # minute
  /\ lines' = lines \cup {[at |-> at, by |-> by]}
  /\ gatewayUp' = TRUE /\ started' = minute /\ names' \in Listings /\ events' = events - 1
  /\ UNCHANGED <<minute, health, interventions>>

Deploy ==
  /\ \E at \in {minute, minute - 1} \cap Nat :
       /\ \A l \in lines : l.at < at
       /\ DeployGateway("ci", at)
  /\ deploys' = deploys \cup {[start |-> minute, stands |-> TRUE]}

(* wait_covered gives up: the deploy before it is taken back.               *)
Rollback ==
  \E l \in lines :
    /\ l.by = "ci" /\ minute > l.at /\ minute - l.at <= RollbackAfter
    /\ \A k \in lines : k.at <= l.at
    /\ DeployGateway("ci-rollback", minute)
    /\ LET last == Max({d.start : d \in deploys})
       IN deploys' = {[d EXCEPT !.stands = @ /\ d.start # last] : d \in deploys}

Intervene ==
  /\ events > 0 /\ events' = events - 1
  /\ \E s \in Sensors : interventions' = interventions \cup {[sensor |-> s, from |-> minute + 1]}
  /\ UNCHANGED <<minute, health, lines, gatewayUp, started, names, deploys>>

DayNext == Poll \/ Crash \/ Restart \/ Deploy \/ Rollback \/ Intervene

DaySpec == DayInit /\ [][DayNext]_dayVars

-----------------------------------------------------------------------------
(* Slip: only the rollback's own line is left out.                          *)
PlannedButRollbacks == {l.at : l \in {k \in lines : k.by # "ci-rollback"}}

(* planned_deploys *)
PlannedDeploys ==
  {l.at : l \in {k \in lines : /\ k.by # "ci-rollback"
                               /\ ~\E r \in lines : /\ r.by = "ci-rollback" /\ r.at > k.at
                                                    /\ r.at - k.at <= RollbackAfter}}

(* A record that names some receptor: a sensors.json is never empty.        *)
Answered == {i \in DOMAIN health : health[i].seen = "status"}
PreviousAnswer(i) == Max({j \in Answered : j < i} \cup {0})
IsRestart(i) ==
  LET previous == PreviousAnswer(i)
  IN i \in Answered /\ previous > 0 /\ health[previous].started # health[i].started

(* Slip: a DEPLOY line excuses every restart after it.                      *)
TakeAgain(taken, i) ==
  LET fit == {d \in PlannedDeploys : health[i].started \in d .. d + BeforeStart}
  IN IF IsRestart(i) /\ fit # {} THEN taken \cup {<<i, Min(fit)>>} ELSE taken

(* The restart i takes the first DEPLOY line that fits and is still free.   *)
Take(taken, i) ==
  LET fit == {d \in PlannedDeploys : /\ health[i].started \in d .. d + BeforeStart
                                     /\ \A t \in taken : t[2] # d}
  IN IF IsRestart(i) /\ fit # {} THEN taken \cup {<<i, Min(fit)>>} ELSE taken

DeployOf ==
  LET taken[i \in 0 .. Len(health)] == IF i = 0 THEN {} ELSE Take(taken[i - 1], i)
  IN taken[Len(health)]

(* The record names some certified receptors, and those are covered. What   *)
(* is certified is what sensors.json lists when the certificate is made.    *)
AllCovered(i) == health[i].named \cap names # {} /\ health[i].named \cap names \subseteq health[i].covered

(* Slip: the return is looked for in the whole history.                     *)
WindowEndOfAny(i) ==
  LET limit == health[i].started + RestartBlind
      back == {health[j].at : j \in {k \in Answered : AllCovered(k)}}
  IN Min(back \cup {limit})

(* A window ends when every receptor is covered again.                      *)
WindowEnd(i) ==
  LET limit == health[i].started + RestartBlind
      back == {health[j].at : j \in {k \in Answered : k >= i /\ AllCovered(k)}}
  IN Min(back \cup {limit})

(* restart_windows. A window keeps the place it has in the list.            *)
RestartWindows ==
  LET taken == DeployOf
  IN {[place |-> i, begin |-> health[PreviousAnswer(i)].at, end |-> WindowEnd(i), sensors |-> Sensors,
       reason |-> IF \E t \in taken : t[1] = i THEN "deploy" ELSE "gateway restart"] :
         i \in {j \in DOMAIN health : IsRestart(j)}}

(* The work ends when its receptor, having gone down, is covered again.     *)
WorkEnd(work) ==
  LET during == {i \in Answered : /\ health[i].at \in work.from .. work.from + MaxWork
                                  /\ work.sensor \in health[i].named}
      isCovered(i) == work.sensor \in health[i].covered
      back == {i \in during : isCovered(i) /\ \E j \in during : j < i /\ ~isCovered(j)}
  IN IF back = {} THEN work.from + MaxWork ELSE health[Min(back)].at

(* intervention_windows, after the restarts'.                               *)
WorkWindows ==
  {[place |-> Len(health) + 1, begin |-> work.from, end |-> WorkEnd(work), sensors |-> {work.sensor},
    reason |-> "manual intervention"] : work \in interventions}

(* window_of: the first window that holds the minute.                       *)
ReasonOf(windows, t, s) ==
  LET holding == {w \in windows : w.begin <= t /\ t <= w.end /\ s \in w.sensors}
  IN IF holding = {} THEN "receptor"
     ELSE (CHOOSE w \in holding : \A v \in holding : w.place <= v.place).reason

-----------------------------------------------------------------------------
InDay == {i \in DOMAIN health : health[i].at >= DayStart}
Covers(i, s) == s \in health[i].covered
Unnamed(i, s) == health[i].seen = "status" /\ s \notin health[i].named

(* Slip: a gateway that does not answer is nobody's minute.                 *)
IsDownIfTold(i, s) == s \in health[i].named \ health[i].covered

(* A record that does not name the receptor says nothing of it.             *)
IsDown(i, s) == health[i].seen = "gateway" \/ s \in health[i].named \ health[i].covered

(* coverage_stats: the day's minutes without coverage, each with its reason.*)
DownMinutes ==
  LET windows == RestartWindows \cup WorkWindows
  IN {[record |-> m[1], sensor |-> m[2], reason |-> ReasonOf(windows, health[m[1]].at, m[2])] :
        m \in {p \in InDay \X names : IsDown(p[1], p[2])}}

Excused == {"deploy", "manual intervention"}
Uncovered(down, s) == {d.record : d \in {m \in down : m.sensor = s /\ m.reason \notin Excused}}
LongestGap(records) ==
  Max({0} \cup {p[2] - p[1] + 1 : p \in {q \in records \X records : q[1] .. q[2] \subseteq records}})

(* The minutes of the day so far, and those the monitor saw.                *)
Minutes == IF minute < DayStart THEN 0 ELSE minute - DayStart + 1
SeenMinutes == Cardinality({i \in InDay : health[i].seen # "ssh"})

Watched == SeenOf * SeenMinutes >= SeenPart * Minutes

IsLong(down, s) == LongestGap(Uncovered(down, s)) > FailMin

DayFails(down) == \E s \in Public \cap names : IsLong(down, s)

DayDegrades(down) == \E s \in names : IsLong(down, s) \/ Cardinality(Uncovered(down, s)) > DegradedMin

(* verdict, as far as coverage decides it.                                  *)
DayVerdict(down) ==
  IF DayFails(down) THEN "FAIL" ELSE IF DayDegrades(down) \/ ~Watched THEN "DEGRADED" ELSE "CERTIFIED"

(* certificate: the day so far.                                             *)
Decision == DayVerdict(DownMinutes)

-----------------------------------------------------------------------------
DayTypeOK ==
  /\ minute \in Minute /\ health \in Seq(HealthRecord)
  /\ lines \subseteq [at : Minute, by : {"ci", "ci-rollback"}]
  /\ gatewayUp \in BOOLEAN /\ started \in Minute /\ names \in Listings
  /\ interventions \subseteq [sensor : Sensors, from : 1 .. End]
  /\ deploys \subseteq [start : Minute, stands : BOOLEAN] /\ events \in 0 .. MaxEvents
  /\ \A w \in RestartWindows : w.begin <= w.end

(* A minute that a deploy excuses follows the restart of a deploy that was  *)
(* not rolled back, by RestartBlind minutes at most (and the seconds        *)
(* between the line and the restart), and nobody had seen every receptor    *)
(* covered since: neither a later restart nor an outage after the return    *)
(* hides behind it. Known exception: two deploys within BeforeStart of each *)
(* other, where a restart that nobody ordered may take the line that the    *)
(* second one left. What came before the deploy is another matter, see      *)
(* DeployExcusesItsRestartOnly.                                             *)
Spaced == \A c, d \in deploys : c.start < d.start => c.start + BeforeStart + 1 < d.start

ExcusedByItsDeploy ==
  \A m \in DownMinutes :
    m.reason = "deploy" =>
      \E d \in deploys :
        /\ d.stands
        /\ health[m.record].at <= d.start + BeforeStart + RestartBlind
        /\ Spaced =>
             \A j \in Answered : d.start < health[j].at /\ j < m.record => ~AllCovered(j)

(* Where no standing deploy and no declared work can excuse it, a public    *)
(* receptor without coverage for more than FailMin minutes in a row fails   *)
(* the day: also after a deploy that was rolled back. Only a public         *)
(* receptor does (verdict; coverage_stats, planned_deploys).                *)
OutageFailsTheDay ==
  LET out == \E s \in Public \cap names, i, j \in InDay : j - i >= FailMin /\ \A k \in i .. j : IsDown(k, s)
      unexcused == interventions = {} /\ \A d \in deploys : ~d.stands
  IN /\ Decision = "FAIL" => out
     /\ unexcused /\ out => Decision = "FAIL"

ServedFor(s) ==
  LET excused == {m \in DownMinutes : m.sensor = s /\ m.reason \in Excused}
      covered == {i \in InDay : Covers(i, s)}
      unnamed == {i \in InDay : Unnamed(i, s)}
  IN SeenOf * (Cardinality(covered) + Cardinality(excused) + Cardinality(unnamed) + DegradedMin)
       >= SeenPart * Minutes

(* On a certified day every receptor was seen covered, or excused, for all  *)
(* but DegradedMin minutes and the share that need not be seen: no minute   *)
(* is lost between coverage_stats, which counts for each receptor what it   *)
(* was seen without, and completeness, which counts what was seen at all.   *)
(* Known exception: a record that does not name the receptor is skipped by  *)
(* the one and seen to the other, so one that sensors.json lists since the  *)
(* last restart only is certified for the whole day.                        *)
CertifiedDayWasServed == Decision = "CERTIFIED" => \A s \in names : ServedFor(s)

(* A deploy excuses what its restart takes: "at most this long is blamed on *)
(* the restart, not on the receiver" (verify.py, RESTART_BLIND_S). Does not *)
(* hold: restart_windows begins at the last answer before the restart, and  *)
(* while a gateway is down there is none, so the deploy that brings it back *)
(* excuses the whole outage. (Two minutes of grace: the poll before the     *)
(* restart, and the one it falls in.)                                       *)
DeployExcusesItsRestartOnly ==
  LET down == DownMinutes IN
  \A s \in names :
    Cardinality({m \in down : m.sensor = s /\ m.reason = "deploy"})
      <= Cardinality(deploys) * (RestartBlind + 2)
============================================================================
