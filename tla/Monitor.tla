------------------------------ MODULE Monitor ------------------------------
(***************************************************************************)
(* The certifier's loop (monitor/monitor.py): every minute one health       *)
(* record, the live notices about a receptor without coverage, the          *)
(* gateway's evidence page by page, a notice for each failing record, the   *)
(* certificate of the day that ended, and only then the state file.         *)
(*                                                                          *)
(* One receptor; what the gateway says of it at each minute is arbitrary.   *)
(* The gateway's side of the evidence (server.js, handleEvidence) is here   *)
(* too. What is appended to a .jsonl file is durable at once; what is only  *)
(* in memory is lost when the process dies.                                 *)
(***************************************************************************)
EXTENDS Naturals, Sequences, FiniteSetsExt

CONSTANTS
  Degraded, Fail,     \* LIVE_DEGRADED_MIN and LIVE_FAIL_MIN, in polls
  TailLength,         \* records of health.jsonl the notices look at, 24 * 60
  Limit,              \* MAX_EVIDENCE_PAGE
  MaxPages,           \* pages one poll of the evidence asks for, 20
  Day,                \* minutes of a day
  MaxTime,            \* bound: minutes
  MaxRecords,         \* bound: evidence records
  MaxTrouble          \* bound: deaths, exceptions and minutes without a poll

ASSUME MonitorAssumption ==
  /\ {Degraded, Fail, TailLength, Limit, MaxPages, Day} \subseteq Nat \ {0}
  /\ Degraded < Fail
  /\ {MaxTime, MaxRecords, MaxTrouble} \subseteq Nat

VARIABLES
  clock,              \* the minute
  health,             \* health.jsonl
  log,                \* the gateway's evidence file, in the order of its lines
  copy,               \* evidence.jsonl: which lines of it were copied
  mem, saved,         \* state, and state.json
  pc,                 \* where step is
  page,               \* poll_evidence: its local cursor and the pages left
  alerts,             \* live-alerts.jsonl: the operator's notices
  certs,              \* the certificates written
  trouble,            \* disturbances left
  lost,               \* history: when memory that was not saved was lost
  passed              \* history: days on which a step came to its end

world == <<clock, trouble, log>>
vars == <<clock, health, log, copy, mem, saved, pc, page, alerts, certs, trouble, lost, passed>>

-----------------------------------------------------------------------------
Minute == 1 .. MaxTime
DayOf(minute) == minute \div Day
Seen == {"covered", "uncovered", "gateway", "blind"}   \* "gateway" is spot too, "blind" ssh or aws-cli
Down == {"uncovered", "gateway"}
HealthRecord == [at : Minute, seen : Seen]

NoRun == [since |-> 0, level |-> 0]
OpenRun == [since : Minute, level : {0, Degraded, Fail}]
NoDay == MaxTime + 1
Memory == [run : OpenRun \cup {NoRun}, since : Nat, notified : SUBSET (1 .. MaxRecords),
           day : 0 .. NoDay]
Fresh == [run |-> NoRun, since |-> 0, notified |-> {}, day |-> NoDay]

Notice == [what : {"DEGRADED", "FAIL", "RESTORED"}, of : {0}, at : Minute]
            \cup [what : {"FINDING"}, of : 1 .. MaxRecords, at : Minute]
Steps == {"notices", "pages", "verdicts", "certificate", "save"}
NoPage == [since |-> 0, left |-> 0]

TypeOK ==
  /\ clock \in 0 .. MaxTime
  /\ health \in Seq(HealthRecord)
  /\ log \in Seq([at : 0 .. MaxTime, late : BOOLEAN]) /\ copy \subseteq DOMAIN log
  /\ mem \in Memory /\ saved \in Memory
  /\ pc \in Steps \cup {"sleep"}
  /\ page \in [since : 0 .. MaxTime + 1, left : 0 .. MaxPages]
  /\ alerts \subseteq Notice
  /\ certs \subseteq 0 .. MaxTime /\ passed \subseteq 0 .. MaxTime
  /\ trouble \in 0 .. MaxTrouble /\ lost \subseteq 0 .. MaxTime

Init ==
  /\ clock = 0 /\ health = <<>> /\ log = <<>> /\ copy = {}
  /\ mem = Fresh /\ saved = Fresh
  /\ pc = "sleep" /\ page = NoPage
  /\ alerts = {} /\ certs = {}
  /\ trouble = MaxTrouble /\ lost = {} /\ passed = {}

-----------------------------------------------------------------------------
(* recordEvidence: stamped, and appended once the file answers. The line is *)
(* late if the monitor's cursor is past its stamp by then. Its order with   *)
(* the monitor's steps matters only around the pages.                       *)
Record ==
  /\ pc = "pages"
  /\ Len(log) < MaxRecords
  /\ \E at \in {clock, clock - 1} \cap Nat :
       log' = Append(log, [at |-> at, late |-> at < Max({mem.since, page.since})])
  /\ UNCHANGED <<clock, health, copy, mem, saved, pc, page, alerts, certs, trouble, lost, passed>>

(* poll_health, a minute later. Without an answer the step ends there.      *)
Poll ==
  /\ pc = "sleep" /\ clock < MaxTime
  /\ clock' = clock + 1
  /\ \E seen \in Seen :
       /\ health' = Append(health, [at |-> clock', seen |-> seen])
       /\ pc' = IF seen \in {"gateway", "blind"} THEN "sleep" ELSE "notices"
  /\ UNCHANGED <<log, copy, mem, saved, page, alerts, certs, trouble, lost, passed>>

(* uncovered_since: polls the monitor itself could not make neither break   *)
(* nor extend a run.                                                        *)
UncoveredSince(records) ==
  LET covered == {i \in DOMAIN records : records[i].seen = "covered"}
      run == {i \in DOMAIN records : records[i].seen \in Down /\ \A j \in covered : j < i}
  IN IF run = {} THEN 0 ELSE records[Min(run)].at

LastOf(records, n) == SubSeq(records, Max({1, Len(records) - n + 1}), Len(records))
Recent == LastOf(health, TailLength)

(* live_coverage_notices, on the last TailLength records.                   *)
KnownLevel(since) == IF mem.run.since = since THEN mem.run.level ELSE 0

(* Slip: the memory of what was told is not looked at.                      *)
ReachedAgain(since) == {level \in {Degraded, Fail} : clock - since >= level}

(* Slip: an outage that is first seen past the second threshold tells only  *)
(* the first.                                                               *)
ReachedStepwise(since) ==
  LET reached == {level \in {Degraded, Fail} : clock - since >= level /\ level > KnownLevel(since)}
  IN IF reached = {} THEN {} ELSE {Min(reached)}

Reached(since) == {level \in {Degraded, Fail} : clock - since >= level /\ level > KnownLevel(since)}

Restored(since) == since = 0 /\ mem.run.level > 0

Name(level) == IF level = Fail THEN "FAIL" ELSE "DEGRADED"

(* due: a job has its period, which is no multiple of a step's.             *)
Due == BOOLEAN

Notices ==
  /\ pc = "notices"
  /\ pc' = "pages"
  /\ \E evidence \in Due : page' = [since |-> mem.since, left |-> IF evidence THEN MaxPages ELSE 0]
  /\ LET since == UncoveredSince(Recent)
         restored == IF Restored(since) THEN {"RESTORED"} ELSE {}
         told == IF since = 0 THEN {} ELSE Reached(since)
     IN /\ mem' = [mem EXCEPT !.run =
                     IF since = 0 THEN NoRun
                     ELSE [since |-> since, level |-> Max(told \cup {KnownLevel(since)})]]
        /\ alerts' = alerts \cup {[what |-> w, of |-> 0, at |-> clock] :
                                    w \in restored \cup {Name(level) : level \in told}}
  /\ UNCHANGED <<world, health, copy, saved, certs, lost, passed>>

-----------------------------------------------------------------------------
(* handleEvidence: the lines from a stamp on, by stamp. Lines that share a  *)
(* stamp are never split over pages; a group bigger than a page goes whole. *)
From(since) == {i \in DOMAIN log : log[i].at >= since}
UpTo(lines, at) == {i \in lines : log[i].at <= at}
Stamps(lines) == {log[i].at : i \in lines}

(* Slip: Limit lines, and on from the last one's stamp.                     *)
PageByCount(matching) ==
  LET before(i) == {j \in matching : log[j].at < log[i].at \/ (log[j].at = log[i].at /\ j <= i)}
      lines == {i \in matching : Cardinality(before(i)) <= Limit}
  IN [lines |-> lines, next |-> Max(Stamps(lines)) + 1]

Page(matching) ==
  LET end == Max({at \in Stamps(matching) : Cardinality(UpTo(matching, at)) <= Limit}
                   \cup {Min(Stamps(matching))})
      rest == matching \ UpTo(matching, end)
  IN [lines |-> UpTo(matching, end), next |-> IF rest = {} THEN end + 1 ELSE Min(Stamps(rest))]

(* poll_evidence, one page: it is appended before the cursor moves on, and  *)
(* an empty one is the last.                                                *)
FetchPage ==
  /\ pc = "pages" /\ page.left > 0
  /\ LET matching == From(page.since)
     IN IF matching = {}
        THEN /\ page' = [page EXCEPT !.left = 0]
             /\ UNCHANGED copy
        ELSE /\ copy' = copy \cup Page(matching).lines
             /\ page' = [since |-> Page(matching).next, left |-> page.left - 1]
  /\ UNCHANGED <<world, health, mem, saved, pc, alerts, certs, lost, passed>>

(* The job ends: only now the cursor is the state's.                        *)
PagesDone ==
  /\ pc = "pages" /\ page.left = 0
  /\ pc' = "verdicts"
  /\ mem' = [mem EXCEPT !.since = page.since]
  /\ page' = NoPage
  /\ UNCHANGED <<world, health, copy, saved, alerts, certs, lost, passed>>

(* A page fails: the exception ends the job, not the step.                  *)
PagesFail ==
  /\ pc = "pages" /\ page.left > 0 /\ trouble > 0
  /\ pc' = "verdicts" /\ page' = NoPage
  /\ trouble' = trouble - 1
  /\ UNCHANGED <<clock, log, health, copy, mem, saved, alerts, certs, lost, passed>>

(* classify_all: every record of the copy stands for one failing finding.   *)
Failing == copy

(* Slip: what was told is only remembered if nothing else was.              *)
VerdictsUnmarked ==
  /\ pc = "verdicts"
  /\ pc' = "certificate"
  /\ alerts' = alerts \cup {[what |-> "FINDING", of |-> i, at |-> clock] : i \in copy \ mem.notified}
  /\ mem' = [mem EXCEPT !.notified = IF @ = {} THEN copy ELSE @]
  /\ UNCHANGED <<world, health, copy, saved, page, certs, lost, passed>>

(* A failure is told in the step that finds it.                             *)
Verdicts ==
  /\ pc = "verdicts"
  /\ pc' = "certificate"
  /\ alerts' = alerts \cup {[what |-> "FINDING", of |-> i, at |-> clock] : i \in Failing \ mem.notified}
  /\ mem' = [mem EXCEPT !.notified = @ \cup Failing]
  /\ UNCHANGED <<world, health, copy, saved, page, certs, lost, passed>>

(* write_certificate                                                        *)
Certified(day) == certs \cup {day}

(* Slip: the first day is taken for the end of another.                     *)
CertificateAtStart ==
  /\ pc = "certificate"
  /\ pc' = "save"
  /\ certs' = IF mem.day # DayOf(clock) THEN certs \cup {DayOf(clock) - 1} ELSE certs
  /\ mem' = [mem EXCEPT !.day = DayOf(clock)]
  /\ UNCHANGED <<world, health, copy, saved, page, alerts, lost, passed>>

(* Slip: the day is marked as done when it begins, by any step.             *)
CertificateOfToday ==
  /\ pc = "certificate"
  /\ pc' = "save"
  /\ certs' = IF mem.day # NoDay /\ mem.day # DayOf(clock) THEN certs \cup {DayOf(clock)} ELSE certs
  /\ mem' = [mem EXCEPT !.day = DayOf(clock)]
  /\ UNCHANGED <<world, health, copy, saved, page, alerts, lost, passed>>

(* The day that ended, if this is the first step of a day to come this far. *)
Certificate ==
  /\ pc = "certificate"
  /\ pc' = "save"
  /\ certs' = IF mem.day # NoDay /\ mem.day # DayOf(clock) THEN Certified(DayOf(clock) - 1) ELSE certs
  /\ mem' = [mem EXCEPT !.day = DayOf(clock)]
  /\ UNCHANGED <<world, health, copy, saved, page, alerts, lost, passed>>

Save ==
  /\ pc = "save"
  /\ pc' = "sleep"
  /\ saved' = mem
  /\ passed' = passed \cup {DayOf(clock)}
  /\ UNCHANGED <<world, health, copy, mem, page, alerts, certs, lost>>

-----------------------------------------------------------------------------
(* An exception ends the step, not the loop: memory stays, nothing is saved.*)
Raise ==
  /\ pc \in {"notices", "verdicts", "certificate"} /\ trouble > 0
  /\ pc' = "sleep"
  /\ trouble' = trouble - 1
  /\ UNCHANGED <<clock, log, health, copy, mem, saved, page, alerts, certs, lost, passed>>

(* The process dies, and is started again with the state of the file.       *)
Die ==
  /\ trouble > 0
  /\ pc' = "sleep" /\ page' = NoPage
  /\ mem' = saved
  /\ lost' = IF mem # saved THEN lost \cup {clock} ELSE lost
  /\ trouble' = trouble - 1
  /\ UNCHANGED <<clock, log, health, copy, saved, alerts, certs, passed>>

(* A minute without a poll: the monitor's machine is off.                   *)
Off ==
  /\ pc = "sleep" /\ clock < MaxTime /\ trouble > 0
  /\ clock' = clock + 1
  /\ trouble' = trouble - 1
  /\ UNCHANGED <<health, log, copy, mem, saved, pc, page, alerts, certs, lost, passed>>

Step == Notices \/ FetchPage \/ PagesDone \/ Verdicts \/ Certificate \/ Save
Next == Record \/ Poll \/ Step \/ PagesFail \/ Raise \/ Die \/ Off

Spec == Init /\ [][Next]_vars

-----------------------------------------------------------------------------
LostBetween(from, to) == \E t \in lost : from <= t /\ t <= to
CoveredBetween(from, to) ==
  \E i \in DOMAIN health : health[i].seen = "covered" /\ from < health[i].at /\ health[i].at <= to

(* The uncovered records that end with minute `at` are more than the tail   *)
(* that the notices are given: they take the outage to begin where the tail *)
(* does, an outage they know nothing of.                                    *)
OutlivesTail(at) ==
  \E i \in DOMAIN health :
    /\ health[i].seen \in Down /\ ~CoveredBetween(health[i].at, at)
    /\ i + TailLength \in DOMAIN health /\ health[i + TailLength].at <= at

ToldAgain(a, b) == a.what = b.what /\ a.what \in {"DEGRADED", "FAIL"} /\ a.at < b.at

(* live_coverage_notices' docstring, verify.py:540-541: each threshold is    *)
(* told once per outage; up to the length of the tail, that is. Beyond it    *)
(* an outage is a new one every minute. Twice only with a covered poll       *)
(* between, or when the process died before it had saved that it told.      *)
ToldOncePerOutage ==
  \A a, b \in alerts :
    ToldAgain(a, b) =>
      CoveredBetween(a.at, b.at) \/ LostBetween(a.at, b.at) \/ OutlivesTail(b.at)

(* An outage that a step sees past a threshold has been told at that level, *)
(* also when most of it went by with the gateway down or unpolled, or in    *)
(* steps that raised; unless it outlived the tail before any step saw it.   *)
LongOutageIsTold ==
  pc \in Steps \ {"notices"} =>
    LET since == UncoveredSince(health) IN
    \A level \in {Degraded, Fail} :
      since > 0 /\ clock - since >= level
        => OutlivesTail(clock) \/ \E a \in alerts : a.what = Name(level) /\ a.at >= since

(* No line of the gateway's evidence is skipped: it is copied, or the       *)
(* cursor has not reached it, or it was appended when the cursor was        *)
(* already past its stamp (handleEvidence's pages, and a poll that failed   *)
(* or died between two pages).                                              *)
NoEvidenceSkipped ==
  \A i \in DOMAIN log : i \in copy \/ log[i].at >= mem.since \/ log[i].late

(* A failure in the copied evidence is told in the step that has it, and    *)
(* told again only after memory was lost; what the state file says was told *)
(* was.                                                                     *)
FailuresToldOnce ==
  LET told(i) == {a \in alerts : a.of = i}
  IN /\ pc \in {"certificate", "save"} => \A i \in copy : told(i) # {}
     /\ \A i \in saved.notified \cup mem.notified : told(i) # {}
     /\ \A i \in DOMAIN log : \A a, b \in told(i) : a.at < b.at => LostBetween(a.at, b.at)

(* A day is certified if a step came to its end in it and one in the next   *)
(* day, whatever died or raised in between.                                 *)
DayIsCertified ==
  \A d \in passed : d + 1 \in passed => d \in certs
=============================================================================
