-------------------------- MODULE SensorHealthProofs --------------------------
(* What the agent reports, when it reboots and where its nudges leave the   *)
(* receptor, for any thresholds, any number of disturbances and any order   *)
(* of runs, boots and fixes.                                                *)
EXTENDS SensorHealth, TLAPS

(* An age stays one when it grows, and the younger of two stays so.         *)
LEMMA GrownAge ==
  /\ Cap \in Nat /\ 0 \in Age
  /\ \A a \in Age : Grown(a) \in Age /\ a <= Grown(a)
  /\ \A a, b \in Age : a <= b => Grown(a) <= Grown(b)
  /\ \A a \in Age \cup {None}, b \in Age : Grown(b) < Grown(a) => b < a /\ a \in Age
  /\ Grown(None) = 0 /\ None \notin Age
<1>1. Cap \in Nat /\ Cap > 0
  BY SensorHealthAssumption DEF Thresholds
<1>2. \A a \in Age : Grown(a) \in Age /\ a <= Grown(a)
  BY <1>1 DEF Grown, Age
<1>3. \A a, b \in Age : a <= b => Grown(a) <= Grown(b)
  BY <1>1 DEF Grown, Age
<1>4. Grown(None) = 0 /\ None \notin Age /\ 0 \in Age
  BY <1>1 DEF Grown, Age, None
<1>5. \A a, b \in Age : Grown(b) < Grown(a) => b < a
  BY <1>1 DEF Grown, Age
<1>6. \A b \in Age : ~(Grown(b) < 0)
  BY <1>1, <1>2 DEF Age
<1> QED
  BY <1>1, <1>2, <1>3, <1>4, <1>5, <1>6

LEMMA FreshTyped == FreshState \in State /\ NotRead \in Row /\ NoNudge \in Nudge
<1>1. 0 \in 0 .. ProblemRuns /\ 0 \in Age /\ Cap \in Age /\ NoNudge \in Nudge
  BY SensorHealthAssumption DEF Age, Nudge
<1>2. FreshState \in State
  BY <1>1 DEF FreshState, State
<1>3. NotRead \in Row
  BY DEF NotRead, Row, Problem
<1> QED
  BY <1>1, <1>2, <1>3

GuestType == [up : Age \cup {None}, gps : Place,
              fix : Location \cup {NoLocation}, aea : Location \cup {NoLocation}]

LEMMA BootedTyped ==
  \A gps \in Place : /\ Booted(gps) \in GuestType
                     /\ [Booted(gps) EXCEPT !.up = None] \in GuestType
BY GrownAge DEF Booted, GuestType

LEMMA InitTyped == Init => TypeOK
<1> SUFFICES ASSUME Init PROVE TypeOK
  OBVIOUS
<1>1. guest \in GuestType
  BY BootedTyped DEF Init, Place
<1>2. Cap \in Age /\ 0 \in Age /\ MaxTrouble \in 0 .. MaxTrouble
  BY SensorHealthAssumption DEF Age
<1> QED
  BY <1>1, <1>2, FreshTyped DEF Init, TypeOK, GuestType

LEMMA SpendTyped ==
  ASSUME TypeOK, NEW d \in BOOLEAN, Spend(d) PROVE trouble' \in 0 .. MaxTrouble
BY SensorHealthAssumption DEF TypeOK, Spend

LEMMA PointTyped ==
  ASSUME TypeOK, NEW place \in {"site", "north"}, PointTo(place)
  PROVE  trouble' \in 0 .. MaxTrouble /\ guest' \in GuestType
<1>1. PICK failed \in BOOLEAN :
        /\ Spend(failed)
        /\ guest' = IF failed THEN guest ELSE [guest EXCEPT !.gps = place]
  BY DEF PointTo
<1>2. trouble' \in 0 .. MaxTrouble
  BY <1>1, SpendTyped
<1> QED
  BY <1>1, <1>2 DEF TypeOK, GuestType, Place

(* The outside.                                                             *)
LEMMA WorldTyped == TypeOK /\ (World \/ Later) => TypeOK'
<1> SUFFICES ASSUME TypeOK, World \/ Later PROVE TypeOK'
  OBVIOUS
<1>0. /\ guest \in GuestType /\ guest.gps \in Place /\ "far" \in Place
      /\ guest.up \in Age \cup {None} /\ 0 \in Age
  BY GrownAge DEF TypeOK, GuestType, Place
<1>t. keeper => Taken \in Location
  BY <1>0 DEF Taken, Location
<1>k. ASSUME NEW l \in Location \cup {NoLocation}
      PROVE GrownLocation(l) \in Location \cup {NoLocation}
  BY GrownAge DEF GrownLocation, Location, NoLocation, Place
<1>1. CASE TakeFix
  <2>1. guest' \in GuestType
    BY <1>0, <1>1 DEF TakeFix, GuestType, Location
  <2> QED
    BY <1>1, <2>1 DEF TakeFix, TypeOK, GuestType, agent, history
<1>2. CASE HandOver
  <2>1. Taken \in Location \cup {NoLocation} /\ Taken.place \in Place
    BY <1>0 DEF Taken, GuestType, Location, NoLocation, Place
  <2>2. guest' \in GuestType
    BY <1>0, <1>2, <2>1 DEF HandOver, GuestType, Location
  <2> QED
    BY <1>2, <2>2 DEF HandOver, TypeOK, GuestType, agent
<1>3. CASE FeedSite
  <2>1. guest' \in GuestType
    BY <1>0, <1>3 DEF FeedSite, GuestType, Place
  <2> QED
    BY <1>3, <2>1 DEF FeedSite, TypeOK, GuestType, agent, history
<1>4. CASE GuestBoots
  <2>1. guest' \in GuestType
    BY <1>0, <1>4, BootedTyped DEF GuestBoots
  <2>2. trouble' \in 0 .. MaxTrouble
    BY <1>4, SpendTyped DEF GuestBoots
  <2> QED
    BY <1>4, <2>1, <2>2 DEF GuestBoots, TripAfterBoot, TypeOK, GuestType, agent
<1>5. CASE Later
  <2>1. Grown(guest.up) \in Age
    BY <1>0, GrownAge
  <2>2. GrownLocation(guest.aea) \in Location \cup {NoLocation}
        /\ GrownLocation(guest.fix) \in Location \cup {NoLocation}
    BY <1>0, <1>k DEF GuestType
  <2>3. guest' \in GuestType
    <3> DEFINE fix2 == IF keeper /\ Known(guest.fix) THEN Taken ELSE GrownLocation(guest.fix)
    <3>1. fix2 \in Location \cup {NoLocation}
      BY <2>2, <1>t
    <3>2. guest' = [guest EXCEPT !.up = Grown(guest.up), !.aea = GrownLocation(guest.aea), !.fix = fix2]
      BY <1>5, <1>0 DEF Later, GuestType
    <3> HIDE DEF fix2
    <3> QED
      BY <1>0, <2>1, <2>2, <3>1, <3>2 DEF GuestType
  <2>4. file' \in State
    <3>1. file \in State /\ file' = GrownState(file)
      BY <1>5 DEF Later, TypeOK
    <3>2. /\ Grown(file.rebooted) \in Age /\ Grown(file.failed) \in Age
          /\ Grown(file.host) \in Age /\ MaybeGrown(file.delivered) \in Age \cup {None}
      BY <3>1, GrownAge DEF State, MaybeGrown
    <3> DEFINE e == IF file.nudge = NoNudge THEN 0 ELSE Grown(file.nudge.elapsed)
               n == [file.nudge EXCEPT !.elapsed = e]
    <3>3. n \in Nudge
      <4>1. CASE file.nudge = NoNudge
        BY <4>1, FreshTyped DEF NoNudge
      <4>2. CASE file.nudge # NoNudge
        <5>1. file.nudge \in [phase : {"out", "back"}, elapsed : Age, outOk : BOOLEAN]
          BY <3>1, <4>2 DEF State, Nudge
        <5>2. e \in Age
          BY <5>1, <4>2, GrownAge
        <5> QED
          BY <5>1, <5>2 DEF Nudge
      <4> QED
        BY <4>1, <4>2
    <3>4. file' = [file EXCEPT !.rebooted = Grown(file.rebooted), !.delivered = MaybeGrown(file.delivered),
                     !.failed = Grown(file.failed), !.host = Grown(file.host), !.nudge = n]
      BY <3>1 DEF GrownState, State
    <3> HIDE DEF n
    <3> QED
      BY <3>1, <3>2, <3>3, <3>4 DEF State
  <2>5. ownReal' \in Age /\ hostReal' \in Age /\ away' \in Age
    BY <1>5, GrownAge DEF Later, TypeOK
  <2> QED
    BY <1>5, <2>3, <2>4, <2>5 DEF Later, TypeOK, GuestType
<1> QED
  BY <1>1, <1>2, <1>3, <1>4, <1>5 DEF World

(* What a check may say: the age it found in the log, or remembers, and ok  *)
(* only for one of these, not too old, and with no problem.                 *)
Reads(r, inLog) ==
  /\ r \in Row
  /\ r.source = "eventlog" => r.age = guest.aea.age /\ r.age \in Age
  /\ r.ok => /\ r.problem = "none" /\ r.age <= MaxAge
            /\ \/ inLog /\ r.age = guest.aea.age
               \/ state.delivered = r.age /\ r.age \in Age /\ r.age < guest.up

LEMMA ReadingTyped ==
  ASSUME TypeOK, NEW registered \in BOOLEAN, NEW inLog \in BOOLEAN, inLog => Known(guest.aea)
  PROVE  Reads(Reading(registered, inLog), inLog)
<1> DEFINE up == guest.up
           aea == AgeReading(up, inLog, state.delivered)
           seen == [NotRead EXCEPT !.up = up]
           read == [seen EXCEPT !.age = aea.age, !.source = aea.source]
           r == Reading(registered, inLog)
<1>0. /\ guest \in GuestType /\ up \in Age \cup {None} /\ state.delivered \in Age \cup {None}
      /\ inLog => guest.aea.age \in Age
  BY DEF TypeOK, GuestType, State, Known, Location, NoLocation
<1>2. /\ aea.age \in Age \cup {None} /\ aea.source \in {"uptime", "remembered", "eventlog"}
      /\ aea.source = "eventlog" => inLog /\ aea.age = guest.aea.age
      /\ aea.source = "remembered" => /\ aea.age = state.delivered /\ aea.age # None /\ aea.age < up
  <2>1. CASE inLog
    BY <2>1, <1>0 DEF AgeReading
  <2>2. CASE ~inLog /\ state.delivered # None /\ state.delivered < up
    BY <2>2, <1>0 DEF AgeReading
  <2>3. CASE ~inLog /\ ~(state.delivered # None /\ state.delivered < up)
    BY <2>3, <1>0 DEF AgeReading
  <2> QED
    BY <2>1, <2>2, <2>3
<1> HIDE DEF aea
<1>1. seen \in Row /\ seen.problem = "none" /\ ~seen.ok /\ seen.source = "none" /\ seen.up = up
  BY <1>0, FreshTyped DEF NotRead, Row
<1>r. read \in Row /\ read.problem = "none" /\ ~read.ok /\ read.age = aea.age /\ read.source = aea.source
  BY <1>1, <1>2 DEF Row
<1>3. \/ r = seen
      \/ \E p \in Problem : r = [seen EXCEPT !.problem = p]
      \/ r = [read EXCEPT !.problem = "stale"]
      \/ /\ r = [read EXCEPT !.ok = registered /\ aea.source # "uptime"]
         /\ ~(aea.age > MaxAge)
  <2>1. CASE ~Known(guest.fix)
    BY <2>1 DEF Reading, Problem, aea
  <2>2. CASE Known(guest.fix) /\ guest.fix.place = "far"
    BY <2>2 DEF Reading, Problem, aea
  <2>3. CASE Known(guest.fix) /\ guest.fix.place # "far" /\ guest.fix.age > MaxAge
    BY <2>3 DEF Reading, Problem, aea
  <2>4. CASE Known(guest.fix) /\ guest.fix.place # "far" /\ ~(guest.fix.age > MaxAge)
    BY <2>4 DEF Reading, aea
  <2> QED
    BY <2>1, <2>2, <2>3, <2>4
<1> SUFFICES Reads(r, inLog)
  OBVIOUS
<1> HIDE DEF r, read, seen
<1>4. CASE r = seen
  BY <1>1, <1>4 DEF Reads
<1>5. ASSUME NEW p \in Problem, r = [seen EXCEPT !.problem = p]
      PROVE  Reads(r, inLog)
  BY <1>1, <1>5 DEF Row, Reads
<1>6. CASE r = [read EXCEPT !.problem = "stale"]
  <2>1. r \in Row /\ ~r.ok /\ r.age = aea.age /\ r.source = aea.source
    BY <1>r, <1>6 DEF Row, Problem
  <2> QED
    BY <1>0, <1>2, <2>1 DEF Reads
<1>7. CASE r = [read EXCEPT !.ok = registered /\ aea.source # "uptime"] /\ ~(aea.age > MaxAge)
  <2>1. ASSUME NEW b \in BOOLEAN, r = [read EXCEPT !.ok = b]
        PROVE  r \in Row /\ r.problem = "none" /\ r.ok = b /\ r.age = aea.age /\ r.source = aea.source
    BY <1>r, <2>1 DEF Row
  <2>2. aea.age \in Int /\ MaxAge \in Int
    BY <1>2, SensorHealthAssumption DEF Age, None, Thresholds
  <2>3. CASE registered /\ aea.source # "uptime"
    <3>1. r = [read EXCEPT !.ok = TRUE]
      BY <1>7, <2>3
    <3>2. r \in Row /\ r.problem = "none" /\ r.age = aea.age /\ r.source = aea.source
      BY <2>1, <3>1
    <3>3. r.age <= MaxAge
      BY <1>7, <2>2, <3>2
    <3>4. aea.source \in {"remembered", "eventlog"}
      BY <1>2, <2>3
    <3>5. CASE aea.source = "eventlog"
      BY <1>0, <1>2, <3>2, <3>3, <3>5 DEF Reads
    <3>6. CASE aea.source = "remembered"
      BY <1>0, <1>2, <3>2, <3>3, <3>6 DEF Reads
    <3> QED
      BY <3>4, <3>5, <3>6
  <2>4. CASE ~(registered /\ aea.source # "uptime")
    <3>1. r = [read EXCEPT !.ok = FALSE]
      BY <1>7, <2>4
    <3> QED
      BY <1>0, <1>2, <2>1, <3>1 DEF Reads
  <2> QED
    BY <2>3, <2>4
<1> QED
  BY <1>3, <1>4, <1>5, <1>6, <1>7

LEMMA CheckTyped == TypeOK /\ Check => TypeOK'
<1> SUFFICES ASSUME TypeOK, Check PROVE TypeOK'
  OBVIOUS
<1>1. PICK readable \in BOOLEAN, registered \in BOOLEAN, inLog \in BOOLEAN :
        /\ inLog => Known(guest.aea)
        /\ Spend(~readable \/ ~registered)
        /\ row' = IF readable THEN Reading(registered, inLog) ELSE NotRead
  BY DEF Check
<1>2. row' \in Row /\ (row'.source = "eventlog" => row'.age \in Age)
  BY <1>1, ReadingTyped, FreshTyped DEF NotRead, Reads
<1>3. trouble' \in 0 .. MaxTrouble
  <2>1. (~readable \/ ~registered) \in BOOLEAN
    OBVIOUS
  <2> QED
    BY <1>1, <2>1, SpendTyped
<1>4. state' \in State
  BY <1>2 DEF Check, TypeOK, State
<1> QED
  BY <1>2, <1>3, <1>4 DEF Check, TypeOK, history, Steps

LEMMA CountedTyped == \A n \in 0 .. ProblemRuns : Counted(n) \in 0 .. ProblemRuns
BY SensorHealthAssumption DEF Counted

LEMMA RepairTyped == TypeOK /\ Repair => TypeOK'
<1> SUFFICES ASSUME TypeOK, Repair PROVE TypeOK'
  OBVIOUS
<1> DEFINE counted == [state EXCEPT !.problemRuns = Counted(state.problemRuns)]
<1>1. counted \in State
  BY CountedTyped DEF TypeOK, State
<1>2. \/ /\ state' = counted
         /\ UNCHANGED <<guest, ownReal, hostReal, forgot>>
         /\ trouble' = trouble \/ AlertInProgress
      \/ /\ state' = [counted EXCEPT !.rebooted = 0, !.host = 0, !.problemRuns = 0]
         /\ ownReal' = 0 /\ hostReal' = 0 /\ forgot' = {}
         /\ \E failed \in BOOLEAN :
              /\ Spend(failed)
              /\ guest' = IF failed THEN guest ELSE [Booted(guest.gps) EXCEPT !.up = None]
  BY DEF Repair
<1> HIDE DEF counted
<1>3. guest' \in GuestType
  BY <1>2, BootedTyped DEF TypeOK, GuestType
<1>4. trouble' \in 0 .. MaxTrouble
  BY <1>2, SpendTyped DEF AlertInProgress, TypeOK
<1>5. state' \in State
  <2>1. 0 \in Age /\ 0 \in 0 .. ProblemRuns
    BY SensorHealthAssumption DEF Age
  <2> QED
    BY <1>1, <1>2, <2>1 DEF State
<1>6. ownReal' \in Age /\ hostReal' \in Age /\ forgot' \in SUBSET {"own", "host"}
  BY <1>2, GrownAge DEF TypeOK
<1>7. trip' \in {"none", "begun", "made"}
  BY DEF Repair, TripAfterBoot, TypeOK
<1> QED
  BY <1>3, <1>4, <1>5, <1>6, <1>7 DEF Repair, TypeOK, GuestType, Steps

LEMMA NudgeStepTyped == TypeOK /\ NudgeStep => TypeOK'
<1> SUFFICES ASSUME TypeOK, NudgeStep PROVE TypeOK'
  OBVIOUS
<1> DEFINE nudge == Aborted(state.nudge)
<1>0. /\ state \in State /\ row \in Row /\ guest \in GuestType /\ 0 \in Age
      /\ \A n \in Nudge : [state EXCEPT !.nudge = n] \in State
      /\ \A n \in Nudge : [state EXCEPT !.nudge = n, !.failed = 0] \in State
      /\ \A p \in {"site", "north"} : [guest EXCEPT !.gps = p] \in GuestType
  BY GrownAge DEF TypeOK, GuestType, State, Place
<1>1. nudge \in Nudge
  BY <1>0, FreshTyped DEF Aborted, State
<1>2. \A b \in BOOLEAN : Begun("out", b) \in Nudge /\ Begun("back", b) \in Nudge
  BY <1>0 DEF Begun, Nudge
<1>b. Delivered(nudge) \in BOOLEAN
  BY DEF Delivered
<1>3. /\ pc' = "end"
      /\ UNCHANGED <<keeper, file, row, ownReal, hostReal, forgot>>
      /\ \/ /\ state' = [state EXCEPT !.nudge = nudge] /\ UNCHANGED <<guest, trouble, away, trip>>
         \/ GoOut
         \/ /\ AlertInProgress
            /\ state' = [state EXCEPT !.nudge = nudge] /\ UNCHANGED <<guest, away, trip>>
         \/ WayOut(nudge)
         \/ WayBack(nudge)
  BY DEF NudgeStep
<1> HIDE DEF nudge
<1>4. CASE state' = [state EXCEPT !.nudge = nudge] /\ UNCHANGED <<guest, trouble, away, trip>>
  BY <1>0, <1>1, <1>3, <1>4 DEF TypeOK, GuestType, Steps
<1>5. CASE GoOut
  <2>1. \/ /\ state' = [state EXCEPT !.nudge = Begun("out", FALSE)]
           /\ PointTo("north")
           /\ trip' \in {"none", "begun"} /\ away' = 0
        \/ /\ Spend(keeper /\ guest.up # None)
           /\ state' = [state EXCEPT !.nudge = NoNudge]
           /\ UNCHANGED <<guest, away, trip>>
    BY <1>5 DEF GoOut
  <2>2. trouble' \in 0 .. MaxTrouble /\ guest' \in GuestType
    <3>1. CASE PointTo("north")
      BY <3>1, PointTyped
    <3>2. CASE Spend(keeper /\ guest.up # None) /\ guest' = guest
      <4>1. (keeper /\ guest.up # None) \in BOOLEAN
        OBVIOUS
      <4> QED
        BY <1>0, <3>2, <4>1, SpendTyped
    <3> QED
      BY <2>1, <3>1, <3>2
  <2>3. state' \in State
    BY <1>0, <1>2, <2>1, FreshTyped
  <2>4. away' \in Age /\ trip' \in {"none", "begun", "made"}
    BY <1>0, <2>1 DEF TypeOK
  <2> QED
    BY <1>3, <2>2, <2>3, <2>4 DEF TypeOK, GuestType, Steps
<1>6. CASE AlertInProgress /\ state' = [state EXCEPT !.nudge = nudge] /\ UNCHANGED <<guest, away, trip>>
  <2>1. trouble' \in 0 .. MaxTrouble
    BY <1>6, SpendTyped DEF AlertInProgress
  <2> QED
    BY <1>0, <1>1, <1>3, <1>6, <2>1 DEF TypeOK, GuestType, Steps
<1>7. CASE WayOut(nudge)
  <2>1. \E n \in Nudge : state' = [state EXCEPT !.nudge = n]
    BY <1>1, <1>2, <1>7, <1>b DEF WayOut
  <2>2. trouble' \in 0 .. MaxTrouble /\ guest' \in GuestType
    <3>1. PointTo("site") \/ UNCHANGED <<guest, trouble>>
      BY <1>7 DEF WayOut
    <3> QED
      BY <1>0, <3>1, PointTyped DEF TypeOK
  <2>3. state' \in State
    BY <1>0, <2>1
  <2> QED
    BY <1>3, <1>7, <2>2, <2>3 DEF WayOut, TypeOK, GuestType, Steps
<1>8. CASE WayBack(nudge)
  <2> DEFINE fails == ~Delivered(nudge) /\ nudge.elapsed >= 2 * Leg
             n == IF Delivered(nudge) \/ fails THEN NoNudge ELSE nudge
             f == IF fails THEN 0 ELSE state.failed
  <2>1. n \in Nudge
    BY <1>1, FreshTyped
  <2>2. state' = [state EXCEPT !.nudge = n, !.failed = f]
    BY <1>8 DEF WayBack
  <2>3. f \in Age
    BY <1>0 DEF State
  <2>4. state' \in State
    <3> HIDE DEF n, f
    <3> QED
      BY <1>0, <2>1, <2>2, <2>3 DEF State
  <2> QED
    BY <1>0, <1>3, <1>8, <2>4 DEF WayBack, TypeOK, GuestType, Steps
<1> QED
  BY <1>3, <1>4, <1>5, <1>6, <1>7, <1>8

LEMMA NextTyped == TypeOK /\ [Next]_vars => TypeOK'
<1> SUFFICES ASSUME TypeOK, [Next]_vars PROVE TypeOK'
  OBVIOUS
<1>1. CASE StartRun
  BY <1>1 DEF StartRun, TypeOK, history, Steps
<1>2. CASE OthersRow
  <2>1. trouble' \in 0 .. MaxTrouble
    BY <1>2, SpendTyped DEF OthersRow
  <2>2. state' \in State /\ hostReal' \in Age
    BY <1>2, GrownAge DEF OthersRow, TypeOK, State
  <2> QED
    BY <1>2, <2>1, <2>2 DEF OthersRow, TypeOK
<1>3. CASE GeoFix
  <2>1. trouble' \in 0 .. MaxTrouble /\ guest' \in GuestType
    BY <1>3, PointTyped DEF GeoFix, GeoFixTarget
  <2> QED
    BY <1>3, <2>1 DEF GeoFix, TypeOK, GuestType, history, Steps
<1>4. CASE Check
  BY <1>4, CheckTyped
<1>5. CASE Repair
  BY <1>5, RepairTyped
<1>6. CASE Report
  <2>1. trouble' \in 0 .. MaxTrouble
    BY <1>6, SpendTyped DEF Report
  <2> QED
    BY <1>6, <2>1 DEF Report, TypeOK, history, Steps
<1>7. CASE NudgeStep
  BY <1>7, NudgeStepTyped
<1>8. CASE EndRun
  BY <1>8, FreshTyped DEF EndRun, TypeOK, history
<1>9. CASE World \/ Later
  BY <1>9, WorldTyped
<1>10. CASE Die
  <2>1. trouble' \in 0 .. MaxTrouble
    BY <1>10, SpendTyped DEF Die
  <2>2. forgot' \in SUBSET {"own", "host"}
    BY <1>10 DEF Die, Unsaved, TypeOK
  <2> QED
    BY <1>10, <2>1, <2>2, FreshTyped DEF Die, TypeOK
<1>11. CASE UNCHANGED vars
  BY <1>11 DEF vars, agent, history, TypeOK
<1> QED
  BY <1>1, <1>2, <1>3, <1>4, <1>5, <1>6, <1>7, <1>8, <1>9, <1>10, <1>11 DEF Next, Run

-----------------------------------------------------------------------------
(* A delivery that counts for this boot is no younger than the location AEA *)
(* really holds. It must be part of the invariant for the file as well: the *)
(* next run reads it there.                                                 *)
Remembers(s) ==
  s.delivered \in Age /\ s.delivered < guest.up =>
    Known(guest.aea) /\ guest.aea.age <= s.delivered

(* The reboots that are known of are no older than what is written of them. *)
Spaced(s) ==
  /\ "own" \notin forgot => s.rebooted <= ownReal
  /\ "host" \notin forgot => s.host <= hostReal

RowIsTrue ==
  pc \in {"repair", "report"} /\ row.ok =>
    row.problem = "none" /\ Known(guest.aea) /\ guest.aea.age <= MaxAge

IInv ==
  /\ TypeOK
  /\ Remembers(file)
  /\ pc \in Steps => Remembers(state) /\ Spaced(state)
  /\ pc \notin Steps => Spaced(file)
  /\ RowIsTrue

LEMMA InitIInv == Init => IInv
<1> SUFFICES ASSUME Init PROVE IInv
  OBVIOUS
<1>1. TypeOK
  BY InitTyped
<1>2. Remembers(file)
  BY DEF Init, Remembers, FreshState, None, Age
<1>3. Spaced(file)
  BY SensorHealthAssumption DEF Init, Spaced, FreshState
<1> QED
  BY <1>1, <1>2, <1>3 DEF Init, IInv, RowIsTrue, Steps

(* What a run remembers stays true while the guest keeps its boot and its   *)
(* location, and when it reboots.                                           *)
LEMMA SameGuestRemembers ==
  ASSUME TypeOK, NEW s, Remembers(s),
         \/ guest'.up = guest.up /\ guest'.aea = guest.aea
         \/ guest'.up = None \/ guest'.up = 0,
         NEW t, t.delivered = s.delivered
  PROVE  t.delivered \in Age /\ t.delivered < guest'.up =>
           Known(guest'.aea) /\ guest'.aea.age <= t.delivered
BY SensorHealthAssumption DEF Remembers, None, Age

(* The world changes nothing of what the run keeps, and a hand-over is new. *)
LEMMA WorldIInv == IInv /\ World => IInv'
<1> SUFFICES ASSUME IInv, World PROVE IInv'
  OBVIOUS
<1>1. TypeOK /\ TypeOK'
  BY WorldTyped DEF IInv
<1>2. /\ pc = "world" /\ pc' = "world" /\ file' = file /\ forgot' = forgot
      /\ ownReal' = ownReal /\ hostReal' = hostReal
  BY DEF World, TakeFix, HandOver, FeedSite, GuestBoots, agent, history
<1>3. Remembers(file)'
  <2>1. CASE TakeFix \/ FeedSite \/ GuestBoots
    <3>1. \/ guest'.up = guest.up /\ guest'.aea = guest.aea
          \/ guest'.up = 0
      <4>1. CASE TakeFix \/ FeedSite
        BY <1>1, <4>1 DEF TakeFix, FeedSite, TypeOK
      <4>2. CASE GuestBoots
        BY <4>2 DEF GuestBoots, Booted
      <4> QED
        BY <2>1, <4>1, <4>2
    <3> QED
      BY <1>1, <1>2, <3>1, SameGuestRemembers DEF IInv, Remembers
  <2>2. CASE HandOver
    <3>1. guest'.aea.age = 0
      BY <1>1, <2>2 DEF HandOver, TypeOK
    <3> QED
      BY <1>2, <3>1 DEF Remembers, Known, None, Age
  <2> QED
    BY <2>1, <2>2 DEF World
<1> QED
  BY <1>1, <1>2, <1>3 DEF IInv, Spaced, RowIsTrue, Steps

(* Half a period: what is written and what is real grow together.           *)
LEMMA LaterIInv == IInv /\ Later => IInv'
<1> SUFFICES ASSUME IInv, Later PROVE IInv'
  OBVIOUS
<1>1. TypeOK /\ TypeOK'
  BY WorldTyped DEF IInv
<1>2. /\ pc \notin Steps /\ pc' \notin Steps /\ forgot' = forgot
      /\ ownReal' = Grown(ownReal) /\ hostReal' = Grown(hostReal)
      /\ pc' \notin {"repair", "report"}
  BY DEF Later, Steps
<1>3. file \in State /\ ownReal \in Age /\ hostReal \in Age
      /\ file.rebooted \in Age /\ file.host \in Age /\ file.delivered \in Age \cup {None}
  BY <1>1 DEF TypeOK, State
<1>4. /\ file'.rebooted = Grown(file.rebooted) /\ file'.host = Grown(file.host)
      /\ file'.delivered = MaybeGrown(file.delivered)
  BY <1>3 DEF Later, GrownState, State
<1>5. Spaced(file)'
  <2>1. Spaced(file)
    BY <1>2 DEF IInv
  <2> QED
    BY <1>2, <1>3, <1>4, <2>1, GrownAge DEF Spaced
<1>6. Remembers(file)'
  <2> SUFFICES ASSUME file'.delivered \in Age, file'.delivered < guest'.up
               PROVE  Known(guest'.aea) /\ guest'.aea.age <= file'.delivered
    BY DEF Remembers
  <2>1. /\ guest'.up = Grown(guest.up) /\ guest'.aea = GrownLocation(guest.aea)
        /\ guest.up \in Age \cup {None} /\ guest.aea \in Location \cup {NoLocation}
    BY <1>1 DEF Later, TypeOK
  <2>2. file.delivered \in Age /\ file'.delivered = Grown(file.delivered)
    BY <1>3, <1>4, GrownAge DEF MaybeGrown
  <2>3. file.delivered < guest.up
    BY <2>1, <2>2, GrownAge
  <2>4. Known(guest.aea) /\ guest.aea.age <= file.delivered
    BY <2>2, <2>3 DEF IInv, Remembers
  <2>5. guest.aea \in Location /\ guest.aea # NoLocation /\ guest.aea.age \in Age
    BY <2>1, <2>4, GrownAge DEF Known, NoLocation, Location
  <2>6. guest'.aea.age = Grown(guest.aea.age)
    BY <2>1, <2>5 DEF GrownLocation, Location
  <2>7. Grown(guest.aea.age) <= Grown(file.delivered) /\ Grown(guest.aea.age) \in Age
    BY <2>2, <2>4, <2>5, GrownAge
  <2> QED
    BY <2>2, <2>6, <2>7, GrownAge DEF Known
<1> QED
  BY <1>1, <1>2, <1>5, <1>6 DEF IInv, RowIsTrue

(* The check: what it says is true of the guest, and so is what it notes.   *)
LEMMA CheckIInv == IInv /\ Check => IInv'
<1> SUFFICES ASSUME IInv, Check PROVE IInv'
  OBVIOUS
<1>1. TypeOK /\ TypeOK'
  BY CheckTyped DEF IInv
<1>2. /\ pc = "check" /\ pc' = "repair" /\ guest' = guest /\ file' = file
      /\ forgot' = forgot /\ ownReal' = ownReal /\ hostReal' = hostReal
      /\ state' = IF row'.source = "eventlog" THEN [state EXCEPT !.delivered = row'.age] ELSE state
  BY DEF Check, history
<1>3. PICK readable \in BOOLEAN, registered \in BOOLEAN, inLog \in BOOLEAN :
        /\ inLog => Known(guest.aea)
        /\ row' = IF readable THEN Reading(registered, inLog) ELSE NotRead
  BY DEF Check
<1>4. (row' = NotRead \/ Reads(row', inLog)) /\ NotRead.source = "none" /\ ~NotRead.ok
  BY <1>1, <1>3, ReadingTyped DEF NotRead
<1>5. Remembers(state) /\ Spaced(state) /\ Remembers(file) /\ state \in State
  BY <1>1, <1>2 DEF IInv, Steps, TypeOK
<1>6. state'.rebooted = state.rebooted /\ state'.host = state.host
  BY <1>2, <1>5 DEF State
<1>7. Remembers(state)'
  <2>1. CASE row'.source # "eventlog"
    BY <1>2, <1>5, <2>1 DEF Remembers
  <2>2. CASE row'.source = "eventlog"
    <3>1. state'.delivered = guest.aea.age /\ guest.aea.age \in Age
      BY <1>2, <1>4, <1>5, <2>2 DEF Reads, State
    <3> QED
      BY <1>2, <3>1, GrownAge DEF Remembers, Known, Age
  <2> QED
    BY <2>1, <2>2
<1>8. RowIsTrue'
  <2> SUFFICES ASSUME row'.ok
               PROVE  row'.problem = "none" /\ Known(guest.aea) /\ guest.aea.age <= MaxAge
    BY <1>2 DEF RowIsTrue, Known
  <2>1. Reads(row', inLog)
    BY <1>4
  <2>2. CASE inLog /\ row'.age = guest.aea.age
    BY <1>3, <2>1, <2>2 DEF Reads
  <2>3. CASE state.delivered = row'.age /\ row'.age \in Age /\ row'.age < guest.up
    <3>1. Known(guest.aea) /\ guest.aea.age <= row'.age
      BY <1>5, <2>3 DEF Remembers
    <3>2. guest.aea.age \in Int /\ row'.age \in Int /\ MaxAge \in Int
      BY <1>1, <2>3, SensorHealthAssumption
      DEF TypeOK, Location, NoLocation, Age, None, Thresholds
    <3> QED
      BY <2>1, <3>1, <3>2 DEF Reads
  <2> QED
    BY <2>1, <2>2, <2>3 DEF Reads
<1> QED
  BY <1>1, <1>2, <1>5, <1>6, <1>7, <1>8 DEF IInv, Remembers, Spaced, Steps

(* A reboot is written down as it is ordered, and no row that is ok orders  *)
(* one.                                                                     *)
LEMMA RepairSteps ==
  ASSUME TypeOK, Repair
  PROVE  /\ pc = "repair" /\ pc' = "report" /\ file' = file /\ row' = row
         /\ state'.delivered = state.delivered
         /\ \/ /\ guest' = guest /\ state'.rebooted = state.rebooted /\ state'.host = state.host
               /\ UNCHANGED <<ownReal, hostReal, forgot>>
            \/ /\ guest' = guest \/ guest'.up = None
               /\ row.problem # "none"
               /\ state.rebooted >= RebootInterval /\ state.host >= HostSpacing
               /\ state'.rebooted = 0 /\ state'.host = 0
               /\ ownReal' = 0 /\ hostReal' = 0 /\ forgot' = {}
<1> DEFINE counted == [state EXCEPT !.problemRuns = Counted(state.problemRuns)]
<1>1. /\ counted \in State /\ counted.delivered = state.delivered
      /\ counted.rebooted = state.rebooted /\ counted.host = state.host
      /\ counted.problemRuns = Counted(state.problemRuns)
  BY CountedTyped DEF TypeOK, State
<1>2. /\ pc = "repair" /\ pc' = "report" /\ file' = file /\ row' = row
      /\ \/ state' = counted /\ UNCHANGED <<guest, ownReal, hostReal, forgot>>
         \/ /\ MayReboot(counted)
            /\ state' = [counted EXCEPT !.rebooted = 0, !.host = 0, !.problemRuns = 0]
            /\ ownReal' = 0 /\ hostReal' = 0 /\ forgot' = {}
            /\ guest' = guest \/ guest' = [Booted(guest.gps) EXCEPT !.up = None]
  BY DEF Repair
<1> HIDE DEF counted
<1>3. MayReboot(counted) => /\ row.problem # "none"
                            /\ state.rebooted >= RebootInterval /\ state.host >= HostSpacing
  BY <1>1, SensorHealthAssumption DEF MayReboot, Counted
<1>4. [Booted(guest.gps) EXCEPT !.up = None].up = None
  BY DEF Booted
<1> QED
  BY <1>1, <1>2, <1>3, <1>4 DEF State

LEMMA RepairIInv == IInv /\ Repair => IInv'
<1> SUFFICES ASSUME IInv, Repair PROVE IInv'
  OBVIOUS
<1>1. TypeOK /\ TypeOK'
  BY RepairTyped DEF IInv
<1>2. /\ Remembers(state) /\ Spaced(state) /\ Remembers(file) /\ pc' \in Steps
      /\ pc = "repair" /\ pc' = "report"
  BY DEF Repair, IInv, Steps
<1>3. Remembers(state)' /\ Remembers(file)'
  <2>1. guest' = guest \/ guest'.up = None
    BY <1>1, RepairSteps
  <2>2. file' = file /\ state'.delivered = state.delivered
    BY <1>1, RepairSteps
  <2> QED
    BY <1>1, <1>2, <2>1, <2>2, SameGuestRemembers DEF Remembers
<1>4. Spaced(state)'
  BY <1>1, <1>2, RepairSteps DEF Spaced
<1>5. RowIsTrue'
  <2>1. row.ok => row.problem = "none" /\ Known(guest.aea) /\ guest.aea.age <= MaxAge
    BY <1>2 DEF IInv, RowIsTrue
  <2>2. row' = row /\ (guest' = guest \/ row.problem # "none")
    BY <1>1, RepairSteps
  <2> QED
    BY <2>1, <2>2 DEF RowIsTrue, Known
<1> QED
  BY <1>1, <1>2, <1>3, <1>4, <1>5 DEF IInv

(* Nudging moves the guest; it writes nothing of deliveries or reboots.     *)
LEMMA NudgeSteps ==
  ASSUME TypeOK, NudgeStep
  PROVE  /\ pc = "nudge" /\ pc' = "end" /\ UNCHANGED <<file, ownReal, hostReal, forgot>>
         /\ guest'.up = guest.up /\ guest'.aea = guest.aea
         /\ state'.delivered = state.delivered /\ state'.rebooted = state.rebooted
         /\ state'.host = state.host
<1> DEFINE nudge == Aborted(state.nudge)
<1>1. \E n, f : state' = [state EXCEPT !.nudge = n, !.failed = f]
  <2>1. \/ \E n : state' = [state EXCEPT !.nudge = n]
        \/ \E n, f : state' = [state EXCEPT !.nudge = n, !.failed = f]
    BY DEF NudgeStep, GoOut, WayOut, WayBack, PointTo
  <2>2. \A n : [state EXCEPT !.nudge = n] = [state EXCEPT !.nudge = n, !.failed = state.failed]
    BY DEF TypeOK, State
  <2> QED
    BY <2>1, <2>2
<1>2. guest' = guest \/ \E p : guest' = [guest EXCEPT !.gps = p]
  BY DEF NudgeStep, GoOut, WayOut, WayBack, PointTo
<1>3. guest'.up = guest.up /\ guest'.aea = guest.aea
  BY <1>2 DEF TypeOK
<1> QED
  BY <1>1, <1>3 DEF NudgeStep, TypeOK, State

LEMMA NextIInv == IInv /\ [Next]_vars => IInv'
<1> SUFFICES ASSUME IInv, [Next]_vars PROVE IInv'
  OBVIOUS
<1>0. TypeOK /\ TypeOK'
  BY NextTyped DEF IInv
<1>1. CASE StartRun
  BY <1>0, <1>1 DEF StartRun, IInv, Remembers, Spaced, RowIsTrue, history, Steps
<1>2. CASE OthersRow
  <2>1. /\ pc' = pc /\ pc \in {"row", "end"} /\ guest' = guest /\ file' = file
        /\ state'.delivered = state.delivered /\ state'.rebooted = state.rebooted
        /\ state'.host = 0 /\ hostReal' = 0 /\ ownReal' = ownReal /\ forgot' \subseteq forgot
        /\ ("own" \notin forgot' => "own" \notin forgot)
    BY <1>0, <1>2 DEF OthersRow, TypeOK, State
  <2> QED
    BY <1>0, <2>1 DEF IInv, Remembers, Spaced, RowIsTrue, Steps
<1>3. CASE GeoFix
  <2>1. /\ pc = "check" \/ pc = "row"
        /\ pc' = "check" /\ UNCHANGED <<file, state, row, ownReal, hostReal, forgot>>
        /\ guest'.up = guest.up /\ guest'.aea = guest.aea
    <3>1. guest' = guest \/ guest' = [guest EXCEPT !.gps = GeoFixTarget(state.nudge)]
      BY <1>3 DEF GeoFix, PointTo
    <3> QED
      BY <1>0, <1>3, <3>1 DEF GeoFix, history, TypeOK
  <2> QED
    BY <1>0, <2>1 DEF IInv, Remembers, Spaced, RowIsTrue, Steps, Known
<1>4. CASE Check
  BY <1>4, CheckIInv
<1>5. CASE Repair
  BY <1>5, RepairIInv
<1>6. CASE Report
  BY <1>0, <1>6 DEF Report, IInv, Remembers, Spaced, RowIsTrue, history, Steps
<1>7. CASE NudgeStep
  <2>1. Remembers(state) /\ Spaced(state)
    BY <1>7 DEF NudgeStep, IInv, Steps
  <2> QED
    BY <1>0, <1>7, <2>1, NudgeSteps DEF IInv, Remembers, Spaced, RowIsTrue, Steps, Known
<1>8. CASE EndRun
  BY <1>0, <1>8 DEF EndRun, IInv, Remembers, Spaced, RowIsTrue, history, Steps
<1>9. CASE World
  BY <1>9, WorldIInv
<1>10. CASE Later
  BY <1>10, LaterIInv
<1>11. CASE Die
  <2>1. /\ pc' = "ran" /\ guest' = guest /\ file' = file /\ ownReal' = ownReal /\ hostReal' = hostReal
        /\ pc \in Steps \cup {"due"}
        /\ forgot' = forgot \cup (IF pc = "due" THEN {} ELSE Unsaved)
    BY <1>11 DEF Die
  <2>2. Spaced(file)'
    <3>1. CASE pc = "due"
      BY <2>1, <3>1 DEF IInv, Spaced, Steps
    <3>2. CASE pc # "due"
      <4>1. Spaced(state)
        BY <2>1, <3>2 DEF IInv
      <4>2. /\ "own" \notin forgot' => "own" \notin forgot /\ state.rebooted = file.rebooted
            /\ "host" \notin forgot' => "host" \notin forgot /\ state.host = file.host
        BY <2>1, <3>2 DEF Unsaved
      <4> QED
        BY <2>1, <4>1, <4>2 DEF Spaced
    <3> QED
      BY <3>1, <3>2
  <2> QED
    BY <1>0, <2>1, <2>2 DEF IInv, Remembers, RowIsTrue, Steps
<1>12. CASE UNCHANGED vars
  BY <1>0, <1>12 DEF vars, agent, history, IInv, Remembers, Spaced, RowIsTrue, Known
<1> QED
  BY <1>1, <1>2, <1>3, <1>4, <1>5, <1>6, <1>7, <1>8, <1>9, <1>10, <1>11, <1>12 DEF Next, Run

LEMMA AlwaysIInv == Spec => []IInv
<1>1. Init => IInv
  BY InitIInv
<1>2. IInv /\ [Next]_vars => IInv'
  BY NextIInv
<1> QED
  BY <1>1, <1>2, PTL DEF Spec

(* The agent's state, file and row are well typed, whatever dies or boots.  *)
THEOREM AgentTyped == Spec => []TypeOK
<1>1. IInv => TypeOK
  BY DEF IInv
<1> QED
  BY <1>1, AlwaysIInv, PTL

(* The gateway is told "ok" only of a receptor whose AEA holds a location   *)
(* of this boot that is not too old, also when an earlier run read it.      *)
THEOREM ReportedOkIsTrue == Spec => []OkIsTrue
<1>1. IInv => OkIsTrue
  BY DEF IInv, RowIsTrue, OkIsTrue
<1> QED
  BY <1>1, AlwaysIInv, PTL

(* The spacing of reboots over all runs, crashes of runs and other rows.    *)
THEOREM RebootsAreSpaced == Spec => RebootsSpaced
<1> DEFINE Apart == /\ ownReal' < ownReal => ownReal >= RebootInterval \/ "own" \in forgot
                    /\ hostReal' < hostReal => hostReal >= HostSpacing \/ "host" \in forgot
<1>1. ASSUME IInv, [Next]_vars PROVE [Apart]_vars
  <2>0. TypeOK /\ ownReal \in Int /\ hostReal \in Int
    BY <1>1 DEF IInv, TypeOK, Age
  <2>c. RebootInterval \in Int /\ HostSpacing \in Int
    BY SensorHealthAssumption DEF Thresholds
  <2>1. CASE Repair
    <3>1. Spaced(state) /\ state.rebooted \in Int /\ state.host \in Int
      BY <1>1, <2>1 DEF IInv, Repair, Steps, TypeOK, State, Age
    <3> QED
      BY <2>0, <2>c, <2>1, <3>1, RepairSteps DEF Spaced
  <2>2. CASE OthersRow
    <3>1. Spaced(state) /\ state.host \in Int
      BY <1>1, <2>2 DEF IInv, OthersRow, Steps, TypeOK, State, Age
    <3> QED
      BY <2>0, <2>c, <2>2, <3>1 DEF OthersRow, Spaced
  <2>3. CASE Later
    BY <1>1, <2>0, <2>3, GrownAge DEF Later, TypeOK, Age
  <2>4. CASE ownReal' = ownReal /\ hostReal' = hostReal
    BY <2>0, <2>4
  <2>5. \/ Repair \/ OthersRow \/ Later
        \/ ownReal' = ownReal /\ hostReal' = hostReal
    BY <1>1 DEF Next, Run, World, StartRun, GeoFix, Check, Report, NudgeStep, EndRun, TakeFix,
         HandOver, FeedSite, GuestBoots, Die, vars, history
  <2> QED
    BY <2>1, <2>2, <2>3, <2>4, <2>5
<1> QED
  BY <1>1, AlwaysIInv, PTL DEF Spec, RebootsSpaced

-----------------------------------------------------------------------------
(* A way out ends at the first check after its leg, or a period later for   *)
(* each run that was lost: ages are told apart that long.                   *)
AgesReach == Leg + 2 + 2 * MaxTrouble < Cap

Lost == MaxTrouble - trouble
SinceRun == IF pc = "ran" THEN 0 ELSE IF pc = "world" THEN 1 ELSE 2

LegEnds ==
  /\ file.nudge.phase = "out" => file.nudge.elapsed <= Leg + 2 * Lost + SinceRun
  /\ pc = "end" /\ state.nudge.phase = "out" => state.nudge.elapsed <= Leg + 2 * Lost

(* What is known of a way out that is remembered: AEA was handed a location *)
(* since, or the guest booted, which the next check sees, or AEA still has  *)
(* what it had.                                                             *)
Grounded(nudge) ==
  nudge.phase = "out" =>
    \/ trip = "made"
    \/ guest.up = None \/ nudge.elapsed > guest.up
    \/ trip = "begun" /\ (Known(guest.aea) => guest.aea.age >= nudge.elapsed)

OutGrounded ==
  /\ Grounded(file.nudge)
  /\ pc = "end" => Grounded(state.nudge)
  /\ pc \in Steps \ {"end"} => state.nudge = file.nudge
  /\ pc # "ran" /\ file.nudge.phase = "out" => file.nudge.elapsed > 0

(* What the check read of the guest, and what it would confirm by it.       *)
Confirms(nudge) == nudge.phase = "out" /\ Delivered(nudge) /\ nudge.elapsed <= row.up
RowGrounded ==
  /\ guest.up = None => pc \in {"report", "nudge", "end", "ran"}
  /\ pc \in {"repair", "report", "nudge"} =>
       /\ row.age # None => row.up # None
       /\ row.up # None => guest.up = row.up \/ guest.up = None
       /\ Confirms(state.nudge) => trip = "made"

TripInv == IInv /\ LegEnds /\ OutGrounded /\ RowGrounded

(* What the types say of a nudge, of the uptime and of the lost runs.       *)
LEMMA TripNumbers ==
  ASSUME TypeOK
  PROVE  /\ file.nudge \in Nudge /\ state.nudge \in Nudge
         /\ file.nudge.elapsed \in Age /\ state.nudge.elapsed \in Age
         /\ guest.up \in Age \cup {None} /\ guest.aea \in Location \cup {NoLocation}
         /\ Lost \in Nat /\ Leg \in Nat /\ Cap \in Nat /\ SinceRun \in 0 .. 2
         /\ Lost <= MaxTrouble /\ MaxTrouble \in Nat
         /\ \A n \in Nudge : n.elapsed \in Age /\ (n.phase = "out" => n # NoNudge)
<1>1. \A n \in Nudge : n.elapsed \in Age /\ (n.phase = "out" => n # NoNudge)
  BY GrownAge DEF Nudge, NoNudge
<1>2. file.nudge \in Nudge /\ state.nudge \in Nudge
  BY DEF TypeOK, State
<1>3. guest.up \in Age \cup {None} /\ guest.aea \in Location \cup {NoLocation}
  BY DEF TypeOK
<1>4. Lost \in Nat /\ Lost <= MaxTrouble /\ Leg \in Nat /\ Cap \in Nat /\ MaxTrouble \in Nat
  BY SensorHealthAssumption DEF TypeOK, Lost
<1> QED
  BY <1>1, <1>2, <1>3, <1>4 DEF SinceRun

(* What a disturbance costs.                                                *)
LEMMA SpendLost ==
  ASSUME TypeOK, NEW d, Spend(d)
  PROVE  /\ trouble' <= trouble /\ Lost' >= Lost /\ Lost' \in Int
         /\ d => Lost' = Lost + 1
BY SensorHealthAssumption DEF TypeOK, Lost, Spend

LEMMA InitTrip == Init => TripInv
<1> SUFFICES ASSUME Init PROVE TripInv
  OBVIOUS
<1>1. /\ pc = "world" /\ file.nudge = NoNudge /\ guest.up = 0
  BY DEF Init, FreshState, Booted
<1>2. NoNudge.phase # "out" /\ None # 0
  BY DEF NoNudge, None
<1> QED
  BY <1>1, <1>2, InitIInv DEF TripInv, LegEnds, OutGrounded, RowGrounded, Grounded, Steps

(* The world only hands a location over or boots the guest.                 *)
LEMMA WorldTrip == TripInv /\ World => TripInv'
<1> SUFFICES ASSUME TripInv, World PROVE TripInv'
  OBVIOUS
<1>1. TypeOK /\ TypeOK' /\ IInv'
  BY WorldIInv, WorldTyped DEF TripInv, IInv
<1>2. /\ pc = "world" /\ pc' = "world" /\ file' = file
      /\ Lost' >= Lost /\ Lost' \in Int
  <2>1. pc = "world" /\ pc' = "world" /\ file' = file
    BY DEF World, TakeFix, HandOver, FeedSite, GuestBoots, agent
  <2>2. trouble' = trouble \/ Spend(TRUE)
    BY DEF World, TakeFix, HandOver, FeedSite, GuestBoots
  <2>3. CASE Spend(TRUE)
    BY <1>1, <2>1, <2>3, SpendLost
  <2>4. CASE trouble' = trouble
    BY <1>1, <2>1, <2>4, TripNumbers DEF Lost
  <2> QED
    BY <2>2, <2>3, <2>4
<1>3. /\ guest.up # None
      /\ \/ guest'.up = guest.up /\ guest'.aea = guest.aea /\ trip' = trip
         \/ guest'.up = guest.up /\ trip' = IF trip = "begun" THEN "made" ELSE trip
         \/ guest'.up = 0 /\ (trip = "made" => trip' = "made")
  <2>1. CASE TakeFix \/ FeedSite
    BY <1>1, <1>2, <2>1 DEF TakeFix, FeedSite, TypeOK, history, TripInv, RowGrounded
  <2>2. CASE HandOver
    BY <1>1, <1>2, <2>2 DEF HandOver, TypeOK, TripInv, RowGrounded
  <2>3. CASE GuestBoots
    BY <1>2, <2>3 DEF GuestBoots, Booted, TripAfterBoot, TripInv, RowGrounded
  <2> QED
    BY <2>1, <2>2, <2>3 DEF World
<1>4. LegEnds'
  BY <1>1, <1>2, TripNumbers DEF TripInv, LegEnds, SinceRun, Age
<1>5. Grounded(file.nudge)'
  BY <1>1, <1>2, <1>3 DEF TripInv, OutGrounded, Grounded, None
<1>6. OutGrounded' /\ RowGrounded'
  BY <1>2, <1>3, <1>5 DEF TripInv, OutGrounded, RowGrounded, Steps, None
<1> QED
  BY <1>1, <1>4, <1>6 DEF TripInv

(* A way out grows older with everything else in the file.                  *)
LEMMA NudgeGrows ==
  ASSUME TypeOK, Later
  PROVE  /\ file'.nudge.phase = file.nudge.phase
         /\ file.nudge.phase = "out" => file'.nudge.elapsed = Grown(file.nudge.elapsed)
<1> DEFINE e == IF file.nudge = NoNudge THEN 0 ELSE Grown(file.nudge.elapsed)
<1>1. file'.nudge = [file.nudge EXCEPT !.elapsed = e]
  BY DEF Later, GrownState, TypeOK, State
<1>2. file.nudge.phase = "out" => file.nudge # NoNudge
  BY DEF NoNudge
<1>3. file.nudge = NoNudge \/ file.nudge \in [phase : {"out", "back"}, elapsed : Age, outOk : BOOLEAN]
  BY DEF TypeOK, State, Nudge
<1> HIDE DEF e
<1>4. file'.nudge.phase = file.nudge.phase /\ file'.nudge.elapsed = e
  BY <1>1, <1>3 DEF NoNudge
<1> QED
  BY <1>2, <1>4 DEF e

(* Half a period: as long as ages are told apart, an older way out stays    *)
(* older than the uptime.                                                   *)
LEMMA LaterTrip == AgesReach /\ TripInv /\ Later => TripInv'
<1> SUFFICES ASSUME AgesReach, TripInv, Later PROVE TripInv'
  OBVIOUS
<1>1. TypeOK /\ TypeOK' /\ IInv'
  BY LaterIInv, WorldTyped DEF TripInv, IInv
<1>2. /\ pc \in {"ran", "world"} /\ pc' = (IF pc = "ran" THEN "world" ELSE "due")
      /\ Lost' = Lost /\ trip' = trip /\ SinceRun' = SinceRun + 1 /\ SinceRun \in 0 .. 1
  BY DEF Later, Lost, SinceRun
<1>3. /\ guest'.up = Grown(guest.up) /\ guest'.aea = GrownLocation(guest.aea)
      /\ guest'.up \in Age
  BY <1>1, GrownAge DEF Later, TypeOK
<1>4. /\ file'.nudge.phase = file.nudge.phase
      /\ file.nudge.phase = "out" => file'.nudge.elapsed = Grown(file.nudge.elapsed)
  BY <1>1, NudgeGrows
<1>5. LegEnds'
  <2>1. file.nudge.phase = "out" => Grown(file.nudge.elapsed) <= file.nudge.elapsed + 1
    BY <1>1, TripNumbers DEF Grown, Age
  <2>2. file.nudge.phase = "out" => file.nudge.elapsed <= Leg + 2 * Lost + SinceRun
    BY DEF TripInv, LegEnds
  <2>3. Leg \in Int /\ Lost \in Int /\ file.nudge.elapsed \in Int /\ Grown(file.nudge.elapsed) \in Int
    BY <1>1, TripNumbers, GrownAge DEF Age
  <2> HIDE DEF AgesReach
  <2> QED
    BY <1>2, <1>4, <2>1, <2>2, <2>3 DEF LegEnds
<1>6. Grounded(file.nudge)' /\ (file'.nudge.phase = "out" => file'.nudge.elapsed > 0)
  <2> SUFFICES ASSUME file.nudge.phase = "out"
               PROVE  Grounded(file.nudge)' /\ file'.nudge.elapsed > 0
    BY <1>4 DEF Grounded
  <2> DEFINE e == file.nudge.elapsed
  <2>1. e \in Age /\ e < Cap /\ Cap \in Nat
    BY <1>1, <1>2, TripNumbers DEF TripInv, LegEnds, AgesReach, Age
  <2>2. file'.nudge.elapsed = e + 1
    BY <1>4, <2>1 DEF Grown
  <2>3. Grounded(file.nudge)
    BY DEF TripInv, OutGrounded
  <2>4. guest.up \in Age \cup {None} /\ guest.aea \in Location \cup {NoLocation}
    BY <1>1, TripNumbers
  <2>5. CASE trip = "made"
    BY <1>2, <2>1, <2>2, <2>5 DEF Grounded, Age
  <2>6. CASE guest.up = None \/ e > guest.up
    <3>1. guest'.up < e + 1
      BY <1>3, <2>1, <2>4, <2>6, GrownAge DEF Grown, Age, None
    <3> QED
      BY <2>1, <2>2, <3>1 DEF Grounded, Age
  <2>7. CASE trip = "begun" /\ (Known(guest.aea) => guest.aea.age >= e)
    <3>1. Known(guest'.aea) => guest'.aea.age >= e + 1
      <4>1. CASE guest.aea = NoLocation
        BY <1>3, <4>1 DEF Known, GrownLocation, NoLocation
      <4>2. CASE guest.aea # NoLocation
        <5>1. guest.aea \in Location /\ guest.aea.age \in Age /\ Known(guest.aea)
          BY <2>4, <4>2, GrownAge DEF Location, Known
        <5>2. guest'.aea.age = Grown(guest.aea.age)
          BY <1>3, <4>2, <5>1 DEF GrownLocation, Location
        <5> QED
          BY <2>1, <2>7, <5>1, <5>2 DEF Grown, Age
      <4> QED
        BY <4>1, <4>2
    <3> QED
      BY <1>2, <2>1, <2>2, <2>7, <3>1 DEF Grounded, Age
  <2> QED
    BY <2>3, <2>5, <2>6, <2>7 DEF Grounded
<1>7. OutGrounded' /\ RowGrounded'
  BY <1>2, <1>3, <1>6, GrownAge DEF OutGrounded, RowGrounded, Steps
<1> QED
  BY <1>1, <1>5, <1>7 DEF TripInv

(* A disturbance is paid for once.                                         *)
LEMMA SpendTrouble ==
  ASSUME TypeOK, NEW d, Spend(d)
  PROVE  trouble' <= trouble /\ trouble' \in Int /\ (d => trouble' = trouble - 1)
BY SensorHealthAssumption DEF TypeOK, Spend

(* What the steps before the check and other receptors' rows do: only the   *)
(* geo fix moves GPS.                                                       *)
LEMMA EarlySteps ==
  ASSUME TypeOK, StartRun \/ OthersRow \/ GeoFix
  PROVE  /\ file' = file /\ trip' = trip /\ guest'.up = guest.up /\ guest'.aea = guest.aea
         /\ away' = away /\ SinceRun' = SinceRun
         /\ pc \in {"due", "row", "end"} /\ pc' \in {"row", "check", "end"}
         /\ (pc' = "end" <=> pc = "end")
         /\ state'.nudge = IF pc = "due" THEN file.nudge ELSE state.nudge
         /\ trouble' <= trouble /\ trouble' \in Int
         /\ \/ guest'.gps = guest.gps /\ pc' # "check"
            \/ guest'.gps = guest.gps /\ trouble' = trouble - 1
            \/ guest'.gps = GeoFixTarget(state.nudge) /\ pc = "row"
<1>1. CASE StartRun
  <2>1. trouble' = trouble /\ trouble \in Int
    BY <1>1, TripNumbers DEF StartRun, TypeOK
  <2> QED
    BY <1>1, <2>1, TripNumbers DEF StartRun, history, SinceRun
<1>2. CASE OthersRow
  <2>1. trouble' <= trouble /\ trouble' \in Int
    BY <1>2, SpendTrouble DEF OthersRow
  <2> QED
    BY <1>2, <2>1 DEF OthersRow, TypeOK, State, SinceRun
<1>3. CASE GeoFix
  <2>1. PICK failed \in BOOLEAN :
          /\ Spend(failed)
          /\ guest' = IF failed THEN guest ELSE [guest EXCEPT !.gps = GeoFixTarget(state.nudge)]
    BY <1>3 DEF GeoFix, PointTo
  <2>2. trouble' <= trouble /\ trouble' \in Int /\ (failed => trouble' = trouble - 1)
    BY <2>1, SpendTrouble
  <2>3. /\ guest'.up = guest.up /\ guest'.aea = guest.aea
        /\ guest'.gps = IF failed THEN guest.gps ELSE GeoFixTarget(state.nudge)
    BY <2>1 DEF TypeOK
  <2> QED
    BY <1>3, <2>2, <2>3 DEF GeoFix, history, SinceRun
<1> QED
  BY <1>1, <1>2, <1>3

(* The steps of a run before its check, and other receptors' rows, keep all *)
(* that is known of the way out.                                            *)
LEMMA EarlyTrip == TripInv /\ (StartRun \/ OthersRow \/ GeoFix) => TripInv'
<1> SUFFICES ASSUME TripInv, StartRun \/ OthersRow \/ GeoFix PROVE TripInv'
  OBVIOUS
<1>1. TypeOK /\ TypeOK' /\ IInv'
  <2>1. [Next]_vars
    BY DEF Next, Run
  <2> QED
    BY <2>1, NextIInv DEF TripInv, IInv
<1>2. /\ file' = file /\ trip' = trip /\ guest'.up = guest.up /\ guest'.aea = guest.aea
      /\ pc' \in {"row", "check", "end"} /\ (pc' = "end" <=> pc = "end") /\ pc # "ran"
      /\ SinceRun' = SinceRun
      /\ state'.nudge = IF pc = "due" THEN file.nudge ELSE state.nudge
      /\ pc \in {"due", "row", "end"}
  BY <1>1, EarlySteps
<1>3. Lost' >= Lost /\ Lost' \in Int /\ Lost \in Int
  <2>1. trouble' <= trouble /\ trouble' \in Int /\ trouble \in Int /\ MaxTrouble \in Int
    BY <1>1, EarlySteps, TripNumbers DEF TypeOK
  <2>2. \A u \in Int : u <= trouble => MaxTrouble - u >= MaxTrouble - trouble /\ MaxTrouble - u \in Int
    BY <2>1
  <2>3. Lost = MaxTrouble - trouble /\ Lost' = MaxTrouble - trouble'
    BY DEF Lost
  <2>4. MaxTrouble - trouble \in Int
    BY <2>1
  <2> QED
    BY <2>1, <2>2, <2>3, <2>4
<1>4. LegEnds'
  BY <1>1, <1>2, <1>3, TripNumbers DEF TripInv, LegEnds, Age
<1>5. OutGrounded'
  BY <1>2 DEF TripInv, OutGrounded, Grounded, Steps, Known
<1>6. RowGrounded'
  BY <1>2 DEF TripInv, RowGrounded, None
<1> QED
  BY <1>1, <1>4, <1>5, <1>6 DEF TripInv

(* Where an age that a check found comes from.                              *)
LEMMA ReadingFrom ==
  ASSUME TypeOK, NEW registered \in BOOLEAN, NEW inLog \in BOOLEAN,
         NEW r, r = Reading(registered, inLog), r.age # None
  PROVE  \/ inLog /\ r.age = guest.aea.age
         \/ r.age = state.delivered /\ state.delivered # None /\ state.delivered < guest.up
         \/ r.age = guest.up
<1> DEFINE aea == AgeReading(guest.up, inLog, state.delivered)
           seen == [NotRead EXCEPT !.up = guest.up]
           read == [seen EXCEPT !.age = aea.age, !.source = aea.source]
<1>1. \/ inLog /\ aea.age = guest.aea.age
      \/ aea.age = state.delivered /\ state.delivered # None /\ state.delivered < guest.up
      \/ aea.age = guest.up
  <2>1. CASE inLog
    BY <2>1 DEF AgeReading
  <2>2. CASE ~inLog /\ state.delivered # None /\ state.delivered < guest.up
    BY <2>2 DEF AgeReading
  <2>3. CASE ~inLog /\ ~(state.delivered # None /\ state.delivered < guest.up)
    BY <2>3 DEF AgeReading
  <2> QED
    BY <2>1, <2>2, <2>3
<1> HIDE DEF aea
<1>2. r \in {seen, [seen EXCEPT !.problem = "missing"], [seen EXCEPT !.problem = "drift"],
             [seen EXCEPT !.problem = "stale"], [read EXCEPT !.problem = "stale"],
             [read EXCEPT !.ok = registered /\ aea.source # "uptime"]}
  BY DEF Reading, aea
<1>3. r.age = None \/ r.age = aea.age
  BY <1>2 DEF NotRead
<1> QED
  BY <1>1, <1>3

LEMMA ReadingUp ==
  ASSUME NEW registered \in BOOLEAN, NEW inLog \in BOOLEAN
  PROVE  Reading(registered, inLog).up = guest.up
<1> DEFINE aea == AgeReading(guest.up, inLog, state.delivered)
           seen == [NotRead EXCEPT !.up = guest.up]
           read == [seen EXCEPT !.age = aea.age, !.source = aea.source]
<1> HIDE DEF aea
<1>1. Reading(registered, inLog) \in
        {seen, [seen EXCEPT !.problem = "missing"], [seen EXCEPT !.problem = "drift"],
         [seen EXCEPT !.problem = "stale"], [read EXCEPT !.problem = "stale"],
         [read EXCEPT !.ok = registered /\ aea.source # "uptime"]}
  BY DEF Reading, aea
<1> QED
  BY <1>1 DEF NotRead

(* The check confirms a way out only if it was made: an age younger than    *)
(* the way out, in a boot older than it, is of a location AEA got since.    *)
LEMMA CheckTrip == TripInv /\ Check => TripInv'
<1> SUFFICES ASSUME TripInv, Check PROVE TripInv'
  OBVIOUS
<1>1. TypeOK /\ TypeOK' /\ IInv' /\ IInv
  BY CheckIInv, CheckTyped DEF TripInv, IInv
<1>2. /\ pc = "check" /\ pc' = "repair" /\ guest' = guest /\ file' = file /\ trip' = trip
      /\ SinceRun' = SinceRun /\ state'.nudge = state.nudge
  BY <1>1 DEF Check, history, SinceRun, TypeOK, State
<1>3. PICK readable \in BOOLEAN, registered \in BOOLEAN, inLog \in BOOLEAN :
        /\ inLog => Known(guest.aea)
        /\ Spend(~readable \/ ~registered)
        /\ row' = IF readable THEN Reading(registered, inLog) ELSE NotRead
  BY DEF Check
<1>4. Lost' >= Lost /\ Lost' \in Int /\ Lost \in Int
  BY <1>1, <1>3, SpendLost, TripNumbers
<1>5. LegEnds' /\ OutGrounded'
  <2>1. LegEnds'
    BY <1>1, <1>2, <1>4, TripNumbers DEF TripInv, LegEnds, Age
  <2>2. OutGrounded'
    BY <1>2 DEF TripInv, OutGrounded, Grounded, Steps
  <2> QED
    BY <2>1, <2>2
<1>6. /\ guest.up # None /\ NotRead.up = None /\ NotRead.age = None
      /\ Remembers(state) /\ state.nudge = file.nudge /\ Grounded(file.nudge)
  BY <1>1, <1>2 DEF TripInv, RowGrounded, NotRead, IInv, OutGrounded, Steps
<1>7. row'.up = guest.up \/ (row'.up = None /\ row'.age = None)
  BY <1>3, <1>6, ReadingUp
<1>8. ASSUME state.nudge.phase = "out", row'.age # None, row'.age < state.nudge.elapsed,
             state.nudge.elapsed <= row'.up
      PROVE  trip = "made"
  <2>1. readable /\ row' = Reading(registered, inLog) /\ row'.up = guest.up
    BY <1>3, <1>6, <1>7, <1>8
  <2>2. /\ state.nudge.elapsed \in Age /\ guest.up \in Age /\ row'.age \in Age
        /\ state.delivered \in Age \cup {None} /\ Cap \in Nat
    BY <1>1, <1>6, <1>8, TripNumbers DEF TypeOK, Row, State
  <2>3. \/ inLog /\ row'.age = guest.aea.age
        \/ row'.age = state.delivered /\ state.delivered # None /\ state.delivered < guest.up
        \/ row'.age = guest.up
    BY <1>1, <1>8, <2>1, ReadingFrom
  <2>4. Known(guest.aea) => guest.aea.age \in Age
    BY <1>1, TripNumbers DEF Known, NoLocation, Location
  <2>5. Known(guest.aea) /\ guest.aea.age < state.nudge.elapsed
    <3>1. CASE inLog /\ row'.age = guest.aea.age
      BY <1>3, <1>8, <3>1
    <3>2. CASE row'.age = state.delivered /\ state.delivered # None /\ state.delivered < guest.up
      BY <1>6, <1>8, <2>2, <2>4, <3>2 DEF Remembers, Age
    <3>3. CASE row'.age = guest.up
      BY <1>8, <2>1, <2>2, <3>3 DEF Age
    <3> QED
      BY <2>3, <3>1, <3>2, <3>3
  <2> QED
    BY <1>6, <1>8, <2>1, <2>2, <2>4, <2>5 DEF Grounded, Age
<1>9. RowGrounded'
  BY <1>2, <1>6, <1>7, <1>8 DEF RowGrounded, Confirms, Delivered
<1> QED
  BY <1>1, <1>5, <1>9 DEF TripInv

(* A reboot drops what the way out was grounded on; a way made stays so.    *)
LEMMA RepairTrip == TripInv /\ Repair => TripInv'
<1> SUFFICES ASSUME TripInv, Repair PROVE TripInv'
  OBVIOUS
<1>1. TypeOK /\ TypeOK' /\ IInv'
  BY RepairIInv, RepairTyped DEF TripInv, IInv
<1>2. /\ pc = "repair" /\ pc' = "report" /\ file' = file /\ row' = row
      /\ SinceRun' = SinceRun /\ guest.up # None
      /\ trip' = IF guest'.up = None THEN TripAfterBoot ELSE trip
  BY DEF Repair, SinceRun, TripInv, RowGrounded
<1>3. state'.nudge = state.nudge /\ (trouble' = trouble \/ \E d \in BOOLEAN : Spend(d))
  <2> DEFINE counted == [state EXCEPT !.problemRuns = Counted(state.problemRuns)]
  <2>1. counted \in State /\ counted.nudge = state.nudge
    BY <1>1, CountedTyped DEF TypeOK, State
  <2>2. /\ \/ state' = counted
           \/ state' = [counted EXCEPT !.rebooted = 0, !.host = 0, !.problemRuns = 0]
        /\ trouble' = trouble \/ \E d \in BOOLEAN : Spend(d)
    BY DEF Repair, AlertInProgress
  <2> HIDE DEF counted
  <2> QED
    BY <2>1, <2>2 DEF State
<1>4. guest' = guest \/ guest'.up = None
  BY <1>1, RepairSteps
<1>5. Lost' >= Lost /\ Lost' \in Int /\ Lost \in Int
  <2>1. CASE trouble' = trouble
    BY <1>1, <2>1, TripNumbers DEF Lost
  <2>2. CASE \E d \in BOOLEAN : Spend(d)
    BY <1>1, <2>2, SpendLost, TripNumbers
  <2> QED
    BY <1>3, <2>1, <2>2
<1>6. LegEnds'
  BY <1>1, <1>2, <1>5, TripNumbers DEF TripInv, LegEnds, Age
<1>7. trip = "made" => trip' = "made"
  BY <1>2 DEF TripAfterBoot
<1>8. OutGrounded'
  BY <1>2, <1>3, <1>4 DEF TripInv, OutGrounded, Grounded, Steps, Known
<1>9. RowGrounded'
  BY <1>2, <1>3, <1>4, <1>7 DEF TripInv, RowGrounded, Confirms, Delivered
<1> QED
  BY <1>1, <1>6, <1>8, <1>9 DEF TripInv

(* A report that is refused leaves the way out to the next run.             *)
LEMMA ReportTrip == TripInv /\ Report => TripInv'
<1> SUFFICES ASSUME TripInv, Report PROVE TripInv'
  OBVIOUS
<1>1. TypeOK /\ IInv'
  <2>1. [Next]_vars
    BY DEF Next, Run
  <2> QED
    BY <2>1, NextIInv DEF TripInv, IInv
<1>2. PICK refused \in BOOLEAN :
        Spend(refused) /\ pc' = IF refused THEN "end" ELSE "nudge"
  BY DEF Report
<1>3. pc = "report" /\ UNCHANGED <<guest, file, state, row, trip>>
  BY DEF Report, history
<1>4. Lost' >= Lost /\ Lost' \in Int /\ Lost \in Int /\ (refused => Lost' = Lost + 1)
  BY <1>1, <1>2, SpendLost, TripNumbers
<1>5. state.nudge = file.nudge /\ Grounded(file.nudge)
  BY <1>3 DEF TripInv, OutGrounded, Steps
<1>6. file.nudge.phase = "out" => file.nudge.elapsed <= Leg + 2 * Lost + 2
  BY <1>3 DEF TripInv, LegEnds, SinceRun
<1>7. LegEnds'
  BY <1>1, <1>2, <1>3, <1>4, <1>5, <1>6, TripNumbers DEF LegEnds, SinceRun, Age
<1>8. OutGrounded'
  BY <1>2, <1>3, <1>5 DEF TripInv, OutGrounded, Grounded, Steps
<1>9. RowGrounded'
  BY <1>2, <1>3 DEF TripInv, RowGrounded, Confirms, Delivered
<1> QED
  BY <1>1, <1>7, <1>8, <1>9 DEF TripInv

(* What nudge_step makes of the way out it was given, which counts as       *)
(* confirmed only if it was made.                                           *)
LEMMA NudgeOutcomes ==
  ASSUME TripInv, NudgeStep
  PROVE  LET old == state.nudge
             new == state'.nudge
         IN /\ new.outOk /\ ~old.outOk => trip = "made"
            /\ \/ new.phase # "out" /\ trip' = trip /\ (trouble' = trouble \/ \E d \in BOOLEAN : Spend(d))
               \/ new = old /\ trip' = trip /\ Spend(TRUE)
               \/ new = old /\ trip' = trip /\ trouble' = trouble /\ new.elapsed < Leg
               \/ /\ new.elapsed = 0 /\ trip' = IF guest.up = None THEN "none" ELSE "begun"
                  /\ \E d \in BOOLEAN : Spend(d)
                  /\ old = NoNudge \/ (row.up # None /\ old.elapsed > row.up)
<1> DEFINE nudge == Aborted(state.nudge)
<1>1. TypeOK /\ pc = "nudge"
  BY DEF TripInv, IInv, NudgeStep
<1>2. /\ \A n : [state EXCEPT !.nudge = n].nudge = n
      /\ \A n, f : [state EXCEPT !.nudge = n, !.failed = f].nudge = n
  BY <1>1 DEF TypeOK, State
<1>3. /\ NoNudge.phase = "none" /\ ~NoNudge.outOk
      /\ \A ok : /\ Begun("out", ok).elapsed = 0 /\ Begun("out", ok).outOk = ok
                 /\ Begun("back", ok).phase = "back" /\ Begun("back", ok).outOk = ok
  BY DEF NoNudge, Begun
<1>4. \/ nudge = NoNudge /\ (state.nudge = NoNudge \/ (row.up # None /\ state.nudge.elapsed > row.up))
      \/ nudge = state.nudge /\ ~(row.up # None /\ nudge.elapsed > row.up /\ nudge # NoNudge)
  BY DEF Aborted
<1>5. CASE state' = [state EXCEPT !.nudge = nudge] /\ nudge = NoNudge
           /\ UNCHANGED <<guest, trouble, away, trip>>
  BY <1>2, <1>3, <1>5
<1>6. CASE nudge = NoNudge /\ GoOut
  <2>1. /\ \E d \in BOOLEAN : Spend(d)
        /\ \/ /\ state' = [state EXCEPT !.nudge = Begun("out", FALSE)]
              /\ trip' = IF guest.up = None THEN "none" ELSE "begun"
           \/ state' = [state EXCEPT !.nudge = NoNudge] /\ trip' = trip
    <3>1. (keeper /\ guest.up # None) \in BOOLEAN
      OBVIOUS
    <3> QED
      BY <1>6, <3>1 DEF GoOut, PointTo
  <2>3. state.nudge = NoNudge \/ (row.up # None /\ state.nudge.elapsed > row.up)
    BY <1>4, <1>6
  <2>4. \E d \in BOOLEAN : Spend(d)
    BY <2>1
  <2>5. CASE state' = [state EXCEPT !.nudge = NoNudge] /\ trip' = trip
    <3>1. state'.nudge = NoNudge
      BY <1>2, <2>5
    <3> QED
      BY <1>3, <2>4, <2>5, <3>1
  <2>6. CASE /\ state' = [state EXCEPT !.nudge = Begun("out", FALSE)]
             /\ trip' = IF guest.up = None THEN "none" ELSE "begun"
    <3>1. state'.nudge = Begun("out", FALSE)
      BY <1>2, <2>6
    <3>2. state'.nudge.elapsed = 0 /\ ~state'.nudge.outOk
      BY <1>3, <3>1
    <3> QED
      BY <2>3, <2>4, <2>6, <3>2
  <2> QED
    BY <2>1, <2>5, <2>6
<1>7. CASE AlertInProgress /\ state' = [state EXCEPT !.nudge = nudge] /\ UNCHANGED <<guest, away, trip>>
  BY <1>2, <1>3, <1>4, <1>7 DEF AlertInProgress
<1>8. CASE nudge.phase = "out" /\ WayOut(nudge)
  <2>1. nudge = state.nudge /\ ~(row.up # None /\ nudge.elapsed > row.up)
    BY <1>3, <1>4, <1>8
  <2>2. nudge.elapsed \in Int /\ Leg \in Int /\ row.up \in Int
    BY <1>1, <2>1, TripNumbers, GrownAge DEF TypeOK, Row, Age, None
  <2>3. Delivered(nudge) => trip = "made"
    BY <1>1, <1>8, <2>1, <2>2 DEF TripInv, RowGrounded, Confirms, Delivered
  <2>4. \/ state'.nudge = Begun("back", Delivered(nudge))
        \/ state'.nudge = nudge /\ ~(nudge.elapsed >= Leg) /\ ~Delivered(nudge)
    BY <1>2, <1>8 DEF WayOut
  <2>5. /\ trip' = trip /\ (trouble' = trouble \/ \E d \in BOOLEAN : Spend(d))
        /\ nudge.elapsed < Leg /\ ~Delivered(nudge) => trouble' = trouble
    <3>1. nudge.elapsed < Leg => ~(nudge.elapsed >= Leg)
      BY <2>2
    <3> QED
      BY <1>8, <3>1 DEF WayOut, PointTo
  <2>6. CASE state'.nudge = Begun("back", Delivered(nudge))
    <3>1. state'.nudge.phase = "back" /\ state'.nudge.outOk = Delivered(nudge)
      BY <1>3, <2>6
    <3> HIDE DEF nudge
    <3> QED
      BY <2>3, <2>5, <3>1
  <2>7. CASE state'.nudge = nudge /\ ~(nudge.elapsed >= Leg) /\ ~Delivered(nudge)
    <3>1. nudge.elapsed < Leg
      BY <2>2, <2>7
    <3>2. state'.nudge = state.nudge /\ state'.nudge.elapsed < Leg
      BY <2>1, <2>7, <3>1
    <3>3. trouble' = trouble /\ trip' = trip
      BY <2>5, <2>7, <3>1
    <3> QED
      BY <3>2, <3>3
  <2> QED
    BY <2>4, <2>6, <2>7
<1>9. CASE nudge.phase = "back" /\ WayBack(nudge)
  <2>1. nudge = state.nudge
    BY <1>3, <1>4, <1>9
  <2>2. state'.nudge = NoNudge \/ state'.nudge = nudge
    BY <1>2, <1>9 DEF WayBack
  <2>3. trouble' = trouble /\ trip' = trip
    BY <1>9 DEF WayBack
  <2> QED
    BY <1>3, <1>9, <2>1, <2>2, <2>3
<1> QED
  BY <1>5, <1>6, <1>7, <1>8, <1>9 DEF NudgeStep

LEMMA NudgeTrip == TripInv /\ NudgeStep => TripInv'
<1> SUFFICES ASSUME TripInv, NudgeStep PROVE TripInv'
  OBVIOUS
<1> DEFINE old == state.nudge
           new == state'.nudge
<1>1. TypeOK /\ IInv' /\ TypeOK'
  <2>1. [Next]_vars
    BY DEF Next, Run
  <2> QED
    BY <2>1, NextIInv DEF TripInv, IInv
<1>2. /\ pc = "nudge" /\ pc' = "end" /\ file' = file
      /\ guest'.up = guest.up /\ guest'.aea = guest.aea
  BY <1>1, NudgeSteps
<1>3. /\ old = file.nudge /\ Grounded(old)
      /\ old.phase = "out" => old.elapsed > 0 /\ old.elapsed <= Leg + 2 * Lost + 2
      /\ row.up # None => guest.up = row.up \/ guest.up = None
  BY <1>2 DEF TripInv, OutGrounded, LegEnds, SinceRun, RowGrounded, Steps
<1>4. Leg \in Nat /\ Lost \in Nat /\ old.elapsed \in Int /\ new.elapsed \in Int
  BY <1>1, TripNumbers DEF TypeOK, State, Nudge, NoNudge, Age
<1>5. CASE new.phase # "out" /\ trip' = trip /\ (trouble' = trouble \/ \E d \in BOOLEAN : Spend(d))
  <2>1. Lost' >= Lost /\ Lost' \in Int
    BY <1>1, <1>4, <1>5, SpendLost DEF Lost
  <2>2. LegEnds'
    BY <1>2, <1>3, <1>4, <1>5, <2>1 DEF LegEnds, SinceRun
  <2>3. OutGrounded' /\ RowGrounded'
    BY <1>2, <1>3, <1>5 DEF OutGrounded, RowGrounded, Grounded, Steps, Known
  <2> QED
    BY <1>1, <2>2, <2>3 DEF TripInv
<1>6. CASE new = old /\ trip' = trip /\ Spend(TRUE)
  <2>1. Lost' = Lost + 1
    BY <1>1, <1>6, SpendLost
  <2>2. LegEnds'
    BY <1>2, <1>3, <1>4, <1>6, <2>1 DEF LegEnds, SinceRun
  <2>3. OutGrounded' /\ RowGrounded'
    BY <1>2, <1>3, <1>6 DEF OutGrounded, RowGrounded, Grounded, Steps, Known
  <2> QED
    BY <1>1, <2>2, <2>3 DEF TripInv
<1>7. CASE new = old /\ trip' = trip /\ trouble' = trouble /\ new.elapsed < Leg
  <2>1. Lost' = Lost
    BY <1>7 DEF Lost
  <2>2. LegEnds'
    BY <1>2, <1>3, <1>4, <1>7, <2>1 DEF LegEnds, SinceRun
  <2>3. OutGrounded' /\ RowGrounded'
    BY <1>2, <1>3, <1>7 DEF OutGrounded, RowGrounded, Grounded, Steps, Known
  <2> QED
    BY <1>1, <2>2, <2>3 DEF TripInv
<1>8. CASE /\ new.elapsed = 0 /\ trip' = IF guest.up = None THEN "none" ELSE "begun"
           /\ \E d \in BOOLEAN : Spend(d)
           /\ old = NoNudge \/ (row.up # None /\ old.elapsed > row.up)
  <2>1. Lost' >= Lost /\ Lost' \in Int
    BY <1>1, <1>8, SpendLost
  <2>2. LegEnds'
    BY <1>2, <1>3, <1>4, <1>8, <2>1 DEF LegEnds, SinceRun
  <2>3. Known(guest.aea) => guest.aea.age >= 0
    BY <1>1, TripNumbers, GrownAge DEF Known, NoLocation, Location, Age
  <2>4. Grounded(state.nudge)'
    BY <1>2, <1>8, <2>3 DEF Grounded, Known
  <2>5. Grounded(file.nudge)'
    <3>1. old.phase = "out" => guest.up = None \/ old.elapsed > guest.up
      BY <1>3, <1>8 DEF NoNudge
    <3> QED
      BY <1>2, <1>3, <3>1 DEF Grounded
  <2>6. OutGrounded' /\ RowGrounded'
    BY <1>2, <1>3, <2>4, <2>5 DEF OutGrounded, RowGrounded, Steps
  <2> QED
    BY <1>1, <2>2, <2>6 DEF TripInv
<1> QED
  BY <1>5, <1>6, <1>7, <1>8, NudgeOutcomes

(* A run ends saved, or lost.                                               *)
LEMMA EndTrip == TripInv /\ (EndRun \/ Die) => TripInv'
<1> SUFFICES ASSUME TripInv, EndRun \/ Die PROVE TripInv'
  OBVIOUS
<1>1. TypeOK /\ IInv'
  <2>1. [Next]_vars
    BY DEF Next, Run
  <2> QED
    BY <2>1, NextIInv DEF TripInv, IInv
<1>2. pc' = "ran" /\ guest' = guest /\ trip' = trip
  BY DEF EndRun, Die, history
<1>3. RowGrounded'
  BY <1>2 DEF RowGrounded
<1>4. CASE EndRun
  <2>1. pc = "end" /\ file' = state /\ trouble' = trouble
    BY <1>4 DEF EndRun
  <2>2. LegEnds'
    BY <1>1, <1>2, <2>1, TripNumbers DEF TripInv, LegEnds, SinceRun, Lost, Age
  <2>3. OutGrounded'
    BY <1>2, <2>1 DEF TripInv, OutGrounded, Grounded, Steps
  <2> QED
    BY <1>1, <1>3, <2>2, <2>3 DEF TripInv
<1>5. CASE Die
  <2>1. pc \in Steps \cup {"due"} /\ file' = file /\ Spend(TRUE)
    BY <1>5 DEF Die
  <2>2. Lost' = Lost + 1
    BY <1>1, <2>1, SpendLost
  <2>3. LegEnds'
    BY <1>1, <1>2, <2>1, <2>2, TripNumbers DEF TripInv, LegEnds, SinceRun, Steps, Age
  <2>4. OutGrounded'
    BY <1>2, <2>1 DEF TripInv, OutGrounded, Grounded, Steps
  <2> QED
    BY <1>1, <1>3, <2>3, <2>4 DEF TripInv
<1> QED
  BY <1>4, <1>5

LEMMA NextTrip == AgesReach /\ TripInv /\ [Next]_vars => TripInv'
<1> SUFFICES ASSUME AgesReach, TripInv, [Next]_vars PROVE TripInv'
  OBVIOUS
<1>1. CASE UNCHANGED vars
  <2>1. IInv'
    BY NextIInv DEF TripInv
  <2>2. UNCHANGED <<guest, file, pc, state, row, trouble, trip>>
    BY <1>1 DEF vars, agent, history
  <2> QED
    BY <2>1, <2>2 DEF TripInv, LegEnds, Lost, SinceRun, OutGrounded, Grounded, RowGrounded,
         Confirms, Delivered
<1> QED
  BY <1>1, WorldTrip, LaterTrip, EarlyTrip, CheckTrip, RepairTrip, ReportTrip, NudgeTrip, EndTrip
  DEF Next, Run

(* A way out counts as confirmed only if AEA was handed a location on it,   *)
(* whatever runs died and whatever booted in between, as long as ages are   *)
(* told apart up to the longest a way out can last.                         *)
THEOREM ConfirmedTripsWereMade == AgesReach => (Spec => TripConfirmedIsMade)
<1> SUFFICES ASSUME AgesReach PROVE Spec => TripConfirmedIsMade
  OBVIOUS
<1> DEFINE OnlyMade == pc = "nudge" /\ state'.nudge.outOk /\ ~state.nudge.outOk => trip = "made"
<1>1. Init => TripInv
  BY InitTrip
<1>2. TripInv /\ [Next]_vars => TripInv'
  BY NextTrip
<1>3. ASSUME TripInv, [Next]_vars PROVE [OnlyMade]_vars
  <2>1. CASE NudgeStep
    BY <1>3, <2>1, NudgeOutcomes
  <2>2. CASE Die
    BY <2>2 DEF Die, FreshState, NoNudge
  <2>3. CASE UNCHANGED vars
    BY <2>3
  <2>4. pc = "nudge" => NudgeStep \/ Die \/ UNCHANGED vars
    BY <1>3 DEF Next, Run, World, StartRun, OthersRow, GeoFix, Check, Repair, Report, EndRun,
         TakeFix, HandOver, FeedSite, GuestBoots, Later
  <2> QED
    BY <2>1, <2>2, <2>3, <2>4
<1> QED
  BY <1>1, <1>2, <1>3, PTL DEF Spec, TripConfirmedIsMade

-----------------------------------------------------------------------------
(* A leg is a whole number of the timer's periods, of two each.             *)
LegIsPeriods == Leg > 0 /\ Leg % 2 = 0

(* A leg, and a period for each run that can be lost.                       *)
Room == Leg + 2 * MaxTrouble

(* What keeps a way out short: no run leaves it longer than its leg, but    *)
(* for the runs that were lost, and no shorter than it is away. Runs see it *)
(* at whole periods.                                                        *)
Short(nudge, since) ==
  nudge.phase = "out" =>
    /\ nudge.elapsed + 2 * trouble <= Room - 2 + since
    /\ away <= nudge.elapsed
    /\ nudge.elapsed < Cap => (nudge.elapsed + since) % 2 = 0

(* A way out that was dropped leaves GPS north until the next geo fix.      *)
SinceFix == IF pc \in {"check", "repair", "report", "nudge", "end"} THEN 0 ELSE SinceRun
LeftNorth(nudge, since) ==
  guest.gps = "north" /\ nudge.phase # "out" => away + 2 * trouble <= Room + since

AwayInv ==
  /\ TypeOK /\ AwayBriefly
  /\ Short(file.nudge, SinceRun) /\ LeftNorth(file.nudge, SinceFix)
  /\ pc = "end" => Short(state.nudge, 0) /\ LeftNorth(state.nudge, 0)
  /\ pc \in Steps \ {"end"} => state.nudge = file.nudge

(* The room is a number, and less trouble left needs no more of it.         *)
LEMMA Cheaper == \A a, r, t, u \in Int : u <= t /\ a + 2 * t <= r => a + 2 * u <= r
OBVIOUS

LEMMA RoomCounts ==
  /\ Room \in Nat /\ Leg \in Nat /\ Cap \in Nat /\ Leg < Cap /\ Age \subseteq Nat
  /\ TypeOK => /\ trouble \in Nat /\ away \in Nat /\ away \in Age /\ Leg + 2 * trouble <= Room
               /\ AwayBriefly <=> away + 2 * trouble <= Room + 2
<1>1. Leg \in Nat /\ MaxTrouble \in Nat /\ Cap \in Nat /\ Leg < Cap
  BY SensorHealthAssumption DEF Thresholds
<1>2. Room \in Nat /\ Age \subseteq Nat
  BY <1>1 DEF Room, Age
<1>3. ASSUME TypeOK
      PROVE  /\ trouble \in Nat /\ away \in Nat /\ away \in Age /\ Leg + 2 * trouble <= Room
             /\ AwayBriefly <=> away + 2 * trouble <= Room + 2
  <2>1. trouble \in 0 .. MaxTrouble /\ away \in Age /\ away \in Nat
    BY <1>2, <1>3 DEF TypeOK
  <2> QED
    BY <1>1, <2>1 DEF AwayBriefly, Room
<1> QED
  BY <1>1, <1>2, <1>3

LEMMA RoomPrimed ==
  ASSUME TypeOK'
  PROVE  /\ trouble' \in Nat
         /\ AwayBriefly' <=> away' + 2 * trouble' <= Room + 2
<1>1. Leg \in Nat /\ MaxTrouble \in Nat /\ Age \subseteq Nat
  BY RoomCounts, SensorHealthAssumption
<1>2. trouble' \in 0 .. MaxTrouble /\ away' \in Int
  BY <1>1 DEF TypeOK
<1>3. \A u \in 0 .. MaxTrouble, a \in Int :
        u \in Nat /\ (a <= Leg + 2 + 2 * (MaxTrouble - u) <=> a + 2 * u <= Room + 2)
  BY <1>1 DEF Room
<1> QED
  BY <1>2, <1>3 DEF AwayBriefly

LEMMA InitAway == LegIsPeriods /\ Init => AwayInv
<1> SUFFICES ASSUME LegIsPeriods, Init PROVE AwayInv
  OBVIOUS
<1>1. TypeOK
  BY InitTyped
<1>2. /\ pc = "world" /\ file.nudge.phase # "out" /\ away = 0 /\ guest.gps # "north"
  BY DEF Init, FreshState, NoNudge, Booted
<1>3. AwayBriefly
  BY <1>1, <1>2, RoomCounts
<1> QED
  BY <1>1, <1>2, <1>3 DEF AwayInv, Short, LeftNorth, Steps

(* What was known of a way out holds on when more is lost.                  *)
LEMMA MoreLost ==
  ASSUME TypeOK, TypeOK', trouble' <= trouble, trouble' \in Int, away' = away,
         NEW n \in Nudge, NEW since \in 0 .. 2, Short(n, since)
  PROVE  /\ n.phase = "out" =>
              /\ n.elapsed + 2 * trouble' <= Room - 2 + since
              /\ away' <= n.elapsed
              /\ n.elapsed < Cap => (n.elapsed + since) % 2 = 0
         /\ AwayBriefly => AwayBriefly'
<1>1. Room \in Int /\ trouble \in Int /\ n.elapsed \in Int /\ away \in Int /\ since \in Int
  BY TripNumbers, RoomCounts DEF Age
<1>2. ASSUME n.phase = "out" PROVE n.elapsed + 2 * trouble' <= Room - 2 + since
  <2>1. n.elapsed + 2 * trouble <= Room - 2 + since
    BY <1>2 DEF Short
  <2> QED
    BY <1>1, <2>1
<1>3. ASSUME AwayBriefly PROVE AwayBriefly'
  <2>1. away + 2 * trouble <= Room + 2
    BY <1>3, RoomCounts
  <2>2. away' + 2 * trouble' <= Room + 2
    <3>1. Room + 2 \in Int
      BY <1>1
    <3> QED
      BY <1>1, <2>1, <3>1, Cheaper
  <2> QED
    BY <2>2, RoomPrimed
<1> QED
  BY <1>2, <1>3 DEF Short

LEMMA WorldAway == AwayInv /\ World => AwayInv'
<1> SUFFICES ASSUME AwayInv, World PROVE AwayInv'
  OBVIOUS
<1>1. TypeOK /\ TypeOK'
  BY WorldTyped DEF AwayInv
<1>2. /\ pc = "world" /\ pc' = "world" /\ file' = file /\ away' = away
      /\ guest'.gps = "north" => guest.gps = "north"
      /\ trouble' = trouble \/ Spend(TRUE)
  <2>1. CASE TakeFix \/ HandOver \/ FeedSite
    BY <1>1, <2>1 DEF TakeFix, HandOver, FeedSite, agent, history, TypeOK
  <2>2. CASE GuestBoots
    <3>1. PICK gps \in {guest.gps, "far"} : guest' = Booted(gps)
      BY <2>2 DEF GuestBoots
    <3>2. guest'.gps = gps
      BY <3>1 DEF Booted
    <3> QED
      BY <2>2, <3>1, <3>2 DEF GuestBoots, agent
  <2> QED
    BY <2>1, <2>2 DEF World
<1>3. trouble' <= trouble /\ trouble' \in Int
  <2>1. CASE Spend(TRUE)
    BY <1>1, <2>1, SpendTrouble
  <2>2. CASE trouble' = trouble
    BY <1>1, <2>2, RoomCounts
  <2> QED
    BY <1>2, <2>1, <2>2
<1>4. SinceRun = 1 /\ SinceRun' = 1 /\ SinceFix = 1 /\ SinceFix' = 1
  BY <1>2 DEF SinceRun, SinceFix
<1>5. AwayBriefly' /\ Short(file.nudge, SinceRun)'
  BY <1>1, <1>2, <1>3, <1>4, MoreLost, TripNumbers DEF AwayInv, Short
<1>6. LeftNorth(file.nudge, SinceFix)'
  <2>1. away \in Int /\ trouble \in Int /\ Room \in Int
    BY <1>1, RoomCounts
  <2>2. \A u \in Int : u <= trouble /\ away + 2 * trouble <= Room + 1 => away + 2 * u <= Room + 1
    BY <2>1
  <2> QED
    BY <1>2, <1>3, <1>4, <2>2 DEF AwayInv, LeftNorth
<1> QED
  BY <1>1, <1>2, <1>5, <1>6 DEF AwayInv, Steps

LEMMA LaterAway == LegIsPeriods /\ AwayInv /\ Later => AwayInv'
<1> SUFFICES ASSUME LegIsPeriods, AwayInv, Later PROVE AwayInv'
  OBVIOUS
<1>1. TypeOK /\ TypeOK'
  BY WorldTyped DEF AwayInv
<1>2. /\ pc \in {"ran", "world"} /\ pc' \in {"world", "due"}
      /\ trouble' = trouble /\ SinceRun' = SinceRun + 1 /\ SinceRun \in 0 .. 1
      /\ SinceFix = SinceRun /\ SinceFix' = SinceRun + 1
  BY DEF Later, SinceRun, SinceFix
<1>3. /\ away' = IF guest.gps = "north" THEN Grown(away) ELSE 0
      /\ guest'.gps = guest.gps
  BY <1>1 DEF Later, TypeOK
<1>4. /\ file'.nudge.phase = file.nudge.phase
      /\ file.nudge.phase = "out" => file'.nudge.elapsed = Grown(file.nudge.elapsed)
  BY <1>1, NudgeGrows
<1> DEFINE e == file.nudge.elapsed
<1>5. /\ away \in Nat /\ e \in Nat /\ trouble \in Nat /\ Room \in Nat /\ Cap \in Nat
      /\ Grown(away) \in Nat /\ Grown(e) \in Nat
      /\ Grown(away) <= away + 1 /\ Grown(e) <= e + 1
      /\ away <= e => Grown(away) <= Grown(e)
      /\ Grown(e) < Cap => Grown(e) = e + 1 /\ e < Cap
  <2>1. away \in Age /\ e \in Age /\ trouble \in Nat /\ Room \in Nat /\ Cap \in Nat
    BY <1>1, TripNumbers, RoomCounts
  <2>2. Grown(away) \in Age /\ Grown(e) \in Age /\ (away <= e => Grown(away) <= Grown(e))
    BY <2>1, GrownAge
  <2> QED
    BY <2>1, <2>2 DEF Grown, Age
<1> HIDE DEF e
<1>6. PICK since \in 0 .. 1 :
        since = SinceRun /\ SinceRun' = since + 1 /\ SinceFix' = since + 1
  BY <1>2
<1>7. Short(file.nudge, SinceRun)'
  <2>1. ASSUME file.nudge.phase = "out"
        PROVE  /\ Grown(e) + 2 * trouble <= Room - 2 + (since + 1)
               /\ away' <= Grown(e)
               /\ Grown(e) < Cap => (Grown(e) + (since + 1)) % 2 = 0
    <3>1. /\ e + 2 * trouble <= Room - 2 + since /\ away <= e
          /\ e < Cap => (e + since) % 2 = 0
      BY <1>6, <2>1 DEF AwayInv, Short, e
    <3>2. Grown(e) + 2 * trouble <= Room - 2 + (since + 1)
      BY <1>5, <3>1
    <3>3. away' <= Grown(e)
      BY <1>3, <1>5, <3>1
    <3>4. ASSUME Grown(e) < Cap PROVE (Grown(e) + (since + 1)) % 2 = 0
      <4>1. Grown(e) = e + 1 /\ (e + since) % 2 = 0
        BY <1>5, <3>1, <3>4
      <4> QED
        BY <1>5, <4>1
    <3> QED
      BY <3>2, <3>3, <3>4
  <2>2. file'.nudge.phase = "out" => file.nudge.phase = "out" /\ file'.nudge.elapsed = Grown(e)
    BY <1>4 DEF e
  <2> QED
    BY <1>2, <1>6, <2>1, <2>2 DEF Short
<1>8. LeftNorth(file.nudge, SinceFix)'
  <2>1. ASSUME guest.gps = "north", file.nudge.phase # "out"
        PROVE  away' + 2 * trouble <= Room + (since + 1)
    <3>1. away + 2 * trouble <= Room + since
      BY <1>2, <1>6, <2>1 DEF AwayInv, LeftNorth
    <3> QED
      BY <1>3, <1>5, <2>1, <3>1
  <2> QED
    BY <1>2, <1>3, <1>4, <1>6, <2>1 DEF LeftNorth
<1>9. AwayBriefly'
  <2> SUFFICES away' + 2 * trouble <= Room + 2
    BY <1>1, <1>2, RoomPrimed
  <2>1. CASE guest.gps # "north"
    <3>1. Leg + 2 * trouble <= Room /\ Leg \in Nat
      BY <1>1, RoomCounts
    <3> QED
      BY <1>3, <1>5, <2>1, <3>1
  <2>2. CASE guest.gps = "north"
    <3>1. away + 2 * trouble <= Room + since
      <4>1. file.nudge.phase = "out" => e + 2 * trouble <= Room - 2 + since /\ away <= e
        BY <1>6 DEF AwayInv, Short, e
      <4>2. file.nudge.phase # "out" => away + 2 * trouble <= Room + since
        BY <1>2, <1>6, <2>2 DEF AwayInv, LeftNorth
      <4> QED
        BY <1>5, <4>1, <4>2
    <3>2. away' = Grown(away)
      BY <1>3, <2>2
    <3> QED
      BY <1>5, <3>1, <3>2
  <2> QED
    BY <2>1, <2>2
<1> QED
  BY <1>1, <1>2, <1>7, <1>8, <1>9 DEF AwayInv, Steps

LEMMA EarlyAway == AwayInv /\ (StartRun \/ OthersRow \/ GeoFix) => AwayInv'
<1> SUFFICES ASSUME AwayInv, StartRun \/ OthersRow \/ GeoFix PROVE AwayInv'
  OBVIOUS
<1>1. TypeOK /\ TypeOK'
  <2>1. [Next]_vars
    BY DEF Next, Run
  <2> QED
    BY <2>1, NextTyped DEF AwayInv
<1>2. /\ file' = file /\ away' = away /\ SinceRun' = SinceRun
      /\ pc \in {"due", "row", "end"} /\ pc' \in {"row", "check", "end"} /\ (pc' = "end" <=> pc = "end")
      /\ state'.nudge = IF pc = "due" THEN file.nudge ELSE state.nudge
      /\ trouble' <= trouble /\ trouble' \in Int
      /\ \/ guest'.gps = guest.gps /\ pc' # "check"
         \/ guest'.gps = guest.gps /\ trouble' = trouble - 1
         \/ guest'.gps = GeoFixTarget(state.nudge) /\ pc = "row"
  BY <1>1, EarlySteps
<1>3. /\ away \in Int /\ Room \in Int /\ trouble \in Int
      /\ file.nudge \in Nudge /\ state.nudge \in Nudge /\ SinceRun \in 0 .. 2
  <2>1. SinceRun \in 0 .. 2
    BY DEF SinceRun
  <2>2. file.nudge \in Nudge /\ state.nudge \in Nudge
    BY <1>1, TripNumbers
  <2> QED
    BY <1>1, <2>1, <2>2, RoomCounts
<1>4. AwayBriefly' /\ Short(file.nudge, SinceRun)'
  BY <1>1, <1>2, <1>3, MoreLost DEF AwayInv, Short
<1>5. pc' \in Steps \ {"end"} => state'.nudge = file'.nudge
  BY <1>2 DEF AwayInv, Steps
<1>6. LeftNorth(file.nudge, SinceFix)'
  <2> SUFFICES ASSUME guest'.gps = "north", file.nudge.phase # "out"
               PROVE  away + 2 * trouble' <= Room + SinceFix'
    BY <1>2 DEF LeftNorth
  <2>1. guest.gps = "north" => away + 2 * trouble <= Room + SinceFix
    BY DEF AwayInv, LeftNorth
  <2>2. CASE guest'.gps = guest.gps /\ pc' # "check"
    <3>1. PICK since \in 0 .. 2 : since = SinceFix /\ since = SinceFix'
      BY <1>2, <2>2 DEF SinceFix, SinceRun
    <3>2. away + 2 * trouble <= Room + since
      BY <2>1, <2>2, <3>1
    <3>3. away + 2 * trouble' <= Room + since
      <4>1. Room + since \in Int
        BY <1>3
      <4> QED
        BY <1>2, <1>3, <3>2, <4>1, Cheaper
    <3> QED
      BY <3>1, <3>3
  <2>3. CASE guest'.gps = guest.gps /\ trouble' = trouble - 1
    <3>1. PICK since \in 0 .. 2, after \in 0 .. 2 : since = SinceFix /\ after = SinceFix'
      BY <1>2 DEF SinceFix, SinceRun
    <3>2. away + 2 * trouble <= Room + since
      BY <2>1, <2>3, <3>1
    <3>3. away + 2 * trouble' <= Room + after
      BY <1>3, <2>3, <3>2
    <3> QED
      BY <3>1, <3>3
  <2>4. CASE guest'.gps = GeoFixTarget(state.nudge) /\ pc = "row"
    <3>1. state.nudge = file.nudge
      BY <2>4 DEF AwayInv, Steps
    <3> QED
      BY <2>4, <3>1 DEF GeoFixTarget
  <2> QED
    BY <1>2, <2>2, <2>3, <2>4
<1>7. ASSUME pc' = "end" PROVE Short(state.nudge, 0)' /\ LeftNorth(state.nudge, 0)'
  <2>1. /\ pc = "end" /\ state'.nudge = state.nudge /\ guest'.gps = guest.gps
        /\ Short(state.nudge, 0) /\ LeftNorth(state.nudge, 0)
    BY <1>2, <1>7 DEF AwayInv
  <2>2. Short(state.nudge, 0)'
    BY <1>1, <1>2, <1>3, <2>1, MoreLost DEF Short
  <2>3. LeftNorth(state.nudge, 0)'
    BY <1>2, <1>3, <2>1 DEF LeftNorth
  <2> QED
    BY <2>2, <2>3
<1> QED
  BY <1>1, <1>4, <1>5, <1>6, <1>7 DEF AwayInv

(* Between the geo fix and the nudge a run leaves GPS and its ways alone;   *)
(* a refused report costs what it leaves to the next run.                   *)
LEMMA MiddleAway == AwayInv /\ (Check \/ Repair \/ Report) => AwayInv'
<1> SUFFICES ASSUME AwayInv, Check \/ Repair \/ Report PROVE AwayInv'
  OBVIOUS
<1>1. TypeOK /\ TypeOK'
  <2>1. [Next]_vars
    BY DEF Next, Run
  <2> QED
    BY <2>1, NextTyped DEF AwayInv
<1>2. /\ pc \in {"check", "repair", "report"} /\ pc' \in {"repair", "report", "nudge", "end"}
      /\ file' = file /\ away' = away /\ guest'.gps = guest.gps /\ state'.nudge = state.nudge
      /\ pc' = "end" => Spend(TRUE)
      /\ trouble' = trouble \/ \E d \in BOOLEAN : Spend(d)
  <2>1. CASE Check
    <3>1. \E readable, registered \in BOOLEAN : Spend(~readable \/ ~registered)
      BY <2>1 DEF Check
    <3>2. \E d \in BOOLEAN : Spend(d)
      <4>1. PICK readable \in BOOLEAN, registered \in BOOLEAN : Spend(~readable \/ ~registered)
        BY <3>1
      <4>2. (~readable \/ ~registered) \in BOOLEAN
        OBVIOUS
      <4> QED
        BY <4>1, <4>2
    <3> QED
      BY <1>1, <2>1, <3>2 DEF Check, history, TypeOK, State
  <2>2. CASE Repair
    <3> DEFINE counted == [state EXCEPT !.problemRuns = Counted(state.problemRuns)]
    <3>1. counted \in State /\ counted.nudge = state.nudge
      BY <1>1, CountedTyped DEF TypeOK, State
    <3>2. /\ \/ state' = counted
             \/ state' = [counted EXCEPT !.rebooted = 0, !.host = 0, !.problemRuns = 0]
          /\ trouble' = trouble \/ \E d \in BOOLEAN : Spend(d)
          /\ guest' = guest \/ guest' = [Booted(guest.gps) EXCEPT !.up = None]
          /\ pc = "repair" /\ pc' = "report" /\ file' = file /\ away' = away
      BY <2>2 DEF Repair, AlertInProgress
    <3> HIDE DEF counted
    <3>3. state'.nudge = state.nudge
      BY <3>1, <3>2 DEF State
    <3>4. guest'.gps = guest.gps
      BY <3>2 DEF Booted
    <3> QED
      BY <3>2, <3>3, <3>4
  <2>3. CASE Report
    BY <2>3 DEF Report, history
  <2> QED
    BY <2>1, <2>2, <2>3
<1>3. /\ trouble' <= trouble /\ trouble' \in Int
      /\ pc' = "end" => trouble' = trouble - 1
  <2>1. CASE trouble' = trouble /\ pc' # "end"
    BY <1>1, <2>1, RoomCounts
  <2>2. CASE \E d \in BOOLEAN : Spend(d)
    BY <1>1, <1>2, <2>2, SpendTrouble
  <2> QED
    BY <1>2, <2>1, <2>2
<1>4. /\ away \in Int /\ Room \in Int /\ trouble \in Int /\ state.nudge.elapsed \in Int
      /\ file.nudge \in Nudge /\ state.nudge = file.nudge
      /\ SinceRun = 2 /\ SinceRun' = 2 /\ SinceFix = 0 /\ SinceFix' = 0
  <2>1. state.nudge = file.nudge
    BY <1>2 DEF AwayInv, Steps
  <2>2. SinceRun = 2 /\ SinceRun' = 2 /\ SinceFix = 0 /\ SinceFix' = 0
    BY <1>2 DEF SinceRun, SinceFix
  <2>3. file.nudge \in Nudge /\ state.nudge.elapsed \in Int
    BY <1>1, TripNumbers DEF Age
  <2> QED
    BY <1>1, <2>1, <2>2, <2>3, RoomCounts
<1>5. AwayBriefly' /\ Short(file.nudge, SinceRun)'
  BY <1>1, <1>2, <1>3, <1>4, MoreLost DEF AwayInv, Short
<1>6. LeftNorth(file.nudge, SinceFix)'
  BY <1>2, <1>3, <1>4 DEF AwayInv, LeftNorth
<1>7. ASSUME pc' = "end" PROVE Short(state.nudge, 0)' /\ LeftNorth(state.nudge, 0)'
  <2>1. LeftNorth(state.nudge, 0)'
    BY <1>2, <1>4, <1>6 DEF LeftNorth
  <2>2. ASSUME state.nudge.phase = "out"
        PROVE  /\ state.nudge.elapsed + 2 * trouble' <= Room - 2
               /\ away <= state.nudge.elapsed
               /\ state.nudge.elapsed < Cap => (state.nudge.elapsed + 0) % 2 = 0
    <3>1. /\ state.nudge.elapsed + 2 * trouble <= Room - 2 + 2 /\ away <= state.nudge.elapsed
          /\ state.nudge.elapsed < Cap => (state.nudge.elapsed + 2) % 2 = 0
      BY <1>4, <2>2 DEF AwayInv, Short
    <3> QED
      BY <1>3, <1>4, <1>7, <3>1
  <2> QED
    BY <1>2, <1>3, <1>4, <2>1, <2>2 DEF Short
<1> QED
  BY <1>1, <1>2, <1>4, <1>5, <1>6, <1>7 DEF AwayInv, Steps

(* What nudge_step makes of the place and of the way out it was given.      *)
LEMMA NudgePlaces ==
  ASSUME TypeOK, NudgeStep
  PROVE  LET old == state.nudge
             new == state'.nudge
         IN /\ trouble' <= trouble /\ trouble' \in Int
            /\ \/ new.phase = "out" /\ new.elapsed = 0 /\ away' = 0
               \/ new.phase # "out" /\ away' = away /\ guest'.gps \in {guest.gps, "site"}
               \/ new = old /\ away' = away /\ guest'.gps = guest.gps /\ trouble' = trouble - 1
               \/ new = old /\ away' = away /\ guest'.gps = guest.gps /\ new.elapsed < Leg
<1> DEFINE nudge == Aborted(state.nudge)
<1>2. /\ \A n : [state EXCEPT !.nudge = n].nudge = n
      /\ \A n, f : [state EXCEPT !.nudge = n, !.failed = f].nudge = n
      /\ \A p : [guest EXCEPT !.gps = p].gps = p
  BY DEF TypeOK, State
<1>3. /\ NoNudge.phase = "none"
      /\ \A ok : /\ Begun("out", ok).elapsed = 0 /\ Begun("out", ok).phase = "out"
                 /\ Begun("back", ok).phase = "back"
  BY DEF NoNudge, Begun
<1>4. nudge = NoNudge \/ nudge = state.nudge
  BY DEF Aborted
<1>5. trouble \in Int
  BY RoomCounts
<1>6. CASE state' = [state EXCEPT !.nudge = nudge] /\ nudge = NoNudge
           /\ UNCHANGED <<guest, trouble, away, trip>>
  BY <1>2, <1>3, <1>5, <1>6
<1>7. CASE GoOut
  <2>1. /\ \E d \in BOOLEAN : Spend(d)
        /\ \/ state' = [state EXCEPT !.nudge = Begun("out", FALSE)] /\ away' = 0
           \/ state' = [state EXCEPT !.nudge = NoNudge] /\ UNCHANGED <<guest, away>>
    <3>1. (keeper /\ guest.up # None) \in BOOLEAN
      OBVIOUS
    <3> QED
      BY <1>7, <3>1 DEF GoOut, PointTo
  <2>2. trouble' <= trouble /\ trouble' \in Int
    BY <2>1, SpendTrouble
  <2>3. CASE state' = [state EXCEPT !.nudge = Begun("out", FALSE)] /\ away' = 0
    <3>1. state'.nudge = Begun("out", FALSE)
      BY <1>2, <2>3
    <3> QED
      BY <1>3, <2>2, <2>3, <3>1
  <2>4. CASE state' = [state EXCEPT !.nudge = NoNudge] /\ UNCHANGED <<guest, away>>
    <3>1. state'.nudge = NoNudge
      BY <1>2, <2>4
    <3> QED
      BY <1>3, <2>2, <2>4, <3>1
  <2> QED
    BY <2>1, <2>3, <2>4
<1>8. CASE AlertInProgress /\ state' = [state EXCEPT !.nudge = nudge] /\ UNCHANGED <<guest, away, trip>>
  <2>1. trouble' = trouble - 1
    BY <1>8, SpendTrouble DEF AlertInProgress
  <2>2. state'.nudge = nudge
    BY <1>2, <1>8
  <2> QED
    BY <1>3, <1>4, <1>5, <1>8, <2>1, <2>2
<1>9. CASE nudge.phase = "out" /\ WayOut(nudge)
  <2>1. nudge = state.nudge /\ away' = away
    BY <1>3, <1>4, <1>9 DEF WayOut
  <2>2. nudge.elapsed \in Int /\ Leg \in Int
    BY <2>1, TripNumbers, GrownAge DEF Age
  <2>3. \/ state'.nudge.phase = "back" /\ PointTo("site")
        \/ /\ state'.nudge = nudge /\ UNCHANGED <<guest, trouble>>
           /\ ~(nudge.elapsed >= Leg)
    BY <1>2, <1>3, <1>9 DEF WayOut
  <2>4. CASE state'.nudge.phase = "back" /\ PointTo("site")
    <3>1. (\E d \in BOOLEAN : Spend(d)) /\ guest'.gps \in {guest.gps, "site"}
      BY <1>2, <2>4 DEF PointTo
    <3>2. trouble' <= trouble /\ trouble' \in Int
      BY <3>1, SpendTrouble
    <3> QED
      BY <2>1, <2>4, <3>1, <3>2
  <2>5. CASE /\ state'.nudge = nudge /\ UNCHANGED <<guest, trouble>>
             /\ ~(nudge.elapsed >= Leg)
    <3>1. state'.nudge = state.nudge /\ state'.nudge.elapsed < Leg
      BY <2>1, <2>2, <2>5
    <3> QED
      BY <1>5, <2>1, <2>5, <3>1
  <2> QED
    BY <2>3, <2>4, <2>5
<1>10. CASE nudge.phase = "back" /\ WayBack(nudge)
  <2>1. state'.nudge = NoNudge \/ state'.nudge = nudge
    BY <1>2, <1>10 DEF WayBack
  <2>2. trouble' = trouble /\ away' = away /\ guest' = guest
    BY <1>10 DEF WayBack
  <2> QED
    BY <1>3, <1>5, <1>10, <2>1, <2>2
<1> QED
  BY <1>6, <1>7, <1>8, <1>9, <1>10 DEF NudgeStep

LEMMA NudgeAway == LegIsPeriods /\ AwayInv /\ NudgeStep => AwayInv'
<1> SUFFICES ASSUME LegIsPeriods, AwayInv, NudgeStep PROVE AwayInv'
  OBVIOUS
<1> DEFINE old == state.nudge
           new == state'.nudge
<1>1. TypeOK /\ TypeOK'
  <2>1. [Next]_vars
    BY DEF Next, Run
  <2> QED
    BY <2>1, NextTyped DEF AwayInv
<1>2. /\ pc = "nudge" /\ pc' = "end" /\ file' = file
      /\ SinceRun = 2 /\ SinceRun' = 2 /\ SinceFix = 0 /\ SinceFix' = 0
  BY DEF NudgeStep, SinceRun, SinceFix
<1>3. /\ old = file.nudge /\ old \in Nudge /\ Leg \in Nat /\ trouble \in Nat /\ Cap \in Nat
      /\ Room \in Nat /\ Leg + 2 * trouble <= Room
      /\ away \in Int /\ old.elapsed \in Int /\ Leg > 0 /\ Leg % 2 = 0 /\ Leg < Cap
  <2>1. old = file.nudge /\ Leg > 0 /\ Leg % 2 = 0
    BY <1>2 DEF AwayInv, Steps, LegIsPeriods
  <2>2. old \in Nudge /\ old.elapsed \in Int
    BY <1>1, TripNumbers DEF Age
  <2> QED
    BY <1>1, <2>1, <2>2, RoomCounts
<1>4. /\ old.phase = "out" => /\ old.elapsed + 2 * trouble <= Room /\ away <= old.elapsed
                              /\ old.elapsed < Cap => old.elapsed % 2 = 0
      /\ guest.gps = "north" /\ old.phase # "out" => away + 2 * trouble <= Room
      /\ away + 2 * trouble <= Room + 2
  <2>1. old.phase = "out" => /\ old.elapsed + 2 * trouble <= Room - 2 + 2 /\ away <= old.elapsed
                             /\ old.elapsed < Cap => (old.elapsed + 2) % 2 = 0
    BY <1>2, <1>3 DEF AwayInv, Short
  <2>2. guest.gps = "north" /\ old.phase # "out" => away + 2 * trouble <= Room + 0
    BY <1>2, <1>3 DEF AwayInv, LeftNorth
  <2>3. away + 2 * trouble <= Room + 2
    BY <1>1, RoomCounts DEF AwayInv
  <2> QED
    BY <1>3, <2>1, <2>2, <2>3
<1>5. trouble' <= trouble /\ trouble' \in Nat
  BY <1>1, NudgePlaces, RoomPrimed
<1>6. /\ old.phase = "out" => old.elapsed + 2 * trouble' <= Room /\ away <= old.elapsed
      /\ away + 2 * trouble' <= Room + 2
      /\ guest.gps = "north" => away + 2 * trouble' <= Room
  <2>1. guest.gps = "north" => away + 2 * trouble <= Room
    BY <1>3, <1>4
  <2>2. \A a \in Int, u \in Nat : u <= trouble =>
          /\ a + 2 * trouble <= Room => a + 2 * u <= Room
          /\ a + 2 * trouble <= Room + 2 => a + 2 * u <= Room + 2
    BY <1>3
  <2> QED
    BY <1>3, <1>4, <1>5, <2>1, <2>2
<1>7. SUFFICES /\ away' + 2 * trouble' <= Room + 2
               /\ old.phase = "out" => away' <= old.elapsed
               /\ guest'.gps = "north" /\ old.phase # "out" => away' + 2 * trouble' <= Room
               /\ new.phase = "out" => /\ new.elapsed + 2 * trouble' <= Room - 2
                                       /\ away' <= new.elapsed
                                       /\ new.elapsed < Cap => new.elapsed % 2 = 0
               /\ guest'.gps = "north" /\ new.phase # "out" => away' + 2 * trouble' <= Room
  <2>1. AwayBriefly'
    BY <1>1, <1>7, RoomPrimed
  <2>2. Short(file.nudge, SinceRun)'
    <3>1. old.phase = "out" => old.elapsed + 2 * trouble' <= Room - 2 + 2
      BY <1>3, <1>5, <1>6
    <3>2. old.phase = "out" /\ old.elapsed < Cap => (old.elapsed + 2) % 2 = 0
      BY <1>3, <1>4
    <3> QED
      BY <1>2, <1>3, <1>7, <3>1, <3>2 DEF Short
  <2>3. LeftNorth(file.nudge, SinceFix)'
    BY <1>2, <1>3, <1>5, <1>7 DEF LeftNorth
  <2>4. Short(state.nudge, 0)' /\ LeftNorth(state.nudge, 0)'
    <3>1. new.elapsed \in Int
      BY <1>1, TripNumbers DEF TypeOK, State, Nudge, NoNudge, Age
    <3> QED
      BY <1>3, <1>5, <1>7, <3>1 DEF Short, LeftNorth
  <2> QED
    BY <1>1, <1>2, <2>1, <2>2, <2>3, <2>4 DEF AwayInv
<1>8. CASE new.phase = "out" /\ new.elapsed = 0 /\ away' = 0
  <2>1. 0 % 2 = 0 /\ Leg >= 2 /\ (old.phase = "out" => old.elapsed >= 0)
    BY <1>1, <1>3, TripNumbers DEF Age
  <2>2. 0 + 2 * trouble' <= Room - 2
    <3>1. \A u \in Nat : u <= trouble => 0 + 2 * u <= Room - 2
      BY <1>3, <2>1
    <3> QED
      BY <1>5, <3>1
  <2> QED
    BY <1>3, <1>5, <1>8, <2>1, <2>2
<1>9. CASE new.phase # "out" /\ away' = away /\ guest'.gps \in {guest.gps, "site"}
  BY <1>6, <1>9
<1>10. CASE new = old /\ away' = away /\ guest'.gps = guest.gps /\ trouble' = trouble - 1
  <2>1. old.phase = "out" => old.elapsed + 2 * trouble' <= Room - 2
    BY <1>3, <1>4, <1>10
  <2> QED
    BY <1>4, <1>6, <1>10, <2>1
<1>11. CASE new = old /\ away' = away /\ guest'.gps = guest.gps /\ new.elapsed < Leg
  <2>1. old.phase = "out" => old.elapsed <= Leg - 2
    <3> SUFFICES ASSUME old.phase = "out" PROVE old.elapsed <= Leg - 2
      OBVIOUS
    <3>1. old.elapsed % 2 = 0 /\ old.elapsed < Leg
      BY <1>3, <1>4, <1>11
    <3> QED
      BY <1>3, <3>1
  <2>2. old.phase = "out" => old.elapsed + 2 * trouble' <= Room - 2
    BY <1>3, <1>5, <2>1
  <2> QED
    BY <1>4, <1>6, <1>11, <2>2
<1> QED
  BY <1>1, <1>8, <1>9, <1>10, <1>11, NudgePlaces

LEMMA EndAway == AwayInv /\ (EndRun \/ Die) => AwayInv'
<1> SUFFICES ASSUME AwayInv, EndRun \/ Die PROVE AwayInv'
  OBVIOUS
<1>1. TypeOK /\ TypeOK'
  <2>1. [Next]_vars
    BY DEF Next, Run
  <2> QED
    BY <2>1, NextTyped DEF AwayInv
<1>2. pc' = "ran" /\ guest' = guest /\ away' = away /\ SinceRun' = 0 /\ SinceFix' = 0
  BY DEF EndRun, Die, history, SinceRun, SinceFix
<1>3. /\ Room \in Int /\ trouble \in Int /\ away \in Int /\ file.nudge.elapsed \in Int
      /\ file.nudge \in Nudge
  BY <1>1, TripNumbers, RoomCounts DEF Age
<1>4. CASE EndRun
  <2>1. pc = "end" /\ file' = state /\ trouble' = trouble
    BY <1>4 DEF EndRun
  <2>2. /\ Short(state.nudge, 0) /\ LeftNorth(state.nudge, 0) /\ AwayBriefly
    BY <2>1 DEF AwayInv
  <2>3. AwayBriefly'
    BY <1>2, <2>1, <2>2, <1>4 DEF AwayBriefly, EndRun
  <2>4. Short(file.nudge, SinceRun)' /\ LeftNorth(file.nudge, SinceFix)'
    BY <1>2, <2>1, <2>2 DEF Short, LeftNorth
  <2> QED
    BY <1>1, <1>2, <2>3, <2>4 DEF AwayInv, Steps
<1>5. CASE Die
  <2>1. /\ pc \in Steps \cup {"due"} /\ file' = file /\ trouble' = trouble - 1
        /\ SinceRun = 2 /\ SinceFix \in 0 .. 2
    <3>1. trouble' = trouble - 1
      BY <1>1, <1>5, SpendTrouble DEF Die
    <3>2. pc \in Steps \cup {"due"} /\ file' = file
      BY <1>5 DEF Die
    <3> QED
      BY <3>1, <3>2 DEF SinceRun, SinceFix, Steps
  <2>2. AwayBriefly'
    <3>1. away + 2 * trouble <= Room + 2
      BY <1>1, RoomCounts DEF AwayInv
    <3>2. away' + 2 * trouble' <= Room + 2
      BY <1>2, <1>3, <2>1, <3>1
    <3> QED
      BY <1>1, <3>2, RoomPrimed
  <2>3. Short(file.nudge, SinceRun)'
    <3>1. ASSUME file.nudge.phase = "out"
          PROVE  /\ file.nudge.elapsed + 2 * trouble' <= Room - 2 + 0 /\ away <= file.nudge.elapsed
                 /\ file.nudge.elapsed < Cap => (file.nudge.elapsed + 0) % 2 = 0
      <4>1. /\ file.nudge.elapsed + 2 * trouble <= Room - 2 + 2 /\ away <= file.nudge.elapsed
            /\ file.nudge.elapsed < Cap => (file.nudge.elapsed + 2) % 2 = 0
        BY <2>1, <3>1 DEF AwayInv, Short
      <4> QED
        BY <1>3, <2>1, <4>1
    <3> QED
      BY <1>2, <2>1, <3>1 DEF Short
  <2>4. LeftNorth(file.nudge, SinceFix)'
    <3>1. PICK since \in 0 .. 2 : since = SinceFix
      BY <2>1
    <3>2. guest.gps = "north" /\ file.nudge.phase # "out" => away + 2 * trouble <= Room + since
      BY <3>1 DEF AwayInv, LeftNorth
    <3>3. guest.gps = "north" /\ file.nudge.phase # "out" => away + 2 * trouble' <= Room + 0
      BY <1>3, <2>1, <3>2
    <3> QED
      BY <1>2, <2>1, <3>3 DEF LeftNorth
  <2> QED
    BY <1>1, <1>2, <2>2, <2>3, <2>4 DEF AwayInv, Steps
<1> QED
  BY <1>4, <1>5

(* Every step keeps a receptor from being away too long.                   *)
LEMMA NextAway == LegIsPeriods /\ AwayInv /\ [Next]_vars => AwayInv'
<1> SUFFICES ASSUME LegIsPeriods, AwayInv, [Next]_vars PROVE AwayInv'
  OBVIOUS
<1>1. CASE UNCHANGED vars
  <2>1. TypeOK'
    BY NextTyped DEF AwayInv
  <2>2. UNCHANGED <<guest, file, pc, state, trouble, away>>
    BY <1>1 DEF vars, agent, history
  <2> QED
    BY <2>1, <2>2 DEF AwayInv, AwayBriefly, Short, LeftNorth, SinceRun, SinceFix
<1> QED
  BY <1>1, WorldAway, LaterAway, EarlyAway, MiddleAway, NudgeAway, EndAway DEF Next, Run

(* A receptor is off its site for a leg and not longer, but for a period    *)
(* for a boot and one per lost run, for any whole number of periods.        *)
THEOREM AwayOnlyBriefly == LegIsPeriods => (Spec => []AwayBriefly)
<1> SUFFICES ASSUME LegIsPeriods PROVE Spec => []AwayBriefly
  OBVIOUS
<1>1. Init => AwayInv
  BY InitAway
<1>2. AwayInv /\ [Next]_vars => AwayInv'
  BY NextAway
<1>3. AwayInv => AwayBriefly
  BY DEF AwayInv
<1> QED
  BY <1>1, <1>2, <1>3, PTL DEF Spec
=============================================================================
