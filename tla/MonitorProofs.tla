---------------------------- MODULE MonitorProofs ----------------------------
(* What the monitor tells, copies and certifies, for any thresholds, page   *)
(* sizes and length of a day, and any number of records and disturbances.   *)
EXTENDS Monitor, TLAPS, SequenceTheorems, WellFoundedInduction

(* Least and greatest of a set of naturals.                                 *)
LEMMA MinOf ==
  ASSUME NEW S, S \subseteq Nat, S # {}
  PROVE  Min(S) \in S /\ \A x \in S : Min(S) <= x
<1>1. PICK n \in S : \A x \in S : ~(<<x, n>> \in OpToRel(<, Nat))
  BY NatLessThanWellFounded, WFMin
<1>2. \A x \in S : n <= x
  <2> TAKE x \in S
  <2>1. ~(x < n)
    BY <1>1 DEF OpToRel
  <2> QED
    BY <2>1
<1> QED
  BY <1>2 DEF Min

LEMMA MaxOf ==
  ASSUME NEW S, NEW b \in Nat, S \subseteq 0 .. b, S # {}
  PROVE  Max(S) \in S /\ \A x \in S : x <= Max(S)
<1> DEFINE T == {n \in Nat : b - n \in S}
<1>1. T # {}
  <2>1. PICK x \in S : x \in 0 .. b
    OBVIOUS
  <2>2. b - x \in Nat /\ b - (b - x) = x
    BY <2>1
  <2> QED
    BY <2>1, <2>2
<1>2. Min(T) \in T /\ \A n \in T : Min(T) <= n
  BY <1>1, MinOf
<1>3. b - Min(T) \in S /\ Min(T) \in Nat
  BY <1>2
<1>4. ASSUME NEW x \in S PROVE b - Min(T) >= x
  <2>1. b - x \in Nat /\ b - (b - x) = x
    OBVIOUS
  <2>2. b - x \in T
    BY <2>1
  <2> HIDE DEF T
  <2> QED
    BY <1>2, <1>3, <2>1, <2>2
<1>5. \E m \in S : \A x \in S : m >= x
  BY <1>3, <1>4
<1>6. Max(S) \in S /\ \A x \in S : Max(S) >= x
  BY <1>5 DEF Max
<1> QED
  BY <1>6

(* A day never comes after the next minute's.                               *)
LEMMA DayGrows ==
  \A m \in Nat : /\ DayOf(m) \in Nat /\ DayOf(m) <= m
                 /\ DayOf(m) <= DayOf(m + 1)
<1> TAKE m \in Nat
<1>0. Day \in Nat /\ Day > 0
  BY MonitorAssumption
<1> DEFINE q == m \div Day
           p == (m + 1) \div Day
<1>1. q \in Int /\ m = Day * q + (m % Day) /\ m % Day \in 0 .. Day - 1
  BY <1>0
<1>2. p \in Int /\ m + 1 = Day * p + ((m + 1) % Day) /\ (m + 1) % Day \in 0 .. Day - 1
  BY <1>0
<1> HIDE DEF q, p
<1>3. q >= 0
  <2> SUFFICES ASSUME q <= -1 PROVE FALSE
    BY <1>1
  <2>1. Day * q <= -Day
    BY <1>0, <1>1
  <2> QED
    BY <1>0, <1>1, <2>1
<1>4. q <= m
  <2>1. q <= Day * q
    BY <1>0, <1>1, <1>3
  <2> QED
    BY <1>0, <1>1, <2>1
<1>5. q <= p
  <2> SUFFICES ASSUME p <= q - 1 PROVE FALSE
    BY <1>1, <1>2
  <2>1. Day * p <= Day * (q - 1) /\ Day * (q - 1) = Day * q - Day
    BY <1>0, <1>1, <1>2
  <2> QED
    BY <1>0, <1>1, <1>2, <2>1
<1> QED
  BY <1>1, <1>3, <1>4, <1>5 DEF DayOf, q, p

-----------------------------------------------------------------------------
(* What the types need beside TypeOK.                                       *)
Bounds ==
  /\ Len(log) <= MaxRecords
  /\ mem.since <= MaxTime + 1 /\ saved.since <= MaxTime + 1
  /\ pc # "sleep" => clock > 0
  /\ mem.day = NoDay \/ mem.day <= DayOf(clock)
  /\ saved.day = NoDay \/ saved.day <= DayOf(clock)

Typed == TypeOK /\ Bounds

LEMMA InitTyped == Init => Typed
<1> SUFFICES ASSUME Init PROVE Typed
  OBVIOUS
<1>0. MaxTime \in Nat /\ MaxRecords \in Nat /\ MaxTrouble \in Nat /\ MaxPages \in Nat
  BY MonitorAssumption
<1>1. Fresh \in Memory /\ Fresh.day = NoDay /\ Fresh.since = 0
  BY <1>0 DEF Fresh, Memory, NoDay
<1>2. NoPage \in [since : 0 .. MaxTime + 1, left : 0 .. MaxPages]
  BY <1>0 DEF NoPage
<1>3. TypeOK
  BY <1>0, <1>1, <1>2 DEF Init, TypeOK
<1>4. Bounds
  BY <1>0, <1>1 DEF Init, Bounds
<1> QED
  BY <1>3, <1>4 DEF Typed

(* A minute more, with or without a poll.                                   *)
LEMMA MinuteTyped == Typed /\ (Poll \/ Off) => Typed'
<1> SUFFICES ASSUME Typed, Poll \/ Off PROVE Typed'
  OBVIOUS
<1>0. MaxTime \in Nat /\ MaxTrouble \in Nat /\ clock \in Nat /\ clock < MaxTime /\ clock' = clock + 1
  BY MonitorAssumption DEF Poll, Off, Typed, TypeOK
<1>1. /\ DayOf(clock) <= DayOf(clock') /\ DayOf(clock) \in Nat /\ DayOf(clock') \in Nat
      /\ mem.day \in Nat /\ saved.day \in Nat
  <2>1. mem \in Memory /\ saved \in Memory
    BY DEF Typed, TypeOK
  <2>2. mem.day \in Nat /\ saved.day \in Nat
    BY <2>1 DEF Memory
  <2> QED
    BY <1>0, <2>2, DayGrows
<1>2. Bounds'
  <2>1. /\ UNCHANGED <<log, mem, saved>> /\ clock' > 0
    BY <1>0 DEF Poll, Off
  <2> QED
    BY <1>0, <1>1, <2>1 DEF Typed, Bounds, NoDay
<1>3. CASE Poll
  <2>1. PICK seen \in Seen :
          /\ health' = Append(health, [at |-> clock', seen |-> seen])
          /\ pc' = IF seen \in {"gateway", "blind"} THEN "sleep" ELSE "notices"
    BY <1>3 DEF Poll
  <2>2. [at |-> clock', seen |-> seen] \in HealthRecord
    BY <1>0 DEF HealthRecord, Minute
  <2>3. health' \in Seq(HealthRecord)
    BY <2>1, <2>2, AppendProperties DEF Typed, TypeOK
  <2>4. clock' \in 0 .. MaxTime
    BY <1>0
  <2>5. pc' \in Steps \cup {"sleep"}
    BY <2>1 DEF Steps
  <2> QED
    BY <1>2, <1>3, <2>3, <2>4, <2>5 DEF Poll, Typed, TypeOK
<1>4. CASE Off
  <2>1. clock' \in 0 .. MaxTime /\ trouble' \in 0 .. MaxTrouble
    BY <1>0, <1>4 DEF Off, Typed, TypeOK
  <2> QED
    BY <1>2, <1>4, <2>1 DEF Off, Typed, TypeOK
<1> QED
  BY <1>3, <1>4

LEMMA RecordTyped == Typed /\ Record => Typed'
<1> SUFFICES ASSUME Typed, Record PROVE Typed'
  OBVIOUS
<1>1. PICK at \in {clock, clock - 1} \cap Nat :
        log' = Append(log, [at |-> at, late |-> at < Max({mem.since, page.since})])
  BY DEF Record
<1> DEFINE Line == [at : 0 .. MaxTime, late : BOOLEAN]
<1>2. at \in 0 .. MaxTime
  <2>1. clock \in 0 .. MaxTime /\ MaxTime \in Nat
    BY MonitorAssumption DEF Typed, TypeOK
  <2> QED
    BY <1>1, <2>1
<1>3. [at |-> at, late |-> at < Max({mem.since, page.since})] \in Line
  BY <1>2
<1>4. log \in Seq(Line) /\ Len(log) < MaxRecords /\ copy \subseteq DOMAIN log
  BY DEF Record, Typed, TypeOK
<1> HIDE DEF Line
<1>5. log' \in Seq(Line) /\ Len(log') = Len(log) + 1
  BY <1>1, <1>3, <1>4, AppendProperties
<1>6. DOMAIN log \subseteq DOMAIN log' /\ Len(log') <= MaxRecords
  BY <1>4, <1>5, MonitorAssumption
<1>7. copy' \subseteq DOMAIN log'
  BY <1>4, <1>6 DEF Record
<1> QED
  BY <1>5, <1>6, <1>7 DEF Record, Typed, TypeOK, Bounds, Line

(* The outage begins at a minute that was polled.                           *)
LEMMA SinceTyped ==
  ASSUME NEW records \in Seq(HealthRecord)
  PROVE  UncoveredSince(records) = 0 \/ UncoveredSince(records) \in Minute
<1> DEFINE covered == {i \in DOMAIN records : records[i].seen = "covered"}
           run == {i \in DOMAIN records : records[i].seen \in Down /\ \A j \in covered : j < i}
<1>1. UncoveredSince(records) = IF run = {} THEN 0 ELSE records[Min(run)].at
  BY DEF UncoveredSince
<1>2. run # {} => Min(run) \in run
  <2>1. DOMAIN records \subseteq Nat
    OBVIOUS
  <2>2. run \subseteq Nat
    BY <2>1
  <2> HIDE DEF run
  <2> QED
    BY <2>2, MinOf
<1>3. \A i \in DOMAIN records : records[i].at \in Minute
  <2> TAKE i \in DOMAIN records
  <2>1. records[i] \in HealthRecord
    OBVIOUS
  <2> QED
    BY <2>1 DEF HealthRecord
<1> QED
  BY <1>1, <1>2, <1>3

LEMMA RecentTyped ==
  ASSUME health \in Seq(HealthRecord)
  PROVE  /\ Recent \in Seq(HealthRecord) /\ DOMAIN Recent \subseteq Nat
         /\ \A i \in DOMAIN Recent : Recent[i] \in {health[j] : j \in DOMAIN health}
<1> DEFINE a == Len(health) - TailLength + 1
           first == Max({1, a})
           kept == {health[j] : j \in DOMAIN health}
<1>1. a \in Int /\ Len(health) \in Nat
  BY MonitorAssumption
<1>2. first \in Int /\ first >= 1
  <2>1. \E x \in {1, a} : \A y \in {1, a} : x >= y
    BY <1>1
  <2>2. Max({1, a}) \in {1, a} /\ \A y \in {1, a} : Max({1, a}) >= y
    BY <2>1 DEF Max
  <2> QED
    BY <1>1, <2>2
<1> HIDE DEF first
<1>3. \A i \in first .. Len(health) : health[i] \in kept
  BY <1>1, <1>2
<1>4. kept \subseteq HealthRecord
  OBVIOUS
<1> HIDE DEF kept
<1>5. SubSeq(health, first, Len(health)) \in Seq(kept)
  BY <1>1, <1>2, <1>3, SubSeqProperties
<1>6. Recent \in Seq(kept)
  BY <1>5 DEF Recent, LastOf, first
<1>7. \A s \in Seq(kept) : s \in Seq(HealthRecord) /\ DOMAIN s \subseteq Nat
                          /\ \A i \in DOMAIN s : s[i] \in kept
  BY <1>4
<1> QED
  BY <1>6, <1>7 DEF kept

LEMMA NoticesTyped == Typed /\ Notices => Typed'
<1> SUFFICES ASSUME Typed, Notices PROVE Typed'
  OBVIOUS
<1>0. /\ health \in Seq(HealthRecord) /\ clock \in 0 .. MaxTime /\ clock > 0
      /\ MaxTime \in Nat /\ MaxPages \in Nat /\ Degraded \in Nat /\ Fail \in Nat
      /\ Degraded > 0 /\ Fail > 0 /\ mem \in Memory
  BY MonitorAssumption DEF Notices, Due, Typed, TypeOK, Bounds
<1> DEFINE since == UncoveredSince(Recent)
           restored == IF Restored(since) THEN {"RESTORED"} ELSE {}
           told == IF since = 0 THEN {} ELSE Reached(since)
           level == Max(told \cup {KnownLevel(since)})
           run == IF since = 0 THEN NoRun ELSE [since |-> since, level |-> level]
<1>1. since = 0 \/ since \in Minute
  BY <1>0, SinceTyped, RecentTyped
<1>2. /\ mem' = [mem EXCEPT !.run = run]
      /\ alerts' = alerts \cup {[what |-> w, of |-> 0, at |-> clock] :
                                   w \in restored \cup {Name(l) : l \in told}}
      /\ \E due \in BOOLEAN : page' = [since |-> mem.since, left |-> IF due THEN MaxPages ELSE 0]
      /\ pc' = "pages" /\ UNCHANGED <<clock, trouble, log, health, copy, saved, certs, lost, passed>>
  BY DEF Notices, Due, world
<1> HIDE DEF since
<1>3. told \subseteq {Degraded, Fail}
  BY DEF Reached
<1>4. KnownLevel(since) \in {0, Degraded, Fail}
  BY <1>0 DEF KnownLevel, Memory, OpenRun, NoRun
<1>5. level \in {0, Degraded, Fail}
  <2> DEFINE L == told \cup {KnownLevel(since)}
  <2>1. L # {} /\ L \subseteq {0, Degraded, Fail}
    BY <1>3, <1>4
  <2>2. {0, Degraded, Fail} \subseteq 0 .. (Degraded + Fail)
    BY <1>0
  <2>3. Degraded + Fail \in Nat
    BY <1>0
  <2> HIDE DEF L
  <2>4. Max(L) \in L
    BY <2>1, <2>2, <2>3, MaxOf
  <2> QED
    BY <2>1, <2>4 DEF L
<1> HIDE DEF told, level
<1>6. run \in OpenRun \cup {NoRun}
  BY <1>1, <1>5 DEF OpenRun
<1> HIDE DEF run, restored
<1>7. mem' \in Memory /\ mem'.since = mem.since /\ mem'.day = mem.day
  BY <1>0, <1>2, <1>6 DEF Memory
<1>8. page' \in [since : 0 .. MaxTime + 1, left : 0 .. MaxPages]
  <2>1. mem.since \in 0 .. MaxTime + 1
    BY <1>0 DEF Typed, Bounds, Memory
  <2> QED
    BY <1>0, <1>2, <2>1
<1>9. alerts' \subseteq Notice
  <2>1. restored \cup {Name(l) : l \in told} \subseteq {"DEGRADED", "FAIL", "RESTORED"}
    BY DEF Name, restored
  <2>2. clock \in Minute
    BY <1>0 DEF Minute
  <2>3. \A w \in {"DEGRADED", "FAIL", "RESTORED"} : [what |-> w, of |-> 0, at |-> clock] \in Notice
    BY <2>2 DEF Notice
  <2>4. alerts \subseteq Notice
    BY DEF Typed, TypeOK
  <2> QED
    BY <1>2, <2>1, <2>3, <2>4
<1>10. TypeOK'
  BY <1>2, <1>7, <1>8, <1>9 DEF Typed, TypeOK, Steps
<1>11. Bounds'
  BY <1>0, <1>2, <1>7 DEF Typed, Bounds
<1> QED
  BY <1>10, <1>11 DEF Typed

LEMMA ElementOf == ASSUME NEW S, NEW s \in Seq(S), NEW i \in DOMAIN s PROVE s[i] \in S
OBVIOUS

LEMMA StampsOf ==
  ASSUME Typed, NEW since \in Nat, NEW lns, lns \subseteq From(since)
  PROVE  /\ Stamps(lns) \subseteq 0 .. MaxTime /\ Stamps(lns) \subseteq Nat
         /\ \A at \in Stamps(lns) : at >= since
         /\ \A i \in lns : log[i].at \in Stamps(lns)
         /\ lns # {} => Stamps(lns) # {}
<1> DEFINE Line == [at : 0 .. MaxTime, late : BOOLEAN]
<1>1. log \in Seq(Line)
  BY DEF Typed, TypeOK
<1>2. ASSUME NEW i \in DOMAIN log PROVE log[i].at \in 0 .. MaxTime
  <2>1. log[i] \in Line
    <3> HIDE DEF Line
    <3> QED
      BY <1>1, <1>2, ElementOf
  <2> QED
    BY <2>1
<1>3. MaxTime \in Nat
  BY MonitorAssumption
<1>4. lns \subseteq DOMAIN log /\ \A i \in lns : log[i].at >= since
  BY DEF From
<1>5. \A i \in lns : log[i].at \in 0 .. MaxTime /\ log[i].at \in Nat
  BY <1>2, <1>3, <1>4
<1> QED
  BY <1>4, <1>5 DEF Stamps

(* A page moves the cursor on, and what it passes is on the page.           *)
LEMMA PageMoves ==
  ASSUME Typed, NEW since \in Nat, From(since) # {}
  PROVE  LET p == Page(From(since))
         IN /\ p.lines \subseteq From(since)
            /\ p.next \in since .. MaxTime + 1
            /\ \A i \in DOMAIN log : i \in p.lines \/ ~(log[i].at >= since) \/ log[i].at >= p.next
<1> DEFINE M == From(since)
           ends == {at \in Stamps(M) : Cardinality(UpTo(M, at)) <= Limit} \cup {Min(Stamps(M))}
           end == Max(ends)
           lines == UpTo(M, end)
           rest == M \ lines
           next == IF rest = {} THEN end + 1 ELSE Min(Stamps(rest))
<1>0. /\ MaxTime \in Nat /\ M \subseteq DOMAIN log /\ M # {}
      /\ \A i \in DOMAIN log : i \in M \/ ~(log[i].at >= since)
  BY MonitorAssumption DEF From
<1>1. /\ Stamps(M) \subseteq 0 .. MaxTime /\ Stamps(M) \subseteq Nat /\ Stamps(M) # {}
      /\ \A at \in Stamps(M) : at >= since
  BY <1>0, StampsOf
<1>2. Page(M) = [lines |-> lines, next |-> next]
  BY DEF Page
<1>3. Min(Stamps(M)) \in Stamps(M)
  BY <1>1, MinOf
<1>4. ends \subseteq Stamps(M) /\ ends # {}
  BY <1>3
<1>5. end \in 0 .. MaxTime /\ end >= since
  <2> HIDE DEF ends
  <2>1. ends \subseteq 0 .. MaxTime
    BY <1>1, <1>4
  <2>2. end \in ends
    BY <1>0, <1>4, <2>1, MaxOf
  <2>3. end \in Stamps(M)
    BY <1>4, <2>2
  <2> HIDE DEF end
  <2> QED
    BY <1>1, <2>3
<1> HIDE DEF ends, end
<1>6. lines \subseteq M /\ rest \subseteq M
  BY DEF UpTo
<1> HIDE DEF lines
<1>7. CASE rest = {}
  <2>1. next = end + 1
    BY <1>7
  <2>2. M \subseteq lines
    BY <1>7
  <2>3. next \in since .. MaxTime + 1
    BY <1>0, <1>5, <2>1
  <2> HIDE DEF next, rest
  <2> QED
    BY <1>0, <1>2, <1>6, <2>2, <2>3
<1>8. CASE rest # {}
  <2>1. /\ Stamps(rest) \subseteq Nat /\ Stamps(rest) # {} /\ Stamps(rest) \subseteq 0 .. MaxTime
        /\ \A at \in Stamps(rest) : at >= since
        /\ \A i \in rest : log[i].at \in Stamps(rest)
    <3> HIDE DEF rest
    <3> QED
      BY <1>6, <1>8, StampsOf
  <2>2. next = Min(Stamps(rest))
    BY <1>8
  <2>3. \A i \in M : i \in lines \/ i \in rest
    OBVIOUS
  <2> HIDE DEF rest, next
  <2>4. next \in Stamps(rest) /\ \A at \in Stamps(rest) : next <= at
    BY <2>1, <2>2, MinOf
  <2>5. next \in 0 .. MaxTime /\ next >= since /\ next \in Nat
    BY <2>1, <2>4
  <2>6. next \in since .. MaxTime + 1
    BY <1>0, <2>5
  <2>7. \A i \in M : i \in lines \/ log[i].at >= next
    <3> TAKE i \in M
    <3>1. CASE i \in rest
      <4>1. log[i].at \in Stamps(rest) /\ log[i].at \in Nat
        BY <2>1, <3>1
      <4> QED
        BY <2>4, <2>5, <4>1
    <3> QED
      BY <2>3, <3>1
  <2> QED
    BY <1>0, <1>2, <1>6, <2>6, <2>7
<1> QED
  BY <1>7, <1>8

LEMMA FetchTyped == Typed /\ FetchPage => Typed'
<1> SUFFICES ASSUME Typed, FetchPage PROVE Typed'
  OBVIOUS
<1>0. /\ page \in [since : 0 .. MaxTime + 1, left : 0 .. MaxPages] /\ page.left > 0
      /\ MaxTime \in Nat /\ MaxPages \in Nat /\ copy \subseteq DOMAIN log
  BY MonitorAssumption DEF Typed, TypeOK, FetchPage
<1>1. /\ UNCHANGED <<clock, trouble, log, health, mem, saved, pc, alerts, certs, lost, passed>>
      /\ \/ From(page.since) = {} /\ page' = [page EXCEPT !.left = 0] /\ copy' = copy
         \/ /\ From(page.since) # {}
            /\ copy' = copy \cup Page(From(page.since)).lines
            /\ page' = [since |-> Page(From(page.since)).next, left |-> page.left - 1]
  BY DEF FetchPage, world
<1>2. /\ page' \in [since : 0 .. MaxTime + 1, left : 0 .. MaxPages]
      /\ copy' \subseteq DOMAIN log
  <2>1. CASE From(page.since) = {}
    BY <1>0, <1>1, <2>1
  <2>2. CASE From(page.since) # {}
    <3>1. page.since \in Nat /\ page.left - 1 \in 0 .. MaxPages
      BY <1>0
    <3>2. /\ Page(From(page.since)).lines \subseteq From(page.since)
          /\ Page(From(page.since)).next \in page.since .. MaxTime + 1
      BY <2>2, <3>1, PageMoves
    <3>3. Page(From(page.since)).next \in 0 .. MaxTime + 1
      BY <1>0, <3>1, <3>2
    <3>4. From(page.since) \subseteq DOMAIN log
      BY DEF From
    <3> QED
      BY <1>0, <1>1, <2>2, <3>1, <3>2, <3>3, <3>4
  <2> QED
    BY <2>1, <2>2
<1>3. TypeOK'
  BY <1>1, <1>2 DEF Typed, TypeOK
<1>4. Bounds'
  BY <1>1 DEF Typed, Bounds
<1> QED
  BY <1>3, <1>4 DEF Typed

LEMMA VerdictsTyped == Typed /\ Verdicts => Typed'
<1> SUFFICES ASSUME Typed, Verdicts PROVE Typed'
  OBVIOUS
<1>1. /\ mem \in Memory /\ copy \subseteq 1 .. MaxRecords /\ clock \in Minute /\ alerts \subseteq Notice
  <2>1. /\ Len(log) \in Nat /\ DOMAIN log = 1 .. Len(log) /\ copy \subseteq DOMAIN log
        /\ Len(log) <= MaxRecords
    BY DEF Typed, TypeOK, Bounds
  <2>2. clock \in 0 .. MaxTime /\ clock > 0 /\ MaxTime \in Nat /\ MaxRecords \in Nat
    BY MonitorAssumption DEF Verdicts, Failing, Typed, TypeOK, Bounds
  <2>3. mem \in Memory /\ alerts \subseteq Notice
    BY DEF Typed, TypeOK
  <2> QED
    BY <2>1, <2>2, <2>3 DEF Minute
<1>2. mem' = [mem EXCEPT !.notified = mem.notified \cup copy]
  BY <1>1 DEF Verdicts, Failing, Memory
<1>3. mem' \in Memory /\ mem'.since = mem.since /\ mem'.day = mem.day
  BY <1>1, <1>2 DEF Memory
<1>4. alerts' \subseteq Notice
  <2>1. \A i \in copy : [what |-> "FINDING", of |-> i, at |-> clock] \in Notice
    BY <1>1 DEF Notice
  <2> QED
    BY <1>1, <2>1 DEF Verdicts, Failing
<1>5. /\ UNCHANGED <<clock, trouble, log, health, copy, saved, page, certs, lost, passed>>
      /\ pc = "verdicts" /\ pc' = "certificate"
  BY DEF Verdicts, Failing, world
<1>6. TypeOK'
  BY <1>3, <1>4, <1>5 DEF Typed, TypeOK, Steps
<1>7. Bounds'
  BY <1>3, <1>5 DEF Typed, Bounds
<1> QED
  BY <1>6, <1>7 DEF Typed

(* What is written of a day: the step's own one, and the one before it.     *)
LEMMA CertificateSteps ==
  ASSUME Typed, Certificate
  PROVE  /\ mem' = [mem EXCEPT !.day = DayOf(clock)] /\ mem' \in Memory
         /\ DayOf(clock) \in 0 .. clock /\ DayOf(clock) # NoDay
         /\ \/ mem.day \in {NoDay, DayOf(clock)} /\ certs' = certs
            \/ /\ mem.day < DayOf(clock)
               /\ certs' = certs \cup {DayOf(clock) - 1} /\ DayOf(clock) - 1 \in 0 .. clock
<1>1. /\ clock \in 0 .. MaxTime /\ MaxTime \in Nat /\ mem \in Memory
      /\ mem.day = NoDay \/ mem.day <= DayOf(clock)
  BY MonitorAssumption DEF Typed, TypeOK, Bounds
<1>2. DayOf(clock) \in 0 .. clock /\ DayOf(clock) <= MaxTime
  BY <1>1, DayGrows
<1>3. DayOf(clock) # NoDay /\ DayOf(clock) \in 0 .. NoDay
  BY <1>1, <1>2 DEF NoDay
<1>4. mem' = [mem EXCEPT !.day = DayOf(clock)] /\ mem' \in Memory
  BY <1>1, <1>3 DEF Certificate, Certified, Memory
<1>5. mem.day \in Nat
  BY <1>1 DEF Memory
<1>6. CASE mem.day \in {NoDay, DayOf(clock)}
  BY <1>2, <1>3, <1>4, <1>6 DEF Certificate, Certified
<1>7. CASE mem.day \notin {NoDay, DayOf(clock)}
  <2>1. mem.day < DayOf(clock) /\ DayOf(clock) - 1 \in 0 .. clock
    BY <1>1, <1>2, <1>5, <1>7
  <2>2. certs' = certs \cup {DayOf(clock) - 1}
    BY <1>7 DEF Certificate, Certified
  <2> QED
    BY <1>2, <1>3, <1>4, <2>1, <2>2
<1> QED
  BY <1>6, <1>7

LEMMA NextTyped == Typed /\ [Next]_vars => Typed'
<1> SUFFICES ASSUME Typed, [Next]_vars PROVE Typed'
  OBVIOUS
<1>1. CASE Record
  BY <1>1, RecordTyped
<1>2. CASE Poll \/ Off
  BY <1>2, MinuteTyped
<1>3. CASE Notices
  BY <1>3, NoticesTyped
<1>4. CASE FetchPage
  BY <1>4, FetchTyped
<1>5. CASE PagesDone
  <2>1. /\ mem \in Memory /\ page.since \in 0 .. MaxTime + 1 /\ MaxTime \in Nat /\ MaxPages \in Nat
    BY MonitorAssumption DEF Typed, TypeOK
  <2>2. mem' \in Memory /\ mem'.since = page.since /\ mem'.day = mem.day
    BY <1>5, <2>1 DEF PagesDone, Memory
  <2>3. page' \in [since : 0 .. MaxTime + 1, left : 0 .. MaxPages]
    BY <1>5, <2>1 DEF PagesDone, NoPage
  <2>4. TypeOK'
    BY <1>5, <2>2, <2>3 DEF PagesDone, world, Typed, TypeOK, Steps
  <2>5. Bounds'
    BY <1>5, <2>1, <2>2 DEF PagesDone, world, Typed, Bounds
  <2> QED
    BY <2>4, <2>5 DEF Typed
<1>6. CASE PagesFail
  <2>1. page' \in [since : 0 .. MaxTime + 1, left : 0 .. MaxPages] /\ trouble' \in 0 .. MaxTrouble
    BY <1>6, MonitorAssumption DEF PagesFail, NoPage, Typed, TypeOK
  <2> QED
    BY <1>6, <2>1 DEF PagesFail, Typed, TypeOK, Bounds, Steps
<1>7. CASE Verdicts
  BY <1>7, VerdictsTyped
<1>8. CASE Certificate
  <2>1. /\ UNCHANGED <<clock, trouble, log, health, copy, saved, page, alerts, lost, passed>>
        /\ pc = "certificate" /\ pc' = "save"
    BY <1>8 DEF Certificate, Certified, world
  <2>2. mem \in Memory /\ clock \in 0 .. MaxTime /\ MaxTime \in Nat /\ certs \subseteq 0 .. MaxTime
    BY MonitorAssumption DEF Typed, TypeOK
  <2>3. mem' \in Memory /\ mem'.since = mem.since /\ mem'.day = DayOf(clock)
    BY <1>8, <2>2, CertificateSteps DEF Memory
  <2>4. certs' \subseteq 0 .. MaxTime
    BY <1>8, <2>2, CertificateSteps
  <2>5. DayOf(clock) \in Nat
    BY <2>2, DayGrows
  <2>6. TypeOK'
    BY <2>1, <2>3, <2>4 DEF Typed, TypeOK, Steps
  <2>7. Bounds'
    BY <2>1, <2>3, <2>5 DEF Typed, Bounds
  <2> QED
    BY <2>6, <2>7 DEF Typed
<1>9. CASE Save
  <2>1. DayOf(clock) \in 0 .. MaxTime
    <3>1. clock \in 0 .. MaxTime /\ MaxTime \in Nat
      BY MonitorAssumption DEF Typed, TypeOK
    <3>2. DayOf(clock) \in Nat /\ DayOf(clock) <= clock
      BY <3>1, DayGrows
    <3> QED
      BY <3>1, <3>2
  <2>2. passed' \subseteq 0 .. MaxTime
    BY <1>9, <2>1 DEF Save, Typed, TypeOK
  <2> QED
    BY <1>9, <2>2 DEF Save, world, Typed, TypeOK, Bounds
<1>10. CASE Raise
  <2>1. trouble' \in 0 .. MaxTrouble
    BY <1>10, MonitorAssumption DEF Raise, Typed, TypeOK
  <2>2. TypeOK'
    BY <1>10, <2>1 DEF Raise, Typed, TypeOK
  <2>3. Bounds'
    BY <1>10 DEF Raise, Typed, Bounds
  <2> QED
    BY <2>2, <2>3 DEF Typed
<1>11. CASE Die
  <2>1. trouble' \in 0 .. MaxTrouble /\ lost' \subseteq 0 .. MaxTime
    BY <1>11, MonitorAssumption DEF Die, Typed, TypeOK
  <2>2. page' \in [since : 0 .. MaxTime + 1, left : 0 .. MaxPages]
    BY <1>11, MonitorAssumption DEF Die, NoPage
  <2>3. pc' = "sleep" /\ mem' = saved /\ UNCHANGED <<clock, log, health, copy, saved, alerts, certs, passed>>
    BY <1>11 DEF Die
  <2>4. TypeOK'
    BY <2>1, <2>2, <2>3 DEF Typed, TypeOK
  <2>5. Bounds'
    BY <2>3 DEF Typed, Bounds
  <2> QED
    BY <2>4, <2>5 DEF Typed
<1>12. CASE UNCHANGED vars
  BY <1>12 DEF vars, Typed, TypeOK, Bounds
<1> QED
  BY <1>1, <1>2, <1>3, <1>4, <1>5, <1>6, <1>7, <1>8, <1>9, <1>10, <1>11, <1>12 DEF Next, Step

-----------------------------------------------------------------------------
(* Every cursor, the state file's and the one of the poll under way as well, *)
(* is past only what was copied or came late.                               *)
Kept(since) == \A i \in DOMAIN log : i \in copy \/ log[i].at >= since \/ log[i].late

EvidenceKept ==
  /\ Kept(saved.since) /\ Kept(mem.since) /\ saved.since <= mem.since
  /\ pc = "pages" => Kept(page.since) /\ mem.since <= page.since

(* What is marked as told was, and what is not marked was lost after it was *)
(* told.                                                                    *)
IsTold(i) == \E a \in alerts : a.of = i

ToldKept ==
  /\ pc \in {"certificate", "save"} => \A i \in copy : IsTold(i)
  /\ \A i \in saved.notified \cup mem.notified : IsTold(i)
  /\ \A a \in alerts : a.at <= clock
  /\ \A t \in lost : t <= clock
  /\ \A a \in alerts : a.of \in mem.notified \/ a.of = 0 \/ \E t \in lost : a.at <= t
  /\ \A a, b \in alerts : a.of = b.of /\ a.of # 0 /\ a.at < b.at => LostBetween(a.at, b.at)

(* The state file's day is the last one that passed; memory is ahead of it  *)
(* only when the certificate of the day in between is written.              *)
DaysKept ==
  /\ \A d \in passed : d <= DayOf(clock)
  /\ saved.day = NoDay => passed = {}
  /\ saved.day # NoDay => saved.day \in passed /\ \A d \in passed : d <= saved.day
  /\ pc # "save" => mem.day = saved.day
  /\ pc = "save" => /\ mem.day = DayOf(clock)
                    /\ saved.day \in {NoDay, DayOf(clock)} \/ DayOf(clock) - 1 \in certs
  /\ DayIsCertified

IInv == Typed /\ EvidenceKept /\ ToldKept /\ DaysKept

LEMMA InitIInv == Init => IInv
<1> SUFFICES ASSUME Init PROVE IInv
  OBVIOUS
<1>1. Typed
  BY InitTyped
<1>2. EvidenceKept
  BY DEF Init, EvidenceKept, Kept, Fresh
<1>3. ToldKept
  BY DEF Init, ToldKept, Fresh
<1>4. DaysKept
  BY DEF Init, DaysKept, DayIsCertified, Fresh
<1> QED
  BY <1>1, <1>2, <1>3, <1>4 DEF IInv

(* A line that is not late is not behind any cursor; a page that moves one  *)
(* on has been copied.                                                      *)
LEMMA NextEvidence == Typed /\ EvidenceKept /\ [Next]_vars => EvidenceKept'
<1> SUFFICES ASSUME Typed, EvidenceKept, [Next]_vars PROVE EvidenceKept'
  OBVIOUS
<1>0. /\ mem.since \in Nat /\ saved.since \in Nat /\ page.since \in Nat
      /\ mem \in Memory /\ saved \in Memory
      /\ page \in [since : 0 .. MaxTime + 1, left : 0 .. MaxPages]
  <2>1. /\ mem \in Memory /\ saved \in Memory
        /\ page \in [since : 0 .. MaxTime + 1, left : 0 .. MaxPages] /\ MaxTime \in Nat
    BY MonitorAssumption DEF Typed, TypeOK
  <2> QED
    BY <2>1 DEF Memory
<1>1. CASE Record
  <2>1. PICK at \in {clock, clock - 1} \cap Nat :
          log' = Append(log, [at |-> at, late |-> at < Max({mem.since, page.since})])
    BY <1>1 DEF Record
  <2> DEFINE last == [at |-> at, late |-> at < Max({mem.since, page.since})]
  <2>2. /\ UNCHANGED <<copy, mem, saved, pc, page>> /\ pc = "pages"
    BY <1>1 DEF Record
  <2>3. last.late \/ (at >= mem.since /\ at >= page.since)
    <3>1. \E x \in {mem.since, page.since} : \A y \in {mem.since, page.since} : x >= y
      BY <1>0
    <3>2. /\ Max({mem.since, page.since}) \in {mem.since, page.since}
          /\ \A y \in {mem.since, page.since} : Max({mem.since, page.since}) >= y
      BY <3>1 DEF Max
    <3>3. CASE at < Max({mem.since, page.since})
      BY <3>3
    <3>4. CASE ~(at < Max({mem.since, page.since}))
      BY <1>0, <2>1, <3>2, <3>4
    <3> QED
      BY <3>3, <3>4
  <2> DEFINE Line == [at : 0 .. MaxTime, late : BOOLEAN]
  <2>4. log \in Seq(Line)
    BY DEF Typed, TypeOK
  <2> HIDE DEF last, Line
  <2>5. \A i \in DOMAIN log' : (i \in DOMAIN log /\ log'[i] = log[i]) \/ log'[i] = last
    BY <2>1, <2>4 DEF last
  <2>6. last.at = at
    BY DEF last
  <2>7. ASSUME NEW since \in {saved.since, mem.since, page.since}, Kept(since)
        PROVE  \A i \in DOMAIN log' : i \in copy \/ log'[i].at >= since \/ log'[i].late
    <3>1. last.late \/ last.at >= since
      BY <1>0, <2>1, <2>2, <2>3, <2>6 DEF EvidenceKept
    <3> QED
      BY <2>5, <2>7, <3>1 DEF Kept
  <2>8. Kept(saved.since) /\ Kept(mem.since) /\ Kept(page.since)
    BY <2>2 DEF EvidenceKept
  <2>9. /\ \A i \in DOMAIN log' : i \in copy \/ log'[i].at >= saved.since \/ log'[i].late
        /\ \A i \in DOMAIN log' : i \in copy \/ log'[i].at >= mem.since \/ log'[i].late
        /\ \A i \in DOMAIN log' : i \in copy \/ log'[i].at >= page.since \/ log'[i].late
    BY <2>7, <2>8
  <2> QED
    BY <2>2, <2>9 DEF EvidenceKept, Kept
<1>2. CASE FetchPage
  <2>1. UNCHANGED <<log, mem, saved, pc>> /\ pc = "pages"
    BY <1>2 DEF FetchPage, world
  <2>2. CASE From(page.since) = {}
    BY <1>0, <1>2, <2>1, <2>2 DEF FetchPage, EvidenceKept, Kept
  <2>3. CASE From(page.since) # {}
    <3> DEFINE p == Page(From(page.since))
    <3>1. /\ p.next >= page.since /\ p.next \in Nat
          /\ \A i \in DOMAIN log : i \in p.lines \/ ~(log[i].at >= page.since) \/ log[i].at >= p.next
      <4>1. /\ p.next \in page.since .. MaxTime + 1
            /\ \A i \in DOMAIN log : i \in p.lines \/ ~(log[i].at >= page.since) \/ log[i].at >= p.next
        <5> HIDE DEF p
        <5> QED
          BY <1>0, <2>3, PageMoves DEF p
      <4> HIDE DEF p
      <4> QED
        BY <1>0, <4>1, MonitorAssumption
    <3>2. copy' = copy \cup p.lines /\ page'.since = p.next
      BY <1>2, <2>3 DEF FetchPage
    <3> HIDE DEF p
    <3>3. Kept(page.since) /\ Kept(mem.since) /\ Kept(saved.since)
      BY <2>1 DEF EvidenceKept
    <3>4. Kept(page.since)'
      BY <2>1, <3>1, <3>2, <3>3 DEF Kept
    <3>5. Kept(mem.since)' /\ Kept(saved.since)'
      BY <2>1, <3>2, <3>3 DEF Kept
    <3> QED
      BY <1>0, <2>1, <3>1, <3>2, <3>4, <3>5 DEF EvidenceKept
  <2> QED
    BY <2>2, <2>3
<1>3. CASE Notices
  <2>1. /\ UNCHANGED <<log, copy, saved>> /\ pc' = "pages"
        /\ mem'.since = mem.since /\ page'.since = mem.since
    BY <1>0, <1>3 DEF Notices, Due, world, Memory
  <2> QED
    BY <1>0, <2>1 DEF EvidenceKept, Kept
<1>4. CASE PagesDone
  <2>1. /\ UNCHANGED <<log, copy, saved>> /\ pc = "pages" /\ pc' = "verdicts"
        /\ mem'.since = page.since
    BY <1>0, <1>4 DEF PagesDone, world, Memory
  <2> QED
    BY <1>0, <2>1 DEF EvidenceKept, Kept
<1>5. CASE Verdicts \/ Certificate
  <2>1. /\ UNCHANGED <<log, copy, saved>> /\ pc' # "pages" /\ mem'.since = mem.since
    BY <1>0, <1>5 DEF Verdicts, Failing, Certificate, Certified, world, Memory
  <2> QED
    BY <2>1 DEF EvidenceKept, Kept
<1>6. CASE Save
  BY <1>0, <1>6 DEF Save, world, EvidenceKept, Kept
<1>7. CASE Die
  BY <1>0, <1>7 DEF Die, EvidenceKept, Kept
<1>8. CASE Poll \/ Off \/ PagesFail \/ Raise
  <2>1. UNCHANGED <<log, copy, saved, mem>> /\ pc' # "pages"
    BY <1>8 DEF Poll, Off, PagesFail, Raise
  <2> QED
    BY <2>1 DEF EvidenceKept, Kept
<1>9. CASE UNCHANGED vars
  BY <1>9 DEF vars, EvidenceKept, Kept
<1> QED
  BY <1>1, <1>2, <1>3, <1>4, <1>5, <1>6, <1>7, <1>8, <1>9 DEF Next, Step

(* Only a death between the notices and the save makes memory forget one,   *)
(* and that is noted.                                                       *)
LEMMA NextTold == Typed /\ ToldKept /\ [Next]_vars => ToldKept'
<1> SUFFICES ASSUME Typed, ToldKept, [Next]_vars PROVE ToldKept'
  OBVIOUS
<1>0. /\ clock \in Nat /\ mem \in Memory /\ lost \subseteq Nat
      /\ copy \subseteq Nat \ {0}
      /\ \A a \in alerts : a.at \in Nat
  <2>1. /\ MaxTime \in Nat /\ clock \in 0 .. MaxTime /\ mem \in Memory /\ lost \subseteq 0 .. MaxTime
        /\ copy \subseteq DOMAIN log /\ DOMAIN log = 1 .. Len(log) /\ Len(log) \in Nat
        /\ alerts \subseteq Notice
    BY MonitorAssumption DEF Typed, TypeOK
  <2>2. \A a \in Notice : a.at \in Nat
    BY <2>1 DEF Notice, Minute
  <2> QED
    BY <2>1, <2>2
<1>1. CASE Record \/ Poll \/ Off \/ FetchPage \/ PagesFail \/ Raise
  <2>1. /\ UNCHANGED <<alerts, lost, mem, saved>> /\ clock' >= clock
        /\ pc' \notin {"certificate", "save"}
        /\ clock' \in Nat
    <3>1. CASE Record
      BY <1>0, <3>1 DEF Record
    <3>2. CASE Poll
      BY <1>0, <3>2 DEF Poll
    <3>3. CASE FetchPage
      BY <1>0, <3>3 DEF FetchPage, world
    <3>4. CASE Off \/ PagesFail \/ Raise
      BY <1>0, <3>4 DEF Off, PagesFail, Raise
    <3> QED
      BY <1>1, <3>1, <3>2, <3>3, <3>4
  <2>2. (\A a \in alerts' : a.at <= clock') /\ (\A t \in lost' : t <= clock')
    <3>1. ASSUME NEW a \in alerts PROVE a.at <= clock'
      <4>1. a.at \in Nat /\ a.at <= clock
        BY <1>0 DEF ToldKept
      <4> QED
        BY <1>0, <2>1, <4>1
    <3>2. ASSUME NEW t \in lost PROVE t <= clock'
      <4>1. t \in Nat /\ t <= clock
        BY <1>0 DEF ToldKept
      <4> QED
        BY <1>0, <2>1, <4>1
    <3> QED
      BY <2>1, <3>1, <3>2
  <2> QED
    BY <2>1, <2>2 DEF ToldKept, IsTold, LostBetween
<1>2. CASE PagesDone
  <2>1. /\ UNCHANGED <<alerts, lost, saved, clock>> /\ mem'.notified = mem.notified
        /\ pc' \notin {"certificate", "save"}
    BY <1>0, <1>2 DEF PagesDone, world, Memory
  <2> QED
    BY <2>1 DEF ToldKept, IsTold, LostBetween
<1>3. CASE Notices
  <2>1. /\ UNCHANGED <<lost, saved, clock>> /\ mem'.notified = mem.notified
        /\ pc' = "pages" /\ alerts \subseteq alerts'
        /\ \A a \in alerts' : a \in alerts \/ (a.of = 0 /\ a.at = clock)
    BY <1>0, <1>3 DEF Notices, Due, world, Memory
  <2> QED
    BY <1>0, <2>1 DEF ToldKept, IsTold, LostBetween
<1>4. CASE Verdicts
  <2>1. /\ UNCHANGED <<lost, saved, clock, copy>> /\ mem'.notified = mem.notified \cup copy
        /\ alerts \subseteq alerts'
        /\ \A i \in copy \ mem.notified : \E a \in alerts' : a.of = i
        /\ \A a \in alerts' : a \in alerts \/ (a.of \in copy \ mem.notified /\ a.at = clock)
    <3>1. /\ UNCHANGED <<lost, saved, clock, copy>> /\ mem'.notified = mem.notified \cup copy
          /\ alerts' = alerts \cup {[what |-> "FINDING", of |-> i, at |-> clock] : i \in copy \ mem.notified}
      BY <1>0, <1>4 DEF Verdicts, Failing, world, Memory
    <3>2. \A i \in copy \ mem.notified : [what |-> "FINDING", of |-> i, at |-> clock] \in alerts'
      BY <3>1
    <3>3. \A i \in copy \ mem.notified : \E a \in alerts' : a.of = i
      BY <3>2
    <3>4. ASSUME NEW a \in alerts', a \notin alerts PROVE a.of \in copy \ mem.notified /\ a.at = clock
      <4>1. PICK i \in copy \ mem.notified : a = [what |-> "FINDING", of |-> i, at |-> clock]
        BY <3>1, <3>4
      <4> QED
        BY <4>1
    <3>5. alerts \subseteq alerts'
      BY <3>1
    <3> QED
      BY <3>1, <3>3, <3>4, <3>5
  <2>2. \A i \in copy \cup mem.notified \cup saved.notified : IsTold(i)'
    BY <2>1 DEF ToldKept, IsTold
  <2>3. ASSUME NEW a \in alerts', NEW b \in alerts', a.of = b.of, a.of # 0, a.at < b.at
        PROVE  LostBetween(a.at, b.at)
    <3>1. CASE a \in alerts /\ b \in alerts
      BY <2>3, <3>1 DEF ToldKept
    <3>2. CASE a \in alerts /\ b.of \in copy \ mem.notified /\ b.at = clock
      <4>1. PICK t \in lost : a.at <= t
        BY <2>3, <3>2 DEF ToldKept
      <4>2. t <= b.at
        BY <3>2, <4>1 DEF ToldKept
      <4> QED
        BY <4>1, <4>2 DEF LostBetween
    <3>3. CASE a.at = clock
      <4>1. b.at <= clock /\ b.at \in Nat
        BY <1>0, <2>1 DEF ToldKept
      <4> QED
        BY <1>0, <2>3, <3>3, <4>1
    <3> QED
      BY <2>1, <3>1, <3>2, <3>3
  <2>4. \A a, b \in alerts' : a.of = b.of /\ a.of # 0 /\ a.at < b.at => LostBetween(a.at, b.at)'
    BY <2>1, <2>3 DEF LostBetween
  <2>5. \A a \in alerts' : a.of \in mem'.notified \/ a.of = 0 \/ \E t \in lost : a.at <= t
    BY <2>1 DEF ToldKept
  <2>6. \A a \in alerts' : a.at <= clock
    BY <1>0, <2>1 DEF ToldKept
  <2> QED
    BY <2>1, <2>2, <2>4, <2>5, <2>6 DEF ToldKept
<1>5. CASE Certificate
  <2>1. /\ UNCHANGED <<alerts, lost, saved, clock, copy>> /\ mem'.notified = mem.notified
        /\ pc = "certificate"
    BY <1>0, <1>5 DEF Certificate, Certified, world, Memory
  <2> QED
    BY <2>1 DEF ToldKept, IsTold, LostBetween
<1>6. CASE Save
  <2>1. UNCHANGED <<alerts, lost, mem, clock, copy>> /\ saved' = mem /\ pc' = "sleep"
    BY <1>6 DEF Save, world
  <2> QED
    BY <2>1 DEF ToldKept, IsTold, LostBetween
<1>7. CASE Die
  <2>1. /\ UNCHANGED <<alerts, saved, clock, copy>> /\ mem' = saved /\ pc' = "sleep"
        /\ lost \subseteq lost' /\ (mem = saved \/ clock \in lost')
        /\ \A t \in lost' : t \in lost \/ t = clock
    BY <1>7 DEF Die
  <2>2. \A a \in alerts : a.of \in saved.notified \/ a.of = 0 \/ \E t \in lost' : a.at <= t
    <3>1. CASE mem = saved
      BY <2>1, <3>1 DEF ToldKept
    <3>2. CASE clock \in lost'
      BY <3>2 DEF ToldKept
    <3> QED
      BY <2>1, <3>1, <3>2
  <2>3. \A t \in lost' : t <= clock
    BY <1>0, <2>1 DEF ToldKept
  <2> QED
    BY <2>1, <2>2, <2>3 DEF ToldKept, IsTold, LostBetween
<1>8. CASE UNCHANGED vars
  BY <1>8 DEF vars, ToldKept, IsTold, LostBetween
<1> QED
  BY <1>1, <1>2, <1>3, <1>4, <1>5, <1>6, <1>7, <1>8 DEF Next, Step

(* A step that ends in a day after one that passed has just certified it,   *)
(* or an earlier step of its own day had.                                   *)
LEMMA NextDays == Typed /\ DaysKept /\ [Next]_vars => DaysKept'
<1> SUFFICES ASSUME Typed, DaysKept, [Next]_vars PROVE DaysKept'
  OBVIOUS
<1>0. /\ clock \in Nat /\ DayOf(clock) \in Nat
      /\ DayOf(clock) <= DayOf(clock + 1) /\ DayOf(clock + 1) \in Nat
      /\ DayOf(clock) # NoDay /\ passed \subseteq Nat /\ mem \in Memory
      /\ mem.day \in Nat /\ saved.day \in Nat
  <2>1. /\ MaxTime \in Nat /\ clock \in 0 .. MaxTime /\ passed \subseteq 0 .. MaxTime
        /\ mem \in Memory /\ saved \in Memory
    BY MonitorAssumption DEF Typed, TypeOK
  <2>2. clock \in Nat /\ clock + 1 \in Nat
    BY <2>1
  <2>3. /\ DayOf(clock) \in Nat /\ DayOf(clock) <= clock
        /\ DayOf(clock) <= DayOf(clock + 1) /\ DayOf(clock + 1) \in Nat
    BY <2>2, DayGrows
  <2>4. mem.day \in Nat /\ saved.day \in Nat
    BY <2>1 DEF Memory, NoDay
  <2> QED
    BY <2>1, <2>2, <2>3, <2>4 DEF NoDay
<1>1. CASE Poll \/ Off
  <2>1. /\ UNCHANGED <<mem, saved, certs, passed>> /\ clock' = clock + 1
        /\ pc = "sleep" /\ pc' # "save"
    BY <1>1 DEF Poll, Off
  <2>2. \A d \in passed : d <= DayOf(clock + 1)
    BY <1>0 DEF DaysKept
  <2> QED
    BY <2>1, <2>2 DEF DaysKept, DayIsCertified
<1>2. CASE Record \/ FetchPage \/ PagesFail \/ Raise
  <2>1. UNCHANGED <<clock, mem, saved, certs, passed>> /\ pc # "save" /\ pc' # "save"
    BY <1>2 DEF Record, FetchPage, PagesFail, Raise, world
  <2> QED
    BY <2>1 DEF DaysKept, DayIsCertified
<1>3. CASE Notices \/ PagesDone \/ Verdicts
  <2>1. /\ UNCHANGED <<clock, saved, certs, passed>> /\ mem'.day = mem.day
        /\ pc # "save" /\ pc' # "save"
    BY <1>0, <1>3 DEF Notices, Due, PagesDone, Verdicts, Failing, world, Memory
  <2> QED
    BY <2>1 DEF DaysKept, DayIsCertified
<1>4. CASE Certificate
  <2>1. /\ UNCHANGED <<clock, saved, passed>> /\ pc = "certificate" /\ pc' = "save"
        /\ mem.day = saved.day
    BY <1>4 DEF Certificate, Certified, world, DaysKept
  <2>2. /\ mem'.day = DayOf(clock)
        /\ mem.day \in {NoDay, DayOf(clock)} \/ DayOf(clock) - 1 \in certs'
        /\ certs \subseteq certs'
    BY <1>0, <1>4, CertificateSteps DEF Memory
  <2> QED
    BY <2>1, <2>2 DEF DaysKept, DayIsCertified
<1>5. CASE Save
  <2>1. /\ UNCHANGED <<clock, mem, certs>> /\ saved' = mem /\ pc = "save" /\ pc' = "sleep"
        /\ passed' = passed \cup {DayOf(clock)} /\ mem.day = DayOf(clock)
        /\ saved.day \in {NoDay, DayOf(clock)} \/ DayOf(clock) - 1 \in certs
    BY <1>5 DEF Save, world, DaysKept
  <2>2. ASSUME NEW d \in passed', d + 1 \in passed' PROVE d \in certs
    <3>1. CASE d \in passed /\ d + 1 \in passed
      BY <3>1 DEF DaysKept, DayIsCertified
    <3>2. CASE d = DayOf(clock)
      <4>1. d + 1 # DayOf(clock) /\ d + 1 \notin passed
        BY <1>0, <3>2 DEF DaysKept
      <4> QED
        BY <2>1, <2>2, <4>1
    <3>3. CASE d \in passed /\ d + 1 = DayOf(clock)
      <4>1. d = DayOf(clock) - 1 /\ saved.day # NoDay
        BY <1>0, <3>3 DEF DaysKept
      <4>2. CASE saved.day = DayOf(clock)
        BY <3>3, <4>1, <4>2 DEF DaysKept, DayIsCertified
      <4> QED
        BY <2>1, <4>1, <4>2
    <3> QED
      BY <2>1, <2>2, <3>1, <3>2, <3>3
  <2>3. \A d \in passed' : d <= DayOf(clock)
    BY <1>0, <2>1 DEF DaysKept
  <2> QED
    BY <1>0, <2>1, <2>2, <2>3 DEF DaysKept, DayIsCertified
<1>6. CASE Die
  <2>1. UNCHANGED <<clock, saved, certs, passed>> /\ mem' = saved /\ pc' = "sleep"
    BY <1>6 DEF Die
  <2> QED
    BY <2>1 DEF DaysKept, DayIsCertified
<1>7. CASE UNCHANGED vars
  BY <1>7 DEF vars, DaysKept, DayIsCertified
<1> QED
  BY <1>1, <1>2, <1>3, <1>4, <1>5, <1>6, <1>7 DEF Next, Step

LEMMA AlwaysIInv == Spec => []IInv
<1>1. Init => IInv
  BY InitIInv
<1>2. IInv /\ [Next]_vars => IInv'
  BY NextTyped, NextEvidence, NextTold, NextDays DEF IInv
<1> QED
  BY <1>1, <1>2, PTL DEF Spec

(* The monitor's memory, files and pages are well typed.                    *)
THEOREM MonitorTyped == Spec => []TypeOK
<1>1. IInv => TypeOK
  BY DEF IInv, Typed
<1> QED
  BY <1>1, AlwaysIInv, PTL

(* No line of the evidence is skipped, for any page size: pages that end    *)
(* between lines, fail, or die with the process.                            *)
THEOREM EvidenceIsRead == Spec => []NoEvidenceSkipped
<1>1. IInv => NoEvidenceSkipped
  BY DEF IInv, EvidenceKept, Kept, NoEvidenceSkipped
<1> QED
  BY <1>1, AlwaysIInv, PTL

(* A failing record is told, and told again only after memory was lost.     *)
THEOREM FailuresAreToldOnce == Spec => []FailuresToldOnce
<1>1. IInv => FailuresToldOnce
  <2> SUFFICES ASSUME IInv PROVE FailuresToldOnce
    OBVIOUS
  <2>1. \A i : IsTold(i) => {a \in alerts : a.of = i} # {}
    BY DEF IsTold
  <2>2. ASSUME NEW i \in DOMAIN log PROVE i # 0
    BY <2>2 DEF IInv, Typed, TypeOK
  <2> QED
    BY <2>1, <2>2 DEF IInv, ToldKept, FailuresToldOnce
<1> QED
  BY <1>1, AlwaysIInv, PTL

(* A day between two that passed has its certificate.                       *)
THEOREM DaysAreCertified == Spec => []DayIsCertified
<1>1. IInv => DayIsCertified
  BY DEF IInv, DaysKept
<1> QED
  BY <1>1, AlwaysIInv, PTL

-----------------------------------------------------------------------------
(* The live notices. They look at the last TailLength records only.         *)

(* The records are in the order of their minutes.                           *)
InOrder ==
  /\ \A i \in DOMAIN health : health[i].at <= clock
  /\ \A i, j \in DOMAIN health : i <= j => health[i].at <= health[j].at

(* The record at which the outage began, for the records of any monitor.    *)
LEMMA SinceIs ==
  ASSUME NEW h \in Seq(HealthRecord), NEW m \in DOMAIN h, h[m].seen \in Down,
         \A j \in DOMAIN h : h[j].seen = "covered" => j < m,
         \A i \in DOMAIN h : h[i].seen \in Down /\ i < m
                             => \E j \in DOMAIN h : h[j].seen = "covered" /\ i <= j
  PROVE  UncoveredSince(h) = h[m].at
<1> DEFINE covered == {i \in DOMAIN h : h[i].seen = "covered"}
           run == {i \in DOMAIN h : h[i].seen \in Down /\ \A j \in covered : j < i}
<1>1. DOMAIN h = 1 .. Len(h) /\ Len(h) \in Nat
  OBVIOUS
<1>2. UncoveredSince(h) = IF run = {} THEN 0 ELSE h[Min(run)].at
  BY DEF UncoveredSince
<1>3. m \in run /\ run \subseteq Nat
  BY <1>1
<1>4. \A i \in run : ~(i < m)
  BY <1>1
<1> HIDE DEF run
<1>5. Min(run) \in run /\ Min(run) <= m
  BY <1>3, MinOf
<1>6. Min(run) = m
  BY <1>3, <1>4, <1>5
<1> QED
  BY <1>2, <1>3, <1>6

(* The records of an outage that does not outlive the tail are all in it.   *)
LEMMA TailHasOutage ==
  ASSUME health \in Seq(HealthRecord), clock \in Nat, InOrder, ~OutlivesTail(clock)
  PROVE  UncoveredSince(Recent) = UncoveredSince(health)
<1> DEFINE n == Len(health)
           k == Max({1, n - TailLength + 1})
           covered == {i \in DOMAIN health : health[i].seen = "covered"}
           run == {i \in DOMAIN health : health[i].seen \in Down /\ \A j \in covered : j < i}
           m == Min(run)
<1>1. n \in Nat /\ DOMAIN health = 1 .. n /\ TailLength \in Nat /\ TailLength > 0
  BY MonitorAssumption
<1>2. k \in Nat /\ k >= 1 /\ k >= n - TailLength + 1 /\ (k = 1 \/ k = n - TailLength + 1)
  <2> DEFINE K == {1, n - TailLength + 1}
  <2>1. CASE n < TailLength
    <3>1. n - TailLength + 1 <= 1 /\ n - TailLength + 1 \in Int
      BY <1>1, <2>1
    <3>2. k = 1
      BY <3>1 DEF Max
    <3> QED
      BY <1>1, <3>1, <3>2
  <2>2. CASE n >= TailLength
    <3>1. n - TailLength + 1 \in Nat
      BY <1>1, <2>2
    <3>2. K \subseteq 0 .. (n + 1) /\ K # {} /\ n + 1 \in Nat
      BY <1>1, <3>1
    <3> HIDE DEF K
    <3>3. Max(K) \in K /\ \A x \in K : x <= Max(K)
      BY <3>2, MaxOf
    <3> QED
      BY <1>1, <3>1, <3>3 DEF K
  <2> QED
    BY <1>1, <2>1, <2>2
<1>3. Recent = SubSeq(health, k, n)
  BY DEF Recent, LastOf
<1> HIDE DEF k
<1>4. n = 0 => k = 1
  BY <1>1, <1>2
<1>5. k <= n + 1
  BY <1>1, <1>2
<1> DEFINE tail == SubSeq(health, k, n)
<1>6. /\ tail \in Seq(HealthRecord) /\ DOMAIN tail = 1 .. (n - k + 1)
      /\ \A i \in 1 .. (n - k + 1) : tail[i] = health[i + k - 1]
  BY <1>1, <1>2, <1>5
<1> HIDE DEF tail
<1>7. \A i \in k .. n : i - k + 1 \in DOMAIN tail /\ tail[i - k + 1] = health[i]
  BY <1>1, <1>2, <1>5, <1>6
<1>8. CASE run = {}
  <2>1. UncoveredSince(health) = 0
    BY <1>8 DEF UncoveredSince
  <2> DEFINE tailRun == {i \in DOMAIN tail : /\ tail[i].seen \in Down
                                             /\ \A j \in {c \in DOMAIN tail : tail[c].seen = "covered"} : j < i}
  <2>2. ASSUME NEW i \in tailRun PROVE FALSE
    <3>1. i \in 1 .. (n - k + 1) /\ tail[i].seen \in Down
      BY <1>6, <2>2
    <3>2. i + k - 1 \in 1 .. n /\ health[i + k - 1] = tail[i] /\ i \in Nat
      BY <1>1, <1>2, <1>6, <3>1
    <3>3. PICK j \in covered : ~(j < i + k - 1)
      BY <1>1, <1>8, <3>1, <3>2
    <3>4. j \in k .. n /\ health[j].seen = "covered"
      BY <1>1, <1>2, <3>2, <3>3
    <3>5. j - k + 1 \in DOMAIN tail /\ tail[j - k + 1].seen = "covered"
      BY <1>7, <3>4
    <3>6. j - k + 1 < i
      BY <2>2, <3>5
    <3> QED
      BY <1>1, <1>2, <3>2, <3>3, <3>4, <3>6
  <2>3. tailRun = {}
    BY <2>2
  <2>4. UncoveredSince(tail) = 0
    BY <2>3 DEF UncoveredSince
  <2> QED
    BY <1>3, <2>1, <2>4 DEF tail
<1>9. CASE run # {}
  <2>1. UncoveredSince(health) = health[m].at
    BY <1>9 DEF UncoveredSince
  <2>2. run \subseteq Nat /\ run \subseteq 1 .. n
    BY <1>1
  <2>3. m \in run /\ \A i \in run : m <= i
    <3> HIDE DEF run
    <3> QED
      BY <1>9, <2>2, MinOf
  <2>4. m \in 1 .. n /\ health[m].seen \in Down /\ \A j \in covered : j < m
    BY <1>1, <2>3
  <2> HIDE DEF m
  <2>5. ~CoveredBetween(health[m].at, clock)
    <3> SUFFICES ASSUME NEW j \in DOMAIN health, health[j].seen = "covered",
                        health[m].at < health[j].at
                 PROVE  FALSE
      BY DEF CoveredBetween
    <3>1. j < m
      BY <2>4
    <3>2. health[j].at <= health[m].at
      BY <1>1, <2>4, <3>1 DEF InOrder
    <3>3. health[j].at \in Nat /\ health[m].at \in Nat
      <4>1. health[j] \in HealthRecord /\ health[m] \in HealthRecord
        BY <1>1, <2>4, ElementOf
      <4> QED
        BY <4>1, MonitorAssumption DEF HealthRecord, Minute
    <3> QED
      BY <3>2, <3>3
  <2>6. m + TailLength \notin DOMAIN health
    BY <1>1, <2>4, <2>5 DEF OutlivesTail, InOrder
  <2>7. k <= m
    BY <1>1, <1>2, <2>4, <2>6
  <2> DEFINE t == m - k + 1
  <2>8. t \in DOMAIN tail /\ tail[t] = health[m] /\ t \in Nat
    BY <1>1, <1>2, <1>7, <2>4, <2>7
  <2>9. ASSUME NEW j \in DOMAIN tail, tail[j].seen = "covered" PROVE j < t
    <3>1. j \in 1 .. (n - k + 1)
      BY <1>6
    <3>2. j + k - 1 \in 1 .. n /\ health[j + k - 1].seen = "covered"
      BY <1>1, <1>2, <1>6, <2>9, <3>1
    <3>3. j + k - 1 < m
      BY <1>1, <2>4, <3>2
    <3> QED
      BY <1>1, <1>2, <2>4, <3>1, <3>3
  <2>10. ASSUME NEW i \in DOMAIN tail, tail[i].seen \in Down, i < t
         PROVE  \E j \in DOMAIN tail : tail[j].seen = "covered" /\ i <= j
    <3>1. i \in 1 .. (n - k + 1)
      BY <1>6
    <3>10. i + k - 1 \in 1 .. n /\ i \in Nat
      BY <1>1, <1>2, <3>1
    <3>11. health[i + k - 1].seen \in Down
      BY <1>6, <2>10, <3>1
    <3>12. i + k - 1 < m
      BY <1>1, <1>2, <2>4, <2>10, <3>10 DEF t
    <3>2. i + k - 1 \in 1 .. n /\ health[i + k - 1].seen \in Down /\ i + k - 1 < m
      BY <3>10, <3>11, <3>12
    <3> DEFINE x == i + k - 1
    <3>8. x \in Nat /\ m \in Nat /\ ~(m <= x)
      BY <1>1, <1>2, <2>4, <3>1, <3>2
    <3> HIDE DEF x, run
    <3>9. x \notin run
      BY <2>3, <3>8
    <3> USE DEF x, run
    <3>3. i + k - 1 \notin run
      BY <3>9
    <3>4. PICK j \in covered : ~(j < i + k - 1)
      BY <1>1, <3>2, <3>3
    <3>5. j \in k .. n /\ health[j].seen = "covered"
      BY <1>1, <1>2, <3>1, <3>2, <3>4
    <3>6. j - k + 1 \in DOMAIN tail /\ tail[j - k + 1].seen = "covered"
      BY <1>7, <3>5
    <3>7. i <= j - k + 1
      BY <1>1, <1>2, <3>1, <3>4, <3>5
    <3> QED
      BY <3>6, <3>7
  <2> HIDE DEF t
  <2>11. UncoveredSince(tail) = tail[t].at
    BY <1>6, <2>4, <2>8, <2>9, <2>10, SinceIs
  <2> QED
    BY <1>3, <2>1, <2>8, <2>11 DEF tail
<1> QED
  BY <1>8, <1>9

(* An outage of the tail began at one of the records.                       *)
LEMMA SinceOf ==
  ASSUME health \in Seq(HealthRecord)
  PROVE  UncoveredSince(Recent) = 0 \/ \E i \in DOMAIN health : UncoveredSince(Recent) = health[i].at
<1> DEFINE covered == {i \in DOMAIN Recent : Recent[i].seen = "covered"}
           down == {i \in DOMAIN Recent : Recent[i].seen \in Down /\ \A j \in covered : j < i}
<1>1. UncoveredSince(Recent) = IF down = {} THEN 0 ELSE Recent[Min(down)].at
  BY DEF UncoveredSince
<1>2. /\ DOMAIN Recent \subseteq Nat
      /\ \A i \in DOMAIN Recent : Recent[i] \in {health[j] : j \in DOMAIN health}
  BY RecentTyped
<1>3. down \subseteq Nat /\ down \subseteq DOMAIN Recent
  BY <1>2
<1> HIDE DEF down
<1>4. down # {} => Min(down) \in down
  BY <1>3, MinOf
<1> QED
  BY <1>1, <1>2, <1>3, <1>4

(* How a record more changes the beginning of the outage.                   *)
LEMMA SinceAfter ==
  ASSUME NEW records \in Seq(HealthRecord), NEW r \in HealthRecord
  PROVE  LET old == UncoveredSince(records)
             new == UncoveredSince(Append(records, r))
         IN /\ r.seen = "covered" => new = 0
            /\ r.seen # "covered" /\ old # 0 => new = old
            /\ r.seen # "covered" => new \in {old, r.at}
<1> DEFINE more == Append(records, r)
           n == Len(records)
           covered(h) == {i \in DOMAIN h : h[i].seen = "covered"}
           run(h) == {i \in DOMAIN h : h[i].seen \in Down /\ \A j \in covered(h) : j < i}
<1>1. /\ n \in Nat /\ DOMAIN records = 1 .. n /\ DOMAIN more = 1 .. n + 1
      /\ more[n + 1] = r /\ \A i \in 1 .. n : more[i] = records[i]
  OBVIOUS
<1>2. \A h : UncoveredSince(h) = IF run(h) = {} THEN 0 ELSE h[Min(run(h))].at
  BY DEF UncoveredSince
<1>3. \A i \in 1 .. n : records[i].at # 0
  <2> TAKE i \in 1 .. n
  <2>1. records[i] \in HealthRecord
    BY <1>1
  <2> QED
    BY <2>1, MonitorAssumption DEF HealthRecord, Minute
<1>4. run(records) \subseteq 1 .. n /\ run(more) \subseteq 1 .. n + 1
  BY <1>1
<1>5. CASE r.seen = "covered"
  <2>1. n + 1 \in covered(more) /\ \A i \in 1 .. n + 1 : ~(n + 1 < i)
    BY <1>1, <1>5
  <2>2. run(more) = {}
    BY <1>1, <1>4, <2>1
  <2> QED
    BY <1>2, <1>5, <2>2
<1>6. CASE r.seen # "covered"
  <2>1. covered(more) = covered(records)
    BY <1>1, <1>6
  <2>2. \A i \in 1 .. n : i \in run(more) <=> i \in run(records)
    BY <1>1, <2>1
  <2>3. CASE run(records) = {}
    <3>1. UncoveredSince(records) = 0
      BY <1>2, <2>3
    <3>2. run(more) = {} \/ run(more) = {n + 1}
      BY <1>1, <1>4, <2>2, <2>3
    <3>3. CASE run(more) = {}
      BY <1>2, <1>6, <3>1, <3>3
    <3>4. CASE run(more) = {n + 1}
      <4>1. Min(run(more)) = n + 1
        <5> HIDE DEF run
        <5> QED
          BY <1>1, <3>4, MinOf
      <4> QED
        BY <1>1, <1>2, <1>6, <3>1, <3>4, <4>1
    <3> QED
      BY <3>2, <3>3, <3>4
  <2>4. CASE run(records) # {}
    <3> HIDE DEF run
    <3>1. run(records) \subseteq Nat /\ run(more) \subseteq Nat /\ run(more) # {}
          /\ run(records) \subseteq run(more)
      BY <1>1, <1>4, <2>2, <2>4
    <3>2. Min(run(records)) \in run(records) /\ \A i \in run(records) : Min(run(records)) <= i
      BY <2>4, <3>1, MinOf
    <3>3. Min(run(more)) \in run(more) /\ \A i \in run(more) : Min(run(more)) <= i
      BY <3>1, MinOf
    <3> DEFINE a == Min(run(records))
               b == Min(run(more))
    <3>4. a \in 1 .. n /\ b \in 1 .. n + 1 /\ b <= a
      BY <1>4, <3>1, <3>2, <3>3
    <3> HIDE DEF a, b
    <3>5. b \in 1 .. n
      BY <1>1, <3>4
    <3>6. b \in run(records)
      BY <2>2, <3>3, <3>5 DEF b
    <3>7. a <= b
      BY <3>2, <3>6 DEF a
    <3>8. a = b
      BY <1>1, <3>4, <3>7
    <3>9. UncoveredSince(records) = records[a].at /\ UncoveredSince(more) = more[a].at
      BY <1>2, <2>4, <3>1, <3>8 DEF a, b
    <3>10. more[a] = records[a]
      BY <1>1, <3>4
    <3> QED
      BY <1>6, <3>9, <3>10
  <2> QED
    BY <2>3, <2>4
<1> QED
  BY <1>5, <1>6

(* What each notice of a threshold says of the run in memory.               *)
LevelOf(what) == IF what = "FAIL" THEN Fail ELSE Degraded
Threshold(a) == a.what \in {"DEGRADED", "FAIL"}

CoveredSince(from) == \E i \in DOMAIN health : health[i].seen = "covered" /\ from < health[i].at
LostSince(from) == \E t \in lost : from <= t

(* It was told of the outage that memory holds, or of one that is over or   *)
(* outlived the tail, or memory was lost since.                             *)
Accounted(a) ==
  \/ CoveredSince(a.at) \/ LostSince(a.at) \/ OutlivesTail(clock)
  \/ /\ mem.run.since = UncoveredSince(health) /\ mem.run.since > 0
     /\ mem.run.level >= LevelOf(a.what)

(* What a run counts as told was told, after the outage began.              *)
RunIsTold(run) ==
  run.since > 0 =>
    \A level \in {Degraded, Fail} :
      level <= run.level => \E a \in alerts : a.what = Name(level) /\ a.at >= run.since

NoticesKept ==
  /\ InOrder
  /\ \A a \in alerts : Threshold(a) => Accounted(a)
  /\ RunIsTold(mem.run) /\ RunIsTold(saved.run)
  /\ ToldOncePerOutage /\ LongOutageIsTold

LEMMA InitNotices == Init => NoticesKept
<1> SUFFICES ASSUME Init PROVE NoticesKept
  OBVIOUS
<1>1. /\ alerts = {} /\ health = <<>> /\ pc = "sleep" /\ mem = Fresh /\ saved = Fresh
      /\ Fresh.run.since = 0
  BY DEF Init, Fresh, NoRun
<1> QED
  BY <1>1 DEF NoticesKept, InOrder, RunIsTold, ToldOncePerOutage, LongOutageIsTold, Steps

(* The steps that tell nothing about a threshold, in which memory keeps its *)
(* run or takes back what the file has.                                     *)
LEMMA NoticesStay ==
  ASSUME Typed, ToldKept, NoticesKept, UNCHANGED <<health, clock>>,
         alerts \subseteq alerts', \A a \in alerts' : Threshold(a) => a \in alerts,
         lost \subseteq lost',
         mem'.run \in {mem.run, saved.run}, saved'.run \in {mem.run, saved.run},
         mem'.run = mem.run \/ clock \in lost',
         pc' \in Steps \ {"notices"} => pc \in Steps \ {"notices"}
  PROVE  NoticesKept'
<1>1. InOrder' /\ \A x : OutlivesTail(x)' <=> OutlivesTail(x)
  BY DEF NoticesKept, InOrder, OutlivesTail, CoveredBetween
<1>2. ASSUME NEW a \in alerts', Threshold(a) PROVE Accounted(a)'
  <2>1. a \in alerts /\ Accounted(a) /\ a.at <= clock
    BY <1>2 DEF NoticesKept, ToldKept
  <2>2. CASE CoveredSince(a.at)
    BY <2>2 DEF Accounted, CoveredSince
  <2>3. CASE LostSince(a.at)
    BY <2>3 DEF Accounted, LostSince
  <2>4. CASE clock \in lost'
    BY <2>1, <2>4 DEF Accounted, LostSince
  <2>5. CASE OutlivesTail(clock)
    BY <1>1, <2>5 DEF Accounted
  <2>6. CASE mem'.run = mem.run
    BY <2>1, <2>2, <2>3, <2>5, <2>6 DEF Accounted, LevelOf
  <2> QED
    BY <2>4, <2>6
<1>3. \A run : RunIsTold(run) => RunIsTold(run)'
  BY DEF RunIsTold, Name
<1>4. RunIsTold(mem.run)' /\ RunIsTold(saved.run)'
  BY <1>3 DEF NoticesKept, RunIsTold
<1>5. ToldOncePerOutage'
  <2>1. \A a, b : LostBetween(a, b) => LostBetween(a, b)'
    BY DEF LostBetween
  <2> QED
    BY <1>1, <2>1 DEF NoticesKept, ToldOncePerOutage, ToldAgain, Threshold, CoveredBetween
<1>6. LongOutageIsTold'
  BY <1>1 DEF NoticesKept, LongOutageIsTold, Name
<1> QED
  BY <1>1, <1>2, <1>4, <1>5, <1>6 DEF NoticesKept, Threshold

LEMMA PollNotices ==
  ASSUME Typed, ToldKept, NoticesKept, Poll
  PROVE  NoticesKept'
<1>0. /\ clock \in Nat /\ health \in Seq(HealthRecord) /\ alerts \subseteq Notice
      /\ lost \subseteq Nat /\ TailLength \in Nat
  BY MonitorAssumption DEF Typed, TypeOK
<1>1. PICK seen \in Seen :
        /\ health' = Append(health, [at |-> clock', seen |-> seen])
        /\ pc' = IF seen \in {"gateway", "blind"} THEN "sleep" ELSE "notices"
  BY DEF Poll
<1> DEFINE r == [at |-> clock', seen |-> seen]
<1>2. /\ clock' = clock + 1 /\ UNCHANGED <<mem, saved, alerts, lost>>
      /\ pc' \notin Steps \ {"notices"}
  BY <1>1 DEF Poll, Steps
<1>3. r \in HealthRecord
  <2>1. clock' \in Minute
    BY <1>0, <1>2, MonitorAssumption DEF Poll, Minute
  <2> QED
    BY <2>1 DEF HealthRecord
<1>4. r.at = clock + 1 /\ r.seen = seen
  BY <1>2
<1> HIDE DEF r
<1>5. health' = Append(health, r)
  BY <1>1 DEF r
<1>6. /\ Len(health) \in Nat /\ DOMAIN health = 1 .. Len(health)
      /\ DOMAIN health' = 1 .. Len(health) + 1
      /\ \A i \in DOMAIN health : health'[i] = health[i]
      /\ health'[Len(health) + 1] = r
  BY <1>0, <1>3, <1>5
<1>7. ASSUME NEW i \in DOMAIN health' PROVE health'[i].at <= clock'
  <2>1. CASE i = Len(health) + 1
    BY <1>0, <1>2, <1>4, <1>6, <2>1
  <2>2. CASE i \in DOMAIN health
    <3>1. health[i] \in HealthRecord /\ health[i].at <= clock
      BY <1>0, <2>2, ElementOf DEF NoticesKept, InOrder
    <3>2. health[i].at \in Nat
      BY <3>1, MonitorAssumption DEF HealthRecord, Minute
    <3> QED
      BY <1>0, <1>2, <1>6, <2>2, <3>1, <3>2
  <2> QED
    BY <1>6, <2>1, <2>2
<1>8. \A x : CoveredSince(x) => CoveredSince(x)'
  BY <1>6 DEF CoveredSince
<1>13. ASSUME NEW i \in DOMAIN health', NEW j \in DOMAIN health', i <= j
       PROVE  health'[i].at <= health'[j].at
  <2>1. CASE j = Len(health) + 1
    BY <1>2, <1>4, <1>6, <1>7, <2>1
  <2>2. CASE j \in DOMAIN health
    BY <1>6, <1>13, <2>2 DEF NoticesKept, InOrder
  <2> QED
    BY <1>6, <2>1, <2>2
<1>14. ASSUME NEW x \in Nat, x <= clock, OutlivesTail(x) PROVE OutlivesTail(x)'
  <2>1. PICK i \in DOMAIN health :
          /\ health[i].seen \in Down /\ ~CoveredBetween(health[i].at, x)
          /\ i + TailLength \in DOMAIN health /\ health[i + TailLength].at <= x
    BY <1>14 DEF OutlivesTail
  <2>2. ~(r.at <= x)
    BY <1>0, <1>4, <1>14
  <2>3. ~CoveredBetween(health[i].at, x)'
    BY <1>6, <2>1, <2>2 DEF CoveredBetween
  <2> QED
    BY <1>6, <2>1, <2>3 DEF OutlivesTail
<1>15. ASSUME OutlivesTail(clock), r.seen # "covered" PROVE OutlivesTail(clock)'
  <2>1. PICK i \in DOMAIN health :
          /\ health[i].seen \in Down /\ ~CoveredBetween(health[i].at, clock)
          /\ i + TailLength \in DOMAIN health
    BY <1>15 DEF OutlivesTail
  <2>2. ~CoveredBetween(health[i].at, clock)'
    BY <1>6, <1>15, <2>1 DEF CoveredBetween, NoticesKept, InOrder
  <2>3. health'[i + TailLength].at <= clock'
    BY <1>6, <1>7, <2>1
  <2> QED
    BY <1>6, <2>1, <2>2, <2>3 DEF OutlivesTail
<1>9. ASSUME NEW a \in alerts, Threshold(a) PROVE Accounted(a)'
  <2>1. Accounted(a) /\ a.at <= clock /\ a.at \in Nat
    BY <1>0, <1>9, MonitorAssumption DEF NoticesKept, ToldKept, Notice, Minute
  <2>2. CASE CoveredSince(a.at)
    BY <1>8, <2>2 DEF Accounted
  <2>3. CASE LostSince(a.at)
    BY <1>2, <2>3 DEF Accounted, LostSince
  <2>4. CASE r.seen = "covered"
    <3>1. a.at < r.at
      BY <1>0, <1>4, <2>1
    <3>2. Len(health) + 1 \in DOMAIN health'
      BY <1>6
    <3> QED
      BY <1>6, <2>4, <3>1, <3>2 DEF Accounted, CoveredSince
  <2>5. CASE /\ mem.run.since = UncoveredSince(health) /\ mem.run.since > 0
             /\ mem.run.level >= LevelOf(a.what) /\ r.seen # "covered"
    <3>1. UncoveredSince(health) # 0
      BY <2>5
    <3>2. UncoveredSince(health') = UncoveredSince(health)
      BY <1>0, <1>3, <1>5, <2>5, <3>1, SinceAfter
    <3> QED
      BY <1>2, <2>5, <3>2 DEF Accounted, LevelOf
  <2>6. CASE OutlivesTail(clock) /\ r.seen # "covered"
    BY <1>15, <2>6 DEF Accounted
  <2> QED
    BY <2>1, <2>2, <2>3, <2>4, <2>5, <2>6 DEF Accounted
<1>10. RunIsTold(mem.run)' /\ RunIsTold(saved.run)'
  BY <1>2 DEF NoticesKept, RunIsTold, Name
<1>11. ToldOncePerOutage'
  <2>1. \A x, y : CoveredBetween(x, y) => CoveredBetween(x, y)'
    BY <1>6 DEF CoveredBetween
  <2>2. \A b \in alerts : b.at \in Nat /\ b.at <= clock
    BY <1>0, MonitorAssumption DEF ToldKept, Notice, Minute
  <2>3. \A b \in alerts : OutlivesTail(b.at) => OutlivesTail(b.at)'
    BY <1>14, <2>2
  <2> QED
    BY <1>2, <2>1, <2>3 DEF NoticesKept, ToldOncePerOutage, ToldAgain, LostBetween
<1>12. LongOutageIsTold'
  BY <1>2 DEF LongOutageIsTold
<1> QED
  BY <1>2, <1>7, <1>9, <1>10, <1>11, <1>12, <1>13 DEF NoticesKept, InOrder, Threshold

(* A minute that passes unpolled.                                           *)
LEMMA OffNotices ==
  ASSUME Typed, ToldKept, NoticesKept, Off
  PROVE  NoticesKept'
<1>0. clock \in Nat /\ health \in Seq(HealthRecord) /\ alerts \subseteq Notice
  BY MonitorAssumption DEF Typed, TypeOK
<1>1. /\ clock' = clock + 1 /\ UNCHANGED <<health, mem, saved, alerts, lost>> /\ pc' = "sleep"
  BY DEF Off
<1>2. ASSUME NEW i \in DOMAIN health PROVE health[i].at <= clock'
  <2>1. health[i] \in HealthRecord /\ health[i].at <= clock
    BY <1>0, ElementOf DEF NoticesKept, InOrder
  <2>2. health[i].at \in Nat
    BY <2>1, MonitorAssumption DEF HealthRecord, Minute
  <2> QED
    BY <1>0, <1>1, <2>1, <2>2
<1>7. \A x : OutlivesTail(x) <=> OutlivesTail(x)'
  BY <1>1 DEF OutlivesTail, CoveredBetween
<1>8. OutlivesTail(clock) => OutlivesTail(clock')
  BY <1>2, <1>1 DEF OutlivesTail, CoveredBetween, NoticesKept, InOrder
<1>3. \A a \in alerts : Threshold(a) => Accounted(a)'
  BY <1>1, <1>7, <1>8 DEF NoticesKept, Accounted, CoveredSince, LostSince, LevelOf
<1>4. RunIsTold(mem.run)' /\ RunIsTold(saved.run)'
  BY <1>1 DEF NoticesKept, RunIsTold, Name
<1>5. ToldOncePerOutage'
  BY <1>1, <1>7 DEF NoticesKept, ToldOncePerOutage, ToldAgain, CoveredBetween, LostBetween
<1>6. LongOutageIsTold'
  BY <1>1 DEF LongOutageIsTold, Steps
<1> QED
  BY <1>1, <1>2, <1>3, <1>4, <1>5, <1>6 DEF NoticesKept, InOrder, Threshold

(* The step that looks for thresholds: it tells those of this outage that   *)
(* memory does not count as told.                                           *)
LEMMA NoticesNotices ==
  ASSUME Typed, ToldKept, NoticesKept, Notices
  PROVE  NoticesKept'
<1> DEFINE since == UncoveredSince(Recent)
           restored == IF Restored(since) THEN {"RESTORED"} ELSE {}
           told == IF since = 0 THEN {} ELSE Reached(since)
           known == KnownLevel(since)
           level == Max(told \cup {known})
           run == IF since = 0 THEN NoRun ELSE [since |-> since, level |-> level]
           new == {[what |-> w, of |-> 0, at |-> clock] :
                     w \in restored \cup {Name(l) : l \in told}}
<1>0. /\ health \in Seq(HealthRecord) /\ clock \in Nat /\ mem \in Memory
      /\ Degraded \in Nat /\ Fail \in Nat /\ 0 < Degraded /\ Degraded < Fail
      /\ alerts \subseteq Notice /\ lost \subseteq Nat
  BY MonitorAssumption DEF Typed, TypeOK
<1>1. /\ mem' = [mem EXCEPT !.run = run] /\ alerts' = alerts \cup new /\ pc' = "pages"
      /\ UNCHANGED <<clock, health, saved, lost>>
  BY DEF Notices, world
<1>20. ~OutlivesTail(clock) => since = UncoveredSince(health)
  BY <1>0, TailHasOutage DEF NoticesKept
<1>21. \A x : OutlivesTail(x)' <=> OutlivesTail(x)
  BY <1>1 DEF OutlivesTail, CoveredBetween
<1>2. mem'.run = run
  BY <1>0, <1>1 DEF Memory
<1>3. since \in Nat /\ since <= clock
  <2>1. since = 0 \/ since \in Minute
    BY <1>0, RecentTyped, SinceTyped
  <2>2. since = 0 \/ \E i \in DOMAIN health : since = health[i].at
    BY <1>0, RecentTyped, SinceOf
  <2> HIDE DEF since
  <2>3. since \in Nat
    BY <2>1, MonitorAssumption DEF Minute
  <2> QED
    BY <1>0, <2>2, <2>3 DEF NoticesKept, InOrder
<1> HIDE DEF since
<1>4. /\ known \in {0, Degraded, Fail}
      /\ known # 0 => mem.run.since = since /\ mem.run.level = known
      /\ mem.run.since = since => known = mem.run.level
  BY <1>0 DEF KnownLevel, Memory, OpenRun, NoRun
<1>5. /\ told \subseteq {Degraded, Fail}
      /\ \A l \in {Degraded, Fail} :
           l \in told <=> since # 0 /\ clock - since >= l /\ l > known
  BY DEF Reached
<1> HIDE DEF told, known
<1>6. /\ level \in {0, Degraded, Fail} /\ level \in told \cup {known}
      /\ \A l \in told : l <= level /\ known <= level
      /\ known <= level
  <2> DEFINE L == told \cup {known}
  <2>1. L # {} /\ L \subseteq {0, Degraded, Fail}
    BY <1>4, <1>5
  <2>2. {0, Degraded, Fail} \subseteq 0 .. (Degraded + Fail) /\ Degraded + Fail \in Nat
    BY <1>0
  <2> HIDE DEF L
  <2>3. Max(L) \in L /\ \A x \in L : x <= Max(L)
    BY <2>1, <2>2, MaxOf
  <2> QED
    BY <2>1, <2>3 DEF L
<1> HIDE DEF level
<1>7. since # 0 => run.since = since /\ run.level = level
  OBVIOUS
<1>8. since = 0 => run.since = 0
  BY DEF NoRun
<1> HIDE DEF run
<1>9. \A a \in new : a.at = clock /\ (Threshold(a) => \E l \in told : a.what = Name(l))
  BY DEF restored, Threshold
<1>10. \A l \in told : \E a \in alerts' : a.what = Name(l) /\ a.at = clock
  <2> TAKE l \in told
  <2>1. [what |-> Name(l), of |-> 0, at |-> clock] \in new
    OBVIOUS
  <2> QED
    BY <1>1, <2>1
<1> HIDE DEF new, restored
<1>11. \A l \in {Degraded, Fail} : LevelOf(Name(l)) = l /\ Name(l) \in {"DEGRADED", "FAIL"}
  BY <1>0 DEF LevelOf, Name
<1>12. ASSUME NEW a \in alerts', Threshold(a) PROVE Accounted(a)'
  <2>1. CASE a \in alerts
    <3>1. Accounted(a)
      BY <1>12, <2>1 DEF NoticesKept
    <3>2. CASE CoveredSince(a.at) \/ LostSince(a.at)
      BY <1>1, <3>2 DEF Accounted, CoveredSince, LostSince
    <3>4. CASE OutlivesTail(clock)
      BY <1>1, <1>21, <3>4 DEF Accounted
    <3>3. CASE /\ mem.run.since = since /\ mem.run.since > 0
               /\ mem.run.level >= LevelOf(a.what) /\ ~OutlivesTail(clock)
      <4>1. known = mem.run.level /\ since # 0
        BY <1>3, <1>4, <3>3
      <4>2. LevelOf(a.what) \in Nat /\ known \in Nat /\ level \in Nat
        BY <1>0, <1>4, <1>6 DEF LevelOf
      <4>3. known >= LevelOf(a.what)
        BY <3>3, <4>1
      <4>4. level >= LevelOf(a.what)
        BY <1>6, <4>2, <4>3
      <4>5. mem'.run.since = since /\ mem'.run.since > 0 /\ mem'.run.level = level
        BY <1>2, <1>3, <1>7, <4>1
      <4> QED
        BY <1>1, <1>20, <3>3, <4>4, <4>5 DEF Accounted, LevelOf
    <3> QED
      BY <1>20, <3>1, <3>2, <3>3, <3>4 DEF Accounted
  <2>2. CASE a \in new
    <3>1. PICK l \in told : a.what = Name(l)
      BY <1>9, <1>12, <2>2
    <3>2. LevelOf(a.what) = l /\ l <= level /\ since # 0
      BY <1>5, <1>6, <1>11, <3>1
    <3>3. mem'.run.since = since /\ mem'.run.since > 0 /\ mem'.run.level = level
      BY <1>2, <1>3, <1>7, <3>2
    <3>4. level >= LevelOf(a.what)
      BY <1>0, <1>5, <1>6, <3>2
    <3> QED
      BY <1>1, <1>20, <1>21, <3>3, <3>4 DEF Accounted, LevelOf
  <2> QED
    BY <1>1, <2>1, <2>2
<1>13. ASSUME since # 0, NEW l \in {Degraded, Fail}, l <= known
       PROVE  \E a \in alerts : a.what = Name(l) /\ a.at >= since
  <2>1. known # 0
    BY <1>0, <1>13
  <2>2. mem.run.since = since /\ mem.run.level = known /\ mem.run.since > 0
    BY <1>3, <1>4, <1>13, <2>1
  <2> QED
    BY <1>13, <2>2 DEF NoticesKept, RunIsTold
<1>14. ASSUME since # 0, NEW l \in {Degraded, Fail}, l \in told \/ l <= known
       PROVE  \E a \in alerts' : a.what = Name(l) /\ a.at >= since
  <2>1. CASE l \in told
    BY <1>0, <1>3, <1>10, <2>1
  <2>2. CASE l <= known
    BY <1>1, <1>13, <1>14, <2>2
  <2> QED
    BY <1>14, <2>1, <2>2
<1>15. RunIsTold(mem.run)'
  <2> SUFFICES ASSUME run.since > 0, NEW l \in {Degraded, Fail}, l <= run.level
               PROVE  \E a \in alerts' : a.what = Name(l) /\ a.at >= run.since
    BY <1>2 DEF RunIsTold, Name
  <2>1. since # 0 /\ run.since = since /\ run.level = level
    BY <1>7, <1>8
  <2>2. l \in told \/ l <= known
    <3>1. CASE level = known
      BY <2>1, <3>1
    <3>2. CASE level \in told
      <4>1. clock - since >= level /\ l <= level /\ known \in Nat /\ l \in Nat /\ level \in Nat
        BY <1>0, <1>4, <1>5, <2>1, <3>2
      <4>2. clock - since >= l
        BY <1>0, <1>3, <4>1
      <4>3. l > known \/ l <= known
        BY <4>1
      <4> QED
        BY <1>5, <2>1, <4>2, <4>3
    <3> QED
      BY <1>6, <3>1, <3>2
  <2> QED
    BY <1>14, <2>1, <2>2
<1>16. RunIsTold(saved.run)'
  BY <1>1 DEF NoticesKept, RunIsTold, Name
<1>17. LongOutageIsTold'
  <2> SUFFICES ASSUME NEW l \in {Degraded, Fail}, ~OutlivesTail(clock),
                      since > 0, clock - since >= l
               PROVE  \E a \in alerts' : a.what = Name(l) /\ a.at >= since
    BY <1>1, <1>20, <1>21 DEF LongOutageIsTold, Name
  <2>1. since # 0
    BY <1>3
  <2>2. l > known \/ l <= known
    BY <1>0, <1>4
  <2> QED
    BY <1>5, <1>14, <2>1, <2>2
<1>18. ToldOncePerOutage'
  <2> SUFFICES ASSUME NEW a \in alerts', NEW b \in alerts', a.what = b.what,
                      Threshold(a), a.at < b.at
               PROVE  CoveredBetween(a.at, b.at) \/ LostBetween(a.at, b.at) \/ OutlivesTail(b.at)
    BY <1>1, <1>21 DEF ToldOncePerOutage, ToldAgain, Threshold, CoveredBetween, LostBetween
  <2>0. \A c \in alerts : c.at \in Nat /\ c.at <= clock
    BY <1>0, MonitorAssumption DEF ToldKept, Notice, Minute
  <2>1. CASE a \in alerts /\ b \in alerts
    BY <2>1 DEF NoticesKept, ToldOncePerOutage, ToldAgain, Threshold
  <2>2. CASE a \in new
    BY <1>0, <1>1, <1>9, <2>0, <2>2
  <2>3. CASE a \in alerts /\ b \in new
    <3>1. b.at = clock
      BY <1>9, <2>3
    <3>2. Threshold(b)
      BY DEF Threshold
    <3>3. PICK l \in told : b.what = Name(l)
      BY <1>9, <2>3, <3>2
    <3>4. Accounted(a)
      BY <2>3 DEF NoticesKept
    <3>5. CASE CoveredSince(a.at)
      BY <3>1, <3>5 DEF CoveredSince, CoveredBetween, NoticesKept, InOrder
    <3>6. CASE LostSince(a.at)
      BY <3>1, <3>6 DEF LostSince, LostBetween, ToldKept
    <3>8. CASE OutlivesTail(clock)
      BY <3>1, <3>8
    <3>7. CASE /\ mem.run.since = since /\ mem.run.since > 0
               /\ mem.run.level >= LevelOf(a.what)
      <4>1. known = mem.run.level
        BY <1>4, <3>7
      <4>2. LevelOf(a.what) = l /\ l > known /\ l \in Nat /\ known \in Nat
        BY <1>0, <1>4, <1>5, <1>11, <3>3
      <4> QED
        BY <3>7, <4>1, <4>2
    <3> QED
      BY <1>20, <3>4, <3>5, <3>6, <3>7, <3>8 DEF Accounted
  <2> QED
    BY <1>1, <2>1, <2>2, <2>3
<1>19. InOrder'
  BY <1>1 DEF NoticesKept, InOrder
<1> QED
  BY <1>12, <1>15, <1>16, <1>17, <1>18, <1>19 DEF NoticesKept, Threshold

LEMMA NextNotices ==
  Typed /\ ToldKept /\ NoticesKept /\ [Next]_vars => NoticesKept'
<1> SUFFICES ASSUME Typed, ToldKept, NoticesKept, [Next]_vars
             PROVE  NoticesKept'
  OBVIOUS
<1>0. mem \in Memory /\ clock \in 0 .. MaxTime /\ MaxTime \in Nat
  BY MonitorAssumption DEF Typed, TypeOK
<1>1. CASE Poll
  BY <1>1, PollNotices
<1>2. CASE Off
  BY <1>2, OffNotices
<1>3. CASE Notices
  BY <1>3, NoticesNotices
<1>4. CASE Record \/ FetchPage \/ PagesFail \/ Raise
  <2>1. /\ UNCHANGED <<health, clock, alerts, lost, mem, saved>>
        /\ pc' \in Steps \ {"notices"} => pc \in Steps \ {"notices"}
    BY <1>4 DEF Record, FetchPage, PagesFail, Raise, world, Steps
  <2> QED
    BY <2>1, NoticesStay
<1>5. CASE PagesDone \/ Certificate
  <2>1. /\ UNCHANGED <<health, clock, alerts, lost, saved>> /\ mem'.run = mem.run
        /\ pc' \in Steps \ {"notices"} => pc \in Steps \ {"notices"}
    BY <1>0, <1>5 DEF PagesDone, Certificate, world, Steps, Memory
  <2> QED
    BY <2>1, NoticesStay
<1>6. CASE Verdicts
  <2>1. /\ UNCHANGED <<health, clock, lost, saved>> /\ mem'.run = mem.run
        /\ pc' \in Steps \ {"notices"} => pc \in Steps \ {"notices"}
        /\ alerts' = alerts \cup {[what |-> "FINDING", of |-> i, at |-> clock] :
                                    i \in Failing \ mem.notified}
    BY <1>0, <1>6 DEF Verdicts, world, Steps, Memory
  <2>2. \A a \in alerts' : Threshold(a) => a \in alerts
    BY <2>1 DEF Threshold
  <2> QED
    BY <2>1, <2>2, NoticesStay
<1>7. CASE Save
  <2>1. UNCHANGED <<health, clock, alerts, lost, mem>> /\ saved' = mem /\ pc' = "sleep"
    BY <1>7 DEF Save, world
  <2> QED
    BY <2>1, NoticesStay DEF Steps
<1>8. CASE Die
  <2>1. /\ UNCHANGED <<health, clock, alerts, saved>> /\ mem' = saved /\ pc' = "sleep"
        /\ lost \subseteq lost' /\ (mem = saved \/ clock \in lost')
    BY <1>8 DEF Die
  <2> QED
    BY <2>1, NoticesStay DEF Steps
<1>9. CASE UNCHANGED vars
  BY <1>9, NoticesStay DEF vars
<1> QED
  BY <1>1, <1>2, <1>3, <1>4, <1>5, <1>6, <1>7, <1>8, <1>9 DEF Next, Step

LEMMA AlwaysNotices == Spec => []NoticesKept
<1>1. IInv => Typed /\ ToldKept
  BY DEF IInv
<1> QED
  BY <1>1, AlwaysIInv, InitNotices, NextNotices, PTL DEF Spec

(* Each threshold of an outage is told once, unless memory was lost that    *)
(* was not saved or the outage outlives the tail of records that            *)
(* live_coverage_notices is given: for any thresholds and any tail, through *)
(* polls that fail, steps that raise and deaths.                            *)
THEOREM OutagesAreToldOnce == Spec => []ToldOncePerOutage
<1>1. NoticesKept => ToldOncePerOutage
  BY DEF NoticesKept
<1> QED
  BY <1>1, AlwaysNotices, PTL

(* An outage that a step sees past a threshold has been told at that level. *)
THEOREM LongOutagesAreTold == Spec => []LongOutageIsTold
<1>1. NoticesKept => LongOutageIsTold
  BY DEF NoticesKept
<1> QED
  BY <1>1, AlwaysNotices, PTL
=============================================================================
