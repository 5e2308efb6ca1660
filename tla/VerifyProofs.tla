---------------------------- MODULE VerifyProofs ----------------------------
(* What the certifier concludes (monitor/verify.py), for any thresholds and *)
(* any history: from the control's silence (ControlFleet), and from a day's *)
(* health records and deploys (Certificate). The two specifications share   *)
(* nothing; each theorem is about one of them.                              *)
EXTENDS ControlFleet, Certificate, TLAPS, SequenceTheorems, FiniteSetTheorems, WellFoundedInduction

(* The least of a set of naturals.                                          *)
LEMMA MinOf ==
  ASSUME NEW S, S \subseteq Nat, S # {}
  PROVE  Min(S) \in S /\ \A x \in S : Min(S) <= x
<1>1. PICK n \in S : \A x \in S : ~(<<x, n>> \in OpToRel(<, Nat))
  BY NatLessThanWellFounded, WFMin
<1>2. \A x \in S : n <= x
  <2> TAKE x \in S
  <2>1. ~(x < n)
    BY <1>1 DEF OpToRel
  <2> QED
    BY <2>1
<1> QED
  BY <1>2 DEF Min

(* The greatest of a bounded set.                                           *)
LEMMA MaxOf ==
  ASSUME NEW S, NEW b \in Nat, S \subseteq 0 .. b, S # {}
  PROVE  Max(S) \in S /\ \A x \in S : x <= Max(S)
<1> DEFINE T == {n \in Nat : b - n \in S}
<1>1. T # {}
  <2>1. PICK x \in S : x \in 0 .. b
    OBVIOUS
  <2>2. b - x \in Nat /\ b - (b - x) = x
    BY <2>1
  <2> QED
    BY <2>1, <2>2
<1>2. Min(T) \in T /\ \A n \in T : Min(T) <= n
  BY <1>1, MinOf
<1>3. b - Min(T) \in S /\ Min(T) \in Nat
  BY <1>2
<1>4. ASSUME NEW x \in S PROVE b - Min(T) >= x
  <2>1. b - x \in Nat /\ b - (b - x) = x
    OBVIOUS
  <2>2. b - x \in T
    BY <2>1
  <2> HIDE DEF T
  <2> QED
    BY <1>2, <1>3, <2>1, <2>2
<1>5. \E m \in S : \A x \in S : m >= x
  BY <1>3, <1>4
<1>6. Max(S) \in S /\ \A x \in S : Max(S) >= x
  BY <1>5 DEF Max
<1> QED
  BY <1>6

-----------------------------------------------------------------------------
(* The control: scripts/lab.py and what verify.py makes of its log.         *)

(* A canary for each loop that got so far, a loop more after each death,    *)
(* and the alerts: what the evidence file can hold.                         *)
Through == IF pc \in {"save", "sleep"} THEN 1 ELSE 0
Room == Cardinality(DOMAIN quakes) + clock + (MaxTrouble - trouble) + Through
FitsRoom == Len(file) <= Room /\ mem.seen <= Room /\ saved.seen <= Room

(* A wipe is a disturbance.                                                 *)
CountsOnce == wipes + trouble <= MaxTrouble

Notice == [what : Told, at : Time]
Log == [captured : SUBSET Quakes, told : Seq(Notice)]

Typed == TypeOK /\ log \in Log /\ FitsRoom /\ CountsOnce

-----------------------------------------------------------------------------
LEMMA Constants ==
  /\ Stale \in Nat /\ CanaryEvery \in Nat /\ CanaryEvery > 0 /\ RetiredAt \in Nat
  /\ MaxTime \in Nat /\ MaxTrouble \in Nat
  /\ IsFiniteSet(Quakes) /\ Cardinality(Quakes) \in Nat /\ Fixture \notin Quakes
  /\ NewDevice \in Device
<1>1. Cardinality(Quakes) \in Nat
  BY ControlFleetAssumption, FS_CardinalityType
<1>2. MaxTime \in Nat /\ MaxTrouble \in Nat
  BY ControlFleetAssumption
<1>3. NewDevice \in Device
  BY <1>2 DEF NewDevice, Device, Never
<1> QED
  BY <1>1, <1>2, <1>3, ControlFleetAssumption DEF Fixture

(* What the types say of the numbers and of a device.                       *)
LEMMA Numbers ==
  ASSUME TypeOK
  PROVE  /\ clock \in Nat /\ clock <= MaxTime /\ trouble \in Nat /\ trouble <= MaxTrouble
         /\ wipes \in Nat /\ Len(file) \in Nat
         /\ clock \in Time /\ clock # Never /\ Never \in Nat /\ Never = MaxTime + 1
         /\ Time \subseteq Nat /\ \A t \in Time : t <= MaxTime /\ t # Never
BY Constants DEF TypeOK, Time, Never

LEMMA DeviceFields ==
  ASSUME NEW d \in Device
  PROVE  /\ d.seen \in Nat /\ d.of \in 0 .. MaxTrouble /\ d.of \in Nat /\ d.alerted \in BOOLEAN
         /\ {d.online, d.last, d.fired, d.ok} \subseteq Time \cup {Never}
         /\ {d.online, d.last, d.fired, d.ok} \subseteq Nat
<1>1. /\ d.seen \in Nat /\ d.of \in 0 .. MaxTrouble /\ d.alerted \in BOOLEAN
      /\ d.online \in Time \cup {Never} /\ d.last \in Time \cup {Never}
      /\ d.fired \in Time \cup {Never} /\ d.ok \in Time \cup {Never}
  BY DEF Device
<1>2. \A t \in Time \cup {Never} : t \in Nat
  BY Constants DEF Time, Never
<1>3. d.of \in Nat
  BY <1>1, Constants
<1> QED
  BY <1>1, <1>2, <1>3

(* A notice more: those before it stay where they are.                      *)
LEMMA OneMore ==
  ASSUME TypeOK, NEW what \in Told
  PROVE  LET told == log.told
             more == Tell(told, what)
         IN /\ more \in Seq(Notice) /\ Len(told) \in Nat
            /\ DOMAIN told = 1 .. Len(told) /\ DOMAIN more = 1 .. Len(told) + 1
            /\ \A i \in DOMAIN told : more[i] = told[i]
            /\ more[Len(told) + 1] = [what |-> what, at |-> clock]
<1> DEFINE told == log.told
           notice == [what |-> what, at |-> clock]
<1>1. told \in Seq(Notice) /\ notice \in Notice
  BY DEF TypeOK, Notice
<1>2. /\ Append(told, notice) \in Seq(Notice) /\ Len(Append(told, notice)) = Len(told) + 1
      /\ \A i \in 1 .. Len(told) : Append(told, notice)[i] = told[i]
      /\ Append(told, notice)[Len(told) + 1] = notice
  BY <1>1, AppendProperties
<1>3. /\ DOMAIN told = 1 .. Len(told) /\ Len(told) \in Nat
      /\ DOMAIN Append(told, notice) = 1 .. Len(told) + 1
  BY <1>1, <1>2
<1> QED
  BY <1>2, <1>3 DEF Tell

LEMMA NoticeFields ==
  ASSUME TypeOK
  PROVE  /\ Len(log.told) \in Nat /\ DOMAIN log.told = 1 .. Len(log.told)
         /\ \A i \in DOMAIN log.told : log.told[i].at \in Nat /\ log.told[i].at \in Time
<1>1. log.told \in Seq([what : Told, at : Time])
  BY DEF TypeOK
<1> DEFINE told == log.told
<1>2. Len(told) \in Nat /\ DOMAIN told = 1 .. Len(told)
  BY <1>1
<1>3. \A i \in 1 .. Len(told) : told[i] \in [what : Told, at : Time]
  BY <1>1, ElementOfSeq
<1>4. \A i \in 1 .. Len(told) : told[i].at \in Time
  BY <1>3
<1> QED
  BY <1>2, <1>4, Numbers

(* A line more in the evidence file.                                        *)
LEMMA OneLine ==
  ASSUME TypeOK, NEW line \in Quakes \cup {Fixture}
  PROVE  /\ Append(file, line) \in Seq(Quakes \cup {Fixture})
         /\ Len(Append(file, line)) = Len(file) + 1
         /\ DOMAIN Append(file, line) = 1 .. Len(file) + 1 /\ DOMAIN file = 1 .. Len(file)
         /\ \A i \in 1 .. Len(file) : Append(file, line)[i] = file[i]
         /\ Append(file, line)[Len(file) + 1] = line
<1>1. file \in Seq(Quakes \cup {Fixture})
  BY DEF TypeOK
<1>2. /\ Append(file, line) \in Seq(Quakes \cup {Fixture})
      /\ Len(Append(file, line)) = Len(file) + 1
      /\ \A i \in 1 .. Len(file) : Append(file, line)[i] = file[i]
      /\ Append(file, line)[Len(file) + 1] = line
  BY <1>1, AppendProperties
<1> QED
  BY <1>1, <1>2

-----------------------------------------------------------------------------
(* Room is enough for what a run may be bounded by.                         *)
LEMMA RoomFits ==
  ASSUME DOMAIN quakes \subseteq Quakes, clock \in Time, trouble \in 0 .. MaxTrouble
  PROVE  /\ Cardinality(DOMAIN quakes) \in Nat /\ Room \in Nat /\ Room <= MaxEntries
         /\ Through \in {0, 1}
<1>1. /\ IsFiniteSet(DOMAIN quakes) /\ Cardinality(DOMAIN quakes) <= Cardinality(Quakes)
  BY Constants, FS_Subset
<1>2. Cardinality(DOMAIN quakes) \in Nat
  BY <1>1, FS_CardinalityType
<1>3. Through \in {0, 1}
  BY DEF Through
<1> QED
  BY <1>1, <1>2, <1>3, Constants DEF Room, MaxEntries, Time

LEMMA InitTyped == Init => Typed
<1> SUFFICES ASSUME Init PROVE Typed
  OBVIOUS
<1>1. /\ clock = 0 /\ file = <<>> /\ quakes = <<>> /\ mem = NewDevice /\ saved = NewDevice
      /\ pc = "poll" /\ log = [captured |-> {}, told |-> <<>>] /\ trouble = MaxTrouble
      /\ wipes = 0 /\ deaf = HeardAll /\ spoiled = 0 /\ NewDevice.seen = 0 /\ DOMAIN quakes = {}
  BY DEF Init, NewDevice
<1>2. clock \in Time /\ trouble \in 0 .. MaxTrouble
  BY <1>1, Constants DEF Time
<1>3. Room \in Nat /\ Room <= MaxEntries
  BY <1>1, <1>2, RoomFits
<1>4. MaxEntries \in Nat
  BY Constants DEF MaxEntries
<1>5. <<>> \in Seq(Quakes \cup {Fixture}) /\ <<>> \in Seq(Notice) /\ Len(<<>>) = 0
  OBVIOUS
<1>6. TypeOK
  <2>0. 0 \in 0 .. MaxTrouble /\ 0 \in 0 .. MaxTime + 1 /\ {} \subseteq Time
    BY Constants
  <2>1. up \in BOOLEAN /\ listens = TRUE /\ outgrown = FALSE /\ away = {}
    BY DEF Init
  <2>2. mem.seen <= MaxEntries /\ saved.seen <= MaxEntries
    BY <1>1, <1>4
  <2>3. log.captured \subseteq Quakes /\ log.told \in Seq([what : Told, at : Time])
    BY <1>1, <1>5 DEF Notice
  <2>4. DOMAIN quakes \subseteq Quakes /\ \A q \in DOMAIN quakes : quakes[q] \in Quake
    BY <1>1
  <2>5. deaf \in [mem : Time \cup {Never}, saved : Time \cup {Never}] /\ spoiled \in Time
    BY <1>1, Constants DEF HeardAll, Time
  <2> QED
    BY <1>1, <1>2, <1>5, <2>0, <2>1, <2>2, <2>3, <2>4, <2>5, Constants DEF TypeOK
<1>7. FitsRoom
  BY <1>1, <1>3, <1>5 DEF FitsRoom
<1>8. log \in Log
  BY <1>1, <1>5 DEF Log
<1>9. CountsOnce
  BY <1>1, Constants DEF CountsOnce
<1> QED
  BY <1>6, <1>7, <1>8, <1>9 DEF Typed

(* The world between two loops.                                             *)
LEMMA WorldTyped ==
  ASSUME Typed, \/ \E q \in Quakes : QuakeHappens(q)
                \/ ControlTurns \/ ListenerTurns \/ Wipe
  PROVE  Typed'
<1>0. /\ TypeOK /\ log \in Log /\ FitsRoom /\ CountsOnce
      /\ Cardinality(DOMAIN quakes) \in Nat /\ Room \in Nat
      /\ clock \in Nat /\ trouble \in Nat /\ MaxTrouble \in Nat /\ trouble <= MaxTrouble
      /\ Room = Cardinality(DOMAIN quakes) + clock + (MaxTrouble - trouble) + Through
  <2>1. TypeOK /\ log \in Log /\ FitsRoom /\ CountsOnce
    BY DEF Typed
  <2>2. Cardinality(DOMAIN quakes) \in Nat /\ Room \in Nat
    BY <2>1, RoomFits DEF TypeOK
  <2> QED
    BY <2>1, <2>2, Numbers, Constants DEF Room
<1>1. ASSUME NEW q \in Quakes, QuakeHappens(q) PROVE Typed'
  <2>1. PICK alert \in BOOLEAN, miss \in Misses :
          /\ quakes' = [p \in DOMAIN quakes \cup {q} |->
                          IF p = q THEN [at |-> clock, miss |-> miss, heard |-> IF up THEN clock ELSE mem.last]
                          ELSE quakes[p]]
          /\ file' = IF alert /\ up /\ listens THEN Append(file, q) ELSE file
    BY <1>1 DEF QuakeHappens
  <2>2. /\ UNCHANGED <<clock, up, listens, mem, saved, pc, log, trouble, away, wipes, outgrown, deaf, spoiled>>
        /\ q \notin DOMAIN quakes
    BY <1>1 DEF QuakeHappens
  <2>3. DOMAIN quakes' = DOMAIN quakes \cup {q}
    BY <2>1
  <2>4. /\ DOMAIN quakes' \subseteq Quakes /\ IsFiniteSet(DOMAIN quakes)
        /\ Cardinality(DOMAIN quakes') = Cardinality(DOMAIN quakes) + 1
    <3>1. IsFiniteSet(DOMAIN quakes)
      BY <1>0, Constants, FS_Subset DEF TypeOK
    <3> QED
      BY <1>0, <2>2, <2>3, <3>1, FS_AddElement DEF TypeOK
  <2>5. /\ file' \in Seq(Quakes \cup {Fixture}) /\ Len(file') <= Len(file) + 1
        /\ Len(file') \in Nat /\ Len(file) \in Nat
    <3>1. file \in Seq(Quakes \cup {Fixture}) /\ Len(file) \in Nat
      BY <1>0 DEF TypeOK
    <3>2. file' = Append(file, q) \/ file' = file
      BY <2>1
    <3>3. file' \in Seq(Quakes \cup {Fixture}) /\ (Len(file') = Len(file) + 1 \/ Len(file') = Len(file))
      BY <1>0, <3>1, <3>2, OneLine
    <3> QED
      BY <3>1, <3>3
  <2>6. \A p \in DOMAIN quakes' : quakes'[p] \in Quake
    <3>1. mem.last \in Time \cup {Never} /\ clock \in Time
      BY <1>0, DeviceFields DEF TypeOK
    <3>2. quakes'[q] \in Quake
      BY <2>1, <3>1 DEF Quake
    <3>3. ASSUME NEW p \in DOMAIN quakes' PROVE p = q \/ (p \in DOMAIN quakes /\ (p # q => quakes'[p] = quakes[p]))
      BY <2>1, <2>3
    <3> QED
      BY <1>0, <3>2, <3>3 DEF TypeOK
  <2>7. TypeOK'
    BY <1>0, <2>2, <2>4, <2>5, <2>6 DEF TypeOK
  <2>8. Room' = Room + 1
    BY <1>0, <2>2, <2>4 DEF Room, Through
  <2>9. mem.seen \in Nat /\ saved.seen \in Nat
    BY <1>0, DeviceFields DEF TypeOK
  <2>10. FitsRoom'
    BY <1>0, <2>2, <2>5, <2>8, <2>9 DEF FitsRoom
  <2> QED
    BY <1>0, <2>2, <2>7, <2>10 DEF Typed, CountsOnce
<1>2. CASE ControlTurns \/ ListenerTurns \/ Wipe
  <2>1. /\ trouble > 0 /\ trouble' = trouble - 1
        /\ UNCHANGED <<clock, quakes, mem, saved, pc, log, away, outgrown>>
        /\ up' \in BOOLEAN /\ listens' \in BOOLEAN
        /\ UNCHANGED <<deaf, spoiled>> \/ (deaf' = HeardAll /\ spoiled' = 0)
        /\ \/ UNCHANGED <<file, wipes>>
           \/ file' = <<>> /\ wipes' = wipes + 1
    BY <1>0, <1>2 DEF ControlTurns, ListenerTurns, Wipe, Disturb, TypeOK
  <2>2. trouble' \in 0 .. MaxTrouble /\ wipes' \in 0 .. MaxTrouble /\ CountsOnce'
    <3>1. wipes \in Nat /\ wipes + trouble <= MaxTrouble
      BY <1>0, Numbers DEF CountsOnce
    <3>2. wipes' \in Nat /\ trouble' \in Nat /\ wipes' + trouble' <= MaxTrouble
      BY <1>0, <2>1, <3>1
    <3>3. trouble' \in 0 .. MaxTrouble /\ wipes' \in 0 .. MaxTrouble
      <4>1. \A m, a, b \in Nat : a + b <= m => a \in 0 .. m /\ b \in 0 .. m
        OBVIOUS
      <4>2. MaxTrouble \in Nat
        BY <1>0
      <4> QED
        BY <3>2, <4>1, <4>2
    <3>4. CountsOnce'
      BY <3>2 DEF CountsOnce
    <3> QED
      BY <3>3, <3>4
  <2>3. /\ file' \in Seq(Quakes \cup {Fixture}) /\ Len(file') <= Len(file)
        /\ Len(file') \in Nat /\ Len(file) \in Nat
    <3>1. file \in Seq(Quakes \cup {Fixture}) /\ Len(file) \in Nat
      BY <1>0 DEF TypeOK
    <3>2. <<>> \in Seq(Quakes \cup {Fixture}) /\ Len(<<>>) = 0
      OBVIOUS
    <3>3. CASE file' = file
      BY <3>1, <3>3
    <3>4. CASE file' = <<>>
      <4>1. Len(file') = 0 /\ Len(file) >= 0
        BY <3>1, <3>2, <3>4
      <4> QED
        BY <3>1, <3>2, <3>4, <4>1
    <3> QED
      BY <2>1, <3>3, <3>4
  <2>4. Room' = Room + 1
    BY <1>0, <2>1 DEF Room, Through
  <2>5. mem.seen \in Nat /\ saved.seen \in Nat
    BY <1>0, DeviceFields DEF TypeOK
  <2>6. FitsRoom'
    BY <1>0, <2>1, <2>3, <2>4, <2>5 DEF FitsRoom
  <2>7. (deaf \in [mem : Time \cup {Never}, saved : Time \cup {Never}])' /\ (spoiled \in Time)'
    <3>1. HeardAll \in [mem : Time \cup {Never}, saved : Time \cup {Never}] /\ 0 \in Time
      BY Constants DEF HeardAll, Time
    <3>2. deaf' \in [mem : Time \cup {Never}, saved : Time \cup {Never}] /\ spoiled' \in Time
      BY <1>0, <2>1, <3>1 DEF TypeOK
    <3>3. Time' = Time /\ Never' = Never
      BY DEF Time, Never
    <3> QED
      BY <3>2, <3>3
  <2>8. TypeOK'
    BY <1>0, <2>1, <2>2, <2>3, <2>7 DEF TypeOK
  <2> QED
    BY <1>0, <2>1, <2>2, <2>6, <2>8 DEF Typed
<1> QED
  BY <1>1, <1>2

(* Time passes, the lab dies and starts.                                    *)
LEMMA LifeTyped ==
  ASSUME Typed, Tick \/ Die \/ Start
  PROVE  Typed'
<1>0. /\ TypeOK /\ log \in Log /\ FitsRoom /\ CountsOnce
      /\ Cardinality(DOMAIN quakes) \in Nat /\ Room \in Nat
      /\ clock \in Nat /\ trouble \in Nat /\ MaxTrouble \in Nat /\ trouble <= MaxTrouble
      /\ Room = Cardinality(DOMAIN quakes) + clock + (MaxTrouble - trouble) + Through
  <2>1. TypeOK /\ log \in Log /\ FitsRoom /\ CountsOnce
    BY DEF Typed
  <2>2. Cardinality(DOMAIN quakes) \in Nat /\ Room \in Nat
    BY <2>1, RoomFits DEF TypeOK
  <2> QED
    BY <2>1, <2>2, Numbers, Constants DEF Room
<1>1. /\ mem.seen \in Nat /\ saved.seen \in Nat /\ Len(file) \in Nat
      /\ UNCHANGED <<file, quakes, saved, log, wipes, up, listens, outgrown>>
  BY <1>0, Numbers, DeviceFields DEF TypeOK, Tick, Die, Start
<1>2. CASE Tick
  <2>1. /\ clock' = clock + 1 /\ clock < MaxTime /\ pc \in {"sleep", "off"}
        /\ pc' = IF pc = "off" THEN "off" ELSE "poll"
        /\ UNCHANGED <<mem, trouble, deaf, spoiled>>
        /\ away' \subseteq away \cup {clock, clock'}
    BY <1>2 DEF Tick, Idle
  <2>2. clock' \in Time /\ away' \subseteq Time /\ CountsOnce'
    BY <1>0, <1>1, <2>1, Numbers, Constants DEF CountsOnce, TypeOK, Time
  <2>3. TypeOK'
    BY <1>0, <1>1, <2>1, <2>2 DEF TypeOK
  <2>4. Room' \in Nat /\ Room' >= Room
    BY <1>0, <1>1, <2>1 DEF Room, Through
  <2>5. FitsRoom'
    BY <1>0, <1>1, <2>1, <2>4 DEF FitsRoom
  <2> QED
    BY <1>0, <1>1, <2>2, <2>3, <2>5 DEF Typed
<1>3. CASE Die
  <2>1. /\ trouble > 0 /\ trouble' = trouble - 1 /\ pc' = "off" /\ mem' = saved
        /\ away' = away \cup {clock} /\ deaf' = [deaf EXCEPT !.mem = deaf.saved]
        /\ UNCHANGED <<clock, spoiled>>
    BY <1>3 DEF Die
  <2>2. trouble' \in 0 .. MaxTrouble /\ away' \subseteq Time /\ CountsOnce'
    <3>1. wipes \in Nat /\ wipes + trouble <= MaxTrouble /\ clock \in Time /\ away \subseteq Time
      BY <1>0, Numbers DEF CountsOnce, TypeOK
    <3>2. trouble' \in 0 .. MaxTrouble /\ wipes + trouble' <= MaxTrouble
      BY <1>0, <2>1, <3>1
    <3> QED
      BY <1>1, <2>1, <3>1, <3>2 DEF CountsOnce
  <2>3. TypeOK'
    <3>1. deaf' \in [mem : Time \cup {Never}, saved : Time \cup {Never}]
      BY <1>0, <2>1 DEF TypeOK
    <3> QED
      BY <1>0, <1>1, <2>1, <2>2, <3>1 DEF TypeOK
  <2>4. Room' \in Nat /\ Room' >= Room
    BY <1>0, <1>1, <2>1 DEF Room, Through
  <2>5. FitsRoom'
    BY <1>0, <1>1, <2>1, <2>4 DEF FitsRoom
  <2> QED
    BY <1>0, <1>1, <2>2, <2>3, <2>5 DEF Typed
<1>4. CASE Start
  <2>1. /\ pc = "off" /\ pc' = "poll" /\ UNCHANGED <<clock, mem, trouble, away, deaf, spoiled>>
    BY <1>4 DEF Start
  <2>2. TypeOK' /\ Room' = Room
    BY <1>0, <1>1, <2>1 DEF TypeOK, Room, Through
  <2>3. FitsRoom' /\ CountsOnce' /\ log' \in Log
    BY <1>0, <1>1, <2>1, <2>2 DEF FitsRoom, CountsOnce
  <2> QED
    BY <2>2, <2>3 DEF Typed
<1> QED
  BY <1>2, <1>3, <1>4

(* What a poll makes of the device, the log and the file that it read.      *)
LEMMA PollSteps ==
  ASSUME Typed, PollOffline \/ PollOnline \/ PollUnread
  PROVE  /\ pc = "poll" /\ pc' = "canary" /\ mem' \in Device /\ log' \in Log
         /\ mem'.fired = mem.fired /\ mem'.online \in {mem.online, clock} /\ mem'.online # Never
         /\ mem'.last \in {mem.last, clock} /\ mem'.ok \in {mem.ok, clock}
         /\ mem'.seen \in {mem.seen, Len(file)} /\ trouble' \in {trouble, trouble - 1}
         /\ trouble' \in 0 .. MaxTrouble
         /\ deaf' \in {deaf, [deaf EXCEPT !.mem = clock]}
         /\ mem'.online = IF mem.online = Never THEN clock ELSE mem.online
         /\ log.captured \subseteq log'.captured
         /\ \/ log'.told = log.told
            \/ \E what \in {"caido", "recuperado"} : log'.told = Tell(log.told, what)
         /\ UNCHANGED <<clock, up, listens, file, quakes, saved, away, wipes, spoiled>>
<1>0. /\ TypeOK /\ log \in Log /\ mem \in Device /\ clock \in Time /\ clock # Never
      /\ log = [captured |-> log.captured, told |-> log.told] /\ trouble \in 0 .. MaxTrouble
      /\ log.captured \subseteq Quakes /\ log.told \in Seq(Notice)
  BY Numbers DEF Typed, TypeOK, Log
<1>1. \A what \in Told : Tell(log.told, what) \in Seq(Notice)
  BY <1>0, OneMore
<1>2. {"caido", "recuperado"} \subseteq Told
  BY DEF Told
<1>3. /\ Answering \in Device /\ Answering.fired = mem.fired /\ Answering.ok = mem.ok
      /\ Answering.last = clock /\ Answering.seen = mem.seen
      /\ Answering.online = IF mem.online = Never THEN clock ELSE mem.online
  BY <1>0 DEF Answering, Device
<1>4. /\ TellBack \in Seq(Notice)
      /\ TellBack = log.told \/ TellBack = Tell(log.told, "recuperado")
  BY <1>0, <1>1, <1>2 DEF TellBack
<1>5. CASE PollOffline
  <2> DEFINE online == IF mem.online = Never THEN clock ELSE mem.online
             caido == mem.last # Never /\ clock - mem.last > Stale /\ ~mem.alerted
  <2>1. /\ mem' = [mem EXCEPT !.online = online, !.alerted = @ \/ caido]
        /\ log' = IF caido THEN [log EXCEPT !.told = Tell(@, "caido")] ELSE log
        /\ pc = "poll" /\ pc' = "canary"
        /\ UNCHANGED <<clock, up, listens, file, quakes, saved, trouble, away, wipes, deaf, spoiled>>
    BY <1>5 DEF PollOffline
  <2>2. caido \in BOOLEAN /\ mem.alerted \in BOOLEAN /\ online \in Time \cup {Never} /\ online # Never
    BY <1>0 DEF Device
  <2> HIDE DEF caido, online
  <2>3. /\ mem' \in Device /\ mem'.fired = mem.fired /\ mem'.online = online
        /\ mem'.last = mem.last /\ mem'.ok = mem.ok /\ mem'.seen = mem.seen
    BY <1>0, <2>1, <2>2 DEF Device
  <2>4. /\ log' \in Log /\ log'.captured = log.captured
        /\ log'.told = log.told \/ log'.told = Tell(log.told, "caido")
    BY <1>0, <1>1, <1>2, <2>1 DEF Log
  <2> QED
    BY <1>0, <2>1, <2>2, <2>3, <2>4 DEF online
<1>6. CASE PollUnread
  <2>1. /\ mem' = Answering /\ log' = [log EXCEPT !.told = TellBack] /\ trouble > 0
        /\ pc = "poll" /\ pc' = "canary" /\ trouble' = trouble - 1
        /\ UNCHANGED <<clock, up, listens, file, quakes, saved, away, wipes, deaf, spoiled>>
    BY <1>6 DEF PollUnread
  <2>2. log' \in Log /\ log'.captured = log.captured /\ log'.told = TellBack
    BY <1>0, <1>4, <2>1 DEF Log
  <2>3. trouble' \in 0 .. MaxTrouble
    BY <1>0, <2>1, Constants
  <2> QED
    BY <1>0, <1>3, <1>4, <2>1, <2>2, <2>3
<1>7. CASE PollOnline
  <2>1. /\ mem' = [Answering EXCEPT !.seen = SeenNow, !.of = wipes,
                                     !.ok = IF Fixture \in Unseen THEN clock ELSE @]
        /\ log' = [captured |-> log.captured \cup (Unseen \ {Fixture}), told |-> TellBack]
        /\ pc = "poll" /\ pc' = "canary"
        /\ deaf' = [deaf EXCEPT !.mem = IF listens \/ @ # Never THEN @ ELSE clock]
        /\ UNCHANGED <<clock, up, listens, file, quakes, saved, trouble, away, wipes, spoiled>>
    BY <1>7 DEF PollOnline
  <2>2. Unseen \ {Fixture} \subseteq Quakes
    <3>1. \A i \in DOMAIN file : file[i] \in Quakes \cup {Fixture}
      BY <1>0 DEF TypeOK
    <3> QED
      BY <3>1 DEF Unseen
  <2>3. log' \in Log /\ log.captured \subseteq log'.captured /\ log'.told = TellBack
    BY <1>0, <1>4, <2>1, <2>2 DEF Log
  <2>4. SeenNow \in Nat /\ SeenNow = Len(file) /\ wipes \in 0 .. MaxTrouble
    BY <1>0, Numbers DEF SeenNow, TypeOK
  <2>5. /\ mem' \in Device /\ mem'.fired = mem.fired /\ mem'.online = Answering.online
        /\ mem'.last = clock /\ mem'.ok \in {mem.ok, clock} /\ mem'.seen = Len(file)
    BY <1>0, <1>3, <2>1, <2>4 DEF Device
  <2>6. deaf' \in {deaf, [deaf EXCEPT !.mem = clock]}
    BY <1>0, <2>1 DEF TypeOK
  <2> QED
    BY <1>0, <1>3, <1>4, <2>1, <2>3, <2>5, <2>6
<1> QED
  BY <1>5, <1>6, <1>7

LEMMA PollTyped ==
  ASSUME Typed, PollOffline \/ PollOnline \/ PollUnread
  PROVE  Typed'
<1>0. /\ TypeOK /\ log \in Log /\ FitsRoom /\ CountsOnce
      /\ Cardinality(DOMAIN quakes) \in Nat /\ clock \in Nat /\ clock <= MaxTime
      /\ trouble \in Nat /\ MaxTrouble \in Nat /\ MaxTime \in Nat
      /\ Room = Cardinality(DOMAIN quakes) + clock + (MaxTrouble - trouble) + Through
      /\ mem.seen \in Nat /\ saved.seen \in Nat /\ Len(file) \in Nat
  <2>1. TypeOK /\ log \in Log /\ FitsRoom /\ CountsOnce
    BY DEF Typed
  <2>2. Cardinality(DOMAIN quakes) \in Nat /\ mem.seen \in Nat /\ saved.seen \in Nat
    BY <2>1, RoomFits, DeviceFields DEF TypeOK
  <2> QED
    BY <2>1, <2>2, Numbers, Constants DEF Room
<1>1. /\ pc = "poll" /\ pc' = "canary" /\ mem' \in Device /\ log' \in Log
      /\ mem'.seen \in {mem.seen, Len(file)} /\ trouble' \in {trouble, trouble - 1}
      /\ trouble' \in 0 .. MaxTrouble /\ deaf' \in {deaf, [deaf EXCEPT !.mem = clock]}
      /\ UNCHANGED <<clock, up, listens, file, quakes, saved, away, wipes, spoiled>>
  BY PollSteps
<1>2. outgrown' \in BOOLEAN
  BY <1>0 DEF PollOffline, PollOnline, PollUnread, TypeOK
<1>3. trouble' \in Nat /\ trouble' <= trouble
  BY <1>0, <1>1
<1>4. wipes + trouble <= MaxTrouble /\ wipes \in Nat /\ trouble <= MaxTrouble
  BY <1>0, Numbers DEF CountsOnce
<1>5. CountsOnce' /\ deaf' \in [mem : Time \cup {Never}, saved : Time \cup {Never}]
  <2>1. wipes' + trouble' <= MaxTrouble
    BY <1>0, <1>1, <1>3, <1>4
  <2>2. clock \in Time
    BY <1>0, Numbers
  <2>3. deaf' \in [mem : Time \cup {Never}, saved : Time \cup {Never}]
    BY <1>0, <1>1, <2>2 DEF TypeOK
  <2> QED
    BY <2>1, <2>3 DEF CountsOnce
<1>6. Room' >= Room /\ Room \in Nat /\ Room' \in Nat
  <2> DEFINE card == Cardinality(DOMAIN quakes)
  <2>1. Through = 0 /\ Through' = 0 /\ clock' = clock /\ quakes' = quakes
    BY <1>1 DEF Through
  <2>2. Room = card + clock + (MaxTrouble - trouble) + 0
    BY <2>1 DEF Room
  <2>3. Room' = card + clock + (MaxTrouble - trouble') + 0
    BY <2>1 DEF Room
  <2>4. card \in Nat /\ clock \in Nat /\ trouble \in Nat /\ MaxTrouble \in Nat /\ trouble <= MaxTrouble
    BY <1>0, <1>4
  <2> HIDE DEF card
  <2>5. \A a, b, m, t, u \in Nat : u <= t /\ t <= m =>
          /\ a + b + (m - t) + 0 \in Nat /\ a + b + (m - u) + 0 \in Nat
          /\ a + b + (m - u) + 0 >= a + b + (m - t) + 0
    OBVIOUS
  <2> QED
    BY <1>3, <2>2, <2>3, <2>4, <2>5
<1>7. FitsRoom'
  BY <1>0, <1>1, <1>6 DEF FitsRoom
<1>8. mem'.seen <= MaxEntries /\ saved'.seen <= MaxEntries
  <2>1. Room' <= MaxEntries /\ MaxEntries \in Nat
    <3>1. DOMAIN quakes \subseteq Quakes
      BY <1>0 DEF TypeOK
    <3>2. IsFiniteSet(DOMAIN quakes) /\ Cardinality(DOMAIN quakes) <= Cardinality(Quakes)
      BY <3>1, Constants, FS_Subset
    <3>3. Room' = Cardinality(DOMAIN quakes) + clock + (MaxTrouble - trouble')
      <4>1. Through' = 0
        BY <1>1 DEF Through
      <4>2. clock' = clock /\ quakes' = quakes
        BY <1>1
      <4> QED
        BY <1>0, <1>3, <4>1, <4>2 DEF Room
    <3>4. Cardinality(Quakes) \in Nat /\ MaxEntries = MaxTime + 1 + MaxTrouble + Cardinality(Quakes)
      BY Constants DEF MaxEntries
    <3>5. \A a, b, c, d, e, f \in Nat :
            a <= b /\ c <= d => a + c + (e - f) <= d + 1 + e + b /\ d + 1 + e + b \in Nat
      OBVIOUS
    <3>6. {Cardinality(DOMAIN quakes), clock, MaxTime, MaxTrouble} \subseteq Nat /\ clock <= MaxTime
      BY <1>0
    <3> QED
      BY <1>3, <3>2, <3>3, <3>4, <3>5, <3>6
  <2>2. saved' = saved
    BY <1>1
  <2>3. mem'.seen \in Nat /\ mem'.seen <= Room' /\ saved'.seen <= Room'
    BY <1>0, <1>1, <1>7 DEF FitsRoom
  <2> QED
    BY <1>0, <1>6, <2>1, <2>2, <2>3
<1>9. log'.captured \subseteq Quakes /\ log'.told \in Seq([what : Told, at : Time])
  BY <1>1 DEF Log, Notice
<1>10. TypeOK'
  BY <1>0, <1>1, <1>2, <1>5, <1>8, <1>9 DEF TypeOK
<1> QED
  BY <1>1, <1>5, <1>7, <1>10 DEF Typed

(* What the canary does: nothing; a line in the file of a control that      *)
(* listens, and a notice if none came back for too long; or it is spoiled.  *)
LEMMA CanarySteps ==
  ASSUME Typed, RunCanary
  PROVE  /\ pc = "canary" /\ pc' = "save" /\ mem' \in Device /\ log' \in Log
         /\ \/ /\ mem.fired # Never /\ clock - mem.fired < CanaryEvery
               /\ UNCHANGED <<mem, file, log, trouble, spoiled>>
            \/ /\ mem'.fired = clock /\ UNCHANGED <<trouble, spoiled>>
               /\ IF Broken(mem) THEN log'.told = Tell(log.told, "rota") ELSE log' = log
            \/ /\ mem'.fired = clock /\ trouble' \in {trouble, trouble - 1} /\ log' = log
               /\ spoiled' = IF listens THEN spoiled ELSE clock
         /\ trouble' \in 0 .. MaxTrouble
         /\ file' = file \/ (listens /\ file' = Append(file, Fixture))
         /\ mem'.online = mem.online /\ mem'.last = mem.last /\ mem'.ok = mem.ok
         /\ mem'.seen = mem.seen /\ mem'.of = mem.of /\ mem'.alerted = mem.alerted
         /\ log'.captured = log.captured
         /\ UNCHANGED <<clock, up, listens, quakes, saved, away, wipes, outgrown, deaf>>
<1>0. /\ TypeOK /\ log \in Log /\ mem \in Device /\ clock \in Time /\ clock \in Nat
      /\ log = [captured |-> log.captured, told |-> log.told]
      /\ log.captured \subseteq Quakes /\ log.told \in Seq(Notice)
      /\ trouble \in 0 .. MaxTrouble /\ MaxTrouble \in Nat
  BY Numbers, Constants DEF Typed, TypeOK, Log
<1>1. Tell(log.told, "rota") \in Seq(Notice)
  BY <1>0, OneMore DEF Told
<1>2. /\ pc = "canary" /\ pc' = "save"
      /\ UNCHANGED <<clock, up, listens, quakes, saved, away, wipes, outgrown, deaf>>
  BY DEF RunCanary
<1>3. ASSUME mem' = [mem EXCEPT !.fired = clock]
      PROVE  /\ mem' \in Device /\ mem'.fired = clock
             /\ mem'.online = mem.online /\ mem'.last = mem.last /\ mem'.ok = mem.ok
             /\ mem'.seen = mem.seen /\ mem'.of = mem.of /\ mem'.alerted = mem.alerted
  BY <1>0, <1>3 DEF Device
<1>4. CASE NoCanary
  <2>1. ~CanaryDue /\ UNCHANGED <<mem, file, log, trouble, spoiled>>
    BY <1>4 DEF NoCanary
  <2>2. mem.fired # Never /\ clock - mem.fired < CanaryEvery
    <3>1. mem.fired \in Nat /\ CanaryEvery \in Nat
      BY <1>0, DeviceFields, Constants
    <3> QED
      BY <1>0, <2>1, <3>1 DEF CanaryDue
  <2> QED
    BY <1>0, <1>2, <2>1, <2>2
<1>5. CASE CanaryPosted
  <2>1. /\ mem' = [mem EXCEPT !.fired = clock] /\ UNCHANGED <<trouble, spoiled>>
        /\ file' = IF listens THEN Append(file, Fixture) ELSE file
        /\ log' = IF Broken(mem) THEN [log EXCEPT !.told = Tell(@, "rota")] ELSE log
    BY <1>5 DEF CanaryPosted, Posted
  <2>2. /\ log' \in Log /\ log'.captured = log.captured
        /\ IF Broken(mem) THEN log'.told = Tell(log.told, "rota") ELSE log' = log
    BY <1>0, <1>1, <2>1 DEF Log
  <2>3. file' = file \/ (listens /\ file' = Append(file, Fixture))
    BY <2>1
  <2> QED
    BY <1>0, <1>2, <1>3, <2>1, <2>2, <2>3
<1>6. CASE CanarySpoiled
  <2>1. /\ mem' = [mem EXCEPT !.fired = clock] /\ log' = log
        /\ spoiled' = IF listens THEN spoiled ELSE clock
        /\ file' = file \/ (listens /\ file' = Append(file, Fixture))
        /\ trouble' = trouble \/ (trouble > 0 /\ trouble' = trouble - 1)
    BY <1>6 DEF CanarySpoiled, Posted
  <2>2. trouble' \in 0 .. MaxTrouble /\ trouble' \in {trouble, trouble - 1}
    BY <1>0, <2>1
  <2> QED
    BY <1>0, <1>2, <1>3, <2>1, <2>2
<1> QED
  BY <1>4, <1>5, <1>6 DEF RunCanary

LEMMA CanaryTyped ==
  ASSUME Typed, RunCanary
  PROVE  Typed'
<1>0. /\ TypeOK /\ log \in Log /\ FitsRoom /\ CountsOnce
      /\ Cardinality(DOMAIN quakes) \in Nat /\ clock \in Nat
      /\ trouble \in Nat /\ MaxTrouble \in Nat /\ trouble <= MaxTrouble
      /\ Room = Cardinality(DOMAIN quakes) + clock + (MaxTrouble - trouble) + Through
      /\ mem.seen \in Nat /\ saved.seen \in Nat /\ Len(file) \in Nat
  <2>1. TypeOK /\ log \in Log /\ FitsRoom /\ CountsOnce
    BY DEF Typed
  <2>2. Cardinality(DOMAIN quakes) \in Nat /\ mem.seen \in Nat /\ saved.seen \in Nat
    BY <2>1, RoomFits, DeviceFields DEF TypeOK
  <2> QED
    BY <2>1, <2>2, Numbers, Constants DEF Room
<1>1. /\ pc = "canary" /\ pc' = "save" /\ mem' \in Device /\ log' \in Log
      /\ mem'.seen = mem.seen /\ log'.captured = log.captured
      /\ file' = file \/ file' = Append(file, Fixture)
      /\ trouble' \in {trouble, trouble - 1} /\ trouble' \in 0 .. MaxTrouble
      /\ spoiled' \in {spoiled, clock}
      /\ UNCHANGED <<clock, up, listens, quakes, saved, away, wipes, outgrown, deaf>>
  BY CanarySteps
<1>2. /\ file' \in Seq(Quakes \cup {Fixture}) /\ Len(file') \in Nat /\ Len(file') <= Len(file) + 1
  <2>1. file \in Seq(Quakes \cup {Fixture})
    BY <1>0 DEF TypeOK
  <2> QED
    <3>1. CASE file' = file
      BY <1>0, <2>1, <3>1
    <3>2. CASE file' = Append(file, Fixture)
      <4>1. /\ Append(file, Fixture) \in Seq(Quakes \cup {Fixture})
            /\ Len(Append(file, Fixture)) = Len(file) + 1
        BY <1>0, OneLine
      <4>2. Len(file) \in Nat
        BY <1>0
      <4> QED
        BY <3>2, <4>1, <4>2
    <3> QED
      BY <1>1, <3>1, <3>2
<1>3. Room' >= Room + 1 /\ Room \in Nat /\ Room' \in Nat /\ trouble' <= trouble /\ trouble' \in Nat
  BY <1>0, <1>1 DEF Room, Through
<1>4. FitsRoom'
  BY <1>0, <1>1, <1>2, <1>3 DEF FitsRoom
<1>5. log'.captured \subseteq Quakes /\ log'.told \in Seq([what : Told, at : Time])
  BY <1>1 DEF Log, Notice
<1>6. TypeOK'
  <2>1. clock \in Time
    BY <1>0, Numbers
  <2>2. spoiled' \in Time
    BY <1>0, <1>1, <2>1 DEF TypeOK
  <2> QED
    BY <1>0, <1>1, <1>2, <1>5, <2>2 DEF TypeOK
<1>7. CountsOnce'
  <2>1. wipes \in Nat /\ wipes + trouble <= MaxTrouble
    BY <1>0, Numbers DEF CountsOnce
  <2>2. wipes + trouble' <= MaxTrouble
    <3>1. \A a, b, c, m \in Nat : a + b <= m /\ c <= b => a + c <= m
      OBVIOUS
    <3> QED
      BY <1>0, <1>3, <2>1, <3>1
  <2> QED
    BY <1>1, <2>2 DEF CountsOnce
<1> QED
  BY <1>0, <1>1, <1>4, <1>6, <1>7 DEF Typed

LEMMA NextTyped == Typed /\ [Next]_vars => Typed'
<1> SUFFICES ASSUME Typed, [Next]_vars PROVE Typed'
  OBVIOUS
<1>1. CASE Save
  <2>1. /\ TypeOK /\ FitsRoom /\ CountsOnce /\ log \in Log
        /\ pc = "save" /\ pc' = "sleep" /\ saved' = mem
        /\ deaf' = [deaf EXCEPT !.saved = deaf.mem]
        /\ UNCHANGED <<clock, up, listens, file, quakes, mem, log, trouble, away, wipes, outgrown, spoiled>>
    BY <1>1 DEF Save, Typed
  <2>2. TypeOK'
    <3>1. deaf' \in [mem : Time \cup {Never}, saved : Time \cup {Never}]
      BY <2>1 DEF TypeOK
    <3> QED
      BY <2>1, <3>1 DEF TypeOK
  <2>3. Through' = Through
    BY <2>1 DEF Through
  <2>4. Room' = Room
    BY <2>1, <2>3 DEF Room
  <2>5. FitsRoom'
    BY <2>1, <2>4 DEF FitsRoom
  <2>6. CountsOnce'
    BY <2>1 DEF CountsOnce
  <2> QED
    BY <2>1, <2>2, <2>5, <2>6 DEF Typed
<1>2. CASE UNCHANGED vars
  BY <1>2 DEF vars, Typed, TypeOK, FitsRoom, Room, Through, CountsOnce
<1> QED
  BY <1>1, <1>2, WorldTyped, LifeTyped, PollTyped, CanaryTyped DEF Next, Loop

-----------------------------------------------------------------------------
(* No stamp lies ahead, and while the lab is off every loop is one away and *)
(* it remembers what it saved.                                              *)
Past(t) == t # Never => t <= clock
InTime(d) == Past(d.online) /\ Past(d.last) /\ Past(d.fired) /\ Past(d.ok)
AllInTime ==
  /\ InTime(mem) /\ InTime(saved)
  /\ \A t \in away : t <= clock
  /\ \A i \in DOMAIN log.told : log.told[i].at <= clock
  /\ \A q \in DOMAIN quakes : quakes[q].at <= clock
  /\ pc = "off" => clock \in away
  /\ pc \in {"sleep", "off"} => saved = mem

LEMMA InitInTime == Init => AllInTime
BY DEF Init, AllInTime, InTime, Past, NewDevice

LEMMA LaterIsPast ==
  ASSUME NEW a \in Nat, NEW b \in Nat, a <= b, NEW t \in Nat, t <= a
  PROVE  t <= b
OBVIOUS

(* The notices after a step that told at most one.                          *)
LEMMA ToldInTime ==
  ASSUME Typed, AllInTime, clock' = clock,
         \/ log'.told = log.told
         \/ \E what \in Told : log'.told = Tell(log.told, what)
  PROVE  \A i \in DOMAIN log'.told : log'.told[i].at <= clock
<1>1. TypeOK /\ clock \in Nat
  BY Numbers DEF Typed
<1>2. CASE log'.told = log.told
  BY <1>2 DEF AllInTime
<1>3. ASSUME NEW what \in Told, log'.told = Tell(log.told, what)
      PROVE  \A i \in DOMAIN log'.told : log'.told[i].at <= clock
  <2> SUFFICES ASSUME NEW i \in DOMAIN log'.told PROVE log'.told[i].at <= clock
    OBVIOUS
  <2>1. /\ Len(log.told) \in Nat /\ DOMAIN log.told = 1 .. Len(log.told)
        /\ i \in 1 .. Len(log.told) + 1
        /\ \A j \in DOMAIN log.told : log'.told[j] = log.told[j]
        /\ log'.told[Len(log.told) + 1] = [what |-> what, at |-> clock]
    BY <1>1, <1>3, OneMore
  <2>2. CASE i \in DOMAIN log.told
    BY <2>1, <2>2 DEF AllInTime
  <2>3. CASE i = Len(log.told) + 1
    <3>1. log'.told[i].at = clock
      BY <2>1, <2>3
    <3> QED
      BY <1>1, <3>1
  <2>4. i \in DOMAIN log.told \/ i = Len(log.told) + 1
    BY <2>1
  <2> QED
    BY <2>2, <2>3, <2>4
<1> QED
  BY <1>2, <1>3

LEMMA NextInTime == Typed /\ AllInTime /\ [Next]_vars => AllInTime'
<1> SUFFICES ASSUME Typed, AllInTime, [Next]_vars PROVE AllInTime'
  OBVIOUS
<1>0. TypeOK /\ clock \in Nat /\ clock # Never /\ mem \in Device /\ saved \in Device
  BY Numbers DEF Typed, TypeOK
<1>1. ASSUME NEW q \in Quakes, QuakeHappens(q) PROVE AllInTime'
  <2>1. UNCHANGED <<clock, up, listens, mem, saved, pc, log, trouble, away, wipes, outgrown>>
    BY <1>1 DEF QuakeHappens
  <2>2. /\ DOMAIN quakes' = DOMAIN quakes \cup {q}
        /\ \A p \in DOMAIN quakes' : quakes'[p].at = clock \/ (p \in DOMAIN quakes /\ quakes'[p] = quakes[p])
    BY <1>1 DEF QuakeHappens
  <2>3. \A p \in DOMAIN quakes' : quakes'[p].at <= clock
    BY <1>0, <2>2 DEF AllInTime
  <2>4. InTime(mem)' /\ InTime(saved)'
    BY <2>1 DEF AllInTime, InTime, Past, Never
  <2> QED
    BY <2>1, <2>3, <2>4 DEF AllInTime
<1>2. CASE ControlTurns \/ ListenerTurns \/ Wipe \/ UNCHANGED vars
  <2>1. UNCHANGED <<clock, quakes, mem, saved, pc, log, away>>
    BY <1>2 DEF ControlTurns, ListenerTurns, Wipe, vars
  <2>2. InTime(mem)' /\ InTime(saved)'
    BY <2>1 DEF AllInTime, InTime, Past, Never
  <2> QED
    BY <2>1, <2>2 DEF AllInTime
<1>3. CASE Tick
  <2>1. /\ clock' = clock + 1 /\ pc \in {"sleep", "off"}
        /\ pc' = IF pc = "off" THEN "off" ELSE "poll"
        /\ away' = IF pc = "off" THEN away \cup {clock, clock'} ELSE away
        /\ UNCHANGED <<mem, saved, log, quakes>>
    BY <1>3 DEF Tick, Idle
  <2>2. \A t \in Nat : t <= clock => t <= clock'
    BY <1>0, <2>1
  <2>3. away \subseteq Nat /\ clock' \in Nat /\ clock <= clock'
    BY <1>0, <2>1, Numbers DEF TypeOK
  <2>4. \A t \in away' : t <= clock'
    BY <1>0, <2>1, <2>2, <2>3 DEF AllInTime
  <2>5. \A i \in DOMAIN log.told : log.told[i].at \in Nat
    BY <1>0, NoticeFields
  <2>6. \A q \in DOMAIN quakes : quakes[q].at \in Nat
    <3>1. \A q \in DOMAIN quakes : quakes[q].at \in Time
      BY <1>0 DEF TypeOK, Quake
    <3> QED
      BY <1>0, <3>1, Numbers
  <2>7. InTime(mem)' /\ InTime(saved)'
    <3>1. /\ {mem.online, mem.last, mem.fired, mem.ok} \subseteq Nat
          /\ {saved.online, saved.last, saved.fired, saved.ok} \subseteq Nat
      BY <1>0, DeviceFields
    <3>2. InTime(mem)'
      BY <2>1, <2>2, <3>1 DEF AllInTime, InTime, Past, Never
    <3>3. InTime(saved)'
      BY <2>1, <2>2, <3>1 DEF AllInTime, InTime, Past, Never
    <3> QED
      BY <3>2, <3>3
  <2>8. pc' = "off" => clock' \in away'
    BY <2>1
  <2>9. pc' \in {"sleep", "off"} => saved' = mem'
    BY <2>1 DEF AllInTime
  <2> QED
    BY <2>1, <2>2, <2>4, <2>5, <2>6, <2>7, <2>8, <2>9 DEF AllInTime
<1>4. CASE Die
  <2>1. /\ pc' = "off" /\ mem' = saved /\ away' = away \cup {clock}
        /\ UNCHANGED <<clock, saved, log, quakes>>
    BY <1>4 DEF Die
  <2>2. InTime(mem)' /\ InTime(saved)'
    BY <2>1 DEF AllInTime, InTime, Past, Never
  <2>3. \A t \in away' : t <= clock
    BY <1>0, <2>1 DEF AllInTime
  <2> QED
    BY <2>1, <2>2, <2>3 DEF AllInTime
<1>5. CASE Start
  <2>1. pc' = "poll" /\ UNCHANGED <<clock, quakes, mem, saved, log, away>>
    BY <1>5 DEF Start
  <2>2. InTime(mem)' /\ InTime(saved)'
    BY <2>1 DEF AllInTime, InTime, Past, Never
  <2> QED
    BY <2>1, <2>2 DEF AllInTime
<1>6. CASE PollOffline \/ PollOnline \/ PollUnread
  <2>1. /\ pc' = "canary" /\ mem'.fired = mem.fired /\ mem'.online \in {mem.online, clock}
        /\ mem'.last \in {mem.last, clock} /\ mem'.ok \in {mem.ok, clock}
        /\ \/ log'.told = log.told
           \/ \E what \in {"caido", "recuperado"} : log'.told = Tell(log.told, what)
        /\ UNCHANGED <<clock, quakes, saved, away>>
    BY <1>6, PollSteps
  <2>2. InTime(mem)' /\ InTime(saved)'
    BY <1>0, <2>1 DEF AllInTime, InTime, Past, Never
  <2>3. \A i \in DOMAIN log'.told : log'.told[i].at <= clock
    BY <2>1, ToldInTime DEF Told
  <2> QED
    BY <2>1, <2>2, <2>3 DEF AllInTime
<1>7. CASE RunCanary
  <2>1. /\ pc' = "save" /\ mem'.fired \in {mem.fired, clock} /\ mem'.online = mem.online
        /\ mem'.last = mem.last /\ mem'.ok = mem.ok
        /\ log'.told = log.told \/ log'.told = Tell(log.told, "rota")
        /\ UNCHANGED <<clock, quakes, saved, away>>
    BY <1>7, CanarySteps
  <2>2. InTime(mem)' /\ InTime(saved)'
    BY <1>0, <2>1 DEF AllInTime, InTime, Past, Never
  <2>3. \A i \in DOMAIN log'.told : log'.told[i].at <= clock
    BY <2>1, ToldInTime DEF Told
  <2> QED
    BY <2>1, <2>2, <2>3 DEF AllInTime
<1>8. CASE Save
  <2>1. pc' = "sleep" /\ saved' = mem /\ UNCHANGED <<clock, quakes, mem, log, away>>
    BY <1>8 DEF Save
  <2>2. InTime(mem)' /\ InTime(saved)'
    BY <2>1 DEF AllInTime, InTime, Past, Never
  <2> QED
    BY <2>1, <2>2 DEF AllInTime
<1> QED
  BY <1>1, <1>2, <1>3, <1>4, <1>5, <1>6, <1>7, <1>8 DEF Next, Loop

-----------------------------------------------------------------------------
(* What was counted of the file as it is was logged: by the lab's memory,   *)
(* and by the state file that a death goes back to.                         *)
IsRead(d) ==
  ~outgrown /\ d.of = wipes =>
    /\ d.seen <= Len(file)
    /\ \A i \in 1 .. d.seen : file[i] # Fixture => file[i] \in log.captured
AllRead == IsRead(mem) /\ IsRead(saved) /\ mem.of <= wipes /\ saved.of <= wipes

(* A line that is in the sequence is at one of its places.                  *)
LEMMA InFile ==
  ASSUME NEW q, Contains(file, q), file \in Seq(Quakes \cup {Fixture})
  PROVE  \E i \in 1 .. Len(file) : file[i] = q
BY DEF Contains

LEMMA InitRead == Init => AllRead
<1> SUFFICES ASSUME Init PROVE AllRead
  OBVIOUS
<1>1. /\ mem.seen = 0 /\ saved.seen = 0 /\ mem.of = 0 /\ saved.of = 0 /\ wipes = 0
      /\ Len(file) = 0
  BY DEF Init, NewDevice
<1> QED
  BY <1>1 DEF AllRead, IsRead

(* A longer file with the same beginning, and more captured.                *)
LEMMA StillRead ==
  ASSUME Typed, NEW d \in Device, IsRead(d), NEW f, NEW c,
         f = file \/ \E line \in Quakes \cup {Fixture} : f = Append(file, line),
         log.captured \subseteq c
  PROVE  ~outgrown /\ d.of = wipes =>
           /\ d.seen <= Len(f)
           /\ \A i \in 1 .. d.seen : f[i] # Fixture => f[i] \in c
<1>1. TypeOK /\ Len(file) \in Nat /\ d.seen \in Nat
  BY Numbers, DeviceFields DEF Typed
<1>2. CASE f = file
  BY <1>2 DEF IsRead
<1>3. ASSUME NEW line \in Quakes \cup {Fixture}, f = Append(file, line), ~outgrown, d.of = wipes
      PROVE  /\ d.seen <= Len(f)
             /\ \A i \in 1 .. d.seen : f[i] # Fixture => f[i] \in c
  <2>1. Len(f) = Len(file) + 1 /\ \A i \in 1 .. Len(file) : f[i] = file[i]
    BY <1>1, <1>3, OneLine
  <2>2. d.seen <= Len(file) /\ \A i \in 1 .. d.seen : file[i] # Fixture => file[i] \in log.captured
    BY <1>3 DEF IsRead
  <2>3. d.seen <= Len(f) /\ \A i \in 1 .. d.seen : i \in 1 .. Len(file)
    BY <1>1, <2>1, <2>2
  <2> QED
    BY <2>1, <2>2, <2>3
<1> QED
  BY <1>2, <1>3

(* A poll reads all that its file holds beyond the count; a file that was   *)
(* wiped since is read from the start, or it has outgrown the count.        *)
LEMMA PollReads ==
  ASSUME Typed, AllRead, PollOnline
  PROVE  IsRead(mem)'
<1>0. TypeOK /\ Len(file) \in Nat /\ DOMAIN file = 1 .. Len(file) /\ mem \in Device /\ mem.seen \in Nat
  <2>1. TypeOK /\ mem \in Device /\ file \in Seq(Quakes \cup {Fixture})
    BY DEF Typed, TypeOK
  <2> QED
    BY <2>1, Numbers, DeviceFields
<1>1. /\ log'.captured = log.captured \cup (Unseen \ {Fixture})
      /\ outgrown' = (outgrown \/ (mem.of # wipes /\ Len(file) >= mem.seen /\ mem.seen > 0))
      /\ file' = file /\ wipes' = wipes
  BY DEF PollOnline
<1>2. mem'.seen = Len(file)
  <2>1. Answering \in Device
    <3>1. clock \in Time \cup {Never}
      BY <1>0, Numbers
    <3> QED
      BY <1>0, <3>1 DEF Answering, Device
  <2>2. mem' = [Answering EXCEPT !.seen = SeenNow, !.of = wipes,
                                 !.ok = IF Fixture \in Unseen THEN clock ELSE @]
    BY DEF PollOnline
  <2> QED
    BY <2>1, <2>2 DEF SeenNow, Device
<1>3. ASSUME ~outgrown', NEW i \in 1 .. Len(file), file[i] # Fixture
      PROVE  file[i] \in log'.captured
  <2>1. CASE i >= FirstUnseen
    <3>1. file[i] \in Unseen
      BY <1>0, <1>3, <2>1 DEF Unseen
    <3> QED
      BY <1>1, <1>3, <3>1
  <2>2. CASE ~(i >= FirstUnseen)
    <3>1. FirstUnseen = mem.seen + 1 /\ mem.seen <= Len(file) /\ i <= mem.seen /\ mem.seen > 0
      BY <1>0, <2>2 DEF FirstUnseen
    <3>2. mem.of = wipes /\ ~outgrown
      BY <1>0, <1>1, <1>3, <3>1
    <3>3. i \in 1 .. mem.seen
      BY <1>0, <3>1
    <3>4. file[i] \in log.captured
      BY <1>3, <3>2, <3>3 DEF AllRead, IsRead
    <3> QED
      BY <1>1, <3>4
  <2> QED
    BY <2>1, <2>2
<1>4. \A i \in 1 .. mem'.seen : outgrown' \/ (file'[i] # Fixture => file'[i] \in log'.captured)
  BY <1>1, <1>2, <1>3
<1>5. mem'.seen <= Len(file')
  BY <1>0, <1>1, <1>2
<1> QED
  BY <1>4, <1>5 DEF IsRead

LEMMA NextRead == Typed /\ AllRead /\ [Next]_vars => AllRead'
<1> SUFFICES ASSUME Typed, AllRead, [Next]_vars PROVE AllRead'
  OBVIOUS
<1>0. /\ TypeOK /\ mem \in Device /\ saved \in Device /\ mem.of \in Nat /\ saved.of \in Nat /\ wipes \in Nat
      /\ IsRead(mem) /\ IsRead(saved) /\ mem.of <= wipes /\ saved.of <= wipes
  <2>1. TypeOK /\ mem \in Device /\ saved \in Device
    BY DEF Typed, TypeOK
  <2> QED
    BY <2>1, Numbers, DeviceFields DEF AllRead
<1>1. ASSUME NEW q \in Quakes, QuakeHappens(q) PROVE AllRead'
  <2>1. /\ UNCHANGED <<mem, saved, log, wipes, outgrown>>
        /\ file' = file \/ file' = Append(file, q)
    BY <1>1 DEF QuakeHappens
  <2>2. file' = file \/ \E line \in Quakes \cup {Fixture} : file' = Append(file, line)
    BY <2>1
  <2>3. IsRead(mem)' /\ IsRead(saved)'
    BY <1>0, <2>1, <2>2, StillRead DEF IsRead
  <2> QED
    BY <1>0, <2>1, <2>3 DEF AllRead
<1>2. CASE Wipe
  <2>1. UNCHANGED <<mem, saved>> /\ wipes' = wipes + 1
    BY <1>2 DEF Wipe
  <2>2. mem.of # wipes' /\ saved.of # wipes' /\ mem.of <= wipes' /\ saved.of <= wipes'
    BY <1>0, <2>1
  <2> QED
    BY <2>1, <2>2 DEF AllRead, IsRead
<1>3. CASE ControlTurns \/ ListenerTurns \/ Tick \/ Start \/ UNCHANGED vars
  <2>1. UNCHANGED <<mem, saved, log, file, wipes, outgrown>>
    BY <1>3 DEF ControlTurns, ListenerTurns, Tick, Start, vars
  <2> QED
    BY <2>1 DEF AllRead, IsRead
<1>4. CASE Die
  <2>1. mem' = saved /\ UNCHANGED <<saved, log, file, wipes, outgrown>>
    BY <1>4 DEF Die
  <2> QED
    BY <2>1 DEF AllRead, IsRead
<1>5. CASE Save
  <2>1. saved' = mem /\ UNCHANGED <<mem, log, file, wipes, outgrown>>
    BY <1>5 DEF Save
  <2> QED
    BY <2>1 DEF AllRead, IsRead
<1>6. CASE PollOffline \/ PollUnread
  <2>1. /\ log'.captured = log.captured /\ mem'.seen = mem.seen /\ mem'.of = mem.of
        /\ UNCHANGED <<saved, file, wipes, outgrown>>
    <3>1. /\ \/ \E online, alerted : mem' = [mem EXCEPT !.online = online, !.alerted = alerted]
             \/ mem' = [mem EXCEPT !.online = IF @ = Never THEN clock ELSE @, !.alerted = FALSE, !.last = clock]
          /\ log' = log \/ \E told : log' = [log EXCEPT !.told = told]
          /\ UNCHANGED <<saved, file, wipes, outgrown>>
      BY <1>6, Zenon DEF PollOffline, PollUnread, Answering
    <3>2. log = [captured |-> log.captured, told |-> log.told]
      BY DEF Typed, Log
    <3> QED
      BY <1>0, <3>1, <3>2 DEF Device
  <2> QED
    BY <1>0, <2>1 DEF AllRead, IsRead
<1>7. CASE PollOnline
  <2>1. /\ UNCHANGED <<saved, file, wipes>> /\ log.captured \subseteq log'.captured
        /\ ~outgrown' => ~outgrown
    BY <1>7 DEF PollOnline
  <2>2. IsRead(mem)'
    BY <1>7, PollReads
  <2>3. IsRead(saved)'
    BY <1>0, <2>1, StillRead DEF IsRead
  <2>4. mem'.of = wipes
    <3>1. mem' = [Answering EXCEPT !.seen = SeenNow, !.of = wipes,
                                   !.ok = IF Fixture \in Unseen THEN clock ELSE @]
      BY <1>7 DEF PollOnline
    <3>2. Answering = [mem EXCEPT !.online = IF @ = Never THEN clock ELSE @, !.alerted = FALSE, !.last = clock]
      BY DEF Answering
    <3> QED
      BY <1>0, <3>1, <3>2 DEF Device
  <2> QED
    BY <1>0, <2>1, <2>2, <2>3, <2>4 DEF AllRead
<1>8. CASE RunCanary
  <2>1. /\ mem'.seen = mem.seen /\ mem'.of = mem.of /\ log'.captured = log.captured
        /\ file' = file \/ file' = Append(file, Fixture)
        /\ UNCHANGED <<saved, wipes, outgrown>>
    BY <1>8, CanarySteps
  <2>2. file' = file \/ \E line \in Quakes \cup {Fixture} : file' = Append(file, line)
    BY <2>1
  <2>3. /\ ~outgrown /\ mem.of = wipes =>
             /\ mem.seen <= Len(file')
             /\ \A i \in 1 .. mem.seen : file'[i] # Fixture => file'[i] \in log'.captured
        /\ ~outgrown /\ saved.of = wipes =>
             /\ saved.seen <= Len(file')
             /\ \A i \in 1 .. saved.seen : file'[i] # Fixture => file'[i] \in log'.captured
    BY <1>0, <2>1, <2>2, StillRead
  <2> QED
    BY <1>0, <2>1, <2>3 DEF AllRead, IsRead
<1> QED
  BY <1>1, <1>2, <1>3, <1>4, <1>5, <1>6, <1>7, <1>8 DEF Next, Loop

(* What the control's log has of a quake that no pair covers fails the      *)
(* receptor that missed it.                                                 *)
LEMMA CapturedFails ==
  ASSUME TypeOK, NEW q \in DOMAIN quakes, q \in log.captured, ~Paired(q), ~Retired(q)
  PROVE  Fails(q)
<1>1. Control(q) = "captured"
  BY DEF Control, MacCaptures
<1>2. quakes[q].miss \in Miss
  BY ControlFleetAssumption DEF TypeOK, Quake
<1>3. quakes[q].miss.aws \in {"covered", "down", "unknown"} /\ quakes[q].miss.partner = "none"
  BY <1>2 DEF Miss, Paired
<1>4. MissCause(q) \in {"DOWN", "CONTROL_CAPTURED"}
  BY <1>1, <1>3 DEF MissCause
<1> QED
  BY <1>4 DEF Fails, FailingCauses

LEMMA ReadIsKept ==
  ASSUME Typed, AllRead
  PROVE  NoCaptureLost
<1>0. TypeOK /\ IsRead(mem) /\ file \in Seq(Quakes \cup {Fixture})
  BY DEF Typed, TypeOK, AllRead
<1>1. ASSUME NEW q \in DOMAIN quakes, ~outgrown, mem.of = wipes, mem.seen = Len(file), Contains(file, q)
      PROVE  q \in log.captured
  <2>1. PICK i \in 1 .. Len(file) : file[i] = q
    BY <1>0, <1>1, InFile
  <2>2. q # Fixture
    BY <1>0, Constants DEF TypeOK
  <2>3. i \in 1 .. mem.seen
    BY <1>1
  <2> QED
    BY <1>0, <1>1, <2>1, <2>2, <2>3 DEF IsRead
<1> QED
  BY <1>0, <1>1, CapturedFails DEF NoCaptureLost

-----------------------------------------------------------------------------
(* The types of the lab's state and of its two files, over every death and  *)
(* restart.                                                                 *)
THEOREM ControlTyped == Spec => []TypeOK
<1>1. Spec => []Typed
  BY InitTyped, NextTyped, PTL DEF Spec
<1>2. Typed => TypeOK
  BY DEF Typed
<1> QED
  BY <1>1, <1>2, PTL

(* An alert in the part of the control's file that the lab has read is in   *)
(* its log, and fails the receptor that missed the quake, although the lab  *)
(* may die between writing its log and its state, and the file be wiped.    *)
THEOREM CapturesAreKept == Spec => []NoCaptureLost
<1>1. Init => Typed /\ AllRead
  BY InitTyped, InitRead
<1>2. Typed /\ AllRead /\ [Next]_vars => Typed' /\ AllRead'
  BY NextTyped, NextRead
<1>3. Typed /\ AllRead => NoCaptureLost
  BY ReadIsKept
<1> QED
  BY <1>1, <1>2, <1>3, PTL DEF Spec

-----------------------------------------------------------------------------
(* Since a loop first read the file of the dead listener, at t: no canary   *)
(* came back, and one posted late enough was told. It holds of what the lab *)
(* remembers, and of what a death goes back to.                             *)
LastOk(d) == IF d.ok # Never THEN d.ok ELSE d.online
NoneSince(d, t) ==
  /\ ~listens
  /\ LastOk(d) # Never /\ LastOk(d) <= t
  /\ file = <<>> \/ d.seen = Len(file)
RotaTold(at) == \E i \in DOMAIN log.told : log.told[i].what = "rota" /\ log.told[i].at = at
LateIsTold(d, t) ==
  d.fired # Never /\ d.fired > t + 2 * CanaryEvery /\ spoiled < d.fired => RotaTold(d.fired)
DeafSince(d, t) == t # Never => NoneSince(d, t) /\ LateIsTold(d, t)
FiredLately == pc \in {"save", "sleep"} => mem.fired # Never /\ clock - mem.fired < CanaryEvery
DeafIsTold == FiredLately /\ DeafSince(mem, deaf.mem) /\ DeafSince(saved, deaf.saved)

LEMMA InitDeaf == Init => DeafIsTold
BY DEF Init, DeafIsTold, DeafSince, HeardAll, FiredLately

LEMMA DeafFields ==
  ASSUME Typed
  PROVE  /\ {deaf.mem, deaf.saved} \subseteq Nat /\ spoiled \in Nat /\ clock \in Nat /\ clock # Never
         /\ CanaryEvery \in Nat /\ CanaryEvery > 0 /\ 2 * CanaryEvery \in Nat
         /\ mem \in Device /\ saved \in Device
         /\ {mem.online, mem.ok, mem.fired, mem.seen, saved.online, saved.ok, saved.fired} \subseteq Nat
         /\ Len(file) \in Nat /\ DOMAIN file = 1 .. Len(file) /\ Never' = Never
         /\ deaf = [mem |-> deaf.mem, saved |-> deaf.saved]
<1>1. TypeOK /\ mem \in Device /\ saved \in Device /\ file \in Seq(Quakes \cup {Fixture})
  BY DEF Typed, TypeOK
<1>2. /\ deaf \in [mem : Time \cup {Never}, saved : Time \cup {Never}] /\ spoiled \in Time
      /\ Time \cup {Never} \subseteq Nat
  BY <1>1, Numbers DEF TypeOK
<1> QED
  BY <1>1, <1>2, Numbers, Constants, DeviceFields DEF Never

(* What was told stays in the log.                                          *)
LEMMA StillTold ==
  ASSUME Typed, NEW at, RotaTold(at),
         \/ log'.told = log.told
         \/ \E what \in Told : log'.told = Tell(log.told, what)
  PROVE  \E i \in DOMAIN log'.told : log'.told[i].what = "rota" /\ log'.told[i].at = at
<1>1. TypeOK
  BY DEF Typed
<1>2. PICK i \in DOMAIN log.told : log.told[i].what = "rota" /\ log.told[i].at = at
  BY DEF RotaTold
<1>3. CASE log'.told = log.told
  BY <1>2, <1>3
<1>4. ASSUME NEW what \in Told, log'.told = Tell(log.told, what)
      PROVE  i \in DOMAIN log'.told /\ log'.told[i] = log.told[i]
  <2>1. i \in 1 .. Len(log.told) /\ Len(log.told) \in Nat
    BY <1>1, NoticeFields
  <2>2. /\ DOMAIN Tell(log.told, what) = 1 .. Len(log.told) + 1
        /\ \A j \in DOMAIN log.told : Tell(log.told, what)[j] = log.told[j]
    BY <1>1, OneMore
  <2>3. i \in 1 .. Len(log.told) + 1
    BY <2>1
  <2> QED
    BY <1>4, <2>2, <2>3
<1> QED
  BY <1>2, <1>3, <1>4

(* What the state file knows of the dead listener, in a step of the loop.   *)
LEMMA SavedStaysDeaf ==
  ASSUME Typed, AllInTime, DeafSince(saved, deaf.saved),
         UNCHANGED <<saved, clock, listens>>, deaf'.saved = deaf.saved,
         listens \/ file' = file, spoiled' \in {spoiled, clock},
         \/ log'.told = log.told
         \/ \E what \in Told : log'.told = Tell(log.told, what)
  PROVE  DeafSince(saved, deaf.saved)'
<1> SUFFICES ASSUME deaf.saved # Never PROVE NoneSince(saved, deaf.saved)' /\ LateIsTold(saved, deaf.saved)'
  BY DeafFields DEF DeafSince
<1>0. NoneSince(saved, deaf.saved) /\ LateIsTold(saved, deaf.saved)
  BY DEF DeafSince
<1>1. NoneSince(saved, deaf.saved)'
  BY <1>0, DeafFields DEF NoneSince, LastOk
<1>2. LateIsTold(saved, deaf.saved)'
  <2> SUFFICES ASSUME saved.fired # Never, saved.fired > deaf.saved + 2 * CanaryEvery, spoiled' < saved.fired
               PROVE  RotaTold(saved.fired)'
    BY DeafFields DEF LateIsTold
  <2>1. saved.fired <= clock
    BY DEF AllInTime, InTime, Past
  <2>2. spoiled' = spoiled
    BY <2>1, DeafFields
  <2>3. RotaTold(saved.fired)
    BY <1>0, <2>2 DEF LateIsTold
  <2>4. \E i \in DOMAIN log'.told : log'.told[i].what = "rota" /\ log'.told[i].at = saved.fired
    BY <2>3, StillTold
  <2> QED
    BY <2>4 DEF RotaTold
<1> QED
  BY <1>1, <1>2

(* What the lab remembers of it, when no canary came back and none is       *)
(* posted.                                                                  *)
LEMMA MemStaysDeaf ==
  ASSUME Typed, DeafSince(mem, deaf.mem), deaf.mem # Never, deaf'.mem = deaf.mem,
         UNCHANGED <<listens, file, spoiled>>, mem'.fired = mem.fired, LastOk(mem)' = LastOk(mem),
         mem'.seen \in {mem.seen, Len(file)},
         \/ log'.told = log.told
         \/ \E what \in Told : log'.told = Tell(log.told, what)
  PROVE  DeafSince(mem, deaf.mem)'
<1>0. NoneSince(mem, deaf.mem) /\ LateIsTold(mem, deaf.mem)
  BY DEF DeafSince
<1>1. NoneSince(mem, deaf.mem)'
  BY <1>0, DeafFields DEF NoneSince
<1>2. LateIsTold(mem, deaf.mem)'
  <2> SUFFICES ASSUME mem.fired # Never, mem.fired > deaf.mem + 2 * CanaryEvery, spoiled < mem.fired
               PROVE  RotaTold(mem.fired)'
    BY DeafFields DEF LateIsTold
  <2>1. RotaTold(mem.fired)
    BY <1>0 DEF LateIsTold
  <2>2. \E i \in DOMAIN log'.told : log'.told[i].what = "rota" /\ log'.told[i].at = mem.fired
    BY <2>1, StillTold
  <2> QED
    BY <2>2 DEF RotaTold
<1> QED
  BY <1>1, <1>2 DEF DeafSince

(* A poll: the file of a listener that was known to be dead holds nothing   *)
(* that was not counted.                                                    *)
LEMMA DeafPoll ==
  ASSUME Typed, AllInTime, AllInTime', DeafIsTold, PollOffline \/ PollOnline \/ PollUnread
  PROVE  DeafIsTold'
<1>1. /\ pc = "poll" /\ pc' = "canary" /\ mem' \in Device /\ mem'.fired = mem.fired /\ mem'.online # Never
      /\ mem'.online = IF mem.online = Never THEN clock ELSE mem.online
      /\ mem'.seen \in {mem.seen, Len(file)} /\ mem'.ok \in {mem.ok, clock}
      /\ deaf' \in {deaf, [deaf EXCEPT !.mem = clock]}
      /\ log'.told = log.told \/ \E what \in Told : log'.told = Tell(log.told, what)
      /\ UNCHANGED <<clock, listens, file, saved, spoiled>>
  <2>1. {"caido", "recuperado"} \subseteq Told
    BY DEF Told
  <2> QED
    BY <2>1, PollSteps
<1>2. DeafSince(mem, deaf.mem) /\ DeafSince(saved, deaf.saved)
  BY DEF DeafIsTold
<1>3. deaf'.saved = deaf.saved /\ deaf'.mem \in {deaf.mem, clock}
  BY <1>1, DeafFields
<1>4. DeafSince(saved, deaf.saved)'
  BY <1>1, <1>2, <1>3, SavedStaysDeaf
<1>5. CASE deaf.mem # Never
  <2>1. NoneSince(mem, deaf.mem)
    BY <1>2, <1>5 DEF DeafSince
  <2>2. ASSUME PollOnline PROVE Fixture \notin Unseen
    <3> SUFFICES ASSUME NEW i \in 1 .. Len(file), i >= FirstUnseen PROVE FALSE
      BY DeafFields DEF Unseen
    <3>1. mem.seen = Len(file)
      BY <2>1, DeafFields DEF NoneSince
    <3> QED
      BY <3>1, DeafFields DEF FirstUnseen
  <2>3. mem'.ok = mem.ok
    <3>1. Answering \in Device /\ Answering.ok = mem.ok
      <4>1. clock \in Time \cup {Never}
        BY Numbers DEF Typed
      <4> QED
        BY <4>1, DeafFields DEF Answering, Device
    <3>2. CASE PollOnline
      <4>1. mem' = [Answering EXCEPT !.seen = SeenNow, !.of = wipes,
                                     !.ok = IF Fixture \in Unseen THEN clock ELSE @]
        BY <3>2 DEF PollOnline
      <4> QED
        BY <2>2, <3>1, <3>2, <4>1 DEF Device
    <3>3. CASE PollUnread
      BY <3>1, <3>3 DEF PollUnread
    <3>4. CASE PollOffline
      <4>1. \E online, alerted : mem' = [mem EXCEPT !.online = online, !.alerted = alerted]
        BY <3>4, Zenon DEF PollOffline
      <4> QED
        BY <4>1, DeafFields DEF Device
    <3> QED
      BY <3>2, <3>3, <3>4
  <2>4. LastOk(mem)' = LastOk(mem)
    BY <1>1, <2>1, <2>3, DeafFields DEF LastOk, NoneSince
  <2>5. deaf'.mem = deaf.mem
    <3>1. CASE PollOnline
      BY <1>5, <3>1, DeafFields DEF PollOnline
    <3> QED
      BY <3>1 DEF PollOffline, PollUnread
  <2>6. DeafSince(mem, deaf.mem)'
    BY <1>1, <1>2, <1>5, <2>4, <2>5, MemStaysDeaf
  <2> QED
    BY <1>1, <1>4, <2>6 DEF DeafIsTold, FiredLately
<1>6. CASE deaf.mem = Never
  <2> SUFFICES ASSUME deaf'.mem # Never PROVE NoneSince(mem, deaf.mem)' /\ LateIsTold(mem, deaf.mem)'
    BY <1>1, <1>4, DeafFields DEF DeafIsTold, DeafSince, FiredLately
  <2>1. PollOnline
    BY <1>6 DEF PollOffline, PollUnread
  <2>2. ~listens /\ deaf'.mem = clock
    BY <1>6, <2>1, DeafFields DEF PollOnline
  <2>3. mem'.seen = Len(file)
    <3>1. Answering \in Device
      <4>1. clock \in Time \cup {Never}
        BY Numbers DEF Typed
      <4> QED
        BY <4>1, DeafFields DEF Answering, Device
    <3>2. mem' = [Answering EXCEPT !.seen = SeenNow, !.of = wipes,
                                   !.ok = IF Fixture \in Unseen THEN clock ELSE @]
      BY <2>1 DEF PollOnline
    <3> QED
      BY <3>1, <3>2 DEF SeenNow, Device
  <2>4. (mem'.ok # Never => mem'.ok <= clock) /\ mem'.online <= clock
    BY <1>1, DeafFields DEF AllInTime, InTime, Past
  <2>5. NoneSince(mem, deaf.mem)'
    BY <1>1, <2>2, <2>3, <2>4, DeafFields DEF NoneSince, LastOk
  <2>6. LateIsTold(mem, deaf.mem)'
    <3>1. mem.fired # Never => mem.fired <= clock
      BY DEF AllInTime, InTime, Past
    <3>2. mem.fired # Never => ~(mem.fired > clock + 2 * CanaryEvery)
      BY <3>1, DeafFields
    <3> QED
      BY <1>1, <2>2, <3>2, DeafFields DEF LateIsTold
  <2> QED
    BY <2>5, <2>6
<1> QED
  BY <1>5, <1>6

LEMMA DeafCanary ==
  ASSUME Typed, AllInTime, DeafIsTold, RunCanary
  PROVE  DeafIsTold'
<1>1. /\ pc = "canary" /\ pc' = "save"
      /\ \/ /\ mem.fired # Never /\ clock - mem.fired < CanaryEvery
            /\ UNCHANGED <<mem, file, log, spoiled>>
         \/ /\ mem'.fired = clock /\ UNCHANGED spoiled
            /\ IF Broken(mem) THEN log'.told = Tell(log.told, "rota") ELSE log' = log
         \/ /\ mem'.fired = clock /\ log' = log
            /\ spoiled' = IF listens THEN spoiled ELSE clock
      /\ listens \/ file' = file
      /\ mem'.online = mem.online /\ mem'.ok = mem.ok /\ mem'.seen = mem.seen
      /\ UNCHANGED <<clock, listens, saved, deaf>>
  BY CanarySteps
<1>2. FiredLately'
  BY <1>1, DeafFields DEF FiredLately
<1>3. DeafSince(saved, deaf.saved)'
  <2>1. log'.told = log.told \/ \E what \in Told : log'.told = Tell(log.told, what)
    BY <1>1 DEF Told
  <2>2. spoiled' \in {spoiled, clock}
    BY <1>1
  <2> QED
    BY <1>1, <2>1, <2>2, SavedStaysDeaf DEF DeafIsTold
<1>4. ASSUME deaf.mem # Never PROVE NoneSince(mem, deaf.mem)' /\ LateIsTold(mem, deaf.mem)'
  <2>1. NoneSince(mem, deaf.mem) /\ LateIsTold(mem, deaf.mem) /\ ~listens
    BY <1>4 DEF DeafIsTold, DeafSince, NoneSince
  <2>2. LastOk(mem)' = LastOk(mem)
    BY <1>1, DeafFields DEF LastOk
  <2>3. NoneSince(mem, deaf.mem)'
    BY <1>1, <2>1, <2>2, DeafFields DEF NoneSince
  <2>4. CASE UNCHANGED <<mem, file, log, spoiled>>
    BY <1>1, <2>1, <2>3, <2>4, DeafFields DEF LateIsTold, RotaTold
  <2>5. CASE mem'.fired = clock /\ spoiled' = clock
    BY <2>3, <2>5, DeafFields DEF LateIsTold
  <2>6. CASE mem'.fired = clock /\ IF Broken(mem) THEN log'.told = Tell(log.told, "rota") ELSE log' = log
    <3> SUFFICES ASSUME clock > deaf.mem + 2 * CanaryEvery PROVE RotaTold(mem.fired)'
      BY <1>1, <2>3, <2>6, DeafFields DEF LateIsTold
    <3>1. clock - LastOk(mem) > 2 * CanaryEvery
      <4>1. LastOk(mem) <= deaf.mem /\ LastOk(mem) \in Nat
        BY <2>1, DeafFields DEF NoneSince, LastOk
      <4> QED
        BY <4>1, DeafFields
    <3>2. log'.told = Tell(log.told, "rota")
      BY <2>6, <3>1 DEF Broken, LastOk
    <3>3. /\ Len(log.told) + 1 \in DOMAIN log'.told
          /\ log'.told[Len(log.told) + 1] = [what |-> "rota", at |-> clock]
      BY <3>2, OneMore DEF Told, Typed
    <3> QED
      BY <2>6, <3>3 DEF RotaTold
  <2> QED
    BY <1>1, <2>1, <2>3, <2>4, <2>5, <2>6
<1> QED
  BY <1>1, <1>2, <1>3, <1>4, DeafFields DEF DeafIsTold, DeafSince

LEMMA NextDeaf ==
  Typed /\ AllInTime /\ AllInTime' /\ DeafIsTold /\ [Next]_vars => DeafIsTold'
<1> SUFFICES ASSUME Typed, AllInTime, AllInTime', DeafIsTold, [Next]_vars PROVE DeafIsTold'
  OBVIOUS
<1>1. ASSUME UNCHANGED <<listens, mem, saved, spoiled, deaf>>, log'.told = log.told,
             listens \/ file' = file \/ file' = <<>>, pc' \in {"off", "poll"} \/ UNCHANGED <<pc, clock>>
      PROVE  DeafIsTold'
  <2>1. FiredLately'
    BY <1>1, DeafFields DEF DeafIsTold, FiredLately
  <2>2. DeafSince(mem, deaf.mem)'
    BY <1>1, DeafFields DEF DeafIsTold, DeafSince, NoneSince, LateIsTold, LastOk, RotaTold
  <2>3. DeafSince(saved, deaf.saved)'
    BY <1>1, DeafFields DEF DeafIsTold, DeafSince, NoneSince, LateIsTold, LastOk, RotaTold
  <2> QED
    BY <2>1, <2>2, <2>3 DEF DeafIsTold
<1>2. ASSUME NEW q \in Quakes, QuakeHappens(q) PROVE DeafIsTold'
  <2>1. UNCHANGED <<clock, listens, mem, saved, pc, log, deaf, spoiled>> /\ (listens \/ file' = file)
    BY <1>2 DEF QuakeHappens
  <2> QED
    BY <1>1, <2>1
<1>3. CASE ControlTurns \/ Wipe \/ UNCHANGED vars
  BY <1>1, <1>3 DEF ControlTurns, Wipe, vars
<1>4. CASE Tick \/ Start
  BY <1>1, <1>4 DEF Tick, Start
<1>5. CASE ListenerTurns
  <2>1. deaf' = HeardAll /\ UNCHANGED <<pc, clock, mem>>
    BY <1>5 DEF ListenerTurns
  <2> QED
    BY <2>1, DeafFields DEF DeafIsTold, DeafSince, FiredLately, HeardAll
<1>6. CASE Die
  <2>1. /\ pc' = "off" /\ mem' = saved /\ deaf'.mem = deaf.saved /\ deaf'.saved = deaf.saved
        /\ UNCHANGED <<listens, file, saved, log, spoiled>>
    BY <1>6, DeafFields DEF Die
  <2> QED
    BY <2>1, DeafFields DEF DeafIsTold, DeafSince, FiredLately, NoneSince, LateIsTold, LastOk, RotaTold
<1>7. CASE Save
  <2>1. /\ pc = "save" /\ pc' = "sleep" /\ saved' = mem /\ deaf'.mem = deaf.mem /\ deaf'.saved = deaf.mem
        /\ UNCHANGED <<clock, listens, file, mem, log, spoiled>>
    BY <1>7, DeafFields DEF Save
  <2> QED
    BY <2>1, DeafFields DEF DeafIsTold, DeafSince, FiredLately, NoneSince, LateIsTold, LastOk, RotaTold
<1> QED
  BY <1>2, <1>3, <1>4, <1>5, <1>6, <1>7, DeafPoll, DeafCanary DEF Next, Loop

LEMMA DeafTold == Typed /\ DeafIsTold => DeadListenerIsTold
<1> SUFFICES ASSUME Typed, DeafIsTold, pc \in {"save", "sleep"}, spoiled + CanaryEvery <= clock,
                    deaf.mem # Never, deaf.mem + 3 * CanaryEvery <= clock
             PROVE  \E i \in DOMAIN log.told : log.told[i].what = "rota" /\ log.told[i].at + CanaryEvery > clock
  BY DEF DeadListenerIsTold
<1>1. mem.fired # Never /\ clock - mem.fired < CanaryEvery
  BY DEF DeafIsTold, FiredLately
<1>2. \A c, d, e, f, s \in Nat :
        d + 3 * e <= c /\ s + e <= c /\ c - f < e => f > d + 2 * e /\ s < f /\ f + e > c
  OBVIOUS
<1>3. mem.fired > deaf.mem + 2 * CanaryEvery /\ spoiled < mem.fired /\ mem.fired + CanaryEvery > clock
  BY <1>1, <1>2, DeafFields
<1>4. RotaTold(mem.fired)
  BY <1>1, <1>3 DEF DeafIsTold, DeafSince, LateIsTold
<1> QED
  BY <1>3, <1>4 DEF RotaTold

(* A listener that stopped is told within three canaries of the first time  *)
(* that its file was read, whatever fails after, if no canary was spoiled   *)
(* of late: for every period of the canary.                                 *)
THEOREM DeafListenersAreTold == Spec => []DeadListenerIsTold
<1>1. Init => Typed /\ AllInTime /\ DeafIsTold
  BY InitTyped, InitInTime, InitDeaf
<1>2. Typed /\ AllInTime /\ DeafIsTold /\ [Next]_vars => Typed' /\ AllInTime' /\ DeafIsTold'
  BY NextTyped, NextInTime, NextDeaf
<1>3. Typed /\ DeafIsTold => DeadListenerIsTold
  BY DeafTold
<1> QED
  BY <1>1, <1>2, <1>3, PTL DEF Spec

-----------------------------------------------------------------------------
(* An outage that is known as told, and was not interrupted, is the last    *)
(* thing told but for deaf listeners; one longer than Stale is known.       *)
Absent(from, to) == \E t \in away : from <= t /\ t <= to
EndsDown ==
  \E i \in DOMAIN log.told :
    /\ log.told[i].what = "caido"
    /\ \A j \in DOMAIN log.told : j > i => log.told[j].what = "rota"
AlertedIsTold == mem.alerted /\ mem.last # Never /\ ~Absent(mem.last, clock) => EndsDown
LongIsAlerted ==
  pc \in {"canary", "save", "sleep"} /\ mem.last # Never /\ clock - mem.last > Stale => mem.alerted
OutageTold == AlertedIsTold /\ LongIsAlerted

LEMMA InitOutage == Init => OutageTold
BY DEF Init, OutageTold, AlertedIsTold, LongIsAlerted, NewDevice

(* The new notice is the last one, and those before it are where they were. *)
LEMMA ToldAtEnd ==
  ASSUME Typed, NEW what \in Told, log'.told = Tell(log.told, what)
  PROVE  LET n == Len(log.told) + 1
         IN /\ n \in Nat /\ DOMAIN log'.told = DOMAIN log.told \cup {n}
            /\ log'.told[n].what = what /\ log'.told[n].at = clock
            /\ \A i \in DOMAIN log.told : i \in Nat /\ i < n /\ log'.told[i] = log.told[i]
<1> DEFINE told == log.told
<1>1. TypeOK
  BY DEF Typed
<1>2. /\ Len(told) \in Nat /\ DOMAIN told = 1 .. Len(told)
      /\ DOMAIN log'.told = 1 .. Len(told) + 1
      /\ \A i \in DOMAIN told : log'.told[i] = told[i]
      /\ log'.told[Len(told) + 1] = [what |-> what, at |-> clock]
  BY <1>1, OneMore
<1>3. \A n \in Nat : 1 .. n + 1 = (1 .. n) \cup {n + 1} /\ \A i \in 1 .. n : i \in Nat /\ i < n + 1
  OBVIOUS
<1> QED
  BY <1>2, <1>3

LEMMA StillDown ==
  ASSUME Typed, EndsDown, log'.told = log.told \/ log'.told = Tell(log.told, "rota")
  PROVE  EndsDown'
<1>1. PICK i \in DOMAIN log.told :
        /\ log.told[i].what = "caido"
        /\ \A j \in DOMAIN log.told : j > i => log.told[j].what = "rota"
  BY DEF EndsDown
<1>2. CASE log'.told = log.told
  BY <1>1, <1>2 DEF EndsDown
<1>3. CASE log'.told = Tell(log.told, "rota")
  <2>1. /\ DOMAIN log'.told = DOMAIN log.told \cup {Len(log.told) + 1}
        /\ log'.told[Len(log.told) + 1].what = "rota"
        /\ \A j \in DOMAIN log.told : log'.told[j] = log.told[j]
    BY <1>3, ToldAtEnd DEF Told
  <2>2. i \in DOMAIN log'.told /\ log'.told[i].what = "caido"
    BY <1>1, <2>1
  <2>3. \A j \in DOMAIN log'.told : j > i => log'.told[j].what = "rota"
    BY <1>1, <2>1
  <2> QED
    BY <2>2, <2>3 DEF EndsDown
<1> QED
  BY <1>2, <1>3

LEMMA NextOutage == Typed /\ AllInTime /\ OutageTold /\ [Next]_vars => OutageTold'
<1> SUFFICES ASSUME Typed, AllInTime, OutageTold, [Next]_vars PROVE OutageTold'
  OBVIOUS
<1>0. /\ TypeOK /\ clock \in Nat /\ clock # Never /\ Never' = Never /\ Stale \in Nat
      /\ mem \in Device /\ mem.last \in Nat /\ saved.last \in Nat /\ away \subseteq Nat
      /\ AlertedIsTold /\ LongIsAlerted /\ mem.alerted \in BOOLEAN
  <2>1. TypeOK /\ mem \in Device /\ saved \in Device /\ away \subseteq Time
    BY DEF Typed, TypeOK
  <2> QED
    BY <2>1, Numbers, Constants, DeviceFields DEF Never, OutageTold
<1>1. ASSUME UNCHANGED <<clock, mem, log, away>>, pc' = pc \/ pc' \in {"poll", "off"} \/ pc = "save"
      PROVE  OutageTold'
  <2>1. AlertedIsTold'
    BY <1>0, <1>1 DEF AlertedIsTold, EndsDown, Absent
  <2>2. LongIsAlerted'
    BY <1>0, <1>1 DEF LongIsAlerted
  <2> QED
    BY <2>1, <2>2 DEF OutageTold
<1>2. CASE ControlTurns \/ ListenerTurns \/ Wipe \/ Start \/ Save \/ UNCHANGED vars
  BY <1>1, <1>2 DEF ControlTurns, ListenerTurns, Wipe, Start, Save, vars
<1>3. ASSUME NEW q \in Quakes, QuakeHappens(q) PROVE OutageTold'
  BY <1>1, <1>3 DEF QuakeHappens
<1>4. CASE Tick
  <2>1. /\ clock' = clock + 1 /\ pc' \in {"off", "poll"} /\ away \subseteq away'
        /\ UNCHANGED <<mem, log>>
    BY <1>4 DEF Tick
  <2>2. Absent(mem.last, clock) => Absent(mem.last, clock)'
    <3>1. \A t \in Nat : t <= clock => t <= clock'
      BY <1>0, <2>1
    <3> QED
      BY <1>0, <2>1, <3>1 DEF Absent
  <2>3. AlertedIsTold'
    BY <1>0, <2>1, <2>2 DEF AlertedIsTold, EndsDown
  <2>4. LongIsAlerted'
    BY <2>1 DEF LongIsAlerted
  <2> QED
    BY <2>3, <2>4 DEF OutageTold
<1>5. CASE Die
  <2>1. pc' = "off" /\ mem' = saved /\ away' = away \cup {clock} /\ clock' = clock
    BY <1>5 DEF Die
  <2>2. saved.last # Never => saved.last <= clock
    BY DEF AllInTime, InTime, Past
  <2>3. saved.last # Never => Absent(mem.last, clock)'
    BY <1>0, <2>1, <2>2 DEF Absent
  <2>4. AlertedIsTold'
    BY <1>0, <2>1, <2>3 DEF AlertedIsTold
  <2>5. LongIsAlerted'
    BY <2>1 DEF LongIsAlerted
  <2> QED
    BY <2>4, <2>5 DEF OutageTold
<1>6. CASE PollOffline
  <2> DEFINE caido == mem.last # Never /\ clock - mem.last > Stale /\ ~mem.alerted
  <2>1. /\ pc' = "canary" /\ UNCHANGED <<clock, away>>
        /\ mem'.last = mem.last /\ mem'.alerted = (mem.alerted \/ caido)
        /\ log' = IF caido THEN [log EXCEPT !.told = Tell(@, "caido")] ELSE log
    <3>1. mem' = [mem EXCEPT !.online = IF mem.online = Never THEN clock ELSE mem.online,
                             !.alerted = @ \/ caido]
      BY <1>6 DEF PollOffline
    <3>2. mem'.last = mem.last /\ mem'.alerted = (mem.alerted \/ caido)
      BY <1>0, <3>1 DEF Device
    <3> QED
      BY <1>6, <3>2 DEF PollOffline
  <2>2. AlertedIsTold'
    <3> SUFFICES ASSUME mem'.alerted, mem'.last # Never, ~Absent(mem.last, clock)'
                 PROVE  EndsDown'
      BY <1>0 DEF AlertedIsTold
    <3>1. CASE caido
      <4>1. log = [captured |-> log.captured, told |-> log.told]
        BY DEF Typed, Log
      <4>2. log'.told = Tell(log.told, "caido")
        BY <2>1, <3>1, <4>1
      <4>3. /\ Len(log.told) + 1 \in DOMAIN log'.told
            /\ log'.told[Len(log.told) + 1].what = "caido"
            /\ \A j \in DOMAIN log'.told : j \in Nat /\ j <= Len(log.told) + 1
        <5>1. Len(log.told) + 1 \in Nat
          BY <4>2, ToldAtEnd DEF Told
        <5> QED
          BY <4>2, <5>1, ToldAtEnd DEF Told
      <4>4. Len(log.told) + 1 \in Nat
        BY <4>2, ToldAtEnd DEF Told
      <4>5. \A j \in DOMAIN log'.told : ~(j > Len(log.told) + 1)
        BY <4>3, <4>4
      <4> QED
        BY <4>3, <4>5 DEF EndsDown
    <3>2. CASE ~caido
      <4>1. log' = log /\ mem.alerted /\ mem.last # Never /\ ~Absent(mem.last, clock)
        BY <1>0, <2>1, <3>2 DEF Absent
      <4> QED
        BY <1>0, <4>1 DEF AlertedIsTold, EndsDown
    <3> QED
      BY <3>1, <3>2
  <2>3. LongIsAlerted'
    BY <1>0, <2>1 DEF LongIsAlerted
  <2> QED
    BY <2>2, <2>3 DEF OutageTold
<1>7. CASE PollOnline \/ PollUnread
  <2>1. ~mem'.alerted /\ mem'.last = clock /\ clock' = clock
    <3>1. clock \in Time \cup {Never}
      BY <1>0, Numbers
    <3>2. Answering \in Device /\ Answering.alerted = FALSE /\ Answering.last = clock
      BY <1>0, <3>1 DEF Answering, Device
    <3>3. CASE PollUnread
      BY <3>2, <3>3 DEF PollUnread
    <3>4. CASE PollOnline
      <4>1. mem' = [Answering EXCEPT !.seen = SeenNow, !.of = wipes,
                                     !.ok = IF Fixture \in Unseen THEN clock ELSE @]
        BY <3>4 DEF PollOnline
      <4>2. mem'.alerted = FALSE /\ mem'.last = clock
        BY <3>2, <4>1 DEF Device
      <4> QED
        BY <3>4, <4>2 DEF PollOnline
    <3> QED
      BY <1>7, <3>3, <3>4 DEF PollUnread
  <2>2. ~(clock' - mem'.last > Stale)
    BY <1>0, <2>1
  <2> QED
    BY <2>1, <2>2 DEF OutageTold, AlertedIsTold, LongIsAlerted
<1>8. CASE RunCanary
  <2>1. /\ pc = "canary" /\ mem'.last = mem.last /\ mem'.alerted = mem.alerted /\ UNCHANGED <<clock, away>>
        /\ log'.told = log.told \/ log'.told = Tell(log.told, "rota")
    BY <1>8, CanarySteps
  <2>2. EndsDown => EndsDown'
    BY <2>1, StillDown
  <2>3. AlertedIsTold'
    BY <1>0, <2>1, <2>2 DEF AlertedIsTold, Absent
  <2>4. LongIsAlerted'
    BY <1>0, <2>1 DEF LongIsAlerted
  <2> QED
    BY <2>3, <2>4 DEF OutageTold
<1> QED
  BY <1>2, <1>3, <1>4, <1>5, <1>6, <1>7, <1>8 DEF Next, Loop

-----------------------------------------------------------------------------
(* The outage i of the log began before t and ended after it, or goes on    *)
(* and is known, so it is not told again.                                   *)
Back(i) == {j \in DOMAIN log.told : j > i /\ log.told[j].what = "recuperado"}
OnceDown(i) == \A j \in DOMAIN log.told : j > i /\ log.told[j].what = "caido" => \E k \in Back(i) : k < j
Spans(i, t) ==
  /\ i \in DOMAIN log.told
  /\ log.told[i].what = "caido" /\ log.told[i].at <= t
  /\ \A j \in Back(i) : t <= log.told[j].at
  /\ OnceDown(i)
  /\ Back(i) = {} => mem.alerted /\ saved.alerted

(* A quake while the control was gone for longer than Stale, the lab being  *)
(* there all the while, lies in an outage of the log.                       *)
Unheard(q) ==
  /\ quakes[q].heard # Never /\ quakes[q].at - quakes[q].heard > Stale
  /\ ~Absent(quakes[q].heard, quakes[q].at)
UnheardIsTold == \A q \in DOMAIN quakes : Unheard(q) => \E i : Spans(i, quakes[q].at)

LEMMA InitUnheard == Init => UnheardIsTold
BY DEF Init, UnheardIsTold

(* An outage still spans t after a step that tells nothing, and after one   *)
(* that tells a return not before t, an outage after a return, or a deaf    *)
(* listener.                                                                *)
LEMMA SameSpan ==
  ASSUME NEW i, NEW t, Spans(i, t), log'.told = log.told,
         Back(i) = {} => mem'.alerted /\ saved'.alerted
  PROVE  Spans(i, t)'
BY DEF Spans, Back, OnceDown

LEMMA OneMoreSpan ==
  ASSUME Typed, NEW i, NEW t, Spans(i, t), NEW what \in Told, log'.told = Tell(log.told, what),
         what = "caido" => Back(i) # {},
         what = "recuperado" => t <= clock,
         Back(i) = {} /\ what # "recuperado" => mem'.alerted /\ saved'.alerted
  PROVE  Spans(i, t)'
<1> DEFINE n == Len(log.told) + 1
<1>1. /\ n \in Nat /\ DOMAIN log'.told = DOMAIN log.told \cup {n}
      /\ log'.told[n].what = what /\ log'.told[n].at = clock
      /\ \A j \in DOMAIN log.told : j \in Nat /\ j < n /\ log'.told[j] = log.told[j]
  BY ToldAtEnd
<1> HIDE DEF n
<1>2. i \in DOMAIN log.told /\ i \in Nat /\ n > i
  BY <1>1 DEF Spans
<1>3. Back(i)' = IF what = "recuperado" THEN Back(i) \cup {n} ELSE Back(i)
  BY <1>1, <1>2 DEF Back
<1>4. log'.told[i].what = "caido" /\ log'.told[i].at <= t
  BY <1>1, <1>2 DEF Spans
<1>5. \A j \in Back(i)' : t <= log'.told[j].at
  <2>1. \A j \in Back(i) : j \in DOMAIN log.told /\ t <= log.told[j].at
    BY DEF Spans, Back
  <2> QED
    BY <1>1, <1>3, <2>1
<1>6. \A j \in DOMAIN log'.told : j > i /\ log'.told[j].what = "caido" => \E k \in Back(i)' : k < j
  <2> SUFFICES ASSUME NEW j \in DOMAIN log'.told, j > i, log'.told[j].what = "caido"
               PROVE  \E k \in Back(i)' : k < j
    OBVIOUS
  <2>1. CASE j \in DOMAIN log.told
    <3>1. log.told[j].what = "caido"
      BY <1>1, <2>1
    <3> QED
      BY <1>3, <2>1, <3>1 DEF Spans, OnceDown
  <2>2. CASE j = n
    <3>1. PICK k \in Back(i) : TRUE
      BY <1>1, <2>2
    <3>2. k \in DOMAIN log.told
      BY DEF Back
    <3> QED
      BY <1>1, <1>3, <2>2, <3>1, <3>2
  <2> QED
    BY <1>1, <2>1, <2>2
<1>7. Back(i)' = {} => mem'.alerted /\ saved'.alerted
  BY <1>3
<1> QED
  BY <1>1, <1>2, <1>4, <1>5, <1>6, <1>7 DEF Spans, OnceDown

(* The quakes of before a step that lets the lab be away longer at most.    *)
LEMMA StillUnheard ==
  ASSUME quakes' = quakes, away \subseteq away',
         \A i, t : Spans(i, t) /\ t <= clock => Spans(i, t)',
         AllInTime, UnheardIsTold
  PROVE  UnheardIsTold'
<1> SUFFICES ASSUME NEW q \in DOMAIN quakes, Unheard(q)'
             PROVE  \E i : Spans(i, quakes[q].at)'
  BY DEF UnheardIsTold
<1>1. Unheard(q)
  BY DEF Unheard, Absent, Never
<1>2. PICK i : Spans(i, quakes[q].at)
  BY <1>1 DEF UnheardIsTold
<1>3. quakes[q].at <= clock
  BY DEF AllInTime
<1> QED
  BY <1>2, <1>3

(* A new quake: the control is there, or the outage is known.               *)
LEMMA NewUnheard ==
  ASSUME Typed, AllInTime, OutageTold, UnheardIsTold, NEW q \in Quakes, QuakeHappens(q)
  PROVE  UnheardIsTold'
<1>0. /\ TypeOK /\ clock \in Nat /\ clock # Never /\ Never' = Never /\ Stale \in Nat
      /\ mem.last \in Nat /\ mem.alerted \in BOOLEAN
  <2>1. TypeOK /\ mem \in Device
    BY DEF Typed, TypeOK
  <2> QED
    BY <2>1, Numbers, Constants, DeviceFields DEF Never
<1>1. /\ UNCHANGED <<clock, mem, saved, log, away>> /\ pc \in {"sleep", "off"}
      /\ DOMAIN quakes' = DOMAIN quakes \cup {q}
      /\ quakes'[q].at = clock /\ quakes'[q].heard = IF up THEN clock ELSE mem.last
      /\ \A p \in DOMAIN quakes : p # q => quakes'[p] = quakes[p]
      /\ q \notin DOMAIN quakes
  BY DEF QuakeHappens, Idle
<1>2. \A i, t : Spans(i, t) => Spans(i, t)'
  BY <1>1 DEF Spans, Back, OnceDown
<1>3. ASSUME NEW p \in DOMAIN quakes, Unheard(p)'
      PROVE  \E i : Spans(i, quakes[p].at)'
  <2>1. quakes'[p] = quakes[p]
    BY <1>1
  <2>2. Unheard(p)
    BY <1>1, <1>3, <2>1 DEF Unheard, Absent, Never
  <2>3. PICK i : Spans(i, quakes[p].at)
    BY <2>2 DEF UnheardIsTold
  <2>4. Spans(i, quakes[p].at)'
    BY <1>1, <2>1, <2>3 DEF Spans, Back, OnceDown
  <2> QED
    BY <2>4
<1>4. ASSUME Unheard(q)' PROVE \E i : Spans(i, quakes[q].at)'
  <2>1. ~up /\ mem.last # Never /\ clock - mem.last > Stale /\ ~Absent(mem.last, clock)
    <3>1. /\ quakes'[q].heard # Never /\ clock - quakes'[q].heard > Stale
          /\ ~Absent(quakes'[q].heard, clock)
      BY <1>0, <1>1, <1>4 DEF Unheard, Absent
    <3>2. ~(clock - clock > Stale)
      BY <1>0
    <3>3. ~up
      BY <1>1, <3>1, <3>2
    <3> QED
      BY <1>1, <3>1, <3>3
  <2>2. pc = "sleep" /\ saved = mem
    <3>1. mem.last <= clock
      BY <2>1 DEF AllInTime, InTime, Past
    <3>2. clock \notin away
      BY <1>0, <2>1, <3>1 DEF Absent
    <3> QED
      BY <1>1, <3>2 DEF AllInTime
  <2>3. mem.alerted
    BY <2>1, <2>2 DEF OutageTold, LongIsAlerted
  <2>4. PICK i \in DOMAIN log.told :
          /\ log.told[i].what = "caido"
          /\ \A j \in DOMAIN log.told : j > i => log.told[j].what = "rota"
    BY <2>1, <2>3 DEF OutageTold, AlertedIsTold, EndsDown
  <2>5. Back(i) = {} /\ OnceDown(i)
    BY <2>4 DEF Back, OnceDown
  <2>6. log.told[i].at <= clock
    BY DEF AllInTime
  <2>7. Spans(i, clock)
    BY <2>2, <2>3, <2>4, <2>5, <2>6 DEF Spans
  <2>8. Spans(i, quakes[q].at)'
    BY <1>1, <2>7 DEF Spans, Back, OnceDown
  <2> QED
    BY <2>8
<1> QED
  BY <1>1, <1>3, <1>4 DEF UnheardIsTold

LEMMA NextUnheard ==
  Typed /\ AllInTime /\ OutageTold /\ UnheardIsTold /\ [Next]_vars => UnheardIsTold'
<1> SUFFICES ASSUME Typed, AllInTime, OutageTold, UnheardIsTold, [Next]_vars PROVE UnheardIsTold'
  OBVIOUS
<1>0. /\ mem \in Device /\ saved \in Device /\ clock \in Nat /\ mem.alerted \in BOOLEAN
      /\ log = [captured |-> log.captured, told |-> log.told]
  <2>1. TypeOK /\ mem \in Device /\ saved \in Device
    BY DEF Typed, TypeOK
  <2>2. log = [captured |-> log.captured, told |-> log.told]
    BY DEF Typed, Log
  <2> QED
    BY <2>1, <2>2, Numbers, DeviceFields
<1>1. CASE ControlTurns \/ ListenerTurns \/ Wipe \/ Start \/ Tick \/ UNCHANGED vars
  <2>1. UNCHANGED <<quakes, mem, saved, log>> /\ away \subseteq away'
    BY <1>1 DEF ControlTurns, ListenerTurns, Wipe, Start, Tick, vars
  <2>2. \A i, t : Spans(i, t) => Spans(i, t)'
    BY <2>1 DEF Spans, Back, OnceDown
  <2> QED
    BY <2>1, <2>2, StillUnheard
<1>2. CASE Die
  <2>1. /\ UNCHANGED <<quakes, saved, log>> /\ away \subseteq away' /\ mem' = saved
    BY <1>2 DEF Die
  <2>2. \A i, t : Spans(i, t) => Spans(i, t)'
    BY <2>1 DEF Spans, Back, OnceDown
  <2> QED
    BY <2>1, <2>2, StillUnheard
<1>3. CASE Save
  <2>1. /\ UNCHANGED <<quakes, mem, log, away>> /\ saved' = mem
    BY <1>3 DEF Save
  <2>2. \A i, t : Spans(i, t) => Spans(i, t)'
    BY <2>1 DEF Spans, Back, OnceDown
  <2> QED
    BY <2>1, <2>2, StillUnheard
<1>4. CASE PollOffline
  <2> DEFINE caido == mem.last # Never /\ clock - mem.last > Stale /\ ~mem.alerted
  <2>1. /\ UNCHANGED <<quakes, saved, away>> /\ mem'.alerted = (mem.alerted \/ caido)
        /\ log' = IF caido THEN [log EXCEPT !.told = Tell(@, "caido")] ELSE log
    <3>1. mem' = [mem EXCEPT !.online = IF mem.online = Never THEN clock ELSE mem.online,
                             !.alerted = @ \/ caido]
      BY <1>4 DEF PollOffline
    <3>2. mem'.alerted = (mem.alerted \/ caido)
      BY <1>0, <3>1 DEF Device
    <3> QED
      BY <1>4, <3>2 DEF PollOffline
  <2>2. ASSUME NEW i, NEW t, Spans(i, t) PROVE Spans(i, t)'
    <3>1. CASE caido
      <4>1. log'.told = Tell(log.told, "caido") /\ "caido" \in Told
        BY <1>0, <2>1, <3>1 DEF Told
      <4>2. Back(i) # {}
        BY <2>2, <3>1 DEF Spans
      <4> QED
        BY <2>2, <4>1, <4>2, OneMoreSpan
    <3>2. CASE ~caido
      <4>1. log'.told = log.told /\ mem'.alerted = mem.alerted
        BY <1>0, <2>1, <3>2
      <4>2. Back(i) = {} => mem'.alerted /\ saved'.alerted
        BY <2>1, <2>2, <4>1 DEF Spans
      <4> QED
        BY <2>2, <4>1, <4>2, SameSpan
    <3> QED
      BY <3>1, <3>2
  <2> QED
    BY <2>1, <2>2, StillUnheard
<1>5. CASE PollOnline \/ PollUnread
  <2>1. UNCHANGED <<quakes, saved, away, clock>> /\ log'.told = TellBack
    <3>1. CASE PollUnread
      BY <1>0, <3>1 DEF PollUnread
    <3>2. CASE PollOnline
      BY <3>2 DEF PollOnline
    <3> QED
      BY <1>5, <3>1, <3>2
  <2>2. ASSUME NEW i, NEW t, Spans(i, t), t <= clock PROVE Spans(i, t)'
    <3>1. CASE mem.alerted
      <4>1. log'.told = Tell(log.told, "recuperado") /\ "recuperado" \in Told
        BY <2>1, <3>1 DEF TellBack, Told
      <4> QED
        BY <2>2, <4>1, OneMoreSpan
    <3>2. CASE ~mem.alerted
      <4>1. log'.told = log.told /\ Back(i) # {}
        BY <2>1, <2>2, <3>2 DEF TellBack, Spans
      <4> QED
        BY <2>2, <4>1, SameSpan
    <3> QED
      BY <3>1, <3>2
  <2> QED
    BY <2>1, <2>2, StillUnheard
<1>6. CASE RunCanary
  <2>1. /\ UNCHANGED <<quakes, saved, away>> /\ mem'.alerted = mem.alerted
        /\ log'.told = log.told \/ log'.told = Tell(log.told, "rota")
    BY <1>6, CanarySteps
  <2>2. ASSUME NEW i, NEW t, Spans(i, t) PROVE Spans(i, t)'
    <3>1. Back(i) = {} => mem'.alerted /\ saved'.alerted
      BY <2>1, <2>2 DEF Spans
    <3>2. CASE log'.told = log.told
      BY <2>2, <3>1, <3>2, SameSpan
    <3>3. CASE log'.told = Tell(log.told, "rota")
      BY <2>2, <3>1, <3>3, OneMoreSpan DEF Told
    <3> QED
      BY <2>1, <3>2, <3>3
  <2> QED
    BY <2>1, <2>2, StillUnheard
<1>7. ASSUME NEW q \in Quakes, QuakeHappens(q) PROVE UnheardIsTold'
  BY <1>7, NewUnheard
<1> QED
  BY <1>1, <1>2, <1>3, <1>4, <1>5, <1>6, <1>7 DEF Next, Loop

(* An outage that spans t is one of the certifier's intervals, and has t.   *)
LEMMA SpanIsDown ==
  ASSUME TypeOK, NEW t \in Time, NEW i, Spans(i, t)
  PROVE  \E d \in DownIntervals : d.from <= t /\ t <= d.to
<1> DEFINE told == log.told
           isDown(j) == told[j].what = "caido"
           back(j) == {k \in DOMAIN told : k > j /\ told[k].what = "recuperado"}
           last(j) == ~\E k \in DOMAIN told : /\ k > j /\ isDown(k)
                                              /\ \A m \in back(j) : m > k
           interval(j) == [from |-> told[j].at, to |-> IF back(j) = {} THEN Never ELSE told[Min(back(j))].at]
<1>0. i \in DOMAIN told /\ isDown(i) /\ told[i].at <= t /\ DOMAIN told \subseteq Nat
  BY NoticeFields DEF Spans
<1>1. back(i) = Back(i)
  BY DEF Back
<1>2. last(i)
  <2> SUFFICES ASSUME NEW k \in DOMAIN told, k > i, isDown(k), \A m \in back(i) : m > k
               PROVE  FALSE
    OBVIOUS
  <2>1. PICK m \in Back(i) : m < k
    BY DEF Spans, OnceDown
  <2>2. m > k /\ m \in Nat /\ k \in Nat
    BY <1>0, <1>1, <2>1
  <2> QED
    BY <2>1, <2>2
<1>3. interval(i) \in DownIntervals
  BY <1>0, <1>2 DEF DownIntervals
<1>4. interval(i).from <= t
  BY <1>0
<1>5. t <= interval(i).to
  <2>1. CASE back(i) = {}
    <3>1. interval(i).to = Never
      BY <2>1
    <3>2. t \in Nat /\ t <= MaxTime /\ Never = MaxTime + 1 /\ MaxTime \in Nat
      BY Numbers, Constants
    <3> QED
      BY <3>1, <3>2
  <2>2. CASE back(i) # {}
    <3>1. back(i) \subseteq Nat
      BY <1>0
    <3>2. Min(back(i)) \in back(i)
      BY <2>2, <3>1, MinOf
    <3>3. t <= told[Min(back(i))].at
      BY <1>1, <3>2 DEF Spans
    <3> QED
      BY <2>2, <3>3
  <2> QED
    BY <2>1, <2>2
<1> QED
  BY <1>3, <1>4, <1>5

LEMMA UnheardIsNoEvidence ==
  ASSUME Typed, UnheardIsTold
  PROVE  SilenceIsEvidence
<1> SUFFICES ASSUME NEW q \in DOMAIN quakes, MissCause(q) = "GOOGLE_SILENT", quakes[q].heard # Never,
                    ~(quakes[q].at - quakes[q].heard <= Stale), ~Absent(quakes[q].heard, quakes[q].at)
             PROVE  FALSE
  BY DEF SilenceIsEvidence, Absent
<1>0. TypeOK /\ quakes[q].at \in Time /\ quakes[q].heard \in Nat /\ Stale \in Nat /\ quakes[q].miss \in Miss
  <2>1. TypeOK /\ quakes[q] \in Quake
    BY DEF Typed, TypeOK
  <2>2. quakes[q].at \in Time /\ quakes[q].heard \in Time \cup {Never} /\ quakes[q].miss \in Miss
    BY <2>1, ControlFleetAssumption DEF Quake
  <2> QED
    BY <2>1, <2>2, Numbers, Constants
<1>1. ControlCovered(q)
  <2>1. /\ quakes[q].miss.aws \in {"covered", "down", "unknown"}
        /\ quakes[q].miss.partner \in {"none", "captured", "silent"}
    BY <1>0 DEF Miss
  <2>2. Control(q) \in {"none", "captured", "silent"}
    BY DEF Control
  <2>3. Control(q) = "silent"
    BY <2>1, <2>2 DEF MissCause
  <2> QED
    BY <2>3 DEF Control
<1>2. quakes[q].at - quakes[q].heard > Stale
  <2>1. quakes[q].at \in Nat
    BY <1>0, Numbers
  <2> QED
    BY <1>0, <2>1
<1>3. Unheard(q)
  BY <1>2 DEF Unheard
<1>4. PICK i : Spans(i, quakes[q].at)
  BY <1>3 DEF UnheardIsTold
<1>5. PICK d \in DownIntervals : d.from <= quakes[q].at /\ quakes[q].at <= d.to
  BY <1>0, <1>4, SpanIsDown
<1> QED
  BY <1>1, <1>5 DEF ControlCovered

(* The control's silence excuses a miss only if the control was there to    *)
(* hear it within Stale, or the lab itself was away in that silence: what   *)
(* lab.py tells of an outage is an interval that verify.py finds, for every *)
(* Stale and over every death of the lab between its log and its state.     *)
THEOREM SilenceCounts == Spec => []SilenceIsEvidence
<1>1. Init => Typed /\ AllInTime /\ OutageTold /\ UnheardIsTold
  BY InitTyped, InitInTime, InitOutage, InitUnheard
<1>2. Typed /\ AllInTime /\ OutageTold /\ UnheardIsTold /\ [Next]_vars
        => Typed' /\ AllInTime' /\ OutageTold' /\ UnheardIsTold'
  BY NextTyped, NextInTime, NextOutage, NextUnheard
<1>3. Typed /\ UnheardIsTold => SilenceIsEvidence
  BY UnheardIsNoEvidence
<1> QED
  BY <1>1, <1>2, <1>3, PTL DEF Spec

-----------------------------------------------------------------------------
(* The health records come in order, and the first is an answer.            *)
RecordsGrow ==
  /\ health # <<>> /\ health[1].seen = "status" /\ health[1].at = 0
  /\ \A i \in DOMAIN health : health[i].at <= minute
  /\ \A i, j \in DOMAIN health : i < j => health[i].at < health[j].at

(* started_at never goes back, and where it changed from one answer to a    *)
(* later one, the gateway started no earlier than the first of them.        *)
StartsGrow ==
  /\ started <= minute
  /\ \A i \in Answered : /\ health[i].started <= started
                         /\ health[i].started = started \/ started >= health[i].at
  /\ \A i, j \in Answered :
       i < j => /\ health[i].started <= health[j].started
                /\ health[i].started = health[j].started \/ health[j].started >= health[i].at

(* A deploy parts the answers: those after it name its start or a later one.*)
DeploysRestart ==
  \A d \in deploys :
    /\ d.start <= started
    /\ \A i \in Answered : IF health[i].at > d.start THEN health[i].started >= d.start
                                                     ELSE health[i].started < d.start

CiLines == {l \in lines : l.by = "ci"}
RolledBack(k) == \E r \in lines : r.by = "ci-rollback" /\ r.at > k.at /\ r.at - k.at <= RollbackAfter

(* Each line of a deploy has its deploy, in the lines' order, and one that  *)
(* does not stand has the line of its rollback.                             *)
LinesAreDeploys ==
  \E of \in [CiLines -> deploys] :
    /\ \A k \in CiLines : /\ of[k].start \in {k.at, k.at + 1}
                          /\ of[k].stands \/ RolledBack(k)
    /\ \A k, l \in CiLines : k.at < l.at => of[k].start < of[l].start

HistoryTyped ==
  /\ minute \in Minute /\ health \in Seq(HealthRecord)
  /\ lines \subseteq [at : Minute, by : {"ci", "ci-rollback"}]
  /\ gatewayUp \in BOOLEAN /\ started \in Minute /\ names \in Listings
  /\ interventions \subseteq [sensor : Sensors, from : 1 .. End]
  /\ deploys \subseteq [start : Minute, stands : BOOLEAN] /\ events \in 0 .. MaxEvents

History == HistoryTyped /\ RecordsGrow /\ StartsGrow /\ DeploysRestart /\ LinesAreDeploys

-----------------------------------------------------------------------------
(* What the assumption says of the constants, as plain numbers.             *)
LEMMA Bounds ==
  /\ RestartBlind \in Nat /\ BeforeStart \in Nat /\ RollbackAfter \in Nat /\ DegradedMin \in Nat
  /\ FailMin \in Nat /\ DayStart \in Nat /\ MaxWork \in Nat /\ MaxEvents \in Nat
  /\ SeenPart \in Nat /\ SeenOf \in Nat /\ Day \in Nat /\ Day > 0 /\ End \in Nat /\ End > 0
  /\ Minute \subseteq Nat /\ 0 \in Minute /\ \A t \in Minute : t < End
  /\ IsFiniteSet(Sensors) /\ \A n \in Listings : n \subseteq Sensors /\ n # {}
<1>1. /\ RestartBlind \in Nat /\ BeforeStart \in Nat /\ RollbackAfter \in Nat /\ DegradedMin \in Nat
      /\ FailMin \in Nat /\ DayStart \in Nat /\ MaxWork \in Nat /\ MaxEvents \in Nat
      /\ SeenPart \in Nat /\ SeenOf \in Nat /\ Day \in Nat /\ Day > 0
      /\ IsFiniteSet(Sensors) /\ Listings \subseteq (SUBSET Sensors) \ {{}}
  BY CertificateAssumption
<1>2. \A n \in Listings : n \subseteq Sensors /\ n # {}
  BY <1>1
<1> QED
  BY <1>1, <1>2 DEF End, Minute

(* The records of a well typed history, and their fields.                   *)
LEMMA Records ==
  ASSUME health \in Seq(HealthRecord)
  PROVE  /\ DOMAIN health = 1 .. Len(health) /\ Len(health) \in Nat
         /\ IsFiniteSet(DOMAIN health) /\ DOMAIN health \subseteq Nat
         /\ \A i \in DOMAIN health :
              /\ i \in Nat /\ i >= 1 /\ i <= Len(health)
              /\ health[i] \in HealthRecord /\ health[i].at \in Nat /\ health[i].started \in Nat
              /\ health[i].covered \subseteq Sensors
              /\ health[i].seen \in {"status", "gateway", "ssh"}
<1>1. DOMAIN health = 1 .. Len(health) /\ Len(health) \in Nat
  OBVIOUS
<1>2. IsFiniteSet(1 .. Len(health))
  BY <1>1, FS_Interval
<1>3. ASSUME NEW i \in DOMAIN health
      PROVE  /\ i \in Nat /\ i >= 1 /\ i <= Len(health)
             /\ health[i] \in HealthRecord /\ health[i].at \in Nat /\ health[i].started \in Nat
             /\ health[i].covered \subseteq Sensors
             /\ health[i].seen \in {"status", "gateway", "ssh"}
  <2>1. i \in Nat /\ i >= 1 /\ i <= Len(health) /\ health[i] \in HealthRecord
    BY <1>1
  <2> QED
    BY <2>1, Bounds DEF HealthRecord
<1> QED
  BY <1>1, <1>2, <1>3

(* The gateway as the monitor first sees it: one record, nothing deployed.  *)
LEMMA InitHistory == DayInit => History
<1> SUFFICES ASSUME DayInit PROVE History
  OBVIOUS
<1> DEFINE first == [at |-> 0, seen |-> "status", named |-> names, covered |-> names, started |-> 0]
<1>1. /\ names \in Listings /\ names \subseteq Sensors
  BY Bounds DEF DayInit
<1>2. /\ minute = 0 /\ gatewayUp = TRUE /\ started = 0 /\ health = <<first>>
      /\ lines = {} /\ interventions = {} /\ deploys = {} /\ events = MaxEvents
  BY DEF DayInit
<1>3. first \in HealthRecord
  BY <1>1, Bounds DEF HealthRecord
<1>4. HistoryTyped
  BY <1>1, <1>2, <1>3, Bounds DEF HistoryTyped
<1>5. DOMAIN health = {1} /\ health[1] = first /\ health # <<>>
  BY <1>2
<1>6. RecordsGrow
  BY <1>2, <1>5 DEF RecordsGrow
<1>7. StartsGrow
  BY <1>2, <1>5 DEF StartsGrow, Answered
<1>8. DeploysRestart
  BY <1>2 DEF DeploysRestart
<1>9. LinesAreDeploys
  <2>1. CiLines = {}
    BY <1>2 DEF CiLines
  <2>2. [k \in CiLines |-> k] \in [CiLines -> deploys]
    BY <2>1
  <2> QED
    BY <2>1, <2>2 DEF LinesAreDeploys
<1> QED
  BY <1>4, <1>6, <1>7, <1>8, <1>9 DEF History

(* A minute goes by: at most one record more, of this minute.               *)
LEMMA PollHistory == History /\ Poll => History'
<1> SUFFICES ASSUME History, Poll PROVE History'
  OBVIOUS
<1>0. /\ HistoryTyped /\ RecordsGrow /\ StartsGrow /\ DeploysRestart /\ LinesAreDeploys
  BY DEF History
<1>1. /\ minute' = minute + 1 /\ minute < End - 1
      /\ lines' = lines /\ gatewayUp' = gatewayUp /\ started' = started /\ names' = names
      /\ interventions' = interventions /\ deploys' = deploys /\ events' = events
  BY DEF Poll
<1>2. minute \in Nat /\ started \in Nat /\ minute' \in Minute /\ started \in Minute
  BY <1>0, <1>1, Bounds DEF HistoryTyped, Minute
<1>3. LinesAreDeploys'
  BY <1>0, <1>1 DEF LinesAreDeploys, CiLines, RolledBack
<1>4. CASE health' = health
  <2>1. HistoryTyped'
    BY <1>0, <1>1, <1>2, <1>4 DEF HistoryTyped
  <2>2. RecordsGrow'
    <3>1. \A i \in DOMAIN health : health[i].at \in Nat
      BY <1>0, Records DEF HistoryTyped
    <3> QED
      BY <1>0, <1>1, <1>2, <1>4, <3>1 DEF RecordsGrow
  <2>3. StartsGrow'
    BY <1>0, <1>1, <1>2, <1>4 DEF StartsGrow, Answered
  <2>4. DeploysRestart'
    BY <1>0, <1>1, <1>2, <1>4 DEF DeploysRestart, Answered
  <2> QED
    BY <1>3, <2>1, <2>2, <2>3, <2>4 DEF History
<1>5. ASSUME NEW r \in HealthRecord, r.at = minute', r.seen = "status" => r.started = started,
             health' = Append(health, r)
      PROVE  History'
  <2> DEFINE n == Len(health)
  <2>1. health \in Seq(HealthRecord)
    BY <1>0 DEF HistoryTyped
  <2>2. n \in Nat /\ DOMAIN health = 1 .. n /\ n >= 1
    BY <2>1, <1>0, Records DEF RecordsGrow
  <2>3. /\ health' \in Seq(HealthRecord) /\ DOMAIN health' = 1 .. n + 1 /\ Len(health') = n + 1
        /\ \A i \in 1 .. n : health'[i] = health[i]
        /\ health'[n + 1] = r
    BY <2>1, <2>2, <1>5
  <2> HIDE DEF n
  <2>4. \A i \in 1 .. n : /\ i < n + 1 /\ i \in DOMAIN health /\ health[i].at \in Nat
                           /\ health[i].started \in Nat /\ health[i].at < minute'
    <3> TAKE i \in 1 .. n
    <3>1. i \in DOMAIN health /\ i < n + 1
      BY <2>2
    <3>2. health[i].at \in Nat /\ health[i].started \in Nat
      BY <2>1, <3>1, Records
    <3>3. health[i].at <= minute
      BY <1>0, <3>1 DEF RecordsGrow
    <3> QED
      BY <3>1, <3>2, <3>3, <1>1, <1>2
  <2>5. HistoryTyped'
    BY <1>0, <1>1, <1>2, <2>3 DEF HistoryTyped
  <2>6. RecordsGrow'
    <3>1. health' # <<>> /\ health'[1].seen = "status" /\ health'[1].at = 0
      BY <1>0, <2>2, <2>3 DEF RecordsGrow
    <3>2. \A i \in DOMAIN health' : health'[i].at <= minute'
      <4> TAKE i \in DOMAIN health'
      <4>1. CASE i \in 1 .. n
        BY <4>1, <2>3, <2>4, <1>1, <1>2
      <4>2. CASE i = n + 1
        BY <4>2, <2>3, <1>5, <1>1, <1>2
      <4> QED
        BY <4>1, <4>2, <2>2, <2>3
    <3>3. ASSUME NEW i \in DOMAIN health', NEW j \in DOMAIN health', i < j
          PROVE  health'[i].at < health'[j].at
      <4>1. i \in 1 .. n
        BY <3>3, <2>2, <2>3
      <4>2. CASE j \in 1 .. n
        BY <1>0, <4>1, <4>2, <2>3, <2>4, <3>3 DEF RecordsGrow
      <4>3. CASE j = n + 1
        BY <4>1, <4>3, <2>3, <2>4, <1>5
      <4> QED
        BY <4>2, <4>3, <2>2, <2>3
    <3> QED
      BY <3>1, <3>2, <3>3 DEF RecordsGrow
  <2>7. /\ Answered' \subseteq Answered \cup {n + 1} /\ Answered \subseteq 1 .. n
        /\ (n + 1 \in Answered' => r.started = started)
        /\ \A i \in Answered' : i # n + 1 => i \in Answered
    BY <2>2, <2>3, <1>5 DEF Answered
  <2>8. StartsGrow'
    <3>1. started' <= minute'
      BY <1>0, <1>1, <1>2 DEF StartsGrow
    <3>2. ASSUME NEW i \in Answered'
          PROVE  /\ health'[i].started <= started'
                 /\ health'[i].started = started' \/ started' >= health'[i].at
      <4>1. CASE i = n + 1
        <5>1. n + 1 \in Answered'
          BY <4>1, <3>2
        <5>2. r.started = started
          BY <5>1, <2>7
        <5>3. health'[i].started = started
          BY <5>2, <4>1, <2>3
        <5> QED
          BY <5>3, <1>1, <1>2
      <4>2. CASE i \in Answered
        <5>1. i \in 1 .. n
          BY <4>2, <2>7
        <5> QED
          BY <4>2, <5>1, <2>3, <1>0, <1>1 DEF StartsGrow
      <4> QED
        BY <4>1, <4>2, <3>2, <2>7
    <3>3. ASSUME NEW i \in Answered', NEW j \in Answered', i < j
          PROVE  /\ health'[i].started <= health'[j].started
                 /\ health'[i].started = health'[j].started \/ health'[j].started >= health'[i].at
      <4>1. i \in Answered /\ i \in 1 .. n
        <5>1. i \in 1 .. n + 1 /\ j \in 1 .. n + 1
          BY <3>3, <2>3 DEF Answered
        <5>2. i # n + 1
          BY <5>1, <3>3, <2>2
        <5> QED
          BY <5>1, <5>2, <3>3, <2>7, <2>2
      <4>2. CASE j = n + 1
        <5>1. health'[j].started = started /\ health'[i] = health[i]
          BY <4>1, <4>2, <3>3, <2>7, <2>3
        <5> QED
          BY <5>1, <4>1, <1>0 DEF StartsGrow
      <4>3. CASE j \in Answered
        <5>1. health'[j] = health[j] /\ health'[i] = health[i]
          BY <4>1, <4>3, <2>7, <2>3
        <5> QED
          BY <5>1, <4>1, <4>3, <3>3, <1>0 DEF StartsGrow
      <4> QED
        BY <4>2, <4>3, <3>3, <2>7
    <3> QED
      BY <3>1, <3>2, <3>3 DEF StartsGrow
  <2>9. DeploysRestart'
    <3> SUFFICES ASSUME NEW d \in deploys
                 PROVE  /\ d.start <= started
                        /\ \A i \in Answered' :
                             IF health'[i].at > d.start THEN health'[i].started >= d.start
                                                        ELSE health'[i].started < d.start
      BY <1>1 DEF DeploysRestart
    <3>1. d.start \in Nat /\ d.start <= started /\ d.start <= minute
      <4>1. d.start \in Nat
        BY <1>0, Bounds DEF HistoryTyped
      <4>2. d.start <= started /\ started <= minute
        BY <1>0 DEF DeploysRestart, StartsGrow
      <4> QED
        BY <4>1, <4>2, <1>2
    <3>2. ASSUME NEW i \in Answered'
          PROVE  IF health'[i].at > d.start THEN health'[i].started >= d.start
                                            ELSE health'[i].started < d.start
      <4>1. CASE i = n + 1
        <5>1. health'[i].at = minute + 1 /\ health'[i].started = started
          BY <4>1, <3>2, <2>7, <2>3, <1>5, <1>1
        <5> QED
          BY <5>1, <3>1, <1>2
      <4>2. CASE i \in Answered
        <5>1. health'[i] = health[i]
          BY <4>2, <2>7, <2>3
        <5> QED
          BY <4>2, <5>1, <1>0 DEF DeploysRestart
      <4> QED
        BY <4>1, <4>2, <3>2, <2>7
    <3> QED
      BY <3>1, <3>2
  <2> QED
    BY <1>3, <2>5, <2>6, <2>8, <2>9 DEF History
<1>6. CASE \E covered \in SUBSET names :
             health' = Append(health, [at |-> minute', seen |-> "status", named |-> names, covered |-> covered,
                                       started |-> started])
  <2>1. PICK covered \in SUBSET names :
             health' = Append(health, [at |-> minute', seen |-> "status", named |-> names, covered |-> covered,
                                       started |-> started])
    BY <1>6
  <2> DEFINE r == [at |-> minute', seen |-> "status", named |-> names, covered |-> covered, started |-> started]
  <2>2. names \subseteq Sensors
    BY <1>0, Bounds DEF HistoryTyped
  <2>3. r \in HealthRecord /\ r.at = minute' /\ r.started = started /\ health' = Append(health, r)
    BY <2>1, <2>2, <1>2 DEF HealthRecord
  <2> QED
    BY <2>3, <1>5
<1>7. ASSUME NEW seen \in {"gateway", "ssh"}, health' = Append(health, Unanswered(minute', seen))
      PROVE  History'
  <2>1. /\ Unanswered(minute', seen) \in HealthRecord
        /\ Unanswered(minute', seen).at = minute' /\ Unanswered(minute', seen).seen # "status"
    BY <1>2, <1>7, Bounds DEF Unanswered, HealthRecord
  <2> QED
    BY <2>1, <1>5, <1>7
<1> QED
  BY <1>4, <1>6, <1>7 DEF Poll

(* A start of the gateway: no record more, and it starts this minute.       *)
LEMMA StartHistory ==
  ASSUME History, started # minute, started' = minute, minute' = minute, health' = health
  PROVE  /\ RecordsGrow' /\ StartsGrow' /\ minute \in Nat /\ started < minute
         /\ \A i \in Answered : health[i].at <= minute /\ health[i].started < minute
         /\ \A d \in deploys : d.start < minute /\ d.start \in Nat
         /\ Answered' = Answered
<1>0. HistoryTyped /\ RecordsGrow /\ StartsGrow /\ DeploysRestart
  BY DEF History
<1>1. minute \in Nat /\ started \in Nat /\ started < minute
  <2>1. minute \in Minute /\ started \in Minute /\ Minute \subseteq Nat
    BY <1>0, Bounds DEF HistoryTyped
  <2>2. started <= minute
    BY <1>0 DEF StartsGrow
  <2> QED
    BY <2>1, <2>2
<1>2. Answered' = Answered /\ Answered \subseteq DOMAIN health
  BY DEF Answered
<1>3. ASSUME NEW i \in Answered
      PROVE  /\ health[i].at <= minute /\ health[i].started < minute
             /\ health[i].at \in Nat /\ health[i].started \in Nat
  <2>1. i \in DOMAIN health
    BY <1>2
  <2>2. health[i].at \in Nat /\ health[i].started \in Nat
    BY <1>0, <2>1, Records DEF HistoryTyped
  <2>3. health[i].at <= minute /\ health[i].started <= started
    BY <1>0, <2>1 DEF RecordsGrow, StartsGrow
  <2> QED
    BY <1>1, <2>2, <2>3
<1>4. ASSUME NEW d \in deploys PROVE d.start < minute /\ d.start \in Nat
  <2>1. d.start \in Nat
    BY <1>0, Bounds DEF HistoryTyped
  <2>2. d.start <= started
    BY <1>0 DEF DeploysRestart
  <2> QED
    BY <1>1, <2>1, <2>2
<1>5. RecordsGrow'
  BY <1>0 DEF RecordsGrow
<1>6. StartsGrow'
  <2>1. started' <= minute'
    BY <1>1
  <2>2. \A i \in Answered' : health'[i].started <= started' /\ started' >= health'[i].at
    BY <1>1, <1>2, <1>3
  <2>3. \A i, j \in Answered' :
          i < j => /\ health'[i].started <= health'[j].started
                   /\ health'[i].started = health'[j].started \/ health'[j].started >= health'[i].at
    BY <1>0, <1>2 DEF StartsGrow
  <2> QED
    BY <2>1, <2>2, <2>3 DEF StartsGrow
<1> QED
  BY <1>1, <1>2, <1>3, <1>4, <1>5, <1>6

(* A restart that no deploy ordered: no line, and every deploy is older.    *)
LEMMA RestartHistory == History /\ Restart => History'
<1> SUFFICES ASSUME History, Restart PROVE History'
  OBVIOUS
<1>0. HistoryTyped /\ DeploysRestart /\ LinesAreDeploys
  BY DEF History
<1>1. /\ events > 0 /\ started # minute /\ started' = minute /\ minute' = minute /\ health' = health
      /\ gatewayUp' = TRUE /\ names' \in Listings /\ events' = events - 1 /\ lines' = lines
      /\ interventions' = interventions /\ deploys' = deploys
  BY DEF Restart
<1>2. /\ RecordsGrow' /\ StartsGrow' /\ minute \in Nat
      /\ \A d \in deploys : d.start < minute /\ d.start \in Nat
      /\ Answered' = Answered
  BY <1>1, StartHistory
<1>3. HistoryTyped'
  <2>1. events' \in 0 .. MaxEvents
    BY <1>0, <1>1, Bounds DEF HistoryTyped
  <2> QED
    BY <1>0, <1>1, <2>1 DEF HistoryTyped
<1>4. DeploysRestart'
  <2> SUFFICES ASSUME NEW d \in deploys
               PROVE  /\ d.start <= minute
                      /\ \A i \in Answered : IF health[i].at > d.start THEN health[i].started >= d.start
                                                                       ELSE health[i].started < d.start
    BY <1>1, <1>2 DEF DeploysRestart
  <2> QED
    BY <1>0, <1>2 DEF DeploysRestart
<1>5. LinesAreDeploys'
  BY <1>0, <1>1 DEF LinesAreDeploys, CiLines, RolledBack
<1> QED
  BY <1>2, <1>3, <1>4, <1>5 DEF History

(* A deploy adds the last line and the last start.                          *)
LEMMA DeployHistory == History /\ Deploy => History'
<1> SUFFICES ASSUME History, Deploy PROVE History'
  OBVIOUS
<1>0. HistoryTyped /\ DeploysRestart /\ LinesAreDeploys
  BY DEF History
<1>1. PICK at \in {minute, minute - 1} \cap Nat :
           /\ \A l \in lines : l.at < at
           /\ DeployGateway("ci", at)
  BY DEF Deploy
<1> DEFINE line == [at |-> at, by |-> "ci"]
           deploy == [start |-> minute, stands |-> TRUE]
<1>2. /\ events > 0 /\ started # minute /\ started' = minute /\ minute' = minute /\ health' = health
      /\ gatewayUp' = TRUE /\ names' \in Listings /\ events' = events - 1 /\ lines' = lines \cup {line}
      /\ interventions' = interventions /\ deploys' = deploys \cup {deploy}
  BY <1>1 DEF Deploy, DeployGateway
<1>3. /\ RecordsGrow' /\ StartsGrow' /\ minute \in Nat /\ minute \in Minute
      /\ \A i \in Answered : health[i].at <= minute /\ health[i].started < minute
      /\ \A d \in deploys : d.start < minute /\ d.start \in Nat
      /\ Answered' = Answered
  BY <1>2, <1>0, StartHistory DEF HistoryTyped
<1>4. at \in Minute /\ at \in Nat /\ minute \in {at, at + 1}
  BY <1>1, <1>3, Bounds DEF Minute
<1>5. HistoryTyped'
  <2>1. events' \in 0 .. MaxEvents
    BY <1>0, <1>2, Bounds DEF HistoryTyped
  <2>2. line \in [at : Minute, by : {"ci", "ci-rollback"}] /\ deploy \in [start : Minute, stands : BOOLEAN]
    BY <1>3, <1>4
  <2> QED
    BY <1>0, <1>2, <1>3, <2>1, <2>2 DEF HistoryTyped
<1>6. DeploysRestart'
  <2> SUFFICES ASSUME NEW d \in deploys \cup {deploy}
               PROVE  /\ d.start <= minute
                      /\ \A i \in Answered : IF health[i].at > d.start THEN health[i].started >= d.start
                                                                       ELSE health[i].started < d.start
    BY <1>2, <1>3 DEF DeploysRestart
  <2>1. CASE d \in deploys
    BY <1>0, <1>3, <2>1 DEF DeploysRestart
  <2>2. CASE d = deploy
    <3>1. d.start = minute /\ \A i \in Answered : health[i].at \in Nat
      <4>1. \A i \in DOMAIN health : health[i].at \in Nat
        BY <1>0, Records DEF HistoryTyped
      <4> QED
        BY <2>2, <4>1 DEF Answered
    <3> QED
      BY <1>3, <3>1
  <2> QED
    BY <2>1, <2>2
<1>7. LinesAreDeploys'
  <2>1. PICK of \in [CiLines -> deploys] :
             /\ \A k \in CiLines : /\ of[k].start \in {k.at, k.at + 1}
                                   /\ of[k].stands \/ RolledBack(k)
             /\ \A k, l \in CiLines : k.at < l.at => of[k].start < of[l].start
    BY <1>0 DEF LinesAreDeploys
  <2> DEFINE more == [k \in CiLines \cup {line} |-> IF k \in CiLines THEN of[k] ELSE deploy]
  <2>2. CiLines' = CiLines \cup {line} /\ CiLines \subseteq lines
    BY <1>2 DEF CiLines
  <2>3. line \notin CiLines
    BY <1>1, <1>4, <2>2
  <2>4. more \in [CiLines' -> deploys'] /\ more[line] = deploy /\ \A k \in CiLines : more[k] = of[k]
    BY <1>2, <2>1, <2>2, <2>3
  <2> HIDE DEF more
  <2>5. \A k \in CiLines : RolledBack(k) => RolledBack(k)'
    BY <1>2 DEF RolledBack
  <2>6. ASSUME NEW k \in CiLines'
        PROVE  more[k].start \in {k.at, k.at + 1} /\ (more[k].stands \/ RolledBack(k)')
    <3>1. CASE k \in CiLines
      BY <2>1, <2>4, <2>5, <3>1
    <3>2. CASE k = line
      BY <1>4, <2>4, <3>2
    <3> QED
      BY <2>2, <3>1, <3>2
  <2>7. ASSUME NEW k \in CiLines', NEW l \in CiLines', k.at < l.at
        PROVE  more[k].start < more[l].start
    <3>1. CASE k \in CiLines /\ l \in CiLines
      BY <2>1, <2>4, <2>7, <3>1
    <3>2. CASE k \in CiLines /\ l = line
      <4>1. of[k] \in deploys
        BY <2>1, <3>2
      <4> QED
        BY <1>3, <2>4, <3>2, <4>1
    <3>3. CASE k = line
      <4>1. CASE l = line
        BY <2>7, <3>3, <4>1, <1>4
      <4>2. CASE l \in CiLines
        <5>1. l.at \in Nat /\ l.at < at
          BY <1>1, <2>2, <4>2, <1>0, Bounds DEF HistoryTyped
        <5> QED
          BY <2>7, <3>3, <5>1, <1>4
      <4> QED
        BY <2>2, <4>1, <4>2
    <3> QED
      BY <2>2, <3>1, <3>2, <3>3
  <2> QED
    BY <2>4, <2>6, <2>7 DEF LinesAreDeploys
<1> QED
  BY <1>3, <1>5, <1>6, <1>7 DEF History

(* A rollback adds its line; the deploy it takes back is that of the last   *)
(* line, and none of an earlier line has so late a start.                   *)
LEMMA RollbackHistory == History /\ Rollback => History'
<1> SUFFICES ASSUME History, Rollback PROVE History'
  OBVIOUS
<1>0. HistoryTyped /\ DeploysRestart /\ LinesAreDeploys
  BY DEF History
<1> DEFINE last == Max({d.start : d \in deploys})
           line == [at |-> minute, by |-> "ci-rollback"]
<1>1. PICK l \in lines :
        /\ l.by = "ci" /\ minute > l.at /\ minute - l.at <= RollbackAfter
        /\ \A k \in lines : k.at <= l.at
        /\ DeployGateway("ci-rollback", minute)
        /\ deploys' = {[d EXCEPT !.stands = @ /\ d.start # last] : d \in deploys}
  BY DEF Rollback
<1>2. /\ events > 0 /\ started # minute /\ started' = minute /\ minute' = minute /\ health' = health
      /\ gatewayUp' = TRUE /\ names' \in Listings /\ events' = events - 1 /\ lines' = lines \cup {line}
      /\ interventions' = interventions
  BY <1>1 DEF DeployGateway
<1>3. /\ RecordsGrow' /\ StartsGrow' /\ minute \in Nat /\ minute \in Minute
      /\ \A i \in Answered : health[i].at <= minute /\ health[i].started < minute
      /\ \A d \in deploys : d.start < minute /\ d.start \in Nat
      /\ Answered' = Answered
  BY <1>2, <1>0, StartHistory DEF HistoryTyped
<1> DEFINE after(d) == [d EXCEPT !.stands = @ /\ d.start # last]
<1>4. ASSUME NEW d \in deploys
      PROVE  /\ after(d) \in deploys' /\ after(d) \in [start : Minute, stands : BOOLEAN]
             /\ after(d).start = d.start /\ after(d).stands = (d.stands /\ d.start # last)
  <2>1. d \in [start : Minute, stands : BOOLEAN]
    BY <1>0 DEF HistoryTyped
  <2>2. after(d).start = d.start /\ after(d).stands = (d.stands /\ d.start # last)
    BY <2>1
  <2>3. after(d) \in [start : Minute, stands : BOOLEAN]
    BY <2>1
  <2>4. after(d) \in deploys'
    BY <1>1
  <2> QED
    BY <2>2, <2>3, <2>4
<1> HIDE DEF after, last
<1>5. deploys' = {after(d) : d \in deploys}
  BY <1>1 DEF after, last
<1>6. HistoryTyped'
  <2>1. events' \in 0 .. MaxEvents
    BY <1>0, <1>2, Bounds DEF HistoryTyped
  <2>2. line \in [at : Minute, by : {"ci", "ci-rollback"}]
    BY <1>3
  <2>3. deploys' \subseteq [start : Minute, stands : BOOLEAN]
    BY <1>4, <1>5
  <2> QED
    BY <1>0, <1>2, <1>3, <2>1, <2>2, <2>3 DEF HistoryTyped
<1>7. DeploysRestart'
  <2> SUFFICES ASSUME NEW e \in deploys'
               PROVE  /\ e.start <= minute
                      /\ \A i \in Answered : IF health[i].at > e.start THEN health[i].started >= e.start
                                                                       ELSE health[i].started < e.start
    BY <1>2, <1>3 DEF DeploysRestart
  <2>1. PICK d \in deploys : e = after(d)
    BY <1>5
  <2>2. e.start = d.start
    BY <1>4, <2>1
  <2> QED
    BY <1>0, <1>3, <2>2 DEF DeploysRestart
<1>8. LinesAreDeploys'
  <2>1. PICK of \in [CiLines -> deploys] :
             /\ \A k \in CiLines : /\ of[k].start \in {k.at, k.at + 1}
                                   /\ of[k].stands \/ RolledBack(k)
             /\ \A k, j \in CiLines : k.at < j.at => of[k].start < of[j].start
    BY <1>0 DEF LinesAreDeploys
  <2>2. CiLines' = CiLines /\ l \in CiLines /\ CiLines \subseteq lines
    BY <1>1, <1>2 DEF CiLines
  <2>3. \A k \in CiLines : RolledBack(k) => RolledBack(k)'
    BY <1>2 DEF RolledBack
  <2>4. RolledBack(l)'
    <3>1. line \in lines' /\ line.by = "ci-rollback" /\ line.at > l.at /\ line.at - l.at <= RollbackAfter
      BY <1>1, <1>2
    <3> QED
      BY <3>1 DEF RolledBack
  <2>5. \A d \in deploys : d.start <= last
    <3>1. {d.start : d \in deploys} \subseteq 0 .. minute
      BY <1>3
    <3> QED
      BY <3>1, <1>3, MaxOf DEF last
  <2> DEFINE less == [k \in CiLines |-> after(of[k])]
  <2>6. \A k \in CiLines : of[k] \in deploys /\ less[k] = after(of[k])
    BY <2>1
  <2>7. less \in [CiLines' -> deploys']
    BY <2>1, <2>2, <1>4
  <2> HIDE DEF less
  <2>8. ASSUME NEW k \in CiLines
        PROVE  less[k].start \in {k.at, k.at + 1} /\ (less[k].stands \/ RolledBack(k)')
    <3>1. less[k].start = of[k].start /\ less[k].stands = (of[k].stands /\ of[k].start # last)
      BY <1>4, <2>6
    <3>2. CASE k.at = l.at
      <4>1. k.at = l.at => RolledBack(k)'
        BY <2>4 DEF RolledBack
      <4> QED
        BY <2>1, <3>1, <3>2, <4>1
    <3>3. CASE k.at # l.at
      <4>1. k.at < l.at
        <5>1. k \in lines /\ k.at <= l.at
          BY <1>1, <2>2
        <5>2. k.at \in Nat /\ l.at \in Nat
          BY <5>1, <1>0, Bounds DEF HistoryTyped
        <5> QED
          BY <5>1, <5>2, <3>3
      <4>2. of[k].start < of[l].start /\ of[l].start <= last
        BY <4>1, <2>1, <2>2, <2>5, <2>6
      <4>3. of[k].start # last
        <5>1. of[k].start \in Nat /\ of[l].start \in Nat
          BY <1>3, <2>2, <2>6
        <5> QED
          BY <4>2, <5>1
      <4> QED
        BY <2>1, <2>3, <3>1, <4>3
    <3> QED
      BY <3>2, <3>3
  <2>9. ASSUME NEW k \in CiLines, NEW j \in CiLines, k.at < j.at
        PROVE  less[k].start < less[j].start
    BY <1>4, <2>1, <2>6, <2>9
  <2> QED
    BY <2>2, <2>7, <2>8, <2>9 DEF LinesAreDeploys
<1> QED
  BY <1>3, <1>6, <1>7, <1>8 DEF History

(* What is left: a crash stops no clock, and work touches no record.        *)
LEMMA NextHistory == History /\ [DayNext]_dayVars => History'
<1> SUFFICES ASSUME History, [DayNext]_dayVars PROVE History'
  OBVIOUS
<1>0. HistoryTyped /\ RecordsGrow /\ StartsGrow /\ DeploysRestart /\ LinesAreDeploys
  BY DEF History
<1>1. CASE Crash
  <2>1. /\ events > 0 /\ gatewayUp' = FALSE /\ events' = events - 1
        /\ minute' = minute /\ health' = health /\ lines' = lines /\ started' = started
        /\ names' = names /\ interventions' = interventions /\ deploys' = deploys
    BY <1>1 DEF Crash
  <2>2. events' \in 0 .. MaxEvents
    BY <1>0, <2>1, Bounds DEF HistoryTyped
  <2>3. HistoryTyped'
    BY <1>0, <2>1, <2>2 DEF HistoryTyped
  <2> QED
    BY <1>0, <2>1, <2>3 DEF History, RecordsGrow, StartsGrow, DeploysRestart, LinesAreDeploys,
                            Answered, CiLines, RolledBack
<1>2. CASE Intervene
  <2>1. /\ events > 0 /\ events' = events - 1
        /\ minute' = minute /\ health' = health /\ lines' = lines /\ gatewayUp' = gatewayUp
        /\ started' = started /\ names' = names /\ deploys' = deploys
    BY <1>2 DEF Intervene
  <2>2. events' \in 0 .. MaxEvents
    BY <1>0, <2>1, Bounds DEF HistoryTyped
  <2>3. PICK s \in Sensors : interventions' = interventions \cup {[sensor |-> s, from |-> minute + 1]}
    BY <1>2 DEF Intervene
  <2>4. minute + 1 \in 1 .. End
    BY <1>0, Bounds DEF HistoryTyped, Minute
  <2>5. HistoryTyped'
    BY <1>0, <2>1, <2>2, <2>3, <2>4 DEF HistoryTyped
  <2> QED
    BY <1>0, <2>1, <2>5 DEF History, RecordsGrow, StartsGrow, DeploysRestart, LinesAreDeploys,
                            Answered, CiLines, RolledBack
<1>3. CASE UNCHANGED dayVars
  BY <1>0, <1>3 DEF dayVars, History, HistoryTyped, RecordsGrow, StartsGrow, DeploysRestart,
                    LinesAreDeploys, Answered, CiLines, RolledBack
<1> QED
  BY <1>1, <1>2, <1>3, PollHistory, RestartHistory, DeployHistory, RollbackHistory DEF DayNext

LEMMA HistoryHolds == DaySpec => []History
BY InitHistory, NextHistory, PTL DEF DaySpec

-----------------------------------------------------------------------------
(* The answer before a record, and what makes a record a restart.           *)
LEMMA PreviousAnswers ==
  ASSUME History, NEW i \in DOMAIN health
  PROVE  LET p == PreviousAnswer(i)
         IN /\ p \in Answered \cup {0} /\ p \in Nat /\ p < i
            /\ \A j \in Answered : j < i => j <= p
<1> DEFINE S == {j \in Answered : j < i} \cup {0}
<1>1. /\ i \in Nat /\ i > 0 /\ \A j \in Answered : j \in Nat
  <2>1. health \in Seq(HealthRecord)
    BY DEF History, HistoryTyped
  <2> QED
    BY <2>1, Records DEF Answered
<1>2. S \subseteq 0 .. i /\ S # {}
  BY <1>1
<1>3. Max(S) \in S /\ \A x \in S : x <= Max(S)
  BY <1>1, <1>2, MaxOf
<1> QED
  BY <1>1, <1>3 DEF PreviousAnswer

(* A restart's previous answer names another start, which is no later.      *)
LEMMA Restarts ==
  ASSUME History, NEW i \in DOMAIN health, IsRestart(i)
  PROVE  LET p == PreviousAnswer(i)
         IN /\ i \in Answered /\ p \in Answered /\ p < i /\ p \in DOMAIN health
            /\ \A j \in Answered : j < i => j <= p
            /\ health[i].started >= health[p].at /\ health[p].at < health[i].at
<1> DEFINE p == PreviousAnswer(i)
<1>1. i \in Answered /\ p > 0 /\ health[p].started # health[i].started
  BY DEF IsRestart
<1>2. /\ p \in Answered \cup {0} /\ p \in Nat /\ p < i
      /\ \A j \in Answered : j < i => j <= p
  BY PreviousAnswers
<1>3. p \in Answered /\ p \in DOMAIN health
  BY <1>1, <1>2 DEF Answered
<1>4. health[i].started >= health[p].at /\ health[p].at < health[i].at
  BY <1>1, <1>2, <1>3 DEF History, StartsGrow, RecordsGrow
<1> QED
  BY <1>1, <1>2, <1>3, <1>4

(* A window ends at its limit, or with the first answer from the restart on *)
(* that has every receptor covered.                                         *)
LEMMA WindowEnds ==
  ASSUME History, NEW i \in DOMAIN health
  PROVE  /\ WindowEnd(i) \in Nat /\ WindowEnd(i) <= health[i].started + RestartBlind
         /\ \A j \in Answered : j >= i /\ AllCovered(j) => WindowEnd(i) <= health[j].at
         /\ \/ WindowEnd(i) = health[i].started + RestartBlind
            \/ \E j \in Answered : j >= i /\ WindowEnd(i) = health[j].at
<1> DEFINE limit == health[i].started + RestartBlind
           B == {health[j].at : j \in {k \in Answered : k >= i /\ AllCovered(k)}} \cup {limit}
<1>1. limit \in Nat /\ \A j \in Answered : health[j].at \in Nat
  <2>1. health \in Seq(HealthRecord)
    BY DEF History, HistoryTyped
  <2>2. \A j \in DOMAIN health : health[j].at \in Nat /\ health[j].started \in Nat
    BY <2>1, Records
  <2> QED
    BY <2>2, Bounds DEF Answered
<1>2. B \subseteq Nat /\ B # {}
  BY <1>1
<1>3. Min(B) \in B /\ \A x \in B : Min(B) <= x
  BY <1>2, MinOf
<1>4. WindowEnd(i) = Min(B)
  BY DEF WindowEnd
<1> QED
  BY <1>2, <1>3, <1>4

(* The window of a restart.                                                 *)
LEMMA WindowFields ==
  ASSUME NEW w \in RestartWindows
  PROVE  \E i \in DOMAIN health :
           /\ IsRestart(i) /\ w.place = i /\ w.begin = health[PreviousAnswer(i)].at
           /\ w.end = WindowEnd(i) /\ w.sensors = Sensors
           /\ w.reason = IF \E t \in DeployOf : t[1] = i THEN "deploy" ELSE "gateway restart"
<1> DEFINE reasonOf(i) == IF \E t \in DeployOf : t[1] = i THEN "deploy" ELSE "gateway restart"
           window(i) == [place |-> i, begin |-> health[PreviousAnswer(i)].at, end |-> WindowEnd(i),
                         sensors |-> Sensors, reason |-> reasonOf(i)]
<1> HIDE DEF reasonOf
<1>1. RestartWindows = {window(i) : i \in {j \in DOMAIN health : IsRestart(j)}}
  BY DEF RestartWindows, reasonOf
<1>2. PICK i \in {j \in DOMAIN health : IsRestart(j)} : w = window(i)
  BY <1>1
<1>3. /\ i \in DOMAIN health /\ IsRestart(i) /\ w.place = i /\ w.begin = health[PreviousAnswer(i)].at
      /\ w.end = WindowEnd(i) /\ w.sensors = Sensors /\ w.reason = reasonOf(i)
  BY <1>2
<1> QED
  BY <1>3 DEF reasonOf

(* No window of a restart ends before it begins.                            *)
LEMMA WindowsAreWellFormed ==
  ASSUME History
  PROVE  \A w \in RestartWindows : w.begin <= w.end
<1> SUFFICES ASSUME NEW i \in DOMAIN health, IsRestart(i)
             PROVE  health[PreviousAnswer(i)].at <= WindowEnd(i)
  BY WindowFields
<1> DEFINE p == PreviousAnswer(i)
<1>1. /\ p \in Answered /\ p < i /\ p \in DOMAIN health
      /\ health[i].started >= health[p].at
  BY Restarts
<1>2. health \in Seq(HealthRecord)
  BY DEF History, HistoryTyped
<1>3. health[p].at \in Nat /\ health[i].started \in Nat /\ p \in Nat /\ i \in Nat /\ RestartBlind \in Nat
  BY <1>1, <1>2, Records, Bounds
<1>4. CASE WindowEnd(i) = health[i].started + RestartBlind
  BY <1>1, <1>3, <1>4
<1>5. CASE \E j \in Answered : j >= i /\ WindowEnd(i) = health[j].at
  <2>1. PICK j \in Answered : j >= i /\ WindowEnd(i) = health[j].at
    BY <1>5
  <2>2. j \in DOMAIN health /\ p < j
    BY <1>1, <1>2, <1>3, <2>1, Records DEF Answered
  <2>3. health[p].at < health[j].at /\ health[j].at \in Nat
    BY <1>1, <1>2, <2>2, Records DEF History, RecordsGrow
  <2> QED
    BY <1>3, <2>1, <2>3
<1> QED
  BY <1>4, <1>5, WindowEnds

(* The history the certificate reads is well typed, and a window that       *)
(* begins with the last answer before a restart does not end before it.     *)
THEOREM CertificateTyped == DaySpec => []DayTypeOK
<1>1. History => DayTypeOK
  BY WindowsAreWellFormed DEF History, HistoryTyped, DayTypeOK
<1> QED
  BY <1>1, HistoryHolds, PTL

-----------------------------------------------------------------------------
(* restart_windows goes through the records in order: that the restarts     *)
(* before each have taken their lines, however many records there are.      *)
TakenBy(taken, n) ==
  taken = [i \in 0 .. n |-> IF i = 0 THEN {} ELSE Take(taken[i - 1], i)]

LEMMA TakenExists ==
  ASSUME NEW n \in Nat
  PROVE  \E taken : TakenBy(taken, n)
<1> DEFINE Without == {m \in Nat : ~\E taken : TakenBy(taken, m)}
<1>1. Without = {}
  <2> SUFFICES ASSUME Without # {} PROVE FALSE
    OBVIOUS
  <2> DEFINE m == Min(Without)
  <2>1. m \in Without /\ \A x \in Without : m <= x
    BY MinOf
  <2> HIDE DEF m
  <2>2. CASE m = 0
    <3>1. TakenBy([i \in 0 .. 0 |-> {}], 0)
      BY DEF TakenBy
    <3> QED
      BY <2>1, <2>2, <3>1
  <2>3. CASE m # 0
    <3>1. m - 1 \in Nat /\ m - 1 \notin Without /\ m \in Nat
      BY <2>1, <2>3
    <3>2. PICK f : TakenBy(f, m - 1)
      BY <3>1
    <3> DEFINE g == [i \in 0 .. m |-> IF i < m THEN f[i] ELSE Take(f[m - 1], m)]
    <3>3. f = [i \in 0 .. m - 1 |-> IF i = 0 THEN {} ELSE Take(f[i - 1], i)]
      BY <3>2 DEF TakenBy
    <3>4. ASSUME NEW i \in 0 .. m
          PROVE  g[i] = IF i = 0 THEN {} ELSE Take(g[i - 1], i)
      <4>1. CASE i = m
        <5>1. g[m] = Take(f[m - 1], m) /\ g[m - 1] = f[m - 1]
          BY <3>1
        <5> QED
          BY <2>3, <4>1, <5>1
      <4>2. CASE i # m
        <5>1. i \in 0 .. m - 1 /\ i < m
          BY <3>1, <4>2
        <5>2. g[i] = f[i] /\ f[i] = IF i = 0 THEN {} ELSE Take(f[i - 1], i)
          BY <3>3, <5>1
        <5>3. i # 0 => i - 1 \in 0 .. m /\ i - 1 < m
          BY <3>1, <5>1
        <5>4. i # 0 => g[i - 1] = f[i - 1]
          BY <5>3
        <5> QED
          BY <5>2, <5>4
      <4> QED
        BY <4>1, <4>2
    <3>5. TakenBy(g, m)
      <4>1. g = [i \in 0 .. m |-> g[i]]
        OBVIOUS
      <4> HIDE DEF g
      <4>2. [i \in 0 .. m |-> g[i]] = [i \in 0 .. m |-> IF i = 0 THEN {} ELSE Take(g[i - 1], i)]
        BY <3>4
      <4> QED
        BY <4>1, <4>2 DEF TakenBy
    <3> QED
      BY <2>1, <3>5
  <2> QED
    BY <2>2, <2>3
<1> QED
  BY <1>1

(* DeployOf is what such a pass leaves at the last record.                  *)
LEMMA DeployOfIs ==
  ASSUME History
  PROVE  \E taken : TakenBy(taken, Len(health)) /\ DeployOf = taken[Len(health)]
<1>1. Len(health) \in Nat
  BY DEF History, HistoryTyped
<1> DEFINE f == CHOOSE g : g = [i \in 0 .. Len(health) |-> IF i = 0 THEN {} ELSE Take(g[i - 1], i)]
<1>2. TakenBy(f, Len(health))
  BY <1>1, TakenExists DEF TakenBy
<1>3. DeployOf = f[Len(health)]
  BY DEF DeployOf
<1> QED
  BY <1>2, <1>3

(* A planned minute is that of a deploy's line that was not rolled back.    *)
LEMMA PlannedAreMinutes ==
  ASSUME History
  PROVE  /\ PlannedDeploys \subseteq Nat
         /\ \A d \in PlannedDeploys : \E k \in CiLines : k.at = d /\ ~RolledBack(k)
<1>1. lines \subseteq [at : Minute, by : {"ci", "ci-rollback"}]
  BY DEF History, HistoryTyped
<1>2. ASSUME NEW d \in PlannedDeploys
      PROVE  d \in Nat /\ \E k \in CiLines : k.at = d /\ ~RolledBack(k)
  <2>1. PICK k \in lines : k.by # "ci-rollback" /\ ~RolledBack(k) /\ k.at = d
    BY DEF PlannedDeploys, RolledBack
  <2>2. k \in CiLines /\ k.at \in Nat
    BY <1>1, <2>1, Bounds DEF CiLines
  <2> QED
    BY <2>1, <2>2
<1> QED
  BY <1>2

(* What a record may add to the lines taken.                                *)
FitsLine(i, d) == d \in PlannedDeploys /\ health[i].started \in d .. d + BeforeStart

LEMMA TakeOne ==
  ASSUME History, NEW taken, NEW i \in DOMAIN health
  PROVE  \/ Take(taken, i) = taken
         \/ \E d : /\ Take(taken, i) = taken \cup {<<i, d>>}
                   /\ IsRestart(i) /\ FitsLine(i, d) /\ \A t \in taken : t[2] # d
<1> DEFINE fit == {d \in PlannedDeploys : /\ health[i].started \in d .. d + BeforeStart
                                          /\ \A t \in taken : t[2] # d}
<1>1. CASE IsRestart(i) /\ fit # {}
  <2>1. Take(taken, i) = taken \cup {<<i, Min(fit)>>}
    BY <1>1 DEF Take
  <2>2. fit \subseteq Nat
    BY PlannedAreMinutes
  <2>3. Min(fit) \in fit
    BY <1>1, <2>2, MinOf
  <2> QED
    BY <1>1, <2>1, <2>3 DEF FitsLine
<1>2. CASE ~(IsRestart(i) /\ fit # {})
  BY <1>2 DEF Take
<1> QED
  BY <1>1, <1>2

(* A restart with a line that fits and is free takes one, and none later.   *)
LEMMA TakeFirst ==
  ASSUME History, NEW taken, NEW i \in DOMAIN health, IsRestart(i),
         NEW d, FitsLine(i, d), \A t \in taken : t[2] # d
  PROVE  \E e : e <= d /\ FitsLine(i, e) /\ <<i, e>> \in Take(taken, i)
<1> DEFINE fit == {e \in PlannedDeploys : /\ health[i].started \in e .. e + BeforeStart
                                          /\ \A t \in taken : t[2] # e}
<1>1. d \in fit /\ fit \subseteq Nat
  BY PlannedAreMinutes DEF FitsLine
<1>2. Min(fit) \in fit /\ Min(fit) <= d
  BY <1>1, MinOf
<1>3. Take(taken, i) = taken \cup {<<i, Min(fit)>>}
  BY <1>1 DEF Take
<1> QED
  BY <1>2, <1>3 DEF FitsLine

(* Only restarts take lines, each one that fits, and no line is taken twice.*)
TakenWell(taken, n) ==
  /\ \A t \in taken : /\ t = <<t[1], t[2]>> /\ t[1] \in 1 .. n
                      /\ IsRestart(t[1]) /\ FitsLine(t[1], t[2])
  /\ \A t, u \in taken : t[2] = u[2] => t = u

(* A restart for which a line fits takes that one, or an earlier line, or   *)
(* an earlier restart took it.                                              *)
TakenAll(taken, n) ==
  \A i \in 1 .. n, d \in PlannedDeploys :
    IsRestart(i) /\ FitsLine(i, d) =>
      \E t \in taken : t[1] <= i /\ (t[2] = d \/ (t[1] = i /\ t[2] <= d))

(* One record more: what was so of those before it is so of all.            *)
LEMMA TakenStep ==
  ASSUME History, NEW n \in Nat, n + 1 \in DOMAIN health, NEW taken, TakenWell(taken, n), TakenAll(taken, n)
  PROVE  TakenWell(Take(taken, n + 1), n + 1) /\ TakenAll(Take(taken, n + 1), n + 1)
<1> DEFINE i == n + 1
           more == Take(taken, i)
<1> HIDE DEF more
<1>1. \/ more = taken
      \/ \E d : /\ more = taken \cup {<<i, d>>}
                /\ IsRestart(i) /\ FitsLine(i, d) /\ \A t \in taken : t[2] # d
  BY TakeOne DEF more
<1>2. taken \subseteq more
  BY <1>1
<1>3. \A t \in taken : /\ t = <<t[1], t[2]>> /\ t[1] \in 1 .. n
                       /\ IsRestart(t[1]) /\ FitsLine(t[1], t[2])
  BY DEF TakenWell
<1>4. \A t, u \in taken : t[2] = u[2] => t = u
  BY DEF TakenWell
<1>5. TakenWell(more, i)
  <2>1. CASE more = taken
    BY <2>1, <1>3, <1>4 DEF TakenWell
  <2>2. ASSUME NEW d, more = taken \cup {<<i, d>>}, IsRestart(i), FitsLine(i, d),
               \A t \in taken : t[2] # d
        PROVE  TakenWell(more, i)
    <3>1. <<i, d>>[1] = i /\ <<i, d>>[2] = d /\ i \in 1 .. i
      OBVIOUS
    <3>2. ASSUME NEW t \in more
          PROVE  /\ t = <<t[1], t[2]>> /\ t[1] \in 1 .. i
                 /\ IsRestart(t[1]) /\ FitsLine(t[1], t[2])
      <4>1. CASE t \in taken
        BY <4>1, <1>3
      <4>2. CASE t = <<i, d>>
        BY <4>2, <3>1, <2>2
      <4> QED
        BY <4>1, <4>2, <2>2
    <3>3. ASSUME NEW t \in more, NEW u \in more, t[2] = u[2] PROVE t = u
      <4>1. CASE t \in taken /\ u \in taken
        BY <1>4, <3>3, <4>1
      <4>2. CASE t = <<i, d>> /\ u \in taken
        BY <2>2, <3>1, <3>3, <4>2
      <4>3. CASE t \in taken /\ u = <<i, d>>
        BY <2>2, <3>1, <3>3, <4>3
      <4> QED
        BY <4>1, <4>2, <4>3, <2>2
    <3> QED
      BY <3>2, <3>3 DEF TakenWell
  <2> QED
    BY <1>1, <2>1, <2>2
<1>6. TakenAll(more, i)
  <2> SUFFICES ASSUME NEW k \in 1 .. i, NEW d \in PlannedDeploys, IsRestart(k), FitsLine(k, d)
               PROVE  \E t \in more : t[1] <= k /\ (t[2] = d \/ (t[1] = k /\ t[2] <= d))
    BY DEF TakenAll
  <2>1. CASE k \in 1 .. n
    <3>1. \E t \in taken : t[1] <= k /\ (t[2] = d \/ (t[1] = k /\ t[2] <= d))
      BY <2>1 DEF TakenAll
    <3> QED
      BY <1>2, <3>1
  <2>2. CASE k = i
    <3>1. CASE \E t \in taken : t[2] = d
      <4>1. PICK t \in taken : t[2] = d
        BY <3>1
      <4>2. t[1] <= k
        BY <1>3, <2>2, <4>1
      <4> QED
        BY <1>2, <4>1, <4>2
    <3>2. CASE \A t \in taken : t[2] # d
      <4>1. PICK e : e <= d /\ FitsLine(i, e) /\ <<i, e>> \in more
        BY <2>2, <3>2, TakeFirst DEF more
      <4>2. <<i, e>>[1] = i /\ <<i, e>>[2] = e /\ i <= i
        OBVIOUS
      <4> QED
        BY <2>2, <4>1, <4>2
    <3> QED
      BY <3>1, <3>2
  <2> QED
    BY <2>1, <2>2
<1> QED
  BY <1>5, <1>6 DEF more

(* What restart_windows has handed out when it is through.                  *)
LEMMA LinesTaken ==
  ASSUME History
  PROVE  TakenWell(DeployOf, Len(health)) /\ TakenAll(DeployOf, Len(health))
<1> DEFINE n == Len(health)
<1>1. PICK f : TakenBy(f, n) /\ DeployOf = f[n]
  BY DeployOfIs
<1>2. health \in Seq(HealthRecord)
  BY DEF History, HistoryTyped
<1>3. n \in Nat /\ DOMAIN health = 1 .. n
  BY <1>2, Records
<1> HIDE DEF n
<1>4. /\ f[0] = {}
      /\ \A m \in 1 .. n : f[m] = Take(f[m - 1], m)
  <2>1. f = [i \in 0 .. n |-> IF i = 0 THEN {} ELSE Take(f[i - 1], i)]
    BY <1>1 DEF TakenBy
  <2>2. \A i \in 0 .. n : f[i] = IF i = 0 THEN {} ELSE Take(f[i - 1], i)
    BY <2>1
  <2>3. 0 \in 0 .. n /\ \A m \in 1 .. n : m \in 0 .. n /\ m # 0
    BY <1>3
  <2> QED
    BY <2>2, <2>3
<1> DEFINE Good(m) == TakenWell(f[m], m) /\ TakenAll(f[m], m)
           Bad == {m \in 0 .. n : ~Good(m)}
<1>5. Bad = {}
  <2> SUFFICES ASSUME Bad # {} PROVE FALSE
    OBVIOUS
  <2> DEFINE b == Min(Bad)
  <2>1. b \in Bad /\ \A x \in Bad : b <= x
    <3>1. Bad \subseteq Nat
      OBVIOUS
    <3> HIDE DEF Bad
    <3> QED
      BY <3>1, MinOf
  <2> HIDE DEF b
  <2>2. b \in 0 .. n /\ ~Good(b)
    BY <2>1
  <2>3. CASE b = 0
    <3>1. Good(0)
      BY <1>4 DEF TakenWell, TakenAll
    <3> QED
      BY <2>2, <2>3, <3>1
  <2>4. CASE b # 0
    <3> DEFINE c == b - 1
    <3>1. c \in 0 .. n /\ c \in Nat /\ c < b /\ b = c + 1 /\ b \in 1 .. n /\ b \in DOMAIN health
      BY <1>3, <2>2, <2>4
    <3>2. Good(c)
      BY <2>1, <3>1
    <3>3. f[b] = Take(f[c], c + 1)
      BY <1>4, <3>1
    <3> HIDE DEF c
    <3>4. Good(c + 1)
      BY <1>3, <3>1, <3>2, <3>3, TakenStep
    <3> QED
      BY <2>2, <3>1, <3>4
  <2> QED
    BY <2>3, <2>4
<1>6. Good(n)
  BY <1>3, <1>5
<1> QED
  BY <1>1, <1>6 DEF n

-----------------------------------------------------------------------------
Windows == RestartWindows \cup WorkWindows

(* The window of a declared work.                                           *)
LEMMA WorkFields ==
  ASSUME NEW w \in WorkWindows
  PROVE  w.place = Len(health) + 1 /\ w.reason = "manual intervention"
<1> DEFINE window(work) == [place |-> Len(health) + 1, begin |-> work.from, end |-> WorkEnd(work),
                            sensors |-> {work.sensor}, reason |-> "manual intervention"]
<1>1. WorkWindows = {window(work) : work \in interventions}
  BY DEF WorkWindows
<1>2. PICK work \in interventions : w = window(work)
  BY <1>1
<1> QED
  BY <1>2

(* What a minute is put down to: the reason of a window that holds it.      *)
LEMMA ReasonIsAWindows ==
  ASSUME History, NEW t, NEW s, ReasonOf(Windows, t, s) # "receptor"
  PROVE  \E w \in Windows : w.begin <= t /\ t <= w.end /\ w.reason = ReasonOf(Windows, t, s)
<1> DEFINE holding == {w \in Windows : w.begin <= t /\ t <= w.end /\ s \in w.sensors}
           places == {w.place : w \in holding}
<1>1. holding # {} /\ places # {}
  BY DEF ReasonOf
<1>2. \A w \in Windows : w.place \in Nat
  <2>1. health \in Seq(HealthRecord)
    BY DEF History, HistoryTyped
  <2>2. Len(health) + 1 \in Nat /\ DOMAIN health \subseteq Nat
    BY <2>1, Records
  <2>3. \A w \in RestartWindows : w.place \in Nat
    BY <2>2, WindowFields
  <2>4. \A w \in WorkWindows : w.place \in Nat
    BY <2>2, WorkFields
  <2> QED
    BY <2>3, <2>4 DEF Windows
<1>3. places \subseteq Nat
  BY <1>2
<1>4. Min(places) \in places /\ \A x \in places : Min(places) <= x
  BY <1>1, <1>3, MinOf
<1>5. \E w \in holding : \A v \in holding : w.place <= v.place
  <2>1. PICK w \in holding : w.place = Min(places)
    BY <1>4
  <2>2. \A v \in holding : v.place \in places
    OBVIOUS
  <2> QED
    BY <1>4, <2>1, <2>2
<1> DEFINE first == CHOOSE w \in holding : \A v \in holding : w.place <= v.place
<1>6. first \in holding
  BY <1>5
<1>7. ReasonOf(Windows, t, s) = first.reason
  BY <1>1 DEF ReasonOf
<1> QED
  BY <1>6, <1>7

(* The minutes without coverage: every one of the day, with its reason.     *)
LEMMA DownFields ==
  /\ \A m \in DownMinutes :
       /\ m.record \in InDay /\ m.sensor \in names /\ IsDown(m.record, m.sensor)
       /\ m.reason = ReasonOf(Windows, health[m.record].at, m.sensor)
       /\ m = [record |-> m.record, sensor |-> m.sensor, reason |-> m.reason]
  /\ \A i \in InDay, s \in names :
       IsDown(i, s) => \E m \in DownMinutes : m.record = i /\ m.sensor = s
<1> DEFINE pairs == {p \in InDay \X names : IsDown(p[1], p[2])}
           minuteOf(p) == [record |-> p[1], sensor |-> p[2],
                           reason |-> ReasonOf(Windows, health[p[1]].at, p[2])]
<1>1. DownMinutes = {minuteOf(p) : p \in pairs}
  BY DEF DownMinutes, Windows
<1>2. ASSUME NEW m \in DownMinutes
      PROVE  /\ m.record \in InDay /\ m.sensor \in names /\ IsDown(m.record, m.sensor)
             /\ m.reason = ReasonOf(Windows, health[m.record].at, m.sensor)
             /\ m = [record |-> m.record, sensor |-> m.sensor, reason |-> m.reason]
  <2>1. PICK p \in pairs : m = minuteOf(p)
    BY <1>1
  <2>2. m.record = p[1] /\ m.sensor = p[2] /\ m.reason = ReasonOf(Windows, health[p[1]].at, p[2])
    BY <2>1
  <2>3. m = [record |-> m.record, sensor |-> m.sensor, reason |-> m.reason]
    BY <2>1
  <2> QED
    BY <2>2, <2>3
<1>3. ASSUME NEW i \in InDay, NEW s \in names, IsDown(i, s)
      PROVE  \E m \in DownMinutes : m.record = i /\ m.sensor = s
  <2>1. <<i, s>> \in pairs /\ <<i, s>>[1] = i /\ <<i, s>>[2] = s
    BY <1>3
  <2>2. minuteOf(<<i, s>>) \in DownMinutes
    BY <1>1, <2>1
  <2>3. minuteOf(<<i, s>>).record = i /\ minuteOf(<<i, s>>).sensor = s
    BY <2>1
  <2> QED
    BY <2>2, <2>3
<1> QED
  BY <1>2, <1>3

(* A minute a deploy excuses: its window is that of a restart that took a   *)
(* planned line.                                                            *)
LEMMA DeployMinute ==
  ASSUME History, NEW m \in DownMinutes, m.reason = "deploy"
  PROVE  \E i \in DOMAIN health, d \in PlannedDeploys :
           /\ IsRestart(i) /\ <<i, d>> \in DeployOf /\ FitsLine(i, d)
           /\ health[m.record].at <= WindowEnd(i)
<1>1. PICK w \in Windows : health[m.record].at <= w.end /\ w.reason = "deploy"
  BY DownFields, ReasonIsAWindows
<1>2. w \in RestartWindows
  BY <1>1, WorkFields DEF Windows
<1>3. PICK i \in DOMAIN health :
        /\ IsRestart(i) /\ w.end = WindowEnd(i)
        /\ w.reason = IF \E t \in DeployOf : t[1] = i THEN "deploy" ELSE "gateway restart"
  BY <1>2, WindowFields
<1>4. PICK t \in DeployOf : t[1] = i
  BY <1>1, <1>3
<1>5. t = <<i, t[2]>> /\ FitsLine(i, t[2])
  BY <1>4, LinesTaken DEF TakenWell
<1> QED
  BY <1>1, <1>3, <1>4, <1>5 DEF FitsLine

(* Where deploys are apart, an answer after a deploy and before a restart   *)
(* means that the deploy's own restart, or an earlier one, took its line.   *)
LEMMA LineIsTakenAtOnce ==
  ASSUME History, Spaced,
         NEW of \in [CiLines -> deploys],
         \A k \in CiLines : of[k].start \in {k.at, k.at + 1},
         \A k, l \in CiLines : k.at < l.at => of[k].start < of[l].start,
         NEW l \in CiLines, l.at \in PlannedDeploys,
         NEW i \in DOMAIN health, IsRestart(i), <<i, l.at>> \in DeployOf,
         NEW j \in Answered, j < i, of[l].start < health[j].at
  PROVE  FALSE
<1> DEFINE start == of[l].start
           After == {k \in Answered : start < health[k].at}
           q == Min(After)
<1>0. /\ HistoryTyped /\ RecordsGrow /\ StartsGrow /\ DeploysRestart
      /\ health \in Seq(HealthRecord) /\ of[l] \in deploys
  BY DEF History, HistoryTyped
<1>1. /\ start \in Nat /\ l.at \in Nat /\ BeforeStart \in Nat
      /\ \A k \in CiLines : k.at \in Nat /\ of[k].start \in Nat
  <2>1. \A k \in lines : k.at \in Nat
    BY <1>0, Bounds DEF HistoryTyped
  <2>2. \A d \in deploys : d.start \in Nat
    BY <1>0, Bounds DEF HistoryTyped
  <2>3. \A k \in CiLines : k \in lines /\ of[k] \in deploys
    BY DEF CiLines
  <2> QED
    BY <2>1, <2>2, <2>3, Bounds
<1>2. \A k \in DOMAIN health : k \in Nat /\ k >= 1 /\ health[k].at \in Nat /\ health[k].started \in Nat
  BY <1>0, Records
<1>3. Answered \subseteq DOMAIN health /\ 1 \in Answered
  BY <1>0, <1>2, Records DEF Answered, RecordsGrow
<1>4. q \in After /\ q <= j
  <2>1. j \in After /\ After \subseteq Nat
    BY <1>2, <1>3
  <2> HIDE DEF After
  <2> QED
    BY <2>1, MinOf
<1>5. q \in Answered /\ q \in DOMAIN health /\ start < health[q].at /\ q < i
  BY <1>2, <1>3, <1>4
<1>6. \A k \in Answered : k < q => health[k].at <= start
  <2> SUFFICES ASSUME NEW k \in Answered, k < q, ~(health[k].at <= start) PROVE FALSE
    OBVIOUS
  <2>1. k \in After /\ After \subseteq Nat
    BY <1>1, <1>2, <1>3
  <2>2. q <= k
    <3> HIDE DEF After
    <3> QED
      BY <2>1, MinOf
  <2> QED
    BY <1>2, <1>3, <1>5, <2>2
<1> HIDE DEF After, q
<1>7. IsRestart(q)
  <2> DEFINE p == PreviousAnswer(q)
  <2>1. 1 < q
    BY <1>0, <1>1, <1>2, <1>3, <1>5 DEF RecordsGrow
  <2>2. p \in Answered \cup {0} /\ p \in Nat /\ p < q /\ 1 <= p
    BY <1>3, <1>5, <2>1, PreviousAnswers
  <2>3. p \in Answered /\ p > 0
    BY <2>2
  <2>4. health[p].at <= start
    BY <1>6, <2>2, <2>3
  <2>5. health[p].started < start
    BY <1>0, <1>1, <1>2, <1>3, <2>3, <2>4 DEF DeploysRestart
  <2>6. health[q].started >= start
    BY <1>0, <1>5 DEF DeploysRestart
  <2>7. health[p].started # health[q].started
    BY <1>1, <1>2, <1>3, <1>5, <2>3, <2>5, <2>6
  <2> QED
    BY <1>5, <2>3, <2>7 DEF IsRestart
<1>8. health[q].started >= start /\ health[q].started <= health[i].started
  BY <1>0, <1>5, <1>3 DEF DeploysRestart, StartsGrow, IsRestart
<1>9. FitsLine(i, l.at)
  BY LinesTaken DEF TakenWell
<1>10. FitsLine(q, l.at)
  <2>1. start \in {l.at, l.at + 1}
    OBVIOUS
  <2>2. health[i].started \in l.at .. l.at + BeforeStart
    BY <1>9 DEF FitsLine
  <2>3. health[q].started \in l.at .. l.at + BeforeStart
    BY <1>1, <1>2, <1>5, <1>8, <2>1, <2>2
  <2> QED
    BY <2>3 DEF FitsLine
<1>11. PICK t \in DeployOf : t[1] <= q /\ (t[2] = l.at \/ (t[1] = q /\ t[2] <= l.at))
  <2>1. q \in 1 .. Len(health)
    BY <1>0, <1>5, Records
  <2> QED
    BY <1>7, <1>10, <2>1, LinesTaken DEF TakenAll
<1>12. t[2] # l.at
  <2> SUFFICES ASSUME t[2] = l.at PROVE FALSE
    OBVIOUS
  <2>1. <<i, l.at>>[1] = i /\ <<i, l.at>>[2] = l.at
    OBVIOUS
  <2>2. t = <<i, l.at>>
    BY <2>1, LinesTaken DEF TakenWell
  <2>3. i <= q
    BY <2>1, <2>2, <1>11
  <2> QED
    BY <1>2, <1>5, <2>3
<1>13. t[1] = q /\ t[2] \in PlannedDeploys /\ FitsLine(q, t[2]) /\ t[2] \in Nat /\ t[2] < l.at
  <2>1. t[1] = q /\ t[2] <= l.at
    BY <1>11, <1>12
  <2>2. FitsLine(t[1], t[2])
    BY <1>11, LinesTaken DEF TakenWell
  <2>3. t[2] \in PlannedDeploys /\ t[2] \in Nat
    BY <2>2, PlannedAreMinutes DEF FitsLine
  <2> QED
    BY <2>1, <2>2, <2>3, <1>1, <1>12
<1>14. PICK k \in CiLines : k.at = t[2]
  BY <1>13, PlannedAreMinutes
<1>15. of[k].start < start /\ of[k].start \in Nat /\ of[k].start >= k.at
  BY <1>1, <1>13, <1>14
<1>16. of[k].start + BeforeStart + 1 < start
  BY <1>0, <1>15 DEF Spaced
<1>17. health[q].started <= k.at + BeforeStart
  BY <1>1, <1>2, <1>5, <1>13, <1>14 DEF FitsLine
<1> QED
  BY <1>1, <1>2, <1>5, <1>8, <1>15, <1>16, <1>17

(* Whatever minute a deploy excuses follows a standing deploy's restart     *)
(* closely, and nobody had seen every receptor back before it.              *)
THEOREM DeploysExcuseTheirOwn == DaySpec => []ExcusedByItsDeploy
<1>1. ASSUME History PROVE ExcusedByItsDeploy
  <2> USE <1>1
  <2> SUFFICES ASSUME NEW m \in DownMinutes, m.reason = "deploy"
               PROVE  \E d \in deploys :
                        /\ d.stands
                        /\ health[m.record].at <= d.start + BeforeStart + RestartBlind
                        /\ Spaced =>
                             \A j \in Answered : d.start < health[j].at /\ j < m.record
                                                   => ~AllCovered(j)
    BY DEF ExcusedByItsDeploy
  <2>1. PICK i \in DOMAIN health, at \in PlannedDeploys :
           /\ IsRestart(i) /\ <<i, at>> \in DeployOf /\ FitsLine(i, at)
           /\ health[m.record].at <= WindowEnd(i)
    BY DeployMinute
  <2>2. PICK l \in CiLines : l.at = at /\ ~RolledBack(l)
    BY PlannedAreMinutes
  <2>3. PICK of \in [CiLines -> deploys] :
             /\ \A k \in CiLines : /\ of[k].start \in {k.at, k.at + 1}
                                   /\ of[k].stands \/ RolledBack(k)
             /\ \A k, j \in CiLines : k.at < j.at => of[k].start < of[j].start
    BY DEF History, LinesAreDeploys
  <2>4. health \in Seq(HealthRecord) /\ RecordsGrow
    BY DEF History, HistoryTyped
  <2>5. m.record \in DOMAIN health
    BY DownFields DEF InDay
  <2>6. /\ at \in Nat /\ BeforeStart \in Nat /\ RestartBlind \in Nat
        /\ health[i].started \in Nat /\ health[m.record].at \in Nat
        /\ \A j \in DOMAIN health : j \in Nat /\ health[j].at \in Nat
    BY <2>4, <2>5, Bounds, Records, PlannedAreMinutes
  <2>7. of[l] \in deploys /\ of[l].stands /\ of[l].start \in {at, at + 1}
    BY <2>2, <2>3
  <2>8. health[m.record].at <= of[l].start + BeforeStart + RestartBlind
    <3>1. health[i].started <= at + BeforeStart
      BY <2>1, <2>6 DEF FitsLine
    <3>2. WindowEnd(i) <= health[i].started + RestartBlind /\ WindowEnd(i) \in Nat
      BY WindowEnds
    <3> QED
      BY <2>1, <2>6, <2>7, <3>1, <3>2
  <2>9. ASSUME Spaced, NEW j \in Answered, of[l].start < health[j].at, j < m.record
        PROVE  ~AllCovered(j)
    <3>1. CASE j < i
      BY <1>1, <2>1, <2>2, <2>3, <2>9, <3>1, LineIsTakenAtOnce
    <3>2. CASE j >= i
      <4>1. j \in DOMAIN health /\ health[j].at < health[m.record].at
        BY <2>4, <2>5, <2>9 DEF RecordsGrow, Answered
      <4>2. ~(WindowEnd(i) <= health[j].at)
        <5>1. WindowEnd(i) \in Nat
          BY WindowEnds
        <5> QED
          BY <2>1, <2>6, <4>1, <5>1
      <4> QED
        BY <2>9, <3>2, <4>2, WindowEnds
    <3> QED
      BY <2>6, <3>1, <3>2 DEF Answered
  <2> QED
    BY <2>7, <2>8, <2>9
<1> QED
  BY <1>1, HistoryHolds, PTL

-----------------------------------------------------------------------------
(* The records of the day: a stretch of the history, up to its end.         *)
LEMMA DayRecords ==
  ASSUME History
  PROVE  /\ InDay \subseteq DOMAIN health /\ InDay \subseteq 1 .. Len(health) /\ Len(health) \in Nat
         /\ \A i \in InDay, j \in DOMAIN health : i <= j => j \in InDay
<1>1. health \in Seq(HealthRecord) /\ RecordsGrow
  BY DEF History, HistoryTyped
<1>2. /\ DOMAIN health = 1 .. Len(health) /\ Len(health) \in Nat
      /\ \A i \in DOMAIN health : i \in Nat /\ health[i].at \in Nat
  BY <1>1, Records
<1>3. ASSUME NEW i \in InDay, NEW j \in DOMAIN health, i <= j PROVE j \in InDay
  <2>1. i = j \/ health[i].at < health[j].at
    BY <1>1, <1>2, <1>3 DEF InDay, RecordsGrow
  <2> QED
    BY <1>2, <2>1, Bounds DEF InDay
<1> QED
  BY <1>2, <1>3 DEF InDay

(* LongestGap is the length of some run of records, and none is longer.     *)
LEMMA LongestGaps ==
  ASSUME NEW n \in Nat, NEW records, records \subseteq 1 .. n
  PROVE  /\ LongestGap(records) \in Nat
         /\ \A i, j \in records : i .. j \subseteq records => j - i + 1 <= LongestGap(records)
         /\ LongestGap(records) > 0 =>
              \E i, j \in records : i .. j \subseteq records /\ LongestGap(records) = j - i + 1
<1> DEFINE runs == {q \in records \X records : q[1] .. q[2] \subseteq records}
           lengths == {p[2] - p[1] + 1 : p \in runs}
           S == {0} \cup lengths
           Up == {x + n : x \in S}
<1>1. \A x \in S : x \in Int /\ x + n \in 0 .. n + n
  <2> SUFFICES ASSUME NEW x \in S PROVE x \in Int /\ x + n \in 0 .. n + n
    OBVIOUS
  <2>1. CASE x = 0
    BY <2>1
  <2>2. CASE x \in lengths
    <3>1. PICK p \in runs : x = p[2] - p[1] + 1
      BY <2>2
    <3>2. p[1] \in 1 .. n /\ p[2] \in 1 .. n
      OBVIOUS
    <3> QED
      BY <3>1, <3>2
  <2> QED
    BY <2>1, <2>2
<1>2. Up \subseteq 0 .. n + n /\ Up # {}
  BY <1>1
<1>3. Max(Up) \in Up /\ \A x \in Up : x <= Max(Up)
  <2> HIDE DEF Up
  <2>1. n + n \in Nat
    OBVIOUS
  <2> QED
    BY <1>2, <2>1, MaxOf
<1>4. PICK g \in S : Max(Up) = g + n
  BY <1>3
<1>5. \A x \in S : x <= g
  <2> TAKE x \in S
  <2>1. x + n <= g + n
    BY <1>3, <1>4
  <2> QED
    BY <1>1, <2>1
<1> HIDE DEF S, Up
<1>6. Max(S) \in S /\ \A x \in S : x <= Max(S)
  <2>1. \E m \in S : \A x \in S : m >= x
    BY <1>1, <1>5
  <2>2. Max(S) \in S /\ \A x \in S : Max(S) >= x
    BY <2>1 DEF Max
  <2> QED
    BY <2>2
<1>7. LongestGap(records) = Max(S)
  BY DEF LongestGap, S
<1>8. LongestGap(records) \in Nat
  <2>1. 0 \in S
    BY DEF S
  <2> QED
    BY <1>1, <1>6, <1>7, <2>1
<1>9. ASSUME NEW i \in records, NEW j \in records, i .. j \subseteq records
      PROVE  j - i + 1 <= LongestGap(records)
  <2>1. <<i, j>> \in runs /\ <<i, j>>[1] = i /\ <<i, j>>[2] = j
    BY <1>9
  <2>2. <<i, j>>[2] - <<i, j>>[1] + 1 \in lengths
    BY <2>1
  <2>3. j - i + 1 \in S
    BY <2>1, <2>2 DEF S
  <2> QED
    BY <1>6, <1>7, <2>3
<1>10. ASSUME LongestGap(records) > 0
       PROVE  \E i, j \in records : i .. j \subseteq records /\ LongestGap(records) = j - i + 1
  <2>1. LongestGap(records) \in lengths
    BY <1>6, <1>7, <1>10 DEF S
  <2>2. PICK p \in runs : LongestGap(records) = p[2] - p[1] + 1
    BY <2>1
  <2>3. p[1] \in records /\ p[2] \in records /\ p[1] .. p[2] \subseteq records
    OBVIOUS
  <2> QED
    BY <2>2, <2>3
<1> QED
  BY <1>8, <1>9, <1>10

(* The uncovered records of a receptor: its down minutes without excuse.    *)
LEMMA UncoveredIs ==
  ASSUME NEW s \in names
  PROVE  /\ Uncovered(DownMinutes, s) \subseteq InDay
         /\ \A i \in Uncovered(DownMinutes, s) : IsDown(i, s)
         /\ \A m \in DownMinutes : m.sensor = s /\ m.reason \notin Excused
                                     => m.record \in Uncovered(DownMinutes, s)
BY DownFields DEF Uncovered

(* Where no deploy stands, every planned line was rolled back: no minute is *)
(* a deploy's. And without declared work none is excused.                   *)
LEMMA NothingExcused ==
  ASSUME History, interventions = {}, \A d \in deploys : ~d.stands
  PROVE  \A m \in DownMinutes : m.reason \notin Excused
<1> SUFFICES ASSUME NEW m \in DownMinutes, m.reason \in Excused PROVE FALSE
  OBVIOUS
<1>1. CASE m.reason = "deploy"
  <2>1. PICK at \in PlannedDeploys : TRUE
    BY <1>1, DeployMinute
  <2>2. PICK l \in CiLines : l.at = at /\ ~RolledBack(l)
    BY <2>1, PlannedAreMinutes
  <2>3. \E d \in deploys : d.stands
    BY <2>2 DEF History, LinesAreDeploys
  <2> QED
    BY <2>3
<1>2. CASE m.reason = "manual intervention"
  <2>0. ReasonOf(Windows, health[m.record].at, m.sensor) = "manual intervention"
    BY <1>2, DownFields
  <2>1. PICK w \in Windows : w.reason = "manual intervention"
    BY <2>0, ReasonIsAWindows
  <2>2. w \notin RestartWindows
    BY <2>1, WindowFields
  <2>3. w \in WorkWindows
    BY <2>2 DEF Windows
  <2> QED
    BY <2>3 DEF WorkWindows
<1> QED
  BY <1>1, <1>2 DEF Excused

(* The day fails for a public receptor that was out for more than FailMin   *)
(* minutes in a row, always when nothing excuses it, and only then.         *)
THEOREM OutagesFailTheDay == DaySpec => []OutageFailsTheDay
<1> DEFINE out == \E s \in Public \cap names, i, j \in InDay : j - i >= FailMin /\ \A k \in i .. j : IsDown(k, s)
<1>0. FailMin \in Nat
  BY Bounds
<1>1. ASSUME History, Decision = "FAIL" PROVE out
  <2> USE <1>1
  <2>1. PICK s \in Public \cap names : LongestGap(Uncovered(DownMinutes, s)) > FailMin
    BY DEF Decision, DayVerdict, DayFails, IsLong
  <2> DEFINE records == Uncovered(DownMinutes, s)
  <2>2. records \subseteq InDay /\ \A i \in records : IsDown(i, s)
    BY <1>0, UncoveredIs
  <2>3. records \subseteq 1 .. Len(health) /\ Len(health) \in Nat
    BY <2>2, DayRecords
  <2> HIDE DEF records
  <2>4. LongestGap(records) > FailMin /\ LongestGap(records) \in Nat
    BY <2>1, <2>3, LongestGaps DEF records
  <2>5. PICK i \in records, j \in records :
               i .. j \subseteq records /\ LongestGap(records) = j - i + 1
    <3>1. LongestGap(records) > 0
      BY <1>0, <2>4
    <3> QED
      BY <2>3, <3>1, LongestGaps
  <2>6. j - i >= FailMin
    BY <1>0, <2>3, <2>4, <2>5
  <2> QED
    BY <2>2, <2>5, <2>6
<1>2. ASSUME History, interventions = {}, \A d \in deploys : ~d.stands, out
      PROVE  Decision = "FAIL"
  <2> USE <1>2
  <2>1. PICK s \in Public \cap names, i \in InDay, j \in InDay : j - i >= FailMin /\ \A k \in i .. j : IsDown(k, s)
    OBVIOUS
  <2> DEFINE records == Uncovered(DownMinutes, s)
  <2>2. InDay \subseteq DOMAIN health /\ InDay \subseteq 1 .. Len(health) /\ Len(health) \in Nat
    BY DayRecords
  <2>3. DOMAIN health = 1 .. Len(health)
    BY DEF History, HistoryTyped
  <2>4. \A k \in i .. j : k \in InDay
    <3> SUFFICES ASSUME NEW k \in i .. j PROVE k \in InDay
      OBVIOUS
    <3>1. k \in DOMAIN health /\ i <= k
      BY <2>2, <2>3
    <3> QED
      BY <3>1, DayRecords
  <2>5. i .. j \subseteq records
    <3> SUFFICES ASSUME NEW k \in i .. j PROVE k \in records
      OBVIOUS
    <3>1. PICK m \in DownMinutes : m.record = k /\ m.sensor = s
      BY <1>0, <2>1, <2>4, DownFields
    <3> QED
      BY <1>0, <3>1, NothingExcused, UncoveredIs
  <2>6. records \subseteq 1 .. Len(health)
    BY <1>0, <2>2, UncoveredIs
  <2>7. i \in records /\ j \in records
    <3>1. i \in i .. j /\ j \in i .. j
      BY <1>0, <2>1, <2>2
    <3> QED
      BY <2>5, <3>1
  <2> HIDE DEF records
  <2>8. j - i + 1 <= LongestGap(records) /\ LongestGap(records) \in Nat
    BY <2>2, <2>5, <2>6, <2>7, LongestGaps
  <2>9. LongestGap(records) > FailMin
    BY <1>0, <2>1, <2>2, <2>8
  <2> QED
    BY <2>9 DEF Decision, DayVerdict, DayFails, IsLong, records
<1>3. History => OutageFailsTheDay
  BY <1>1, <1>2 DEF OutageFailsTheDay
<1> QED
  BY <1>3, HistoryHolds, PTL

(* Of two numbers the greater has the greater multiple.                     *)
LEMMA Multiples ==
  ASSUME NEW c \in Nat, NEW a \in Nat, NEW b \in Nat, a <= b
  PROVE  c * a <= c * b
<1>1. c * b = c * a + c * (b - a) /\ b - a \in Nat
  OBVIOUS
<1>2. c * (b - a) \in Nat /\ c * a \in Nat
  BY <1>1
<1> QED
  BY <1>1, <1>2

LEMMA UnionCount ==
  ASSUME NEW S, NEW T, IsFiniteSet(S), IsFiniteSet(T)
  PROVE  /\ IsFiniteSet(S \cup T) /\ Cardinality(S \cup T) \in Nat
         /\ Cardinality(S) \in Nat /\ Cardinality(T) \in Nat
         /\ Cardinality(S \cup T) <= Cardinality(S) + Cardinality(T)
<1>1. /\ IsFiniteSet(S \cup T)
      /\ Cardinality(S \cup T) = Cardinality(S) + Cardinality(T) - Cardinality(S \cap T)
  BY FS_Union
<1>2. Cardinality(S) \in Nat /\ Cardinality(T) \in Nat /\ Cardinality(S \cap T) \in Nat
  BY FS_Intersection, FS_CardinalityType
<1>3. Cardinality(S \cup T) \in Nat
  BY <1>1, FS_CardinalityType
<1> QED
  BY <1>1, <1>2, <1>3

(* On a certified day each receptor was covered, excused or not in the list *)
(* for all but the minutes a day may miss.                                  *)
THEOREM CertifiedDaysWereServed == DaySpec => []CertifiedDayWasServed
<1>1. ASSUME History, Decision = "CERTIFIED", NEW s \in names
      PROVE  ServedFor(s)
  <2> USE <1>1
  <2> DEFINE excused == {m \in DownMinutes : m.sensor = s /\ m.reason \in Excused}
             covered == {i \in InDay : Covers(i, s)}
             unnamed == {i \in InDay : Unnamed(i, s)}
             bare == Uncovered(DownMinutes, s)
             spared == {m.record : m \in excused}
             seen == {i \in InDay : health[i].seen # "ssh"}
  <2>1. Watched /\ ~(Cardinality(bare) > DegradedMin)
    <3>1. ~DayDegrades(DownMinutes) /\ Watched
      BY DEF Decision, DayVerdict
    <3> QED
      BY <3>1 DEF DayDegrades
  <2>2. IsFiniteSet(InDay)
    <3>1. health \in Seq(HealthRecord)
      BY DEF History, HistoryTyped
    <3>2. IsFiniteSet(DOMAIN health) /\ InDay \in SUBSET DOMAIN health
      BY <3>1, Records, DayRecords
    <3> QED
      BY <3>2, FS_Subset
  <2>3. seen \subseteq (covered \cup unnamed) \cup (bare \cup spared)
    <3> SUFFICES ASSUME NEW i \in InDay, health[i].seen # "ssh", i \notin covered, i \notin unnamed
                 PROVE  i \in bare \cup spared
      OBVIOUS
    <3>1. health \in Seq(HealthRecord)
      BY DEF History, HistoryTyped
    <3>2. health[i].seen \in {"status", "gateway", "ssh"}
      BY <3>1, DayRecords, Records
    <3>3. IsDown(i, s)
      BY <3>2 DEF Covers, Unnamed, IsDown
    <3>4. PICK m \in DownMinutes : m.record = i /\ m.sensor = s
      BY <3>3, DownFields
    <3>5. CASE m.reason \in Excused
      BY <3>4, <3>5
    <3>6. CASE m.reason \notin Excused
      BY <3>4, <3>6, UncoveredIs
    <3> QED
      BY <3>5, <3>6
  <2>4. /\ IsFiniteSet(covered) /\ IsFiniteSet(bare) /\ IsFiniteSet(spared) /\ IsFiniteSet(seen)
        /\ IsFiniteSet(unnamed)
    <3>1. covered \in SUBSET InDay /\ bare \in SUBSET InDay /\ spared \in SUBSET InDay /\ seen \in SUBSET InDay
          /\ unnamed \in SUBSET InDay
      BY UncoveredIs, DownFields
    <3> HIDE DEF covered, unnamed, bare, spared, seen
    <3> QED
      BY <2>2, <3>1, FS_Subset
  <2>5. IsFiniteSet(excused) /\ Cardinality(excused) = Cardinality(spared)
    <3> DEFINE recordOf == [m \in excused |-> m.record]
    <3>1. recordOf \in [excused -> spared]
      OBVIOUS
    <3>2. ASSUME NEW m \in excused, NEW k \in excused, recordOf[m] = recordOf[k] PROVE m = k
      <4>1. m.record = k.record /\ m.sensor = k.sensor
        BY <3>2
      <4>2. m.reason = k.reason
        BY <4>1, DownFields
      <4> QED
        BY <4>1, <4>2, DownFields
    <3>3. \A i \in spared : \E m \in excused : recordOf[m] = i
      OBVIOUS
    <3> HIDE DEF recordOf, excused, spared
    <3>4. recordOf \in Injection(excused, spared) /\ recordOf \in Surjection(excused, spared)
      BY <3>1, <3>2, <3>3 DEF Injection, Surjection, IsInjective
    <3> QED
      BY <2>4, <3>4, FS_Injection
  <2> HIDE DEF excused, covered, unnamed, bare, spared, seen
  <2>6. /\ Cardinality(covered) \in Nat /\ Cardinality(bare) \in Nat /\ Cardinality(spared) \in Nat
        /\ Cardinality(seen) \in Nat /\ Cardinality(unnamed) \in Nat
    BY <2>4, FS_CardinalityType
  <2>7. Cardinality(seen) <= Cardinality(covered) + Cardinality(unnamed) + Cardinality(bare) + Cardinality(spared)
    <3> DEFINE told == covered \cup unnamed
               down == bare \cup spared
    <3>1. /\ IsFiniteSet(told) /\ Cardinality(told) \in Nat
          /\ Cardinality(told) <= Cardinality(covered) + Cardinality(unnamed)
      BY <2>4, UnionCount
    <3>2. /\ IsFiniteSet(down) /\ Cardinality(down) \in Nat
          /\ Cardinality(down) <= Cardinality(bare) + Cardinality(spared)
      BY <2>4, UnionCount
    <3>3. seen \in SUBSET (told \cup down)
      BY <2>3
    <3> HIDE DEF told, down
    <3>4. /\ IsFiniteSet(told \cup down) /\ Cardinality(told \cup down) \in Nat
          /\ Cardinality(told \cup down) <= Cardinality(told) + Cardinality(down)
      BY <3>1, <3>2, UnionCount
    <3>5. Cardinality(seen) <= Cardinality(told \cup down)
      BY <3>3, <3>4, FS_Subset
    <3> QED
      BY <2>6, <3>1, <3>2, <3>4, <3>5
  <2> DEFINE served == Cardinality(covered) + Cardinality(excused) + Cardinality(unnamed) + DegradedMin
  <2>8. Cardinality(seen) <= served /\ served \in Nat
    BY <2>1, <2>5, <2>6, <2>7, Bounds
  <2>9. SeenOf * Cardinality(seen) >= SeenPart * Minutes
    BY <2>1 DEF Watched, SeenMinutes, seen
  <2>10. SeenOf * Cardinality(seen) <= SeenOf * served
    <3> HIDE DEF served
    <3> QED
      BY <2>6, <2>8, Bounds, Multiples
  <2>11. Minutes \in Nat
    BY Bounds DEF Minutes, History, HistoryTyped
  <2>12. SeenOf * served >= SeenPart * Minutes
    <3> HIDE DEF served
    <3>1. /\ SeenOf * served \in Nat /\ SeenOf * Cardinality(seen) \in Nat /\ SeenPart * Minutes \in Nat
      BY <2>6, <2>8, <2>11, Bounds
    <3> QED
      BY <2>9, <2>10, <3>1
  <2> QED
    BY <2>12 DEF ServedFor, covered, excused, unnamed
<1>2. History => CertifiedDayWasServed
  BY <1>1 DEF CertifiedDayWasServed
<1> QED
  BY <1>2, HistoryHolds, PTL

=============================================================================
