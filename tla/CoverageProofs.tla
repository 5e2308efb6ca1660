--------------------------- MODULE CoverageProofs ---------------------------
(* The news of a channel alternate, and once APNs is up again nobody is     *)
(* remembered as told "lost" without a reason, for any number of phones,    *)
(* registrations, health changes and process deaths: what a check knows of  *)
(* the phones stays true while it waits for its saves and its pushes.       *)
EXTENDS Coverage, TLAPS

(* Each call waits for its save, then its notice is sent and noted: a phone *)
(* has no more of them than there were registrations.                       *)
Bounded ==
  \A t \in Tokens :
    putting[t][TRUE] + putting[t][FALSE] + notices[t].sending + notices[t].arrived
      <= registrations

(* A notice was sent because APNs was down when the phone registered.       *)
NoticesExcuse == \A t \in Tokens : notices[t] # NoNotice => t \in excused

(* A phone remembered as told "lost" follows the sensor, or moved.          *)
LostPhonesFollow ==
  \A t \in Tokens : phones[t].told = "lost" => phones[t].follows \/ t \in excused

Deciding == check.stage \in {"save webpush", "push webpush", "save apns", "push apns"}
Telling == check.stage = "to apns"

(* A phone told "lost" that the running check has to reach is among those   *)
(* it saw, and then among those it sends "restored" to or has reached.      *)
Owed(t) == phones[t].told = "lost" /\ t \notin excused
NobodyMissed ==
  \A t \in Tokens : Owed(t) =>
    /\ Deciding => t \in check.tokens
    /\ Telling /\ NewsOf("apns") = "restored" => t \in check.left \cup check.reached

(* The phones a check tells followed the sensor when it began.              *)
TellsFollowers ==
  /\ check.stage # "idle" =>
       \A t \in check.tokens : phones[t].follows \/ t \in excused
  /\ check.left \cup check.reached \subseteq check.tokens

(* What the channel is announced as is what the check is about to push.     *)
AnnouncedFirst ==
  /\ \A ch \in Channels : check.stage = PushStage(ch) => (ch \in announced <=> ch \notin check.covered)
  /\ Telling => ("apns" \in announced <=> "apns" \notin check.covered)

(* With APNs up and no news of it on the way nobody is owed any.            *)
Squared ==
  "apns" \notin announced /\ ~Telling /\ check.stage # "push apns" =>
    \A t \in Tokens : ~Owed(t)

(* The disk and the last news agree with the announced state, but for the   *)
(* push that is due.                                                        *)
Turn(ch) ==
  /\ ch \in announced <=> ch \in announcedDisk
  /\ lastNews[ch] = "lost" <=> IF check.stage = PushStage(ch) THEN ch \in check.covered
                               ELSE ch \in announced
TakesTurns == \A ch \in Channels : ch \notin cut => Turn(ch)

IInv ==
  /\ TypeOK /\ Bounded
  /\ NoticesExcuse /\ LostPhonesFollow /\ TellsFollowers /\ NobodyMissed
  /\ AnnouncedFirst /\ Squared /\ TakesTurns

-----------------------------------------------------------------------------
(* The news are told apart, so are the stages of a check.                   *)
LEMMA Stage ==
  /\ \A ch \in Channels :
       /\ PushStage(ch) \in Stages \ {"idle", "to apns"}
       /\ SaveStage(ch) \in Stages \ {"idle", "to apns"}
       /\ NextStage(ch) \in Stages \ {"to apns"}
  /\ \A ch, other \in Channels :
       /\ PushStage(ch) = PushStage(other) => ch = other
       /\ SaveStage(ch) # PushStage(other) /\ NextStage(ch) # PushStage(other)
BY DEF Channels, Stages, PushStage, SaveStage, NextStage

(* What the types say of one phone.                                         *)
LEMMA OnePhone ==
  ASSUME TypeOK, NEW t \in Tokens
  PROVE  /\ phones[t] \in Phone /\ phonesDisk[t] \in Phone
         /\ putting[t] \in [BOOLEAN -> 0 .. MaxRegistrations]
         /\ putting[t][TRUE] \in Nat /\ putting[t][FALSE] \in Nat
         /\ notices[t] \in Notices
         /\ notices[t].sending \in Nat /\ notices[t].arrived \in Nat
         /\ registrations \in Nat /\ MaxRegistrations \in Nat
         /\ registrations <= MaxRegistrations
<1>1. /\ phones[t] \in Phone /\ phonesDisk[t] \in Phone
      /\ putting[t] \in [BOOLEAN -> 0 .. MaxRegistrations]
      /\ notices[t] \in Notices
      /\ registrations \in 0 .. MaxRegistrations /\ MaxRegistrations \in Nat
  BY CoverageAssumption DEF TypeOK
<1>2. putting[t][TRUE] \in 0 .. MaxRegistrations /\ putting[t][FALSE] \in 0 .. MaxRegistrations
  BY <1>1
<1>3. notices[t].sending \in 0 .. MaxRegistrations /\ notices[t].arrived \in 0 .. MaxRegistrations
  BY <1>1 DEF Notices
<1>4. /\ putting[t][TRUE] \in Nat /\ putting[t][FALSE] \in Nat
      /\ notices[t].sending \in Nat /\ notices[t].arrived \in Nat
  <2>1. \A n \in 0 .. MaxRegistrations : n \in Nat
    BY <1>1
  <2> QED
    BY <1>2, <1>3, <2>1, Zenon
<1>5. registrations \in Nat /\ registrations <= MaxRegistrations
  BY <1>1
<1> QED
  BY <1>1, <1>4, <1>5

(* Noting what a phone was told leaves it a phone.                          *)
LEMMA NotedPhones ==
  ASSUME TypeOK, NEW tokens, NEW news \in News
  PROVE  Noted(tokens, news) \in [Tokens -> Phone]
<1> SUFFICES ASSUME NEW t \in Tokens
             PROVE  (IF t \in tokens THEN [phones[t] EXCEPT !.told = news] ELSE phones[t]) \in Phone
  BY DEF Noted
<1>1. phones[t] \in Phone
  BY DEF TypeOK
<1>2. [phones[t] EXCEPT !.told = news] \in Phone
  BY <1>1 DEF Phone, News
<1> QED
  BY <1>1, <1>2

(* Nothing is on its way at the start.                                      *)
LEMMA InitIInv == Init => IInv
<1> SUFFICES ASSUME Init PROVE IInv
  OBVIOUS
<1> USE CoverageAssumption
<1>1. TypeOK
  BY DEF Init, TypeOK, Stranger, Phone, News, NoCalls, NoNotice, Notices, NoCheck, Check, Stages,
         Channels
<1>2. Bounded
  BY DEF Init, Bounded, NoCalls, NoNotice
<1>3. NoticesExcuse /\ LostPhonesFollow /\ NobodyMissed /\ Squared
  BY DEF Init, NoticesExcuse, LostPhonesFollow, NobodyMissed, Squared, Owed, Stranger
<1>4. TellsFollowers
  BY DEF Init, TellsFollowers, NoCheck
<1>5. AnnouncedFirst /\ TakesTurns
  BY Stage DEF Init, AnnouncedFirst, TakesTurns, Turn, Telling, NoCheck
<1> QED
  BY <1>1, <1>2, <1>3, <1>4, <1>5 DEF IInv

(* Nothing but the health of the sensor or of a channel changes.            *)
LEMMA HealthStep ==
  ASSUME IInv, SensorTurns \/ (\E ch \in Channels : ChannelTurns(ch)) \/ GraceEnds
  PROVE  IInv'
<1>0. UNCHANGED <<announcing, phones, phonesDisk, putting, notices, heard, excused, registrations>>
  BY DEF SensorTurns, ChannelTurns, GraceEnds
<1> USE <1>0 DEF announcing
<1>1. TypeOK'
  <2>1. /\ killSwitch' \in BOOLEAN /\ grace' \in BOOLEAN /\ works' \in BOOLEAN
        /\ restarts' \in 0 .. MaxRestarts
    BY DEF IInv, TypeOK, SensorTurns, ChannelTurns, GraceEnds
  <2>2. degraded' \in SUBSET Channels
    BY DEF IInv, TypeOK, SensorTurns, ChannelTurns, GraceEnds
  <2>3. flips' \in 0 .. MaxFlips
    BY CoverageAssumption DEF IInv, TypeOK, SensorTurns, ChannelTurns, GraceEnds
  <2> QED
    BY <2>1, <2>2, <2>3 DEF IInv, TypeOK
<1>2. Bounded' /\ NoticesExcuse' /\ LostPhonesFollow'
  BY DEF IInv, Bounded, NoticesExcuse, LostPhonesFollow
<1>3. TellsFollowers' /\ NobodyMissed' /\ Squared'
  BY DEF IInv, TellsFollowers, NobodyMissed, Squared, Owed, Deciding, Telling, NewsOf
<1>4. AnnouncedFirst' /\ TakesTurns'
  BY DEF IInv, AnnouncedFirst, TakesTurns, Turn, Telling
<1> QED
  BY <1>1, <1>2, <1>3, <1>4 DEF IInv

-----------------------------------------------------------------------------
(* Steps of one phone's calls and notices: what they must keep of the phone *)
(* is the same whatever the step.                                           *)
Reasoned(t) ==
  /\ notices[t] # NoNotice => t \in excused
  /\ phones[t].told = "lost" => phones[t].follows \/ t \in excused

(* A phone is left as the check knew it, or it is excused, or no check runs,*)
(* APNs is up and the phone is not owed anything it was not owed before.    *)
Kept(t) ==
  \/ t \in excused'
  \/ phones'[t] = phones[t] /\ t \notin excused
  \/ Quiet /\ phones'[t].told # "lost"
  \/ Quiet /\ phones'[t].told = phones[t].told /\ t \notin excused

LEMMA PhoneStep ==
  ASSUME IInv, UNCHANGED announcing, \A t \in Tokens : Kept(t)
  PROVE  TellsFollowers' /\ NobodyMissed' /\ AnnouncedFirst' /\ Squared' /\ TakesTurns'
<1> USE DEF announcing
<1>1. AnnouncedFirst' /\ TakesTurns'
  BY DEF IInv, AnnouncedFirst, TakesTurns, Turn, Telling
<1>2. ASSUME NEW t \in Tokens, Owed(t)'
      PROVE  Owed(t)
  BY <1>2 DEF Kept, Owed
<1>3. NobodyMissed' /\ Squared'
  BY <1>2 DEF IInv, NobodyMissed, Squared, Deciding, Telling, NewsOf
<1>4. TellsFollowers'
  BY DEF IInv, TypeOK, Check, TellsFollowers, Kept, Quiet
<1> QED
  BY <1>1, <1>3, <1>4

(* A call that waits counts once more, and one that is answered counts as a *)
(* notice, if at all.                                                       *)
LEMMA Arithmetic ==
  ASSUME NEW m \in Nat, NEW n \in Nat, n <= m,
         NEW a \in 0 .. m, NEW b \in 0 .. m, NEW c \in Nat, NEW d \in Nat, a + b + c + d <= n
  PROVE  /\ c \in 0 .. m /\ d \in 0 .. m /\ a + b + c + d <= n + 1
         /\ n < m => /\ a + 1 \in 0 .. m /\ b + 1 \in 0 .. m
                     /\ (a + 1) + b + c + d <= n + 1 /\ a + (b + 1) + c + d <= n + 1
         /\ a > 0 => /\ a - 1 \in 0 .. m /\ c + 1 \in 0 .. m
                     /\ (a - 1) + b + c + d <= n /\ (a - 1) + b + (c + 1) + d <= n
         /\ b > 0 => /\ b - 1 \in 0 .. m /\ c + 1 \in 0 .. m
                     /\ a + (b - 1) + c + d <= n /\ a + (b - 1) + (c + 1) + d <= n
         /\ c > 0 => /\ c - 1 \in 0 .. m /\ d + 1 \in 0 .. m
                     /\ a + b + (c - 1) + d <= n /\ a + b + (c - 1) + (d + 1) <= n
         /\ d > 0 => d - 1 \in 0 .. m /\ a + b + c + (d - 1) <= n
OBVIOUS

(* One call more, or one less, of those that name the sensor or not.        *)
LEMMA Calls ==
  ASSUME NEW m \in Nat, NEW n \in Nat, n <= m,
         NEW calls \in [BOOLEAN -> 0 .. m], NEW follows \in BOOLEAN,
         NEW c \in Nat, NEW d \in Nat, calls[TRUE] + calls[FALSE] + c + d <= n,
         NEW more, more = [calls EXCEPT ![follows] = @ + 1],
         NEW less, less = [calls EXCEPT ![follows] = @ - 1]
  PROVE  /\ n < m => /\ more \in [BOOLEAN -> 0 .. m]
                     /\ more[TRUE] + more[FALSE] + c + d <= n + 1
         /\ calls[follows] > 0 => /\ less \in [BOOLEAN -> 0 .. m]
                                  /\ less[TRUE] + less[FALSE] + c + d <= n
                                  /\ less[TRUE] + less[FALSE] + (c + 1) + d <= n
                                  /\ c + 1 \in 0 .. m
<1>1. PICK a \in 0 .. m, b \in 0 .. m : a = calls[TRUE] /\ b = calls[FALSE]
  OBVIOUS
<1>2. a + b + c + d <= n
  BY <1>1, Zenon
<1>3. CASE follows = TRUE
  <2>1. /\ more[TRUE] = a + 1 /\ more[FALSE] = b /\ less[TRUE] = a - 1 /\ less[FALSE] = b
    BY <1>1, <1>3, Zenon
  <2>2. a + 1 \in 0 .. m => more \in [BOOLEAN -> 0 .. m]
    BY <1>1, <1>3
  <2>3. a - 1 \in 0 .. m => less \in [BOOLEAN -> 0 .. m]
    BY <1>1, <1>3
  <2>4. /\ n < m => a + 1 \in 0 .. m /\ (a + 1) + b + c + d <= n + 1
        /\ a > 0 => /\ a - 1 \in 0 .. m /\ c + 1 \in 0 .. m
                   /\ (a - 1) + b + c + d <= n /\ (a - 1) + b + (c + 1) + d <= n
    BY <1>2, Arithmetic
  <2> QED
    BY <1>1, <1>3, <2>1, <2>2, <2>3, <2>4, Zenon
<1>4. CASE follows = FALSE
  <2>1. /\ more[TRUE] = a /\ more[FALSE] = b + 1 /\ less[TRUE] = a /\ less[FALSE] = b - 1
    BY <1>1, <1>4, Zenon
  <2>2. b + 1 \in 0 .. m => more \in [BOOLEAN -> 0 .. m]
    BY <1>1, <1>4
  <2>3. b - 1 \in 0 .. m => less \in [BOOLEAN -> 0 .. m]
    BY <1>1, <1>4
  <2>4. /\ n < m => b + 1 \in 0 .. m /\ a + (b + 1) + c + d <= n + 1
        /\ b > 0 => /\ b - 1 \in 0 .. m /\ c + 1 \in 0 .. m
                   /\ a + (b - 1) + c + d <= n /\ a + (b - 1) + (c + 1) + d <= n
    BY <1>2, Arithmetic
  <2> QED
    BY <1>1, <1>4, <2>1, <2>2, <2>3, <2>4, Zenon
<1> QED
  BY <1>3, <1>4

(* What is counted of a phone, as numbers.                                  *)
LEMMA Numbers ==
  ASSUME IInv, NEW t \in Tokens
  PROVE  \E a, b \in 0 .. MaxRegistrations, c, d, n \in Nat :
           /\ a = putting[t][TRUE] /\ b = putting[t][FALSE]
           /\ c = notices[t].sending /\ d = notices[t].arrived /\ n = registrations
           /\ a + b + c + d <= n /\ n <= MaxRegistrations
<1>1. putting[t][TRUE] \in 0 .. MaxRegistrations /\ putting[t][FALSE] \in 0 .. MaxRegistrations
  BY OnePhone DEF IInv
<1>2. /\ notices[t].sending \in Nat /\ notices[t].arrived \in Nat
      /\ registrations \in Nat /\ registrations <= MaxRegistrations
  BY OnePhone DEF IInv
<1>3. putting[t][TRUE] + putting[t][FALSE] + notices[t].sending + notices[t].arrived <= registrations
  BY DEF IInv, Bounded
<1> QED
  BY <1>1, <1>2, <1>3, Zenon

LEMMA Waiting ==
  ASSUME IInv, NEW t \in Tokens, NEW follows \in BOOLEAN,
         NEW more, more = [putting[t] EXCEPT ![follows] = @ + 1],
         NEW less, less = [putting[t] EXCEPT ![follows] = @ - 1]
  PROVE  /\ registrations < MaxRegistrations =>
              /\ more \in [BOOLEAN -> 0 .. MaxRegistrations]
              /\ more[TRUE] + more[FALSE] + notices[t].sending + notices[t].arrived
                   <= registrations + 1
         /\ putting[t][follows] > 0 =>
              /\ less \in [BOOLEAN -> 0 .. MaxRegistrations]
              /\ less[TRUE] + less[FALSE] + notices[t].sending + notices[t].arrived <= registrations
              /\ less[TRUE] + less[FALSE] + (notices[t].sending + 1) + notices[t].arrived
                   <= registrations
              /\ notices[t].sending + 1 \in 0 .. MaxRegistrations
<1>1. PICK a \in 0 .. MaxRegistrations, b \in 0 .. MaxRegistrations,
           c \in Nat, d \in Nat, n \in Nat :
           /\ a = putting[t][TRUE] /\ b = putting[t][FALSE]
           /\ c = notices[t].sending /\ d = notices[t].arrived /\ n = registrations
           /\ a + b + c + d <= n /\ n <= MaxRegistrations
  BY Numbers
<1>2. PICK calls \in [BOOLEAN -> 0 .. MaxRegistrations], m \in Nat :
        calls = putting[t] /\ m = MaxRegistrations
  BY OnePhone DEF IInv
<1>3. /\ more = [calls EXCEPT ![follows] = @ + 1] /\ less = [calls EXCEPT ![follows] = @ - 1]
      /\ calls \in [BOOLEAN -> 0 .. m] /\ n <= m
  BY <1>1, <1>2
<1>4. calls[TRUE] + calls[FALSE] + c + d <= n
  BY <1>1, <1>2, Zenon
<1>5. /\ n < m => /\ more \in [BOOLEAN -> 0 .. m]
                  /\ more[TRUE] + more[FALSE] + c + d <= n + 1
      /\ calls[follows] > 0 => /\ less \in [BOOLEAN -> 0 .. m]
                               /\ less[TRUE] + less[FALSE] + c + d <= n
                               /\ less[TRUE] + less[FALSE] + (c + 1) + d <= n
                               /\ c + 1 \in 0 .. m
  BY <1>3, <1>4, Calls
<1> QED
  BY <1>1, <1>2, <1>5, Zenon

(* Whoever changes what is counted of one phone leaves the types alone.     *)
LEMMA Counted ==
  ASSUME IInv, NEW t \in Tokens,
         registrations' \in 0 .. MaxRegistrations, registrations <= registrations',
         \A u \in Tokens \ {t} : putting'[u] = putting[u] /\ notices'[u] = notices[u],
         putting'[t][TRUE] + putting'[t][FALSE] + notices'[t].sending + notices'[t].arrived
           <= registrations'
  PROVE  Bounded'
<1> SUFFICES ASSUME NEW u \in Tokens \ {t}
             PROVE  putting[u][TRUE] + putting[u][FALSE] + notices[u].sending + notices[u].arrived
                      <= registrations'
  BY Zenon DEF Bounded
<1>1. PICK a \in 0 .. MaxRegistrations, b \in 0 .. MaxRegistrations,
           c \in Nat, d \in Nat, n \in Nat :
           /\ a = putting[u][TRUE] /\ b = putting[u][FALSE]
           /\ c = notices[u].sending /\ d = notices[u].arrived /\ n = registrations
           /\ a + b + c + d <= n /\ n <= MaxRegistrations
  BY Numbers
<1>2. PICK k \in Nat : k = registrations'
  BY CoverageAssumption
<1>3. a + b + c + d <= n /\ n <= k
  BY <1>1, <1>2, Zenon
<1>4. a + b + c + d <= k
  BY <1>3
<1> QED
  BY <1>1, <1>2, <1>4, Zenon

LEMMA RegisterStep ==
  ASSUME IInv, NEW t \in Tokens, NEW follows \in BOOLEAN, Register(t, follows)
  PROVE  IInv'
<1> USE CoverageAssumption DEF IInv
<1>1. UNCHANGED <<killSwitch, grace, works, degraded, announced, announcedDisk, check, lastNews,
                  cut, phonesDisk, notices, heard, flips, restarts>>
  BY DEF Register, environment, announcing
<1>2. /\ registrations' = registrations + 1 /\ registrations' \in 0 .. MaxRegistrations
      /\ registrations \in Nat /\ registrations < MaxRegistrations
  BY DEF Register, TypeOK
<1>3. /\ phones' \in [Tokens -> Phone]
      /\ phones'[t] = Put(phones[t], follows)
      /\ \A u \in Tokens \ {t} : phones'[u] = phones[u]
  BY DEF Register, TypeOK, Put, Phone
<1>4. ASSUME NEW u \in Tokens \ {t}
      PROVE  putting'[u] = putting[u] /\ (u \in excused <=> u \in excused')
  BY DEF Register, TypeOK
<1>5. /\ putting'[t] \in [BOOLEAN -> 0 .. MaxRegistrations]
      /\ putting'[t][TRUE] + putting'[t][FALSE] + notices[t].sending + notices[t].arrived
           <= registrations + 1
  <2>1. PICK more, less : more = [putting[t] EXCEPT ![follows] = @ + 1]
                          /\ less = [putting[t] EXCEPT ![follows] = @ - 1]
    OBVIOUS
  <2>2. putting'[t] = more
    BY <2>1 DEF Register, TypeOK
  <2> QED
    BY <1>2, <2>1, <2>2, Waiting, Zenon
<1>6. TypeOK'
  <2>1. excused' \subseteq Tokens
    BY DEF Register, TypeOK
  <2>2. putting' \in [Tokens -> [BOOLEAN -> 0 .. MaxRegistrations]]
    BY <1>4, <1>5 DEF Register, TypeOK
  <2> QED
    BY <1>1, <1>2, <1>3, <2>1, <2>2 DEF TypeOK
<1>7. Bounded'
  <2>1. registrations <= registrations'
    BY <1>2
  <2>2. putting'[t][TRUE] + putting'[t][FALSE] + notices'[t].sending + notices'[t].arrived
          <= registrations'
    BY <1>1, <1>2, <1>5, Zenon
  <2>3. \A u \in Tokens \ {t} : putting'[u] = putting[u] /\ notices'[u] = notices[u]
    BY <1>1, <1>4, Zenon
  <2> QED
    BY <1>2, <2>1, <2>2, <2>3, Counted
<1>8. CASE t \in excused'
  <2>1. NoticesExcuse' /\ LostPhonesFollow'
    BY <1>1, <1>3, <1>4, <1>8 DEF NoticesExcuse, LostPhonesFollow
  <2>2. \A u \in Tokens : Kept(u)
    BY <1>3, <1>4, <1>8 DEF Kept
  <2> QED
    BY <1>1, <1>6, <1>7, <2>1, <2>2, PhoneStep DEF announcing
<1>9. CASE t \notin excused'
  <2>1. follows /\ Quiet /\ (t \in excused => Settled(t))
    BY <1>9 DEF Register
  <2>2. phones'[t].follows = TRUE /\ phones'[t].told = phones[t].told
    BY <1>3, <2>1 DEF Put
  <2>3. NoticesExcuse' /\ LostPhonesFollow'
    BY <1>1, <1>3, <1>4, <2>1, <2>2 DEF NoticesExcuse, LostPhonesFollow, Settled
  <2>4. \A u \in Tokens : Kept(u)
    BY <1>3, <1>4, <2>1, <2>2 DEF Kept, Settled
  <2> QED
    BY <1>1, <1>6, <1>7, <2>3, <2>4, PhoneStep DEF announcing
<1> QED
  BY <1>8, <1>9

(* An answer, with or without a notice.                                     *)
LEMMA AnswerStep ==
  ASSUME IInv, NEW t \in Tokens, NEW follows \in BOOLEAN,
         Registered(t, follows) \/ RegistrationFails(t, follows)
  PROVE  IInv'
<1> USE CoverageAssumption DEF IInv
<1>1. /\ UNCHANGED <<killSwitch, grace, works, degraded, announced, announcedDisk, check, lastNews,
                     cut, phones, heard, flips, restarts, registrations>>
      /\ phonesDisk' \in [Tokens -> Phone]
      /\ excused \subseteq excused' /\ excused' \subseteq Tokens
  BY DEF Registered, RegistrationFails, environment, announcing, TypeOK
<1>2. PICK more, less : more = [putting[t] EXCEPT ![follows] = @ + 1]
                        /\ less = [putting[t] EXCEPT ![follows] = @ - 1]
  OBVIOUS
<1>3. /\ putting' = [putting EXCEPT ![t] = less] /\ putting[t][follows] > 0
      /\ \/ notices' = notices
         \/ /\ notices' = [notices EXCEPT ![t].sending = @ + 1]
            /\ t \in excused'
  BY <1>2 DEF Registered, RegistrationFails, TypeOK
<1>4. /\ less \in [BOOLEAN -> 0 .. MaxRegistrations]
      /\ less[TRUE] + less[FALSE] + notices[t].sending + notices[t].arrived <= registrations
      /\ less[TRUE] + less[FALSE] + (notices[t].sending + 1) + notices[t].arrived <= registrations
      /\ notices[t].sending + 1 \in 0 .. MaxRegistrations
  BY <1>2, <1>3, Waiting
<1>5. putting' \in [Tokens -> [BOOLEAN -> 0 .. MaxRegistrations]] /\ putting'[t] = less
  BY <1>3, <1>4 DEF TypeOK
<1>6. \/ notices' = notices
      \/ /\ notices'[t].sending = notices[t].sending + 1
         /\ notices'[t].arrived = notices[t].arrived
         /\ t \in excused'
  BY <1>3, OnePhone DEF TypeOK, Notices
<1>7. notices' \in [Tokens -> Notices]
  BY <1>3, <1>4 DEF TypeOK, Notices
<1>8. \A u \in Tokens \ {t} : putting'[u] = putting[u] /\ notices'[u] = notices[u]
  BY <1>3 DEF TypeOK
<1>9. TypeOK'
  BY <1>1, <1>5, <1>7 DEF TypeOK
<1>10. Bounded'
  <2>1. registrations' \in 0 .. MaxRegistrations /\ registrations <= registrations'
    BY <1>1 DEF TypeOK
  <2>2. putting'[t][TRUE] + putting'[t][FALSE] + notices'[t].sending + notices'[t].arrived
          <= registrations'
    BY <1>1, <1>4, <1>5, <1>6, Zenon
  <2> QED
    BY <1>8, <2>1, <2>2, Counted
<1>11. NoticesExcuse' /\ LostPhonesFollow'
  BY <1>1, <1>6, <1>8 DEF NoticesExcuse, LostPhonesFollow
<1>12. \A u \in Tokens : Kept(u)
  BY <1>1 DEF Kept
<1> QED
  BY <1>1, <1>9, <1>10, <1>11, <1>12, PhoneStep DEF announcing

(* A notice reaches the phone, is lost, or is noted.                        *)
LEMMA NoticeStep ==
  ASSUME IInv, NEW t \in Tokens, Notice(t)
  PROVE  IInv'
<1> USE CoverageAssumption DEF IInv
<1>1. /\ UNCHANGED <<killSwitch, grace, works, degraded, announced, announcedDisk, check, lastNews,
                     cut, phonesDisk, putting, excused, flips, restarts, registrations>>
      /\ heard' \in [Tokens -> {"nothing"} \cup News]
  BY DEF Notice, NoticeArrives, NoticeFails, NoticeNoted, Hears, News, environment, announcing, TypeOK
<1>2. notices[t] # NoNotice /\ t \in excused
  BY DEF Notice, NoticeArrives, NoticeFails, NoticeNoted, NoNotice, NoticesExcuse
<1>3. /\ phones' \in [Tokens -> Phone]
      /\ \A u \in Tokens \ {t} : phones'[u] = phones[u]
  <2>1. Noted({t}, "lost") \in [Tokens -> Phone]
    BY NotedPhones DEF News
  <2>2. \A u \in Tokens \ {t} : Noted({t}, "lost")[u] = phones[u]
    BY DEF Noted
  <2>3. phones' = phones \/ phones' = Noted({t}, "lost")
    BY DEF Notice, NoticeArrives, NoticeFails, NoticeNoted
  <2> QED
    BY <2>1, <2>2, <2>3 DEF TypeOK
<1>4. PICK a \in 0 .. MaxRegistrations, b \in 0 .. MaxRegistrations,
           c \in Nat, d \in Nat, n \in Nat :
           /\ a = putting[t][TRUE] /\ b = putting[t][FALSE]
           /\ c = notices[t].sending /\ d = notices[t].arrived /\ n = registrations
           /\ a + b + c + d <= n /\ n <= MaxRegistrations
  BY Numbers
<1>5. \/ /\ c > 0
         /\ notices' = [notices EXCEPT ![t] = [sending |-> c - 1, arrived |-> d + 1]]
      \/ /\ c > 0
         /\ notices' = [notices EXCEPT ![t] = [sending |-> c - 1, arrived |-> d]]
      \/ /\ d > 0
         /\ notices' = [notices EXCEPT ![t] = [sending |-> c, arrived |-> d - 1]]
  <2>1. notices[t] = [sending |-> c, arrived |-> d] /\ DOMAIN notices = Tokens
    BY <1>4, OnePhone DEF Notices, TypeOK
  <2>2. CASE NoticeArrives(t)
    <3>1. notices' = [notices EXCEPT ![t] = [notices[t] EXCEPT !.sending = @ - 1, !.arrived = @ + 1]]
      BY <2>1, <2>2, Zenon DEF NoticeArrives
    <3> QED
      BY <1>4, <2>1, <2>2, <3>1 DEF NoticeArrives
  <2>3. CASE NoticeFails(t)
    <3>1. notices' = [notices EXCEPT ![t] = [notices[t] EXCEPT !.sending = @ - 1]]
      BY <2>1, <2>3 DEF NoticeFails
    <3>2. c > 0
      BY <1>4, <2>3, Zenon DEF NoticeFails
    <3>3. [notices[t] EXCEPT !.sending = @ - 1] = [sending |-> c - 1, arrived |-> d]
      BY <2>1
    <3> QED
      BY <3>1, <3>2, <3>3, Zenon
  <2>4. CASE NoticeNoted(t)
    <3>1. notices' = [notices EXCEPT ![t] = [notices[t] EXCEPT !.arrived = @ - 1]]
      BY <2>1, <2>4 DEF NoticeNoted
    <3>2. d > 0
      BY <1>4, <2>4, Zenon DEF NoticeNoted
    <3>3. [notices[t] EXCEPT !.arrived = @ - 1] = [sending |-> c, arrived |-> d - 1]
      BY <2>1
    <3> QED
      BY <3>1, <3>2, <3>3, Zenon
  <2> QED
    BY <2>2, <2>3, <2>4 DEF Notice
<1>6. /\ c \in 0 .. MaxRegistrations /\ d \in 0 .. MaxRegistrations
      /\ c > 0 => /\ c - 1 \in 0 .. MaxRegistrations /\ d + 1 \in 0 .. MaxRegistrations
                 /\ a + b + (c - 1) + d <= n /\ a + b + (c - 1) + (d + 1) <= n
      /\ d > 0 => d - 1 \in 0 .. MaxRegistrations /\ a + b + c + (d - 1) <= n
  <2>1. PICK m \in Nat : m = MaxRegistrations
    OBVIOUS
  <2>2. a \in 0 .. m /\ b \in 0 .. m /\ n <= m
    BY <1>4, <2>1, Zenon
  <2>3. /\ c \in 0 .. m /\ d \in 0 .. m
        /\ c > 0 => /\ c - 1 \in 0 .. m
                   /\ a + b + (c - 1) + d <= n /\ a + b + (c - 1) + (d + 1) <= n
                   /\ d + 1 \in 0 .. m
        /\ d > 0 => d - 1 \in 0 .. m /\ a + b + c + (d - 1) <= n
    <3>1. c \in Nat /\ d \in Nat /\ n \in Nat /\ a + b + c + d <= n
      BY <1>4, Zenon
    <3> QED
      BY <2>2, <3>1, Arithmetic
  <2> QED
    BY <2>1, <2>3, Zenon
<1>7. /\ notices' \in [Tokens -> Notices]
      /\ a + b + notices'[t].sending + notices'[t].arrived <= n
      /\ \A u \in Tokens \ {t} : notices'[u] = notices[u]
  <2>1. PICK i \in 0 .. MaxRegistrations, j \in 0 .. MaxRegistrations :
          /\ notices' = [notices EXCEPT ![t] = [sending |-> i, arrived |-> j]]
          /\ a + b + i + j <= n
    BY <1>5, <1>6, Zenon
  <2>2. [sending |-> i, arrived |-> j] \in Notices
    BY DEF Notices
  <2>3. notices'[t] = [sending |-> i, arrived |-> j]
    BY <2>1 DEF TypeOK
  <2>4. notices'[t].sending = i /\ notices'[t].arrived = j
    BY <2>3
  <2>5. a + b + notices'[t].sending + notices'[t].arrived <= n
    BY <2>1, <2>4, Zenon
  <2> QED
    BY <2>1, <2>2, <2>5 DEF TypeOK
<1>8. TypeOK'
  BY <1>1, <1>3, <1>7 DEF TypeOK
<1>9. Bounded'
  <2>1. registrations' \in 0 .. MaxRegistrations /\ registrations <= registrations'
    BY <1>1 DEF TypeOK
  <2>2. putting'[t][TRUE] + putting'[t][FALSE] + notices'[t].sending + notices'[t].arrived
          <= registrations'
    BY <1>1, <1>4, <1>7, Zenon
  <2> QED
    BY <1>1, <1>7, <2>1, <2>2, Counted
<1>10. NoticesExcuse' /\ LostPhonesFollow'
  BY <1>1, <1>2, <1>3, <1>7 DEF NoticesExcuse, LostPhonesFollow
<1>11. \A u \in Tokens : Kept(u)
  BY <1>1, <1>2, <1>3 DEF Kept
<1> QED
  BY <1>1, <1>8, <1>9, <1>10, <1>11, PhoneStep DEF announcing

(* What is on the disk concerns a restart only.                             *)
LEMMA PhonesSavedStep ==
  ASSUME IInv, PhonesSaved
  PROVE  IInv'
<1> USE DEF IInv
<1>1. /\ UNCHANGED <<killSwitch, grace, works, degraded, announced, announcedDisk, check, lastNews,
                     cut, phones, putting, notices, heard, excused, flips, restarts, registrations>>
      /\ phonesDisk' = phones
  BY DEF PhonesSaved, environment, announcing
<1>2. TypeOK' /\ Bounded' /\ NoticesExcuse' /\ LostPhonesFollow'
  BY <1>1 DEF TypeOK, Bounded, NoticesExcuse, LostPhonesFollow
<1>3. \A u \in Tokens : Kept(u)
  BY <1>1 DEF Kept
<1> QED
  BY <1>1, <1>2, <1>3, PhoneStep DEF announcing

-----------------------------------------------------------------------------
(* Steps of a check: they leave the calls and the notices alone.            *)
LEMMA CheckKeeps ==
  ASSUME IInv, UNCHANGED <<environment, phonesDisk, putting, notices, registrations>>,
         excused \subseteq excused', excused' \subseteq Tokens,
         phones' \in [Tokens -> Phone], check' \in Check,
         announced' \subseteq Channels, announcedDisk' \subseteq Channels,
         heard' \in [Tokens -> {"nothing"} \cup News],
         lastNews' \in [Channels -> {"none"} \cup News], cut' \subseteq Channels
  PROVE  TypeOK' /\ Bounded' /\ NoticesExcuse'
<1>1. TypeOK'
  BY DEF IInv, TypeOK, environment
<1>2. Bounded' /\ NoticesExcuse'
  BY DEF IInv, Bounded, NoticesExcuse
<1> QED
  BY <1>1, <1>2

LEMMA StartCheckStep ==
  ASSUME IInv, StartCheck
  PROVE  IInv'
<1> USE DEF IInv
<1>1. /\ UNCHANGED <<environment, announced, announcedDisk, lastNews, cut, phones, phonesDisk,
                     putting, notices, heard, excused, registrations>>
      /\ check.stage = "idle"
  BY DEF StartCheck
<1>2. /\ check' \in Check
      /\ check'.stage = "save webpush"
      /\ check'.tokens = {t \in Tokens : phones[t].follows}
      /\ check'.left = {} /\ check'.reached = {}
  BY DEF StartCheck, NoCheck, Check, Stages
<1>3. TypeOK' /\ Bounded' /\ NoticesExcuse'
  BY <1>1, <1>2, CheckKeeps DEF TypeOK
<1>4. LostPhonesFollow' /\ TellsFollowers' /\ NobodyMissed'
  BY <1>1, <1>2 DEF LostPhonesFollow, TellsFollowers, NobodyMissed, Owed, Deciding, Telling
<1>5. \A ch \in Channels : check'.stage # PushStage(ch) /\ check.stage # PushStage(ch)
  BY <1>1, <1>2 DEF PushStage
<1>6. AnnouncedFirst' /\ TakesTurns' /\ Squared'
  BY <1>1, <1>2, <1>5 DEF AnnouncedFirst, TakesTurns, Turn, Squared, Owed, Telling
<1> QED
  BY <1>3, <1>4, <1>6

(* From one stage to the next nothing is told.                              *)
LEMMA UnchangedStep ==
  ASSUME IInv, NEW ch \in Channels, Unchanged(ch)
  PROVE  IInv'
<1> USE DEF IInv
<1>1. /\ UNCHANGED <<environment, announced, announcedDisk, lastNews, cut, phones, phonesDisk,
                     putting, notices, heard, excused, registrations>>
      /\ check.stage = SaveStage(ch)
  BY DEF Unchanged
<1>2. /\ check' \in Check
      /\ check'.stage = NextStage(ch)
      /\ check'.covered = check.covered /\ check'.tokens = check.tokens
      /\ check'.left = check.left /\ check'.reached = check.reached
  BY Stage DEF Unchanged, TypeOK, Check
<1>3. TypeOK' /\ Bounded' /\ NoticesExcuse'
  BY <1>1, <1>2, CheckKeeps DEF TypeOK
<1>4. check.stage \in {"save webpush", "save apns"} /\ check'.stage \in {"save apns", "idle"}
  BY <1>1, <1>2 DEF SaveStage, NextStage
<1>5. LostPhonesFollow' /\ TellsFollowers' /\ NobodyMissed'
  BY <1>1, <1>2, <1>4 DEF LostPhonesFollow, TellsFollowers, NobodyMissed, Owed, Deciding, Telling
<1>6. \A other \in Channels : check'.stage # PushStage(other) /\ check.stage # PushStage(other)
  BY <1>4 DEF PushStage
<1>7. AnnouncedFirst' /\ TakesTurns' /\ Squared'
  BY <1>1, <1>4, <1>6 DEF AnnouncedFirst, TakesTurns, Turn, Squared, Owed, Telling
<1> QED
  BY <1>3, <1>5, <1>7

(* The channel is announced before its push is due.                         *)
LEMMA AnnounceStep ==
  ASSUME IInv, NEW ch \in Channels, NEW saved \in BOOLEAN, Announce(ch, saved)
  PROVE  IInv'
<1> USE DEF IInv
<1>1. /\ UNCHANGED <<environment, lastNews, phones, phonesDisk, putting, notices, heard, excused,
                     registrations>>
      /\ check.stage = SaveStage(ch) /\ Changed(ch)
      /\ announced' = AnnouncedAfter(ch)
      /\ announcedDisk' = (IF saved THEN AnnouncedAfter(ch) ELSE announcedDisk)
      /\ cut' = (IF saved THEN cut ELSE cut \cup {ch})
  BY DEF Announce
<1>2. /\ check' \in Check
      /\ check'.stage = PushStage(ch)
      /\ check'.covered = check.covered /\ check'.tokens = check.tokens
      /\ check'.left = check.left /\ check'.reached = check.reached
  BY Stage DEF Announce, TypeOK, Check
<1>3. /\ AnnouncedAfter(ch) \subseteq Channels
      /\ ch \in AnnouncedAfter(ch) <=> ch \notin check.covered
      /\ ch \in announced <=> ch \in check.covered
      /\ \A other \in Channels \ {ch} : other \in AnnouncedAfter(ch) <=> other \in announced
  BY <1>1 DEF AnnouncedAfter, Changed, TypeOK
<1>4. TypeOK' /\ Bounded' /\ NoticesExcuse'
  <2>1. announcedDisk' \subseteq Channels /\ cut' \subseteq Channels
    BY <1>1, <1>3 DEF TypeOK
  <2> QED
    BY <1>1, <1>2, <1>3, <2>1, CheckKeeps DEF TypeOK
<1>5. check.stage \in {"save webpush", "save apns"}
  BY <1>1 DEF SaveStage
<1>6. /\ ch = "apns" => check'.stage = "push apns"
      /\ ch # "apns" => ch = "webpush" /\ check'.stage = "push webpush"
  BY <1>2 DEF PushStage, Channels
<1>7. LostPhonesFollow' /\ TellsFollowers' /\ NobodyMissed'
  BY <1>1, <1>2, <1>5, <1>6
     DEF LostPhonesFollow, TellsFollowers, NobodyMissed, Owed, Deciding, Telling
<1>8. AnnouncedFirst'
  BY <1>1, <1>2, <1>3, <1>6, Stage DEF AnnouncedFirst, Telling
<1>9. Squared'
  <2>1. CASE ch = "apns"
    BY <1>6, <2>1 DEF Squared, Telling
  <2>2. CASE ch # "apns"
    <3>1. "apns" \in announced' <=> "apns" \in announced
      BY <1>1, <1>3, <2>2 DEF Channels
    <3> QED
      BY <1>1, <1>5, <3>1 DEF Squared, Owed, Telling
  <2> QED
    BY <2>1, <2>2
<1>10. TakesTurns'
  <2> SUFFICES ASSUME NEW other \in Channels, other \notin cut'
               PROVE  Turn(other)'
    BY DEF TakesTurns
  <2>1. other \notin cut /\ Turn(other) /\ check.stage # PushStage(other)
    BY <1>1, <1>5 DEF TakesTurns, PushStage
  <2>2. CASE other = ch
    BY <1>1, <1>2, <1>3, <2>1, <2>2 DEF Turn
  <2>3. CASE other # ch
    <3>1. check'.stage # PushStage(other)
      BY <1>2, <2>3, Stage
    <3> QED
      BY <1>1, <1>3, <2>1, <2>3, <3>1 DEF Turn
  <2> QED
    BY <2>2, <2>3
<1> QED
  BY <1>4, <1>7, <1>8, <1>9, <1>10

(* The browsers are pushed to, or the recipients of APNs are picked.        *)
LEMMA PushStep ==
  ASSUME IInv, PushWeb \/ PushApns
  PROVE  IInv'
<1> USE DEF IInv
<1>1. PICK ch \in Channels :
        /\ check.stage = PushStage(ch)
        /\ lastNews' = [lastNews EXCEPT ![ch] = NewsOf(ch)]
        /\ ch = "webpush" => check'.stage = "save apns" /\ check'.left = check.left
        /\ ch = "apns" => /\ check'.stage = "to apns"
                          /\ check'.left = Recipients(NewsOf("apns"), check.tokens)
  <2>1. CASE PushWeb
    BY <2>1, Stage DEF PushWeb, PushStage, NextStage, Channels, TypeOK, Check
  <2>2. CASE PushApns
    BY <2>2 DEF PushApns, PushStage, Channels, TypeOK, Check
  <2> QED
    BY <2>1, <2>2
<1>2. UNCHANGED <<environment, announced, announcedDisk, cut, phones, phonesDisk, putting, notices,
                  heard, excused, registrations>>
  BY DEF PushWeb, PushApns
<1>3. /\ check'.covered = check.covered /\ check'.tokens = check.tokens
      /\ check'.reached = check.reached
  BY DEF PushWeb, PushApns, TypeOK, Check
<1>4. check' \in Check
  <2>1. Recipients(NewsOf("apns"), check.tokens) \subseteq Tokens
    BY DEF Recipients, TypeOK, Check
  <2>2. NextStage("webpush") \in Stages /\ "to apns" \in Stages
    BY DEF NextStage, Stages
  <2>3. check \in Check
    BY DEF TypeOK
  <2>4. CASE PushWeb
    <3>1. check' = [check EXCEPT !.stage = NextStage("webpush")]
      BY <2>4 DEF PushWeb
    <3> QED
      BY <2>2, <2>3, <3>1 DEF Check
  <2>5. CASE PushApns
    <3>1. check' = [check EXCEPT !.stage = "to apns", !.left = Recipients(NewsOf("apns"), check.tokens)]
      BY <2>5 DEF PushApns
    <3> QED
      BY <2>1, <2>2, <2>3, <3>1 DEF Check
  <2> QED
    BY <2>4, <2>5
<1>5. TypeOK' /\ Bounded' /\ NoticesExcuse'
  <2>1. lastNews' \in [Channels -> {"none"} \cup News]
    BY <1>1 DEF TypeOK, NewsOf, News
  <2> QED
    BY <1>2, <1>4, <2>1, CheckKeeps DEF TypeOK
<1>6. /\ ch \in announced <=> ch \notin check.covered
      /\ NewsOf(ch) = "lost" <=> ch \in announced
      /\ lastNews'[ch] = NewsOf(ch)
      /\ \A other \in Channels \ {ch} : lastNews'[other] = lastNews[other]
  BY <1>1 DEF AnnouncedFirst, NewsOf, TypeOK
<1>7. /\ ch = "webpush" => check.stage = "push webpush"
      /\ ch = "apns" => check.stage = "push apns"
      /\ ch \in {"webpush", "apns"}
  BY <1>1 DEF PushStage, Channels
<1>8. \A other \in Channels : check'.stage # PushStage(other)
  BY <1>1, <1>7 DEF PushStage
<1>9. AnnouncedFirst'
  BY <1>1, <1>2, <1>3, <1>6, <1>7, <1>8 DEF AnnouncedFirst, Telling
<1>10. TakesTurns'
  <2> SUFFICES ASSUME NEW other \in Channels, other \notin cut
               PROVE  Turn(other)'
    BY <1>2 DEF TakesTurns
  <2>1. Turn(other) /\ (check.stage = PushStage(other) => other = ch)
    BY <1>1, Stage DEF TakesTurns
  <2> QED
    BY <1>1, <1>2, <1>6, <1>8, <2>1 DEF Turn
<1>11. LostPhonesFollow'
  BY <1>2 DEF LostPhonesFollow
<1>12. CASE ch = "webpush"
  <2>1. TellsFollowers' /\ NobodyMissed' /\ Squared'
    BY <1>1, <1>2, <1>3, <1>7, <1>12
       DEF TellsFollowers, NobodyMissed, Squared, Owed, Deciding, Telling
  <2> QED
    BY <1>5, <1>9, <1>10, <1>11, <2>1
<1>13. CASE ch = "apns"
  <2>1. check'.left = {t \in check.tokens : IF NewsOf("apns") = "restored" THEN phones[t].told = "lost"
                                             ELSE phones[t].told # "lost"}
    BY <1>1, <1>13 DEF Recipients
  <2>2. TellsFollowers'
    BY <1>2, <1>3, <1>7, <1>13, <2>1 DEF TellsFollowers
  <2>3. NewsOf("apns")' = NewsOf("apns")
    BY <1>3 DEF NewsOf
  <2>4. NobodyMissed'
    BY <1>1, <1>2, <1>3, <1>7, <1>13, <2>1, <2>3 DEF NobodyMissed, Owed, Deciding, Telling
  <2>5. Squared'
    BY <1>1, <1>13 DEF Squared, Telling
  <2> QED
    BY <1>5, <1>9, <1>10, <1>11, <2>2, <2>4, <2>5
<1> QED
  BY <1>7, <1>12, <1>13

(* A phone is reached, or its push fails and it is excused.                 *)
LEMMA NewsStep ==
  ASSUME IInv, NEW t \in Tokens, NewsArrives(t) \/ NewsFails(t)
  PROVE  IInv'
<1> USE DEF IInv
<1>1. /\ UNCHANGED <<environment, announced, announcedDisk, lastNews, cut, phones, phonesDisk,
                     putting, notices, registrations>>
      /\ check.stage = "to apns" /\ t \in check.left
      /\ excused \subseteq excused' /\ excused' \subseteq Tokens
  BY DEF NewsArrives, NewsFails, TypeOK
<1>2. /\ check' \in Check
      /\ check'.stage = "to apns"
      /\ check'.covered = check.covered /\ check'.tokens = check.tokens
      /\ check'.left = check.left \ {t}
      /\ check.reached \subseteq check'.reached
      /\ check'.reached \subseteq check.reached \cup {t}
      /\ t \in check'.reached \/ t \in excused'
  <2>1. CASE NewsArrives(t)
    BY <2>1 DEF NewsArrives, TypeOK, Check
  <2>2. CASE NewsFails(t)
    BY <2>2 DEF NewsFails, TypeOK, Check
  <2> QED
    BY <2>1, <2>2
<1>3. TypeOK' /\ Bounded' /\ NoticesExcuse'
  <2>1. heard' \in [Tokens -> {"nothing"} \cup News]
    BY DEF NewsArrives, NewsFails, Hears, NewsOf, News, TypeOK
  <2> QED
    BY <1>1, <1>2, <2>1, CheckKeeps DEF TypeOK
<1>4. LostPhonesFollow' /\ TellsFollowers'
  BY <1>1, <1>2 DEF LostPhonesFollow, TellsFollowers
<1>5. NobodyMissed'
  BY <1>1, <1>2 DEF NobodyMissed, Owed, Deciding, Telling, NewsOf
<1>6. \A ch \in Channels : check'.stage # PushStage(ch) /\ check.stage # PushStage(ch)
  BY <1>1, <1>2, Stage
<1>7. AnnouncedFirst' /\ TakesTurns' /\ Squared'
  BY <1>1, <1>2, <1>6 DEF AnnouncedFirst, TakesTurns, Turn, Squared, Telling
<1> QED
  BY <1>3, <1>4, <1>5, <1>7

(* With APNs announced up again, whoever was owed "restored" was reached.   *)
LEMMA EndCheckStep ==
  ASSUME IInv, EndCheck
  PROVE  IInv'
<1> USE DEF IInv
<1>1. /\ UNCHANGED <<environment, announced, announcedDisk, lastNews, cut, phonesDisk, putting,
                     notices, heard, excused, registrations>>
      /\ check.stage = "to apns" /\ check.left = {}
      /\ phones' = Noted(check.reached, NewsOf("apns"))
      /\ check' = NoCheck
  BY DEF EndCheck
<1>2. check' \in Check /\ check'.stage = "idle" /\ check'.left = {} /\ check'.reached = {}
  BY <1>1 DEF NoCheck, Check, Stages
<1>3. NewsOf("apns") \in News /\ (NewsOf("apns") = "lost" <=> "apns" \in announced)
  BY <1>1 DEF NewsOf, News, AnnouncedFirst, Telling
<1>4. \A t \in Tokens :
        /\ phones'[t].follows = phones[t].follows
        /\ phones'[t].told = IF t \in check.reached THEN NewsOf("apns") ELSE phones[t].told
  BY <1>1, OnePhone DEF Noted, Phone
<1>5. TypeOK' /\ Bounded' /\ NoticesExcuse'
  <2>1. phones' \in [Tokens -> Phone]
    BY <1>1, <1>3, NotedPhones
  <2> QED
    BY <1>1, <1>2, <2>1, CheckKeeps DEF TypeOK
<1>6. LostPhonesFollow'
  <2> SUFFICES ASSUME NEW t \in Tokens, phones'[t].told = "lost", t \notin excused
               PROVE  phones'[t].follows
    BY <1>1 DEF LostPhonesFollow
  <2>1. CASE t \in check.reached
    BY <1>1, <1>4, <2>1 DEF TellsFollowers
  <2>2. CASE t \notin check.reached
    BY <1>4, <2>2 DEF LostPhonesFollow
  <2> QED
    BY <2>1, <2>2
<1>7. TellsFollowers' /\ NobodyMissed'
  BY <1>2 DEF TellsFollowers, NobodyMissed, Deciding, Telling
<1>8. Squared'
  <2> SUFFICES ASSUME "apns" \notin announced, NEW t \in Tokens, Owed(t)'
               PROVE  FALSE
    BY <1>1 DEF Squared
  <2>1. NewsOf("apns") = "restored"
    BY <1>3 DEF News
  <2>2. t \notin check.reached /\ Owed(t)
    BY <1>1, <1>4, <2>1 DEF Owed
  <2> QED
    BY <1>1, <2>1, <2>2 DEF NobodyMissed, Telling
<1>9. \A ch \in Channels : check'.stage # PushStage(ch) /\ check.stage # PushStage(ch)
  BY <1>1, <1>2, Stage
<1>10. AnnouncedFirst' /\ TakesTurns'
  BY <1>1, <1>2, <1>9 DEF AnnouncedFirst, TakesTurns, Turn, Telling
<1> QED
  BY <1>5, <1>6, <1>7, <1>8, <1>10

-----------------------------------------------------------------------------
(* A process death excuses every phone, and the channel whose push was due. *)
LEMMA RestartStep ==
  ASSUME IInv, Restart
  PROVE  IInv'
<1> USE CoverageAssumption DEF IInv
<1>1. TypeOK'
  <2>1. /\ killSwitch' \in BOOLEAN /\ grace' \in BOOLEAN /\ works' \in BOOLEAN
        /\ degraded' \in SUBSET Channels
        /\ announced' \in SUBSET Channels /\ announcedDisk' \in SUBSET Channels
        /\ phones' \in [Tokens -> Phone] /\ phonesDisk' \in [Tokens -> Phone]
    BY DEF Restart, TypeOK
  <2>2. putting' \in [Tokens -> [BOOLEAN -> 0 .. MaxRegistrations]] /\ notices' \in [Tokens -> Notices]
    BY DEF Restart, NoCalls, NoNotice, Notices
  <2>3. check' \in Check
    BY DEF Restart, NoCheck, Check, Stages
  <2>4. /\ heard' \in [Tokens -> {"nothing"} \cup News]
        /\ lastNews' \in [Channels -> {"none"} \cup News]
        /\ excused' \in SUBSET Tokens /\ cut' \in SUBSET Channels
        /\ flips' \in 0 .. MaxFlips /\ registrations' \in 0 .. MaxRegistrations
    BY DEF Restart, TypeOK
  <2>5. restarts' \in 0 .. MaxRestarts
    BY DEF Restart, TypeOK
  <2> QED
    BY <2>1, <2>2, <2>3, <2>4, <2>5 DEF TypeOK
<1>2. Bounded'
  BY DEF Restart, TypeOK, Bounded, NoCalls, NoNotice
<1>3. NoticesExcuse' /\ LostPhonesFollow' /\ NobodyMissed' /\ Squared'
  BY DEF Restart, NoticesExcuse, LostPhonesFollow, NobodyMissed, Squared, Owed
<1>4. check'.stage = "idle" /\ check'.left = {} /\ check'.reached = {}
  BY DEF Restart, NoCheck
<1>5. TellsFollowers' /\ AnnouncedFirst'
  BY <1>4, Stage DEF TellsFollowers, AnnouncedFirst, Telling
<1>6. TakesTurns'
  <2> SUFFICES ASSUME NEW ch \in Channels, ch \notin cut'
               PROVE  Turn(ch)'
    BY DEF TakesTurns
  <2>1. Turn(ch) /\ check.stage # PushStage(ch)
    BY DEF Restart, TakesTurns
  <2>2. check'.stage # PushStage(ch)
    BY <1>4, Stage
  <2> QED
    BY <2>1, <2>2 DEF Restart, Turn
<1> QED
  BY <1>1, <1>2, <1>3, <1>5, <1>6

LEMMA NextIInv == IInv /\ [Next]_vars => IInv'
<1> SUFFICES ASSUME IInv, [Next]_vars
             PROVE  IInv'
  OBVIOUS
<1>1. CASE SensorTurns \/ (\E ch \in Channels : ChannelTurns(ch)) \/ GraceEnds
  BY <1>1, HealthStep
<1>2. CASE \E t \in Tokens, follows \in BOOLEAN : Register(t, follows)
  BY <1>2, RegisterStep
<1>3. CASE \E t \in Tokens : Answered(t) \/ Notice(t)
  BY <1>3, AnswerStep, NoticeStep DEF Answered
<1>4. CASE PhonesSaved
  BY <1>4, PhonesSavedStep
<1>5. CASE StartCheck
  BY <1>5, StartCheckStep
<1>6. CASE CheckStep
  BY <1>6, UnchangedStep, AnnounceStep, PushStep, NewsStep, EndCheckStep DEF CheckStep
<1>7. CASE Restart
  BY <1>7, RestartStep
<1>8. CASE UNCHANGED vars
  <2> USE <1>8 DEF vars, IInv
  <2>1. TypeOK' /\ Bounded'
    BY DEF TypeOK, Bounded
  <2>2. NoticesExcuse' /\ LostPhonesFollow' /\ TellsFollowers' /\ NobodyMissed' /\ Squared'
    BY DEF NoticesExcuse, LostPhonesFollow, TellsFollowers, NobodyMissed, Squared, Owed, Deciding,
           Telling, NewsOf
  <2>3. AnnouncedFirst' /\ TakesTurns'
    BY DEF AnnouncedFirst, TakesTurns, Turn, Telling
  <2> QED
    BY <2>1, <2>2, <2>3
<1> QED
  BY <1>1, <1>2, <1>3, <1>4, <1>5, <1>6, <1>7, <1>8 DEF Next

LEMMA AlwaysIInv == Spec => []IInv
<1> QED
  BY InitIInv, NextIInv, PTL DEF Spec

-----------------------------------------------------------------------------
(* Every variable stays in its type: a phone has no more calls and notices  *)
(* under way than it made registrations.                                    *)
THEOREM CoverageTyped == Spec => []TypeOK
<1>1. IInv => TypeOK
  BY DEF IInv
<1> QED
  BY <1>1, AlwaysIInv, PTL

(* With no check running and APNs not announced down, whoever is remembered *)
(* as told "lost" missed news or registered at a bad moment: tellCoverage   *)
(* reaches the phones its check read before the saves it waited for.        *)
THEOREM WhoIsToldLostIsToldRestored == Spec => []NobodyLeftBehind
<1>1. IInv => NobodyLeftBehind
  BY DEF IInv, NobodyLeftBehind, Quiet, Squared, Owed, Telling
<1> QED
  BY <1>1, AlwaysIInv, PTL

(* The pushes of announceCoverageChanges alternate for every channel, also  *)
(* across restarts, but after a failed save or a death before the push.     *)
THEOREM LossesAndRecoveriesAlternate == Spec => NewsAlternates
<1>1. IInv => \A ch \in Channels :
                check.stage = PushStage(ch) => lastNews[ch] # NewsOf(ch) \/ ch \in cut
  BY DEF IInv, TakesTurns, Turn, NewsOf
<1>2. IInv /\ [Next]_vars
        => [\A ch \in Channels :
              check.stage = PushStage(ch) /\ check'.stage # PushStage(ch) /\ restarts' = restarts
                => lastNews[ch] # NewsOf(ch) \/ ch \in cut]_<<check, lastNews>>
  BY <1>1
<1> QED
  BY <1>2, AlwaysIInv, PTL DEF Spec, NewsAlternates
=============================================================================
