------------------------------ MODULE Coverage ------------------------------
(***************************************************************************)
(* The coverage news of one sensor: the check that runs every minute and   *)
(* pushes "lost" or "restored" when a channel changed, the notice a phone   *)
(* gets when it registers with a sensor that is already down, and what the  *)
(* gateway remembers of both in coverage.json and devices.json              *)
(* (gateway/src/server.js). Sensors do not interact in this code: a check   *)
(* goes through them one after the other.                                   *)
(*                                                                          *)
(* Whether the sensor works is the environment's: its heartbeats have their *)
(* own module. A push is one step with its final outcome, rounds and dead   *)
(* tokens included: AlertFanout is their model.                             *)
(***************************************************************************)
EXTENDS Integers, FiniteSets

CONSTANTS
  Tokens,                   \* the phones
  KillSwitches,             \* the settings RELAY_KILL_SWITCH may have at a start
  Failing,                  \* which of "push" and "save" can fail
  MaxFlips,                 \* bound: changes of the sensor's or a channel's health
  MaxRegistrations,         \* bound: POST /devices
  MaxRestarts               \* bound: process deaths

ASSUME CoverageAssumption ==
  /\ KillSwitches \subseteq BOOLEAN /\ KillSwitches # {}
  /\ Failing \subseteq {"push", "save"}
  /\ {MaxFlips, MaxRegistrations, MaxRestarts} \subseteq Nat

VARIABLES
  killSwitch, grace,        \* of the running process; the grace is STALE_AFTER_MS long
  works,                    \* fresh heartbeat and fresh aea_ok (external)
  degraded,                 \* `degradedSince` of the sensor: its channels that failed
  announced, announcedDisk, \* coverage.json: the channels announced "down"
  phones, phonesDisk,       \* devices.json: who follows the sensor, coverage_told
  putting,                  \* POST /devices calls waiting for their save, per phone and
                            \* by whether they name the sensor
  notices,                  \* registration notices on their way, per phone
  check,                    \* the running announceCoverageChanges
  heard,                    \* the last news each phone heard (external)
  lastNews,                 \* history: the last news a check pushed, per channel
  excused,                  \* history: phones that missed news or registered in unquiet times, since
                            \* their last registration in quiet times
  cut,                      \* history: channels whose save failed or whose push a crash cut off
  flips, registrations, restarts

vars == <<killSwitch, grace, works, degraded, announced, announcedDisk, phones, phonesDisk,
          putting, notices, check, heard, lastNews, excused, cut,
          flips, registrations, restarts>>
environment == <<killSwitch, grace, works, degraded, flips, restarts>>
announcing == <<announced, announcedDisk, check, lastNews, cut>>

-----------------------------------------------------------------------------
Channels == {"webpush", "apns"}
News == {"lost", "restored"}
Stages == {"idle", "save webpush", "push webpush", "to apns", "save apns", "push apns"}

(* coverage_told: undefined, false and true.                                *)
Phone == [follows : BOOLEAN, told : {"never"} \cup News]
Stranger == [follows |-> FALSE, told |-> "never"]

(* A check holds the health and the phones it saw when it began, the phones *)
(* it still waits for and the ones it reached.                              *)
Check == [stage : Stages, covered : SUBSET Channels, tokens : SUBSET Tokens,
          left : SUBSET Tokens, reached : SUBSET Tokens]
NoCheck == [stage |-> "idle", covered |-> {}, tokens |-> {}, left |-> {}, reached |-> {}]

(* A notice is being sent, or has reached the phone and is not noted yet.   *)
Notices == [sending : 0 .. MaxRegistrations, arrived : 0 .. MaxRegistrations]
NoNotice == [sending |-> 0, arrived |-> 0]
NoCalls == [follows \in BOOLEAN |-> 0]

TypeOK ==
  /\ killSwitch \in BOOLEAN /\ grace \in BOOLEAN /\ works \in BOOLEAN
  /\ degraded \in SUBSET Channels
  /\ announced \in SUBSET Channels /\ announcedDisk \in SUBSET Channels
  /\ phones \in [Tokens -> Phone] /\ phonesDisk \in [Tokens -> Phone]
  /\ putting \in [Tokens -> [BOOLEAN -> 0 .. MaxRegistrations]]
  /\ notices \in [Tokens -> Notices]
  /\ check \in Check
  /\ heard \in [Tokens -> {"nothing"} \cup News]
  /\ lastNews \in [Channels -> {"none"} \cup News]
  /\ excused \in SUBSET Tokens
  /\ cut \in SUBSET Channels
  /\ flips \in 0 .. MaxFlips
  /\ registrations \in 0 .. MaxRegistrations
  /\ restarts \in 0 .. MaxRestarts

Init ==
  /\ killSwitch \in KillSwitches /\ grace = TRUE
  /\ works = TRUE
  /\ degraded = {}
  /\ announced = {} /\ announcedDisk = {}
  /\ phones = [t \in Tokens |-> Stranger] /\ phonesDisk = phones
  /\ putting = [t \in Tokens |-> NoCalls]
  /\ notices = [t \in Tokens |-> NoNotice]
  /\ check = NoCheck
  /\ heard = [t \in Tokens |-> "nothing"]
  /\ lastNews = [ch \in Channels |-> "none"]
  /\ excused = {} /\ cut = {}
  /\ flips = 0 /\ registrations = 0 /\ restarts = 0

-----------------------------------------------------------------------------
(* Health.                                                                  *)

(* covered_apns and covered_webpush of sensorHealth.                        *)
Covered(ch) == ~killSwitch /\ works /\ ch \notin degraded

SensorTurns ==
  /\ flips < MaxFlips
  /\ works' = ~works
  /\ flips' = flips + 1
  /\ UNCHANGED <<killSwitch, grace, degraded, restarts, announcing, phones, phonesDisk, putting,
                 notices, heard, excused, registrations>>

(* An alert of the sensor marks or clears the channel.                      *)
ChannelTurns(ch) ==
  /\ flips < MaxFlips
  /\ degraded' = IF ch \in degraded THEN degraded \ {ch} ELSE degraded \cup {ch}
  /\ flips' = flips + 1
  /\ UNCHANGED <<killSwitch, grace, works, restarts, announcing, phones, phonesDisk, putting,
                 notices, heard, excused, registrations>>

GraceEnds ==
  /\ grace
  /\ grace' = FALSE
  /\ UNCHANGED <<killSwitch, works, degraded, flips, restarts, announcing, phones, phonesDisk,
                 putting, notices, heard, excused, registrations>>

-----------------------------------------------------------------------------
(* What the phones do and hear.                                             *)

(* put: what the phone was told of the sensors it keeps survives.           *)
Put(phone, follows) ==
  [follows |-> follows, told |-> IF follows THEN phone.told ELSE "never"]

Quiet == check.stage = "idle" /\ "apns" \notin announced

(* Nothing of an earlier registration or outage is left with the phone.     *)
Settled(t) ==
  /\ phones[t].told # "lost" /\ phonesDisk[t].told # "lost"
  /\ putting[t] = NoCalls /\ notices[t] = NoNotice

(* POST /devices: the registration changes at once, the answer waits for    *)
(* the save.                                                                *)
Register(t, follows) ==
  /\ registrations < MaxRegistrations
  /\ registrations' = registrations + 1
  /\ phones' = [phones EXCEPT ![t] = Put(@, follows)]
  /\ putting' = [putting EXCEPT ![t][follows] = @ + 1]
  /\ excused' = IF ~(follows /\ Quiet) THEN excused \cup {t}
                ELSE IF Settled(t) THEN excused \ {t} ELSE excused
  /\ UNCHANGED <<environment, announcing, phonesDisk, notices, heard>>

(* Slip: only a phone that was never told anything hears of a loss.         *)
RecipientsFirstTime(news, tokens) ==
  {t \in tokens : phones[t].told = IF news = "restored" THEN "lost" ELSE "never"}

(* tellCoverage tells "lost" to whoever was not told so, "restored" only to *)
(* whoever was told "lost".                                                 *)
Recipients(news, tokens) ==
  {t \in tokens : IF news = "restored" THEN phones[t].told = "lost" ELSE phones[t].told # "lost"}

(* Slip: the call is answered again at every save.                          *)
RegisteredAgain(t, follows) ==
  LET noticed == follows /\ ~Covered("apns") /\ t \in Recipients("lost", {t}) IN
  /\ putting[t][follows] > 0
  /\ phonesDisk' = phones
  /\ notices' = IF noticed THEN [notices EXCEPT ![t].sending = @ + 1] ELSE notices
  /\ excused' = IF noticed THEN excused \cup {t} ELSE excused
  /\ UNCHANGED <<environment, announcing, phones, putting, heard, registrations>>

(* The save is done: a phone that asked for the sensor, by this call, is    *)
(* told if it is down now. A write and the answers to its callers are one   *)
(* step here; JsonFile is their model.                                      *)
Registered(t, follows) ==
  LET noticed == follows /\ ~Covered("apns") /\ t \in Recipients("lost", {t}) IN
  /\ putting[t][follows] > 0
  /\ putting' = [putting EXCEPT ![t][follows] = @ - 1]
  /\ phonesDisk' = phones
  /\ notices' = IF noticed THEN [notices EXCEPT ![t].sending = @ + 1] ELSE notices
  /\ excused' = IF noticed THEN excused \cup {t} ELSE excused
  /\ UNCHANGED <<environment, announcing, phones, heard, registrations>>

(* The save failed: an error answer and no notice.                          *)
RegistrationFails(t, follows) ==
  /\ "save" \in Failing
  /\ putting[t][follows] > 0
  /\ putting' = [putting EXCEPT ![t][follows] = @ - 1]
  /\ excused' = excused \cup {t}
  /\ UNCHANGED <<environment, announcing, phones, phonesDisk, notices, heard, registrations>>

Hears(t, news) == heard' = [heard EXCEPT ![t] = news]

NoticeArrives(t) ==
  /\ notices[t].sending > 0
  /\ notices' = [notices EXCEPT ![t].sending = @ - 1, ![t].arrived = @ + 1]
  /\ Hears(t, "lost")
  /\ UNCHANGED <<environment, announcing, phones, phonesDisk, putting, excused, registrations>>

NoticeFails(t) ==
  /\ "push" \in Failing
  /\ notices[t].sending > 0
  /\ notices' = [notices EXCEPT ![t].sending = @ - 1]
  /\ UNCHANGED <<environment, announcing, phones, phonesDisk, putting, heard, excused,
                 registrations>>

(* setCoverageTold, if the token is still registered. Which phones leave    *)
(* altogether is not told apart from phones that follow other sensors.      *)
Noted(tokens, news) == [t \in Tokens |-> IF t \in tokens THEN [phones[t] EXCEPT !.told = news]
                                         ELSE phones[t]]

NoticeNoted(t) ==
  /\ notices[t].arrived > 0
  /\ notices' = [notices EXCEPT ![t].arrived = @ - 1]
  /\ phones' = Noted({t}, "lost")
  /\ UNCHANGED <<environment, announcing, phonesDisk, putting, heard, excused, registrations>>

(* A write of devices.json, whoever asked for it.                           *)
PhonesSaved ==
  /\ phonesDisk # phones
  /\ phonesDisk' = phones
  /\ UNCHANGED <<environment, announcing, phones, putting, notices, heard, excused,
                 registrations>>

-----------------------------------------------------------------------------
(* announceCoverageChanges: web push first, then APNs.                      *)

NewsOf(ch) == IF ch \in check.covered THEN "restored" ELSE "lost"
Changed(ch) == (ch \in check.covered) = (ch \in announced)

(* The timer: one check at a time, and none during the grace unless the     *)
(* kill switch says it all. Health and phones are read together.            *)
StartCheck ==
  /\ check.stage = "idle"
  /\ killSwitch \/ ~grace
  /\ check' = [NoCheck EXCEPT !.stage = "save webpush",
                              !.covered = {ch \in Channels : Covered(ch)},
                              !.tokens = {t \in Tokens : phones[t].follows}]
  /\ UNCHANGED <<environment, announced, announcedDisk, lastNews, cut, phones, phonesDisk,
                 putting, notices, heard, excused, registrations>>

SaveStage(ch) == IF ch = "apns" THEN "save apns" ELSE "save webpush"
PushStage(ch) == IF ch = "apns" THEN "push apns" ELSE "push webpush"
NextStage(ch) == IF ch = "apns" THEN "idle" ELSE "save apns"

Unchanged(ch) ==
  /\ check.stage = SaveStage(ch)
  /\ ~Changed(ch)
  /\ check' = [check EXCEPT !.stage = NextStage(ch)]
  /\ UNCHANGED <<environment, announced, announcedDisk, lastNews, cut, phones, phonesDisk,
                 putting, notices, heard, excused, registrations>>

AnnouncedAfter(ch) == IF ch \in check.covered THEN announced \ {ch} ELSE announced \cup {ch}

(* The new state is saved before the push; a failed save is only logged.    *)
(* Until the save ends no other step of the process reads `announced`.      *)
Announce(ch, saved) ==
  /\ check.stage = SaveStage(ch)
  /\ Changed(ch)
  /\ saved \/ "save" \in Failing
  /\ announced' = AnnouncedAfter(ch)
  /\ announcedDisk' = IF saved THEN AnnouncedAfter(ch) ELSE announcedDisk
  /\ cut' = IF saved THEN cut ELSE cut \cup {ch}
  /\ check' = [check EXCEPT !.stage = PushStage(ch)]
  /\ UNCHANGED <<environment, lastNews, phones, phonesDisk, putting, notices, heard, excused,
                 registrations>>

(* pushTo, to the browsers: who among them hears it is not modelled.        *)
PushWeb ==
  /\ check.stage = "push webpush"
  /\ check' = [check EXCEPT !.stage = NextStage("webpush")]
  /\ lastNews' = [lastNews EXCEPT !["webpush"] = NewsOf("webpush")]
  /\ UNCHANGED <<environment, announced, announcedDisk, cut, phones, phonesDisk, putting,
                 notices, heard, excused, registrations>>

(* tellCoverage picks the recipients and sends to them.                     *)
PushApns ==
  /\ check.stage = "push apns"
  /\ check' = [check EXCEPT !.stage = "to apns", !.left = Recipients(NewsOf("apns"), check.tokens)]
  /\ lastNews' = [lastNews EXCEPT !["apns"] = NewsOf("apns")]
  /\ UNCHANGED <<environment, announced, announcedDisk, cut, phones, phonesDisk, putting,
                 notices, heard, excused, registrations>>

NewsArrives(t) ==
  /\ check.stage = "to apns"
  /\ t \in check.left
  /\ check' = [check EXCEPT !.left = @ \ {t}, !.reached = @ \cup {t}]
  /\ Hears(t, NewsOf("apns"))
  /\ UNCHANGED <<environment, announced, announcedDisk, lastNews, cut, phones, phonesDisk,
                 putting, notices, excused, registrations>>

NewsFails(t) ==
  /\ "push" \in Failing
  /\ check.stage = "to apns"
  /\ t \in check.left
  /\ check' = [check EXCEPT !.left = @ \ {t}]
  /\ excused' = excused \cup {t}
  /\ UNCHANGED <<environment, announced, announcedDisk, lastNews, cut, phones, phonesDisk,
                 putting, notices, heard, registrations>>

(* Slip: every phone the check reached is noted as told "lost".             *)
EndCheckNotesLost ==
  /\ check.stage = "to apns"
  /\ check.left = {}
  /\ phones' = Noted(check.reached, "lost")
  /\ check' = NoCheck
  /\ UNCHANGED <<environment, announced, announcedDisk, lastNews, cut, phonesDisk, putting,
                 notices, heard, excused, registrations>>

(* When every send has ended, the phones that were reached are noted.       *)
EndCheck ==
  /\ check.stage = "to apns"
  /\ check.left = {}
  /\ phones' = Noted(check.reached, NewsOf("apns"))
  /\ check' = NoCheck
  /\ UNCHANGED <<environment, announced, announcedDisk, lastNews, cut, phonesDisk, putting,
                 notices, heard, excused, registrations>>

-----------------------------------------------------------------------------
(* Slip: the announced state starts empty.                                  *)
RestartUnannounced ==
  /\ restarts < MaxRestarts
  /\ restarts' = restarts + 1
  /\ killSwitch' \in KillSwitches
  /\ grace' = TRUE
  /\ degraded' = {}
  /\ announced' = {}
  /\ phones' = phonesDisk
  /\ putting' = [t \in Tokens |-> NoCalls]
  /\ notices' = [t \in Tokens |-> NoNotice]
  /\ check' = NoCheck
  /\ excused' = Tokens
  /\ cut' = cut \cup {ch \in Channels : check.stage = PushStage(ch)}
  /\ UNCHANGED <<works, announcedDisk, phonesDisk, heard, lastNews, flips, registrations>>

(* The process dies and starts again from its files; which channels were    *)
(* degraded was in memory only.                                             *)
Restart ==
  /\ restarts < MaxRestarts
  /\ restarts' = restarts + 1
  /\ killSwitch' \in KillSwitches
  /\ grace' = TRUE
  /\ degraded' = {}
  /\ announced' = announcedDisk
  /\ phones' = phonesDisk
  /\ putting' = [t \in Tokens |-> NoCalls]
  /\ notices' = [t \in Tokens |-> NoNotice]
  /\ check' = NoCheck
  /\ excused' = Tokens
  /\ cut' = cut \cup {ch \in Channels : check.stage = PushStage(ch)}
  /\ UNCHANGED <<works, announcedDisk, phonesDisk, heard, lastNews, flips, registrations>>

Answered(t) == \E follows \in BOOLEAN : Registered(t, follows) \/ RegistrationFails(t, follows)
Notice(t) == NoticeArrives(t) \/ NoticeFails(t) \/ NoticeNoted(t)

CheckStep ==
  \/ \E ch \in Channels : Unchanged(ch) \/ \E saved \in BOOLEAN : Announce(ch, saved)
  \/ PushWeb
  \/ PushApns
  \/ \E t \in Tokens : NewsArrives(t) \/ NewsFails(t)
  \/ EndCheck

Next ==
  \/ SensorTurns
  \/ \E ch \in Channels : ChannelTurns(ch)
  \/ GraceEnds
  \/ \E t \in Tokens, follows \in BOOLEAN : Register(t, follows)
  \/ \E t \in Tokens : Answered(t) \/ Notice(t)
  \/ PhonesSaved
  \/ StartCheck
  \/ CheckStep
  \/ Restart

Spec == Init /\ [][Next]_vars

(* The timer fires every minute, time passes, the event loop runs what is   *)
(* ready and a push ends when its time is up. Nothing is assumed of phones, *)
(* sensors or of how a push ends.                                           *)
Fairness ==
  /\ WF_vars(GraceEnds)
  /\ WF_vars(StartCheck)
  /\ WF_vars(CheckStep)
  /\ \A t \in Tokens : WF_vars(Notice(t)) /\ WF_vars(Answered(t))

FairSpec == Spec /\ Fairness

-----------------------------------------------------------------------------

(* "Persisted so a restart neither repeats that push": the news a channel   *)
(* is sent alternate, across restarts too, unless a save failed or a crash  *)
(* came between the save and the push.                                      *)
NewsAlternates ==
  [][\A ch \in Channels :
       check.stage = PushStage(ch) /\ check'.stage # PushStage(ch) /\ restarts' = restarts
         => lastNews[ch] # NewsOf(ch) \/ ch \in cut]_<<check, lastNews>>

(* When no check runs and APNs is not announced down, a phone is remembered *)
(* as told "lost" only if a push to it failed, it moved, it registered      *)
(* during a check or an outage, got a notice or an error on registering, or *)
(* the process died on the way; and none of it holds any more once the      *)
(* phone registers again in quiet times with nothing left of it.            *)
NobodyLeftBehind ==
  Quiet =>
    \A t \in Tokens : phones[t].told = "lost" => t \in excused

(* A loss that lasts reaches every phone that stays with the sensor, with   *)
(* the same exceptions: since its last registration in quiet times that     *)
(* succeeded without a notice, its pushes arrive and the process lives.     *)
LossReachesPhones ==
  \A t \in Tokens :
    <>[](~Covered("apns") /\ phones[t].follows) /\ <>[](t \notin excused) =>
      <>[](heard[t] = "lost")

=============================================================================
