----------------------------- MODULE AlertFanout -----------------------------
(***************************************************************************)
(* How one gateway process turns a sensor's event into pushes: POST        *)
(* /events, the memory of event ids, the per-phone memory of quakes, the   *)
(* rounds of sends to APNs and to the web push services, the cleanup of    *)
(* dead recipients and the degraded channels (gateway/src/server.js).      *)
(*                                                                         *)
(* Time is a coarse clock. A store is taken as saved when the code asks for *)
(* it: what a failed write does is another component's matter.              *)
(***************************************************************************)
EXTENDS Integers, FiniteSets

CONSTANTS
  Sensors,
  Tokens,             \* iPhones, by APNs device token
  Endpoints,          \* browsers, by web push endpoint
  Events,             \* event ids
  SensorOf,           \* [Events -> Sensors]
  OriginOf,           \* [Events -> Nat \cup {NoOrigin}], when the quake happened
  ExpiryOf,           \* [Events -> Nat], expires_at as validateEvent leaves it
  Weak,               \* the events below the magnitude that a strong-only phone asks for
  EnvOf,              \* [Tokens -> {"production", "sandbox"}], the APNs that knows the token
  SameQuakeWindow,    \* SAME_QUAKE_WINDOW_MS
  MaxFuture,          \* MAX_FUTURE_MS
  MaxExpiry,          \* MAX_EXPIRY_AFTER_ORIGIN_MS
  SeenTTL,            \* SEEN_TTL_MS
  MaxSubscriptions,   \* MAX_SUBSCRIPTIONS
  KillSwitches,       \* the settings RELAY_KILL_SWITCH may have at a start
  Mortal,             \* the recipients that may go away without a word
  MaxRounds,          \* rounds of sendAllWithRetry (five in the code)
  Lanes,              \* sends in flight at once, per alert and channel
  MaxClock, MaxCalls, MaxRestarts   \* bounds: time, client calls, process deaths

NoOrigin == -1
Never == -1
NoSensor == "no sensor"

ASSUME FanoutAssumption ==
  /\ Tokens \cap Endpoints = {} /\ IsFiniteSet(Endpoints) /\ NoSensor \notin Sensors
  /\ SensorOf \in [Events -> Sensors]
  /\ OriginOf \in [Events -> Nat \cup {NoOrigin}]
  /\ ExpiryOf \in [Events -> Nat]
  /\ \A e \in Events : OriginOf[e] # NoOrigin => ExpiryOf[e] <= OriginOf[e] + MaxExpiry
  /\ Weak \subseteq Events
  /\ EnvOf \in [Tokens -> {"production", "sandbox"}]
  /\ KillSwitches \subseteq BOOLEAN /\ KillSwitches # {}
  /\ Mortal \subseteq Tokens \cup Endpoints
  /\ {SameQuakeWindow, MaxFuture, MaxExpiry, MaxClock, MaxCalls, MaxRestarts} \subseteq Nat
  /\ MaxSubscriptions \in Nat
  /\ {SeenTTL, MaxRounds, Lanes} \subseteq Nat \ {0}
  /\ MaxFuture + SameQuakeWindow + MaxExpiry <= SeenTTL   \* 5 + 0.5 + 5 < 15 minutes

VARIABLES
  clock,
  killSwitch,         \* RELAY_KILL_SWITCH of the running process
  devices,            \* [Tokens -> a registration, or Unregistered]
  webSubs,            \* [Endpoints -> the sensor it follows, or NoSensor]
  seen,               \* `seen`: when each event id was accepted, or Never
  claims,             \* `notifiedQuakes`: per token, {[origin, at]}
  alerts,             \* where each accepted event is in deliverAlert
  jobs,               \* per event and channel, its sendAllWithRetry
  degraded,           \* `degradedSince`: the <<sensor, channel>> pairs marked
  alive,              \* recipients whose token or endpoint still works (external)
  rings,              \* history: pushes of this process accepted, per recipient and event
  calls, restarts

vars == <<clock, killSwitch, devices, webSubs, seen, claims, alerts, jobs, degraded,
          alive, rings, calls, restarts>>
clientVars == <<devices, webSubs, calls>>
alertVars == <<seen, claims, alerts, jobs, degraded, rings>>

-----------------------------------------------------------------------------
Recipients == Tokens \cup Endpoints
Channels == {"apns", "webpush"}
Envs == {"production", "sandbox"}
Unregistered == [sensors |-> {}, env |-> "none", strong |-> {}]
Registrations == [sensors : SUBSET Sensors, env : Envs, strong : SUBSET Sensors]

(* What a send resolves to, as far as the code tells statuses apart: 2xx;   *)
(* 404, 410 or an APNs reason that means gone; 429, 5xx or -1 (no answer),  *)
(* which may pass; anything else, which fails again the same way.           *)
Statuses == {"delivered", "gone", "passing", "rejected"}
IsDelivered(status) == status = "delivered"
IsGone(status) == status = "gone"
IsRetryable(status) == status = "passing"

Job == [targets : SUBSET Recipients, todo : SUBSET Recipients,
        out : SUBSET [to : Recipients, env : Envs \cup {"web"}],
        strayed : SUBSET Recipients,   \* history: pushed to the other APNs
        round : 0 .. MaxRounds, result : [Recipients -> Statuses], done : BOOLEAN]

(* An item never tried in time reads as status -1.                          *)
NewJob(targets) ==
  [targets |-> targets, todo |-> targets, out |-> {}, strayed |-> {}, round |-> 1,
   result |-> [r \in Recipients |-> "passing"], done |-> FALSE]
NoJob == [NewJob({}) EXCEPT !.round = 0, !.done = TRUE]

TypeOK ==
  /\ clock \in 0 .. MaxClock
  /\ killSwitch \in BOOLEAN
  /\ devices \in [Tokens -> Registrations \cup {Unregistered}]
  /\ webSubs \in [Endpoints -> Sensors \cup {NoSensor}]
  /\ seen \in [Events -> 0 .. MaxClock \cup {Never}]
  /\ claims \in [Tokens -> SUBSET [origin : Nat, at : 0 .. MaxClock]]
  /\ alerts \in [Events -> {"none", "accepted", "sending", "recorded"}]
  /\ jobs \in [Events -> [Channels -> Job]]
  /\ degraded \in SUBSET (Sensors \X Channels)
  /\ alive \in SUBSET Recipients
  /\ rings \in [Recipients -> [Events -> Nat]]
  /\ calls \in 0 .. MaxCalls
  /\ restarts \in 0 .. MaxRestarts

Init ==
  /\ clock = 0
  /\ killSwitch \in KillSwitches
  /\ devices = [t \in Tokens |-> Unregistered]
  /\ webSubs = [p \in Endpoints |-> NoSensor]
  /\ seen = [e \in Events |-> Never]
  /\ claims = [t \in Tokens |-> {}]
  /\ alerts = [e \in Events |-> "none"]
  /\ jobs = [e \in Events |-> [ch \in Channels |-> NoJob]]
  /\ degraded = {}
  /\ alive = Recipients
  /\ rings = [r \in Recipients |-> [e \in Events |-> 0]]
  /\ calls = 0
  /\ restarts = 0

-----------------------------------------------------------------------------
(* The phones and browsers.                                                 *)

Has(t) == devices[t] # Unregistered

(* POST /devices replaces the whole registration of the token.              *)
Register(t, sensors, strong) ==
  /\ t \in alive
  /\ calls < MaxCalls
  /\ sensors # {}
  /\ strong \subseteq sensors
  /\ devices' = [devices EXCEPT ![t] = [sensors |-> sensors, env |-> EnvOf[t], strong |-> strong]]
  /\ calls' = calls + 1
  /\ UNCHANGED <<clock, killSwitch, webSubs, alertVars, alive, restarts>>

(* DELETE /devices.                                                         *)
Unregister(t) ==
  /\ Has(t)
  /\ calls < MaxCalls
  /\ devices' = [devices EXCEPT ![t] = Unregistered]
  /\ calls' = calls + 1
  /\ UNCHANGED <<clock, killSwitch, webSubs, alertVars, alive, restarts>>

(* POST /subscribe: the endpoint follows this sensor and no other. It is    *)
(* taken off its old sensor before the others are counted.                  *)
Elsewhere(p) == [webSubs EXCEPT ![p] = NoSensor]
Subscribed(subs) == {p \in Endpoints : subs[p] # NoSensor}
Full(subs) == Cardinality(Subscribed(subs)) >= MaxSubscriptions

Subscribe(p, s) ==
  /\ p \in alive
  /\ calls < MaxCalls
  /\ ~Full(Elsewhere(p))
  /\ webSubs' = [webSubs EXCEPT ![p] = s]
  /\ calls' = calls + 1
  /\ UNCHANGED <<clock, killSwitch, devices, alertVars, alive, restarts>>

(* At the limit it is refused; what it lost before is not saved.            *)
SubscribeRefused(p) ==
  /\ p \in alive
  /\ calls < MaxCalls
  /\ Full(Elsewhere(p))
  /\ webSubs' = Elsewhere(p)
  /\ calls' = calls + 1
  /\ UNCHANGED <<clock, killSwitch, devices, alertVars, alive, restarts>>

(* The app is deleted or the browser drops the subscription: nobody tells   *)
(* the gateway, its next push is answered "gone".                           *)
Uninstall(r) ==
  /\ r \in alive \cap Mortal
  /\ alive' = alive \ {r}
  /\ UNCHANGED <<clock, killSwitch, clientVars, alertVars, restarts>>

-----------------------------------------------------------------------------
(* POST /events.                                                            *)

(* validateEvent, at the clock of the gateway. *)
IsValid(e) ==
  /\ OriginOf[e] # NoOrigin => OriginOf[e] - clock <= MaxFuture
  /\ clock < ExpiryOf[e]
  /\ ExpiryOf[e] - clock <= MaxFuture

PrunedSeen ==
  [e \in Events |-> IF clock - seen[e] > SeenTTL THEN Never ELSE seen[e]]

(* A new id is remembered and answered 202 before anything is sent; an id   *)
(* seen before is answered "duplicate". With the kill switch on the answer  *)
(* is 503 and nothing is remembered. A canary event stops before all this.  *)
Accept(e) ==
  /\ IsValid(e)
  /\ ~killSwitch
  /\ PrunedSeen[e] = Never
  /\ alerts[e] \in {"none", "recorded"}
  /\ seen' = [PrunedSeen EXCEPT ![e] = clock]
  /\ alerts' = [alerts EXCEPT ![e] = "accepted"]
  /\ UNCHANGED <<clock, killSwitch, clientVars, claims, jobs, degraded, alive, rings, restarts>>

AnswerDuplicate(e) ==
  /\ IsValid(e)
  /\ ~killSwitch
  /\ PrunedSeen[e] # Never
  /\ seen' = PrunedSeen
  /\ UNCHANGED <<clock, killSwitch, clientVars, claims, alerts, jobs, degraded, alive, rings,
                 restarts>>

-----------------------------------------------------------------------------
(* deliverAlert.                                                            *)

HasOrigin(e) == OriginOf[e] # NoOrigin
SameQuake(a, b) == a - b <= SameQuakeWindow /\ b - a <= SameQuakeWindow

(* Phones that follow the sensor and want this magnitude.                   *)
Wanting(e) ==
  {t \in Tokens : /\ SensorOf[e] \in devices[t].sensors
                  /\ ~(e \in Weak /\ SensorOf[e] \in devices[t].strong)}

(* Slip: a claim is kept only as long as the same-quake window.             *)
RecentForWindow(t) == {c \in claims[t] : clock - c.at <= SameQuakeWindow}

Recent(t) == {c \in claims[t] : clock - c.at <= SeenTTL}
IsClaimed(t, e) == \E c \in Recent(t) : SameQuake(c.origin, OriginOf[e])
Claimable(e) == {t \in Wanting(e) : HasOrigin(e) => ~IsClaimed(t, e)}

(* claimQuake, for every phone that wants the event.                        *)
ClaimsAfter(e) ==
  [t \in Tokens |->
     IF ~HasOrigin(e) \/ t \notin Wanting(e) THEN claims[t]
     ELSE IF t \in Claimable(e) THEN Recent(t) \cup {[origin |-> OriginOf[e], at |-> clock]}
     ELSE Recent(t)]

Deliver(e) ==
  /\ alerts[e] = "accepted"
  /\ alerts' = [alerts EXCEPT ![e] = "sending"]
  /\ claims' = ClaimsAfter(e)
  /\ jobs' = [jobs EXCEPT ![e] = [ch \in Channels |->
                IF ch = "apns" THEN NewJob(Claimable(e))
                ELSE NewJob({p \in Endpoints : webSubs[p] = SensorOf[e]})]]
  /\ UNCHANGED <<clock, killSwitch, clientVars, seen, degraded, alive, rings, restarts>>

(* Which APNs host a send goes to is looked up as the request is made; a    *)
(* token that is not registered (any more) goes to production.              *)
HostFor(r) ==
  IF r \in Endpoints THEN "web" ELSE IF Has(r) THEN devices[r].env ELSE "production"

Strays(m) == m.to \in Tokens /\ m.env # EnvOf[m.to]

Running(e, ch) == alerts[e] = "sending" /\ ~jobs[e][ch].done

(* A worker takes the next item of the round; past the deadline it skips it. *)
Send(e, ch, r) ==
  LET job == jobs[e][ch]
      m == [to |-> r, env |-> HostFor(r)] IN
  /\ Running(e, ch)
  /\ r \in job.todo
  /\ Cardinality(job.out) < Lanes
  /\ clock < ExpiryOf[e]
  /\ jobs' = [jobs EXCEPT ![e][ch] = [job EXCEPT !.todo = @ \ {r}, !.out = @ \cup {m},
                                        !.strayed = IF Strays(m) THEN @ \cup {r} ELSE @]]
  /\ UNCHANGED <<clock, killSwitch, clientVars, seen, claims, alerts, degraded, alive, rings,
                 restarts>>

Skip(e, ch, r) ==
  LET job == jobs[e][ch] IN
  /\ Running(e, ch)
  /\ r \in job.todo
  /\ clock >= ExpiryOf[e]
  /\ jobs' = [jobs EXCEPT ![e][ch] = [job EXCEPT !.todo = @ \ {r}]]
  /\ UNCHANGED <<clock, killSwitch, clientVars, seen, claims, alerts, degraded, alive, rings,
                 restarts>>

(* What the push services answer: a token of the other APNs environment is  *)
(* a BadDeviceToken, a dead recipient is gone, the rest may go any way.     *)
ServiceAnswers(m) ==
  IF Strays(m) THEN {"gone", "passing"}
  ELSE IF m.to \notin alive THEN {"gone", "passing"}
  ELSE {"delivered", "passing", "rejected"}

Answer(e, ch, m, status) ==
  LET job == jobs[e][ch] IN
  /\ Running(e, ch)
  /\ m \in job.out
  /\ status \in ServiceAnswers(m)
  /\ jobs' = [jobs EXCEPT ![e][ch] = [job EXCEPT !.out = @ \ {m}, !.result[m.to] = status]]
  /\ rings' = IF IsDelivered(status) THEN [rings EXCEPT ![m.to][e] = @ + 1] ELSE rings
  /\ UNCHANGED <<clock, killSwitch, clientVars, seen, claims, alerts, degraded, alive, restarts>>

RoundOver(job) == job.todo = {} /\ job.out = {}
ToRetry(job) == {r \in job.targets : IsRetryable(job.result[r])}

(* Slip: rounds go on as long as the alert is fresh.                        *)
NextRoundUncounted(e, ch) ==
  LET job == jobs[e][ch] IN
  /\ Running(e, ch)
  /\ RoundOver(job)
  /\ ToRetry(job) # {}
  /\ clock < ExpiryOf[e]
  /\ jobs' = [jobs EXCEPT ![e][ch] = [job EXCEPT !.todo = ToRetry(job), !.round = @ + 1]]
  /\ UNCHANGED <<clock, killSwitch, clientVars, seen, claims, alerts, degraded, alive, rings,
                 restarts>>

(* After a round, what can pass is tried again, unless the back-off would   *)
(* go past the deadline.                                                    *)
NextRound(e, ch) ==
  LET job == jobs[e][ch] IN
  /\ Running(e, ch)
  /\ RoundOver(job)
  /\ ToRetry(job) # {}
  /\ job.round < MaxRounds
  /\ clock < ExpiryOf[e]
  /\ jobs' = [jobs EXCEPT ![e][ch] = [job EXCEPT !.todo = ToRetry(job), !.round = @ + 1]]
  /\ UNCHANGED <<clock, killSwitch, clientVars, seen, claims, alerts, degraded, alive, rings,
                 restarts>>

(* Slip: only a dead token gives its claim back.                            *)
ReleasedWhenGone(e, job) ==
  [t \in Tokens |->
     IF HasOrigin(e) /\ t \in job.targets /\ IsGone(job.result[t])
     THEN {c \in claims[t] : c.origin # OriginOf[e]}
     ELSE claims[t]]

(* The rounds are over: a phone that was not reached is released for the    *)
(* same quake of another sensor, and the gone recipients are removed.       *)
Released(e, job) ==
  [t \in Tokens |->
     IF HasOrigin(e) /\ t \in job.targets /\ ~IsDelivered(job.result[t])
     THEN {c \in claims[t] : c.origin # OriginOf[e]}
     ELSE claims[t]]

(* Slip: a push the service refuses for any reason counts as an uninstall.  *)
GoneOrRejected(job) ==
  {r \in job.targets : IsGone(job.result[r]) \/ job.result[r] = "rejected"}

Gone(job) == {r \in job.targets : IsGone(job.result[r])}

(* The gone recipients leave their store.                                   *)
CleanUp(e, job) ==
  /\ devices' = [t \in Tokens |-> IF t \in Gone(job) THEN Unregistered ELSE devices[t]]
  /\ webSubs' = [p \in Endpoints |->
                   IF p \in Gone(job) /\ webSubs[p] = SensorOf[e] THEN NoSensor ELSE webSubs[p]]

(* Slip: the send ends only when nothing is left to retry.                  *)
FinishWhenSettled(e, ch) ==
  LET job == jobs[e][ch] IN
  /\ Running(e, ch)
  /\ RoundOver(job)
  /\ ToRetry(job) = {}
  /\ jobs' = [jobs EXCEPT ![e][ch] = [job EXCEPT !.done = TRUE]]
  /\ claims' = Released(e, job)
  /\ CleanUp(e, job)
  /\ UNCHANGED <<clock, killSwitch, calls, seen, alerts, degraded, alive, rings, restarts>>

Finish(e, ch) ==
  LET job == jobs[e][ch] IN
  /\ Running(e, ch)
  /\ RoundOver(job)
  /\ ToRetry(job) = {} \/ job.round = MaxRounds \/ clock + 1 >= ExpiryOf[e]
  /\ jobs' = [jobs EXCEPT ![e][ch] = [job EXCEPT !.done = TRUE]]
  /\ claims' = Released(e, job)
  /\ CleanUp(e, job)
  /\ UNCHANGED <<clock, killSwitch, calls, seen, alerts, degraded, alive, rings, restarts>>

(* updateDegraded: nobody to send to, or only uninstalls, says nothing.     *)
SaysNothing(job) == Gone(job) = job.targets
Reached(job) == \E r \in job.targets : IsDelivered(job.result[r])

DegradedAfter(e) ==
  LET s == SensorOf[e]
      marked == {ch \in Channels : ~SaysNothing(jobs[e][ch]) /\ ~Reached(jobs[e][ch])}
      cleared == {ch \in Channels : Reached(jobs[e][ch])}
  IN  (degraded \ ({s} \X cleared)) \cup ({s} \X marked)

Record(e) ==
  /\ alerts[e] = "sending"
  /\ \A ch \in Channels : jobs[e][ch].done
  /\ alerts' = [alerts EXCEPT ![e] = "recorded"]
  /\ degraded' = DegradedAfter(e)
  /\ UNCHANGED <<clock, killSwitch, clientVars, seen, claims, jobs, alive, rings, restarts>>

-----------------------------------------------------------------------------
(* The process dies and starts again, perhaps with the kill switch changed: *)
(* ids, claims, alerts on their way and degraded channels were in memory.   *)
Restart ==
  /\ restarts < MaxRestarts
  /\ restarts' = restarts + 1
  /\ killSwitch' \in KillSwitches
  /\ seen' = [e \in Events |-> Never]
  /\ claims' = [t \in Tokens |-> {}]
  /\ alerts' = [e \in Events |-> "none"]
  /\ jobs' = [e \in Events |-> [ch \in Channels |-> NoJob]]
  /\ degraded' = {}
  /\ rings' = [r \in Recipients |-> [e \in Events |-> 0]]
  /\ UNCHANGED <<clock, clientVars, alive>>

Tick ==
  /\ clock < MaxClock
  /\ clock' = clock + 1
  /\ UNCHANGED <<killSwitch, clientVars, alertVars, alive, restarts>>

Client ==
  \/ \E t \in Tokens, sensors \in SUBSET Sensors : \E strong \in SUBSET sensors :
        Register(t, sensors, strong)
  \/ \E t \in Tokens : Unregister(t)
  \/ \E p \in Endpoints : SubscribeRefused(p) \/ \E s \in Sensors : Subscribe(p, s)
  \/ \E r \in Recipients : Uninstall(r)

Round(e, ch) ==
  \/ \E r \in Recipients : Send(e, ch, r) \/ Skip(e, ch, r)
  \/ \E m \in jobs[e][ch].out, status \in Statuses : Answer(e, ch, m, status)
  \/ NextRound(e, ch)
  \/ Finish(e, ch)

Delivery(e) ==
  \/ Deliver(e)
  \/ \E ch \in Channels : Round(e, ch)
  \/ Record(e)

Next ==
  \/ Client
  \/ \E e \in Events : Accept(e) \/ AnswerDuplicate(e) \/ Delivery(e)
  \/ Restart
  \/ Tick

Spec == Init /\ [][Next]_vars

(* The event loop runs every ready callback, and every push is answered or  *)
(* cancelled after PUSH_TIMEOUT_MS. Nothing is assumed of sensors, phones   *)
(* or the clock.                                                            *)
Fairness ==
  \A e \in Events :
    /\ WF_vars(Deliver(e))
    /\ WF_vars(Record(e))
    /\ \A ch \in Channels : WF_vars(Round(e, ch))

FairSpec == Spec /\ Fairness

-----------------------------------------------------------------------------
(* "Two sensors seeing one quake wake the phone once": in one life of the   *)
(* process no phone is reached twice by one event, nor by two events whose  *)
(* origins are within the same-quake window.                                *)
OneRingPerQuake ==
  \A r \in Recipients : \A e \in Events :
    /\ rings[r][e] <= 1
    /\ r \in Tokens /\ rings[r][e] > 0 /\ HasOrigin(e) =>
         \A f \in Events \ {e} :
           HasOrigin(f) /\ SameQuake(OriginOf[e], OriginOf[f]) => rings[r][f] = 0

(* "A failed send must not stop the same quake from another sensor reaching *)
(* this phone": a phone that holds a claim on a quake was reached by an     *)
(* alert for it, or one is still being tried.                               *)
ClaimsAreBacked ==
  \A t \in Tokens : \A c \in claims[t] :
    \E e \in Events :
      /\ OriginOf[e] = c.origin
      /\ t \in jobs[e]["apns"].targets
      /\ Running(e, "apns") \/ IsDelivered(jobs[e]["apns"].result[t])

(* What docs/ios-contract.md:33-34 says of development phones: "a sandbox   *)
(* token is never sent to production or deleted because of BadDeviceToken". *)
(* A phone that still works loses its registration to its own call only.    *)
SandboxTokenKept ==
  [][\A t \in alive \cap Tokens : Has(t) => Has(t)' \/ calls' # calls]_devices

(* What the code does: an alert's cleanup takes a phone that still works    *)
(* only if it pushed to the phone's token on the other APNs, as it does if  *)
(* the token was not registered when the push was made. A browser that      *)
(* still works never loses its subscription, neither to the cleanup nor to  *)
(* the limit, which a browser that subscribes again meets after its own     *)
(* subscription was taken out of the count.                                 *)
NoLiveRegistrationDropped ==
  [][/\ \A t \in alive \cap Tokens :
          Has(t) => \/ Has(t)'
                    \/ calls' # calls /\ \A u \in Tokens \ {t} : devices'[u] = devices[u]
                    \/ \E e \in Events : /\ ~jobs[e]["apns"].done /\ jobs'[e]["apns"].done
                                        /\ t \in jobs[e]["apns"].strayed
     /\ \A p \in alive \cap Endpoints :
          webSubs[p] # NoSensor => webSubs'[p] # NoSensor]_<<devices, webSubs>>

(* Every accepted alert ends, whatever the push services do, unless the     *)
(* process dies first.                                                      *)
AlertsEnd ==
  \A e \in Events : alerts[e] = "accepted" ~> alerts[e] \in {"recorded", "none"}

=============================================================================
