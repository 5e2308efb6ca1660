-------------------------- MODULE AlertFanoutProofs --------------------------
(* No phone is woken twice for one quake in one life of the gateway, and no *)
(* claim on a quake is left without an alert behind it, for any number of   *)
(* sensors, recipients, events, rounds and lanes, and however registrations *)
(* change meanwhile. The windows only have to fit into the memory of ids.   *)
EXTENDS AlertFanout, TLAPS, FiniteSetTheorems

(* An event accepted in this life of the process is still remembered, or    *)
(* too old to be accepted again; it was not much younger than the quake.    *)
Remembered(e) ==
  /\ seen[e] # Never => seen[e] <= clock /\ ExpiryOf[e] - seen[e] <= MaxFuture
  /\ alerts[e] # "none" => seen[e] # Never \/ ExpiryOf[e] <= clock
  /\ alerts[e] = "accepted" /\ HasOrigin(e) => OriginOf[e] - clock <= MaxFuture

(* A claim is not much older than its quake.                                *)
Dated(t) == \A c \in claims[t] : c.at <= clock /\ c.origin - c.at <= MaxFuture

(* The recipients of a channel.                                             *)
Audience(ch) == IF ch = "apns" THEN Tokens ELSE Endpoints

(* A push is with the service, once at most.                                *)
Flying(job, r) == \E m \in job.out : m.to = r

(* Each item of a round is to be sent, or in flight, or has its result.     *)
SoundJob(job, ch) ==
  /\ job.targets \subseteq Audience(ch)
  /\ job.todo \subseteq job.targets
  /\ \A m \in job.out : m.to \in job.targets \ job.todo
  /\ \A m, n \in job.out : m.to = n.to => m = n
  /\ \A r \in Recipients :
       r \notin job.targets \/ r \in job.todo \/ Flying(job, r) => job.result[r] = "passing"

(* The pushes of an event have begun only once it was picked up, and a ring *)
(* is a result "delivered".                                                 *)
Counted(e, ch) ==
  /\ alerts[e] \in {"none", "accepted"} => jobs[e][ch].targets = {}
  /\ \A r \in Audience(ch) : rings[r][e] = IF jobs[e][ch].result[r] = "delivered" THEN 1 ELSE 0

(* An alert that reached the phone, or may still do so.                     *)
Holds(e, t) ==
  /\ HasOrigin(e) /\ t \in jobs[e]["apns"].targets
  /\ Running(e, "apns") \/ jobs[e]["apns"].result[t] = "delivered"

(* No event of this quake is fresh any more.                                *)
Over(e) == OriginOf[e] + SameQuakeWindow + MaxExpiry <= clock

Claimed(e, t) == Holds(e, t) => Over(e) \/ \E c \in claims[t] : c.origin = OriginOf[e]

(* Of this event the phone has had nothing.                                 *)
Silent(e, t) == jobs[e]["apns"].result[t] = "passing" /\ ~Flying(jobs[e]["apns"], t)

(* Two alerts of one quake have the same phone only when it is too late for *)
(* the second.                                                              *)
Exclusive(e, f, t) ==
  e # f /\ Holds(e, t) /\ Holds(f, t) /\ SameQuake(OriginOf[e], OriginOf[f])
    => \/ Over(e) /\ Silent(f, t)
       \/ Over(f) /\ Silent(e, t)

Backed(t) == \A c \in claims[t] : \E e \in Events : OriginOf[e] = c.origin /\ Holds(e, t)

Inv ==
  /\ \A e \in Events : Remembered(e)
  /\ \A t \in Tokens : Dated(t)
  /\ \A e \in Events, ch \in Channels : SoundJob(jobs[e][ch], ch) /\ Counted(e, ch)
  /\ \A e \in Events, t \in Tokens : Claimed(e, t)
  /\ \A e, f \in Events, t \in Tokens : Exclusive(e, f, t)
  /\ \A t \in Tokens : Backed(t)

IInv == TypeOK /\ Inv

-----------------------------------------------------------------------------
(* What the assumptions say of the constants.                               *)
LEMMA Constants ==
  /\ {SameQuakeWindow, MaxFuture, MaxExpiry, MaxClock, MaxCalls, MaxRestarts} \subseteq Nat
  /\ SeenTTL \in Nat /\ MaxRounds \in Nat /\ MaxRounds >= 1
  /\ MaxFuture + SameQuakeWindow + MaxExpiry <= SeenTTL
  /\ \A e \in Events : /\ ExpiryOf[e] \in Nat /\ SensorOf[e] \in Sensors
                       /\ HasOrigin(e) => OriginOf[e] \in Nat
                       /\ HasOrigin(e) => ExpiryOf[e] <= OriginOf[e] + MaxExpiry
  /\ \A t \in Tokens : EnvOf[t] \in Envs /\ t \in Recipients /\ t \notin Endpoints
  /\ \A ch \in Channels : Audience(ch) \subseteq Recipients
<1>1. \A e \in Events : /\ ExpiryOf[e] \in Nat /\ SensorOf[e] \in Sensors
                        /\ HasOrigin(e) => OriginOf[e] \in Nat
                        /\ HasOrigin(e) => ExpiryOf[e] <= OriginOf[e] + MaxExpiry
  BY FanoutAssumption DEF HasOrigin, NoOrigin
<1>2. \A t \in Tokens : EnvOf[t] \in Envs /\ t \in Recipients /\ t \notin Endpoints
  BY FanoutAssumption DEF Envs, Recipients
<1>3. \A ch \in Channels : Audience(ch) \subseteq Recipients
  BY DEF Recipients, Audience
<1>4. /\ {SameQuakeWindow, MaxFuture, MaxExpiry, MaxClock, MaxCalls, MaxRestarts} \subseteq Nat
      /\ SeenTTL \in Nat /\ MaxRounds \in Nat /\ MaxRounds >= 1
      /\ MaxFuture + SameQuakeWindow + MaxExpiry <= SeenTTL
  BY FanoutAssumption
<1> QED
  BY <1>1, <1>2, <1>3, <1>4

(* One job changes, the others do not.                                      *)
Becomes(e, ch, job) ==
  /\ jobs' \in [Events -> [Channels -> Job]]
  /\ jobs'[e][ch] = job
  /\ \A f \in Events, k \in Channels : f # e \/ k # ch => jobs'[f][k] = jobs[f][k]

LEMMA OneJob ==
  ASSUME TypeOK, NEW e \in Events, NEW ch \in Channels,
         NEW j \in Job, jobs' = [jobs EXCEPT ![e][ch] = j]
  PROVE  Becomes(e, ch, j)
BY DEF TypeOK, Becomes

LEMMA NewJobTyped ==
  ASSUME NEW targets \in SUBSET Recipients
  PROVE  NewJob(targets) \in Job /\ NoJob \in Job /\ NoJob.targets = {}
<1>1. MaxRounds \in Nat /\ MaxRounds >= 1
  BY Constants
<1>2. 0 \in 0 .. MaxRounds /\ 1 \in 0 .. MaxRounds
  BY <1>1
<1>3. ASSUME NEW S \in SUBSET Recipients PROVE NewJob(S) \in Job
  <2>1. [r \in Recipients |-> "passing"] \in [Recipients -> Statuses]
    BY DEF Statuses
  <2> QED
    BY <1>2, <2>1 DEF NewJob, Job
<1>4. NoJob \in Job /\ NoJob.targets = {}
  BY <1>2, <1>3 DEF NoJob, NewJob, Job
<1> QED
  BY <1>3, <1>4

(* A job whose next item is on its way.                                     *)
Sent(job, m) ==
  [job EXCEPT !.todo = @ \ {m.to}, !.out = @ \cup {m},
              !.strayed = IF Strays(m) THEN @ \cup {m.to} ELSE @]

(* The steps of a round, as changes of one job.                             *)
LEMMA SendJob ==
  ASSUME TypeOK, NEW e \in Events, NEW ch \in Channels, NEW r \in Recipients, Send(e, ch, r)
  PROVE  Becomes(e, ch, Sent(jobs[e][ch], [to |-> r, env |-> HostFor(r)]))
<1>1. HostFor(r) \in Envs \cup {"web"}
  <2>1. r \in Tokens \ Endpoints => devices[r] \in Registrations \cup {Unregistered}
    BY DEF TypeOK
  <2>2. r \in Tokens \/ r \in Endpoints
    BY DEF Recipients
  <2> QED
    BY <2>1, <2>2 DEF HostFor, Has, Registrations, Envs
<1>2. jobs[e][ch] \in Job
  BY DEF TypeOK
<1>3. [to |-> r, env |-> HostFor(r)] \in [to : Recipients, env : Envs \cup {"web"}]
  BY <1>1
<1> DEFINE m == [to |-> r, env |-> HostFor(r)]
           j == Sent(jobs[e][ch], m)
<1>4. j \in Job
  <2>1. m.to = r
    OBVIOUS
  <2> HIDE DEF m
  <2> QED
    BY <1>2, <1>3, <2>1 DEF Job, Sent, m
<1>5. jobs' = [jobs EXCEPT ![e][ch] = j]
  BY DEF Send, Sent
<1> HIDE DEF j
<1>6. Becomes(e, ch, j)
  BY <1>4, <1>5, OneJob
<1> QED
  BY <1>6 DEF j

LEMMA SkipJob ==
  ASSUME TypeOK, NEW e \in Events, NEW ch \in Channels, NEW r \in Recipients, Skip(e, ch, r)
  PROVE  Becomes(e, ch, [jobs[e][ch] EXCEPT !.todo = @ \ {r}])
<1> DEFINE j == [jobs[e][ch] EXCEPT !.todo = @ \ {r}]
<1>1. jobs[e][ch] \in Job
  BY DEF TypeOK
<1>2. j \in Job
  BY <1>1 DEF Skip, Job
<1>3. jobs' = [jobs EXCEPT ![e][ch] = j]
  BY DEF Skip
<1> HIDE DEF j
<1>4. Becomes(e, ch, j)
  BY <1>2, <1>3, OneJob
<1> QED
  BY <1>4 DEF j

LEMMA AnswerJob ==
  ASSUME TypeOK, NEW e \in Events, NEW ch \in Channels, NEW m \in jobs[e][ch].out,
         NEW status \in Statuses, Answer(e, ch, m, status)
  PROVE  /\ m.to \in Recipients
         /\ Becomes(e, ch, [jobs[e][ch] EXCEPT !.out = @ \ {m}, !.result[m.to] = status])
<1> DEFINE j == [jobs[e][ch] EXCEPT !.out = @ \ {m}, !.result[m.to] = status]
<1>1. jobs[e][ch] \in Job
  BY DEF TypeOK
<1>2. m.to \in Recipients /\ j \in Job
  BY <1>1 DEF Job
<1>3. jobs' = [jobs EXCEPT ![e][ch] = j]
  BY DEF Answer
<1> HIDE DEF j
<1>4. Becomes(e, ch, j)
  BY <1>2, <1>3, OneJob
<1> QED
  BY <1>2, <1>4 DEF j

LEMMA NextRoundJob ==
  ASSUME TypeOK, NEW e \in Events, NEW ch \in Channels, NextRound(e, ch)
  PROVE  Becomes(e, ch, [jobs[e][ch] EXCEPT !.todo = ToRetry(jobs[e][ch]), !.round = @ + 1])
<1> DEFINE j == [jobs[e][ch] EXCEPT !.todo = ToRetry(jobs[e][ch]), !.round = @ + 1]
<1>1. jobs[e][ch] \in Job
  BY DEF TypeOK
<1>2. j \in Job
  <2>1. ToRetry(jobs[e][ch]) \subseteq Recipients
    BY <1>1 DEF ToRetry, Job
  <2>2. MaxRounds \in Nat /\ jobs[e][ch].round \in 0 .. MaxRounds /\ jobs[e][ch].round < MaxRounds
    BY <1>1, Constants DEF NextRound, Job
  <2>3. jobs[e][ch].round + 1 \in 0 .. MaxRounds
    BY <2>2
  <2> QED
    BY <1>1, <2>1, <2>3 DEF Job
<1>3. jobs' = [jobs EXCEPT ![e][ch] = j]
  BY DEF NextRound
<1> HIDE DEF j
<1>4. Becomes(e, ch, j)
  BY <1>2, <1>3, OneJob
<1> QED
  BY <1>4 DEF j

LEMMA FinishJob ==
  ASSUME TypeOK, NEW e \in Events, NEW ch \in Channels, Finish(e, ch)
  PROVE  Becomes(e, ch, [jobs[e][ch] EXCEPT !.done = TRUE])
<1> DEFINE j == [jobs[e][ch] EXCEPT !.done = TRUE]
<1>1. jobs[e][ch] \in Job
  BY DEF TypeOK
<1>2. j \in Job
  BY <1>1 DEF Finish, Job
<1>3. jobs' = [jobs EXCEPT ![e][ch] = j]
  BY DEF Finish
<1> HIDE DEF j
<1>4. Becomes(e, ch, j)
  BY <1>2, <1>3, OneJob
<1> QED
  BY <1>4 DEF j
-----------------------------------------------------------------------------
(* Types.                                                                   *)
LEMMA InitTyped == Init => TypeOK
<1> SUFFICES ASSUME Init PROVE TypeOK
  OBVIOUS
<1>1. MaxClock \in Nat /\ MaxCalls \in Nat /\ MaxRestarts \in Nat
  BY Constants
<1>2. killSwitch \in BOOLEAN
  BY FanoutAssumption DEF Init
<1>3. jobs \in [Events -> [Channels -> Job]]
  BY NewJobTyped DEF Init
<1>4. rings \in [Recipients -> [Events -> Nat]]
  BY DEF Init
<1> QED
  BY <1>1, <1>2, <1>3, <1>4 DEF Init, TypeOK

(* The pushes of an event, as far as types go.                              *)
LEMMA ClientTyped == TypeOK /\ (Client \/ Tick \/ Restart) => TypeOK'
<1> SUFFICES ASSUME TypeOK, Client \/ Tick \/ Restart PROVE TypeOK'
  OBVIOUS
<1>0. /\ MaxClock \in Nat /\ MaxCalls \in Nat /\ MaxRestarts \in Nat
      /\ clock \in 0 .. MaxClock /\ calls \in 0 .. MaxCalls /\ restarts \in 0 .. MaxRestarts
  BY Constants DEF TypeOK
<1>1. ASSUME NEW t \in Tokens, NEW sensors \in SUBSET Sensors, NEW strong \in SUBSET sensors,
             Register(t, sensors, strong)
      PROVE  TypeOK'
  <2>1. [sensors |-> sensors, env |-> EnvOf[t], strong |-> strong] \in Registrations
    BY Constants DEF Registrations
  <2>2. devices' \in [Tokens -> Registrations \cup {Unregistered}]
    BY <1>1, <2>1 DEF Register, TypeOK
  <2>3. calls' \in 0 .. MaxCalls
    BY <1>0, <1>1 DEF Register
  <2> QED
    BY <1>1, <2>2, <2>3 DEF Register, TypeOK, alertVars
<1>2. ASSUME NEW t \in Tokens, Unregister(t) PROVE TypeOK'
  <2>1. devices' \in [Tokens -> Registrations \cup {Unregistered}] /\ calls' \in 0 .. MaxCalls
    BY <1>0, <1>2 DEF Unregister, TypeOK
  <2> QED
    BY <1>2, <2>1 DEF Unregister, TypeOK, alertVars
<1>3. ASSUME NEW p \in Endpoints, NEW s \in Sensors, Subscribe(p, s) PROVE TypeOK'
  <2>1. webSubs' \in [Endpoints -> Sensors \cup {NoSensor}] /\ calls' \in 0 .. MaxCalls
    BY <1>0, <1>3 DEF Subscribe, TypeOK
  <2> QED
    BY <1>3, <2>1 DEF Subscribe, TypeOK, alertVars
<1>7. ASSUME NEW p \in Endpoints, SubscribeRefused(p) PROVE TypeOK'
  <2>1. webSubs' \in [Endpoints -> Sensors \cup {NoSensor}] /\ calls' \in 0 .. MaxCalls
    BY <1>0, <1>7 DEF SubscribeRefused, Elsewhere, TypeOK
  <2> QED
    BY <1>7, <2>1 DEF SubscribeRefused, TypeOK, alertVars
<1>4. ASSUME NEW r \in Recipients, Uninstall(r) PROVE TypeOK'
  BY <1>4 DEF Uninstall, TypeOK, alertVars, clientVars
<1>5. CASE Tick
  <2>1. clock' \in 0 .. MaxClock
    BY <1>0, <1>5 DEF Tick
  <2> QED
    BY <1>5, <2>1 DEF Tick, TypeOK, alertVars, clientVars
<1>6. CASE Restart
  <2>1. killSwitch' \in BOOLEAN
    BY <1>6, FanoutAssumption DEF Restart
  <2>2. restarts' \in 0 .. MaxRestarts
    BY <1>0, <1>6 DEF Restart
  <2>3. jobs' \in [Events -> [Channels -> Job]]
    BY <1>6, NewJobTyped DEF Restart
  <2>4. rings' \in [Recipients -> [Events -> Nat]]
    BY <1>6 DEF Restart
  <2>5. /\ seen' \in [Events -> 0 .. MaxClock \cup {Never}]
        /\ degraded' \in SUBSET (Sensors \X Channels)
        /\ claims' \in [Tokens -> SUBSET [origin : Nat, at : 0 .. MaxClock]]
        /\ alerts' \in [Events -> {"none", "accepted", "sending", "recorded"}]
    BY <1>6 DEF Restart
  <2> QED
    BY <1>6, <2>1, <2>2, <2>3, <2>4, <2>5 DEF Restart, TypeOK, clientVars
<1> QED
  BY <1>1, <1>2, <1>3, <1>4, <1>5, <1>6, <1>7 DEF Client

LEMMA RoundTyped ==
  ASSUME TypeOK, NEW e \in Events, NEW ch \in Channels, Round(e, ch)
  PROVE  TypeOK'
<1>1. ASSUME NEW r \in Recipients, Send(e, ch, r) PROVE TypeOK'
  <2>1. jobs' \in [Events -> [Channels -> Job]]
    BY <1>1, SendJob DEF Becomes
  <2> QED
    BY <1>1, <2>1 DEF Send, TypeOK, clientVars
<1>2. ASSUME NEW r \in Recipients, Skip(e, ch, r) PROVE TypeOK'
  <2>1. jobs' \in [Events -> [Channels -> Job]]
    BY <1>2, SkipJob DEF Becomes
  <2> QED
    BY <1>2, <2>1 DEF Skip, TypeOK, clientVars
<1>3. ASSUME NEW m \in jobs[e][ch].out, NEW status \in Statuses, Answer(e, ch, m, status)
      PROVE  TypeOK'
  <2>1. jobs' \in [Events -> [Channels -> Job]] /\ m.to \in Recipients
    BY <1>3, AnswerJob DEF Becomes
  <2>2. rings' \in [Recipients -> [Events -> Nat]]
    BY <1>3, <2>1 DEF Answer, TypeOK
  <2> QED
    BY <1>3, <2>1, <2>2 DEF Answer, TypeOK, clientVars
<1>4. CASE NextRound(e, ch)
  <2>1. jobs' \in [Events -> [Channels -> Job]]
    BY <1>4, NextRoundJob DEF Becomes
  <2> QED
    BY <1>4, <2>1 DEF NextRound, TypeOK, clientVars
<1>5. CASE Finish(e, ch)
  <2>1. jobs' \in [Events -> [Channels -> Job]]
    BY <1>5, FinishJob DEF Becomes
  <2>2. claims' \in [Tokens -> SUBSET [origin : Nat, at : 0 .. MaxClock]]
    BY <1>5 DEF Finish, Released, TypeOK
  <2>3. devices' \in [Tokens -> Registrations \cup {Unregistered}]
    BY <1>5 DEF Finish, CleanUp, TypeOK
  <2>4. webSubs' \in [Endpoints -> Sensors \cup {NoSensor}]
    BY <1>5 DEF Finish, CleanUp, TypeOK
  <2> QED
    BY <1>5, <2>1, <2>2, <2>3, <2>4 DEF Finish, TypeOK
<1> QED
  BY <1>1, <1>2, <1>3, <1>4, <1>5 DEF Round

(* What the memory of ids keeps after a look at it.                         *)
LEMMA Pruning ==
  ASSUME TypeOK, NEW e \in Events
  PROVE  /\ PrunedSeen \in [Events -> 0 .. MaxClock \cup {Never}]
         /\ PrunedSeen[e] # Never => PrunedSeen[e] = seen[e]
         /\ PrunedSeen[e] = Never => seen[e] = Never \/ clock - seen[e] > SeenTTL
<1>1. PrunedSeen[e] = IF clock - seen[e] > SeenTTL THEN Never ELSE seen[e]
  BY DEF PrunedSeen
<1>2. PrunedSeen \in [Events -> 0 .. MaxClock \cup {Never}]
  BY DEF PrunedSeen, TypeOK
<1>3. CASE clock - seen[e] > SeenTTL
  BY <1>1, <1>2, <1>3
<1>4. CASE ~(clock - seen[e] > SeenTTL)
  <2>1. PrunedSeen[e] = seen[e]
    BY <1>1, <1>4
  <2> QED
    BY <1>2, <2>1
<1> QED
  BY <1>3, <1>4

LEMMA EventTyped ==
  ASSUME TypeOK, NEW e \in Events,
         Accept(e) \/ AnswerDuplicate(e) \/ Deliver(e) \/ Record(e)
  PROVE  TypeOK'
<1>0. clock \in 0 .. MaxClock
  BY DEF TypeOK
<1>1. CASE Accept(e)
  <2>1. seen' \in [Events -> 0 .. MaxClock \cup {Never}]
    BY <1>0, <1>1, Pruning DEF Accept
  <2> QED
    BY <1>1, <2>1 DEF Accept, TypeOK, clientVars
<1>2. CASE AnswerDuplicate(e)
  <2>1. seen' \in [Events -> 0 .. MaxClock \cup {Never}]
    BY <1>2, Pruning DEF AnswerDuplicate
  <2> QED
    BY <1>2, <2>1 DEF AnswerDuplicate, TypeOK, clientVars
<1>3. CASE Deliver(e)
  <2> DEFINE targets(ch) == IF ch = "apns" THEN Claimable(e)
                            ELSE {p \in Endpoints : webSubs[p] = SensorOf[e]}
  <2>1. ASSUME NEW ch \in Channels PROVE NewJob(targets(ch)) \in Job
    <3>1. targets(ch) \in SUBSET Recipients
      BY DEF Claimable, Wanting, Recipients
    <3> QED
      BY <3>1, NewJobTyped
  <2>2. jobs' = [jobs EXCEPT ![e] = [ch \in Channels |-> NewJob(targets(ch))]]
    BY <1>3 DEF Deliver
  <2>3. jobs' \in [Events -> [Channels -> Job]]
    <3> HIDE DEF targets
    <3> QED
      BY <2>1, <2>2 DEF TypeOK
  <2>4. claims' \in [Tokens -> SUBSET [origin : Nat, at : 0 .. MaxClock]]
    <3>1. HasOrigin(e) => [origin |-> OriginOf[e], at |-> clock] \in [origin : Nat, at : 0 .. MaxClock]
      BY <1>0, Constants
    <3>2. \A t \in Tokens : Recent(t) \subseteq claims[t]
      BY DEF Recent
    <3>3. \A t \in Tokens : claims[t] \subseteq [origin : Nat, at : 0 .. MaxClock]
      BY DEF TypeOK
    <3> QED
      BY <1>3, <3>1, <3>2, <3>3 DEF Deliver, ClaimsAfter
  <2> QED
    BY <1>3, <2>3, <2>4 DEF Deliver, TypeOK, clientVars
<1>4. CASE Record(e)
  <2>1. degraded' \in SUBSET (Sensors \X Channels)
    <3>1. SensorOf[e] \in Sensors
      BY Constants
    <3> QED
      BY <1>4, <3>1 DEF Record, DegradedAfter, TypeOK
  <2> QED
    BY <1>4, <2>1 DEF Record, TypeOK, clientVars
<1> QED
  BY <1>1, <1>2, <1>3, <1>4

LEMMA NextTyped == TypeOK /\ [Next]_vars => TypeOK'
<1> SUFFICES ASSUME TypeOK, [Next]_vars PROVE TypeOK'
  OBVIOUS
<1>1. CASE UNCHANGED vars
  BY <1>1 DEF vars, TypeOK
<1>2. CASE Next
  BY <1>2, ClientTyped, EventTyped, RoundTyped DEF Next, Delivery
<1> QED
  BY <1>1, <1>2

(* Type correctness: the rounds of a send never exceed MaxRounds, and what  *)
(* is in flight goes to a host of the right kind.                           *)
THEOREM FanoutTyped == Spec => []TypeOK
BY InitTyped, NextTyped, PTL DEF Spec

-----------------------------------------------------------------------------
(* Of two events of one quake, both are stale when it is over by either.    *)
LEMMA TooLate ==
  ASSUME TypeOK, NEW e \in Events, NEW f \in Events, HasOrigin(e), HasOrigin(f),
         SameQuake(OriginOf[e], OriginOf[f])
  PROVE  /\ Over(e) => ExpiryOf[f] <= clock
         /\ Over(f) => ExpiryOf[e] <= clock
<1>1. /\ ExpiryOf[e] \in Nat /\ OriginOf[e] \in Nat /\ ExpiryOf[e] <= OriginOf[e] + MaxExpiry
      /\ ExpiryOf[f] \in Nat /\ OriginOf[f] \in Nat /\ ExpiryOf[f] <= OriginOf[f] + MaxExpiry
      /\ SameQuakeWindow \in Nat /\ MaxExpiry \in Nat
  BY Constants
<1>2. clock \in Nat
  BY DEF TypeOK
<1> QED
  BY <1>1, <1>2 DEF SameQuake, Over

(* A claim that is forgotten is one of a quake that is over: this is what   *)
(* the sum of the windows is bounded for.                                   *)
LEMMA ForgottenIsOver ==
  ASSUME TypeOK, NEW t \in Tokens, Dated(t), NEW c \in claims[t], clock - c.at > SeenTTL,
         NEW e \in Events, OriginOf[e] = c.origin
  PROVE  Over(e)
<1>1. c \in [origin : Nat, at : 0 .. MaxClock] /\ clock \in Nat
  BY DEF TypeOK
<1>2. c.origin \in Nat /\ c.at \in Nat /\ c.origin - c.at <= MaxFuture
  BY <1>1 DEF Dated
<1>3. /\ SameQuakeWindow \in Nat /\ MaxExpiry \in Nat /\ MaxFuture \in Nat /\ SeenTTL \in Nat
      /\ MaxFuture + SameQuakeWindow + MaxExpiry <= SeenTTL
  BY Constants
<1> QED
  BY <1>1, <1>2, <1>3 DEF Over

(* Before anything happened, and after a restart.                           *)
Blank ==
  /\ seen = [e \in Events |-> Never]
  /\ claims = [t \in Tokens |-> {}]
  /\ alerts = [e \in Events |-> "none"]
  /\ jobs = [e \in Events |-> [ch \in Channels |-> NoJob]]
  /\ rings = [r \in Recipients |-> [e \in Events |-> 0]]

LEMMA BlankInv == Blank => Inv
<1> SUFFICES ASSUME Blank PROVE Inv
  OBVIOUS
<1>1. \A e \in Events : seen[e] = Never /\ alerts[e] = "none"
  BY DEF Blank
<1>2. \A e \in Events, ch \in Channels : jobs[e][ch] = NoJob
  BY DEF Blank
<1>3. /\ NoJob.targets = {} /\ NoJob.todo = {} /\ NoJob.out = {}
      /\ \A r \in Recipients : NoJob.result[r] = "passing"
  BY DEF NoJob, NewJob
<1>4. \A t \in Tokens : claims[t] = {}
  BY DEF Blank
<1>5. \A e \in Events : Remembered(e)
  BY <1>1 DEF Remembered
<1>6. \A t \in Tokens : Dated(t) /\ Backed(t)
  BY <1>4 DEF Dated, Backed
<1>7. \A e \in Events, ch \in Channels : SoundJob(jobs[e][ch], ch)
  BY <1>2, <1>3 DEF SoundJob, Flying
<1>8. \A e \in Events, ch \in Channels : Counted(e, ch)
  <2>1. \A r \in Recipients, e \in Events : rings[r][e] = 0
    BY DEF Blank
  <2> QED
    BY <1>2, <1>3, <2>1, Constants DEF Counted
<1>9. \A e \in Events, t \in Tokens : ~Holds(e, t)
  BY <1>2, <1>3 DEF Holds, Channels
<1> QED
  BY <1>5, <1>6, <1>7, <1>8, <1>9 DEF Inv, Claimed, Exclusive

(* Steps that leave claims, jobs and rings alone, and no alert starts or    *)
(* stops sending by.                                                        *)
LEMMA OtherStep ==
  ASSUME IInv, TypeOK', UNCHANGED <<claims, jobs, rings>>, clock <= clock',
         \A e \in Events : Remembered(e)',
         \A e \in Events : Running(e, "apns")' <=> Running(e, "apns"),
         \A e \in Events, ch \in Channels :
           alerts'[e] \in {"none", "accepted"} => jobs[e][ch].targets = {}
  PROVE  Inv'
<1>0. clock \in Nat /\ clock' \in Nat
  BY DEF IInv, TypeOK
<1>1. \A t \in Tokens : Dated(t)'
  <2> SUFFICES ASSUME NEW t \in Tokens, NEW c \in claims[t]
               PROVE  c.at <= clock' /\ c.origin - c.at <= MaxFuture
    BY DEF Dated
  <2>1. c.at \in Nat /\ c.at <= clock /\ c.origin - c.at <= MaxFuture
    BY DEF IInv, TypeOK, Inv, Dated
  <2> QED
    BY <1>0, <2>1
<1>2. \A e \in Events, ch \in Channels : SoundJob(jobs[e][ch], ch)' /\ Counted(e, ch)'
  BY DEF IInv, Inv, SoundJob, Flying, Counted
<1>3. \A e \in Events, t \in Tokens : /\ Holds(e, t)' <=> Holds(e, t)
                                      /\ Silent(e, t)' <=> Silent(e, t)
  BY DEF Holds, Silent, Flying
<1>4. \A e \in Events : HasOrigin(e) /\ Over(e) => Over(e)'
  <2> SUFFICES ASSUME NEW e \in Events, HasOrigin(e), Over(e) PROVE Over(e)'
    OBVIOUS
  <2>1. OriginOf[e] \in Nat /\ SameQuakeWindow \in Nat /\ MaxExpiry \in Nat
    BY Constants
  <2> QED
    BY <1>0, <2>1 DEF Over
<1>5. \A e \in Events, t \in Tokens : Claimed(e, t)'
  BY <1>3, <1>4 DEF IInv, Inv, Claimed, Holds
<1>6. \A e, f \in Events, t \in Tokens : Exclusive(e, f, t)'
  BY <1>3, <1>4 DEF IInv, Inv, Exclusive, Holds
<1>7. \A t \in Tokens : Backed(t)'
  BY <1>3 DEF IInv, Inv, Backed
<1> QED
  BY <1>1, <1>2, <1>5, <1>6, <1>7 DEF Inv

(* Steps of a round: one job goes on, with the rings it makes.              *)
LEMMA JobStep ==
  ASSUME IInv, TypeOK', NEW e \in Events, NEW ch \in Channels, NEW j,
         Running(e, ch), Becomes(e, ch, j), UNCHANGED <<clock, seen, claims, alerts>>,
         j.targets = jobs[e][ch].targets, ~j.done, SoundJob(j, ch),
         \A r \in Recipients, f \in Events :
           f # e \/ r \notin Audience(ch) => rings'[r][f] = rings[r][f],
         \A r \in Audience(ch) : rings'[r][e] = IF j.result[r] = "delivered" THEN 1 ELSE 0,
         \A t \in Tokens :
           ExpiryOf[e] <= clock /\ jobs[e][ch].result[t] = "passing" /\ ~Flying(jobs[e][ch], t)
             => j.result[t] = "passing" /\ ~Flying(j, t)
  PROVE  Inv'
<1>1. \A f \in Events : Remembered(f)'
  BY DEF IInv, Inv, Remembered
<1>2. \A t \in Tokens : Dated(t)'
  BY DEF IInv, Inv, Dated
<1>3. ASSUME NEW f \in Events, NEW k \in Channels PROVE SoundJob(jobs[f][k], k)' /\ Counted(f, k)'
  <2>1. CASE f = e /\ k = ch
    BY <2>1 DEF Becomes, SoundJob, Flying, Counted, Running
  <2>2. CASE f # e \/ k # ch
    <3>1. jobs'[f][k] = jobs[f][k]
      BY <2>2 DEF Becomes
    <3>2. \A r \in Audience(k) : r \in Recipients /\ (f = e => r \notin Audience(ch))
      BY <2>2, Constants DEF Audience, Channels
    <3>3. \A r \in Audience(k) : rings'[r][f] = rings[r][f]
      BY <3>2
    <3> QED
      BY <3>1, <3>3 DEF IInv, Inv, SoundJob, Flying, Counted
  <2> QED
    BY <2>1, <2>2
<1>4. \A f \in Events, t \in Tokens : Holds(f, t)' <=> Holds(f, t)
  BY DEF Holds, Running, Becomes, Channels
<1>5. \A f \in Events : Over(f)' <=> Over(f)
  BY DEF Over
<1>6. \A f \in Events, t \in Tokens : Silent(f, t) /\ ExpiryOf[f] <= clock => Silent(f, t)'
  BY DEF Silent, Flying, Becomes, Channels
<1>7. \A f \in Events, t \in Tokens : Claimed(f, t)'
  BY <1>4, <1>5 DEF IInv, Inv, Claimed
<1>8. ASSUME NEW f \in Events, NEW g \in Events, NEW t \in Tokens PROVE Exclusive(f, g, t)'
  <2> SUFFICES ASSUME f # g, Holds(f, t), Holds(g, t), SameQuake(OriginOf[f], OriginOf[g])
               PROVE  (Over(f)' /\ Silent(g, t)') \/ (Over(g)' /\ Silent(f, t)')
    BY <1>4 DEF Exclusive
  <2>1. (Over(f) /\ Silent(g, t)) \/ (Over(g) /\ Silent(f, t))
    BY DEF IInv, Inv, Exclusive
  <2>2. (Over(f) => ExpiryOf[g] <= clock) /\ (Over(g) => ExpiryOf[f] <= clock)
    BY TooLate DEF IInv, Holds
  <2> QED
    BY <1>5, <1>6, <2>1, <2>2
<1>9. \A t \in Tokens : Backed(t)'
  BY <1>4 DEF IInv, Inv, Backed
<1> QED
  BY <1>1, <1>2, <1>3, <1>7, <1>8, <1>9 DEF Inv

-----------------------------------------------------------------------------
(* An id that the memory lost belongs to an event that expired.             *)
LEMMA PrunedIsStale ==
  ASSUME IInv, NEW e \in Events, PrunedSeen[e] = Never, seen[e] # Never
  PROVE  ExpiryOf[e] <= clock
<1>1. clock - seen[e] > SeenTTL
  BY Pruning DEF IInv
<1>2. clock \in Nat /\ seen[e] \in Nat /\ ExpiryOf[e] - seen[e] <= MaxFuture
  BY DEF IInv, TypeOK, Inv, Remembered
<1>3. /\ SameQuakeWindow \in Nat /\ MaxExpiry \in Nat /\ MaxFuture \in Nat /\ SeenTTL \in Nat
      /\ MaxFuture + SameQuakeWindow + MaxExpiry <= SeenTTL /\ ExpiryOf[e] \in Nat
  BY Constants
<1> QED
  BY <1>1, <1>2, <1>3

(* Phones, browsers, time, and an id seen before.                           *)
LEMMA ElsewhereInv ==
  ASSUME IInv, TypeOK', Client \/ Tick \/ (\E e \in Events : AnswerDuplicate(e)) \/ UNCHANGED vars
  PROVE  Inv'
<1>0. /\ UNCHANGED <<claims, alerts, jobs, rings>>
      /\ clock \in Nat /\ clock <= clock' /\ clock' \in Nat
  <2>1. clock \in Nat /\ clock' \in Nat
    BY DEF IInv, TypeOK
  <2> QED
    BY <2>1 DEF Client, Register, Unregister, Subscribe, SubscribeRefused, Uninstall, Tick, AnswerDuplicate,
                clientVars, alertVars, vars
<1>1. ASSUME NEW e \in Events PROVE seen'[e] = seen[e] \/ (seen'[e] = Never /\ ExpiryOf[e] <= clock)
  <2>1. UNCHANGED seen \/ seen' = PrunedSeen
    BY DEF Client, Register, Unregister, Subscribe, SubscribeRefused, Uninstall, Tick, AnswerDuplicate,
           clientVars, alertVars, vars
  <2> QED
    BY <2>1, Pruning, PrunedIsStale DEF IInv
<1>2. ASSUME NEW e \in Events PROVE Remembered(e)'
  <2>1. Remembered(e)
    BY DEF IInv, Inv
  <2>2. seen[e] # Never => seen[e] \in Nat
    BY DEF IInv, TypeOK
  <2>3. ExpiryOf[e] \in Nat /\ (HasOrigin(e) => OriginOf[e] \in Nat) /\ MaxFuture \in Nat
    BY Constants
  <2> QED
    BY <1>0, <1>1, <2>1, <2>2, <2>3 DEF Remembered
<1>3. \A e \in Events, ch \in Channels :
        alerts'[e] \in {"none", "accepted"} => jobs[e][ch].targets = {}
  BY <1>0 DEF IInv, Inv, Counted
<1>4. \A e \in Events : Running(e, "apns")' <=> Running(e, "apns")
  BY <1>0 DEF Running
<1> QED
  BY <1>0, <1>2, <1>3, <1>4, OtherStep

(* An id is accepted at most once: forgotten, it would have expired.        *)
LEMMA AcceptInv ==
  ASSUME IInv, TypeOK', NEW e \in Events, Accept(e)
  PROVE  Inv'
<1>0. /\ clock \in Nat /\ clock < ExpiryOf[e] /\ PrunedSeen[e] = Never
      /\ seen' = [PrunedSeen EXCEPT ![e] = clock]
      /\ alerts' = [alerts EXCEPT ![e] = "accepted"]
      /\ UNCHANGED <<clock, claims, jobs, rings>>
      /\ ExpiryOf[e] - clock <= MaxFuture
      /\ HasOrigin(e) => OriginOf[e] - clock <= MaxFuture
  BY DEF Accept, IsValid, HasOrigin, clientVars, IInv, TypeOK
<1>1. alerts[e] = "none"
  <2>1. seen[e] = Never
    BY <1>0, PrunedIsStale, Constants
  <2>2. ~(ExpiryOf[e] <= clock)
    BY <1>0, Constants
  <2> QED
    BY <2>1, <2>2 DEF IInv, Inv, Remembered
<1>2. ASSUME NEW f \in Events PROVE Remembered(f)'
  <2>1. CASE f = e
    <3>1. seen'[e] = clock /\ clock # Never
      BY <1>0, Pruning DEF IInv, Never
    <3> QED
      BY <1>0, <2>1, <3>1 DEF Remembered
  <2>2. CASE f # e
    <3>1. seen'[f] = PrunedSeen[f] /\ alerts'[f] = alerts[f]
      BY <1>0, <2>2, Pruning DEF IInv, TypeOK
    <3>2. seen'[f] = seen[f] \/ (seen'[f] = Never /\ ExpiryOf[f] <= clock)
      BY <3>1, Pruning, PrunedIsStale DEF IInv
    <3>3. Remembered(f)
      BY DEF IInv, Inv
    <3> QED
      BY <1>0, <3>1, <3>2, <3>3 DEF Remembered
  <2> QED
    BY <2>1, <2>2
<1>3. ASSUME NEW f \in Events, NEW ch \in Channels, alerts'[f] \in {"none", "accepted"}
      PROVE  jobs[f][ch].targets = {}
  <2>1. alerts[f] \in {"none", "accepted"}
    BY <1>0, <1>1, <1>3 DEF IInv, TypeOK
  <2> QED
    BY <2>1 DEF IInv, Inv, Counted
<1>4. \A f \in Events : Running(f, "apns")' <=> Running(f, "apns")
  BY <1>0, <1>1 DEF Running, IInv, TypeOK
<1> QED
  BY <1>0, <1>2, <1>3, <1>4, OtherStep

LEMMA RecordInv ==
  ASSUME IInv, TypeOK', NEW e \in Events, Record(e)
  PROVE  Inv'
<1>0. /\ alerts[e] = "sending" /\ jobs[e]["apns"].done
      /\ alerts' = [alerts EXCEPT ![e] = "recorded"]
      /\ UNCHANGED <<clock, seen, claims, jobs, rings>> /\ clock \in Nat
  BY DEF Record, Channels, clientVars, IInv, TypeOK
<1>1. \A f \in Events : Remembered(f)'
  BY <1>0 DEF IInv, TypeOK, Inv, Remembered
<1>2. \A f \in Events, ch \in Channels :
        alerts'[f] \in {"none", "accepted"} => jobs[f][ch].targets = {}
  BY <1>0 DEF IInv, TypeOK, Inv, Counted
<1>3. \A f \in Events : Running(f, "apns")' <=> Running(f, "apns")
  BY <1>0 DEF Running, IInv, TypeOK
<1> QED
  BY <1>0, <1>1, <1>2, <1>3, OtherStep

-----------------------------------------------------------------------------
(* Picking an event up: its phones have no fresh claim on the quake.        *)
LEMMA DeliverInv ==
  ASSUME IInv, TypeOK', NEW e \in Events, Deliver(e)
  PROVE  Inv'
<1> DEFINE Targets(ch) == IF ch = "apns" THEN Claimable(e)
                          ELSE {p \in Endpoints : webSubs[p] = SensorOf[e]}
<1>0. /\ alerts[e] = "accepted" /\ alerts' = [alerts EXCEPT ![e] = "sending"]
      /\ claims' = ClaimsAfter(e)
      /\ jobs' = [jobs EXCEPT ![e] = [ch \in Channels |-> NewJob(Targets(ch))]]
      /\ UNCHANGED <<clock, seen, rings>> /\ clock \in Nat
  <2>1. jobs' = [jobs EXCEPT ![e] = [ch \in Channels |-> NewJob(Targets(ch))]]
    BY DEF Deliver
  <2>2. /\ alerts[e] = "accepted" /\ alerts' = [alerts EXCEPT ![e] = "sending"]
        /\ claims' = ClaimsAfter(e) /\ UNCHANGED <<clock, seen, rings>> /\ clock \in Nat
    BY DEF Deliver, IInv, TypeOK
  <2> QED
    BY <2>1, <2>2
<1>t. Targets("apns") = Claimable(e) /\ \A ch \in Channels : Targets(ch) \subseteq Audience(ch)
  BY DEF Channels, Audience, Claimable, Wanting
<1> HIDE DEF Targets
<1>1. /\ \A ch \in Channels : jobs'[e][ch] = NewJob(Targets(ch))
      /\ \A f \in Events \ {e} : jobs'[f] = jobs[f] /\ alerts'[f] = alerts[f]
      /\ alerts'[e] = "sending"
  BY <1>0 DEF IInv, TypeOK
<1>2. ASSUME NEW S
      PROVE  /\ NewJob(S).targets = S /\ NewJob(S).todo = S /\ NewJob(S).out = {} /\ ~NewJob(S).done
             /\ \A r \in Recipients : NewJob(S).result[r] = "passing"
  BY DEF NewJob
<1>3. \A f \in Events : Remembered(f)'
  BY <1>0, <1>1 DEF IInv, Inv, Remembered
<1>4. \A f \in Events, ch \in Channels : SoundJob(jobs[f][ch], ch)'
  <2> SUFFICES ASSUME NEW f \in Events, NEW ch \in Channels PROVE SoundJob(jobs'[f][ch], ch)
    BY DEF SoundJob, Flying
  <2>1. CASE f = e
    BY <1>t, <1>1, <1>2, <2>1 DEF SoundJob, Flying
  <2>2. CASE f # e
    BY <1>1, <2>2 DEF IInv, Inv
  <2> QED
    BY <2>1, <2>2
<1>5. ASSUME NEW f \in Events, NEW ch \in Channels PROVE Counted(f, ch)'
  <2>1. CASE f = e
    <3>1. \A r \in Audience(ch) : r \in Recipients /\ jobs[e][ch].result[r] = "passing"
      BY <1>0, Constants DEF IInv, Inv, Counted, SoundJob
    <3>2. \A r \in Audience(ch) : rings'[r][e] = 0
      BY <1>0, <3>1 DEF IInv, Inv, Counted
    <3> QED
      BY <1>1, <1>2, <2>1, <3>1, <3>2 DEF Counted
  <2>2. CASE f # e
    BY <1>0, <1>1, <2>2 DEF IInv, Inv, Counted
  <2> QED
    BY <2>1, <2>2
<1>6. ASSUME NEW t \in Tokens
      PROVE  /\ ~Holds(e, t)
             /\ Holds(e, t)' => HasOrigin(e) /\ t \in Claimable(e)
             /\ t \in Claimable(e) /\ HasOrigin(e) => Holds(e, t)'
             /\ Silent(e, t)'
             /\ \A f \in Events \ {e} : /\ Holds(f, t)' <=> Holds(f, t)
                                        /\ Silent(f, t)' <=> Silent(f, t)
  <2>1. jobs[e]["apns"].targets = {}
    BY <1>0 DEF IInv, Inv, Counted, Channels
  <2>2. jobs'[e]["apns"] = NewJob(Claimable(e)) /\ t \in Recipients
    BY <1>t, <1>1, Constants DEF Channels
  <2> QED
    BY <1>1, <1>2, <2>1, <2>2 DEF Holds, Running, Silent, Flying
<1>7. \A f \in Events : Over(f)' <=> Over(f)
  BY <1>0 DEF Over
<1>8. ASSUME NEW t \in Tokens
      PROVE  /\ \A c \in claims'[t] : \/ c \in claims[t]
                                      \/ /\ c = [origin |-> OriginOf[e], at |-> clock]
                                         /\ HasOrigin(e) /\ t \in Claimable(e)
             /\ Recent(t) \subseteq claims'[t]
             /\ HasOrigin(e) /\ t \in Claimable(e) => \E c \in claims'[t] : c.origin = OriginOf[e]
  <2>1. Claimable(e) \subseteq Wanting(e) /\ Recent(t) \subseteq claims[t]
    BY DEF Claimable, Recent
  <2>2. claims'[t] = IF ~HasOrigin(e) \/ t \notin Wanting(e) THEN claims[t]
                     ELSE IF t \in Claimable(e)
                          THEN Recent(t) \cup {[origin |-> OriginOf[e], at |-> clock]}
                          ELSE Recent(t)
    BY <1>0 DEF ClaimsAfter
  <2>3. CASE ~HasOrigin(e) \/ t \notin Wanting(e)
    BY <2>1, <2>2, <2>3
  <2>4. CASE HasOrigin(e) /\ t \in Wanting(e) /\ t \in Claimable(e)
    <3>1. claims'[t] = Recent(t) \cup {[origin |-> OriginOf[e], at |-> clock]}
      BY <2>2, <2>4
    <3> DEFINE new == [origin |-> OriginOf[e], at |-> clock]
    <3>2. new.origin = OriginOf[e] /\ claims'[t] = Recent(t) \cup {new}
      BY <3>1
    <3> HIDE DEF new
    <3>3. (\A c \in claims'[t] : c \in claims[t] \/ c = new) /\ new \in claims'[t]
      BY <2>1, <3>2
    <3> QED
      BY <2>4, <3>2, <3>3 DEF new
  <2>5. CASE HasOrigin(e) /\ t \in Wanting(e) /\ t \notin Claimable(e)
    BY <2>1, <2>2, <2>5
  <2> QED
    BY <2>3, <2>4, <2>5
<1>9. \A t \in Tokens : Dated(t)'
  <2> SUFFICES ASSUME NEW t \in Tokens, NEW c \in claims'[t]
               PROVE  c.at <= clock /\ c.origin - c.at <= MaxFuture
    BY <1>0 DEF Dated
  <2>1. CASE c \in claims[t]
    BY <2>1 DEF IInv, Inv, Dated
  <2>2. CASE c = [origin |-> OriginOf[e], at |-> clock] /\ HasOrigin(e)
    BY <1>0, <2>2 DEF IInv, Inv, Remembered
  <2> QED
    BY <1>8, <2>1, <2>2
<1>10. ASSUME NEW f \in Events, NEW t \in Tokens, Holds(f, t), ~Over(f)
       PROVE  \E c \in Recent(t) : c.origin = OriginOf[f]
  <2>1. PICK c \in claims[t] : c.origin = OriginOf[f]
    BY <1>10 DEF IInv, Inv, Claimed
  <2>2. ~(clock - c.at > SeenTTL)
    BY <1>10, <2>1, ForgottenIsOver DEF IInv, Inv
  <2>3. c.at \in Nat /\ SeenTTL \in Nat
    BY Constants DEF IInv, TypeOK
  <2> QED
    BY <1>0, <2>1, <2>2, <2>3 DEF Recent
<1>11. ASSUME NEW f \in Events, NEW t \in Tokens PROVE Claimed(f, t)'
  BY <1>6, <1>7, <1>8, <1>10 DEF Claimed
<1>12. ASSUME NEW f \in Events \ {e}, NEW t \in Tokens, Holds(f, t), Holds(e, t)',
              SameQuake(OriginOf[f], OriginOf[e])
       PROVE  Over(f)
  <2>1. ~IsClaimed(t, e)
    BY <1>6, <1>12 DEF Claimable
  <2> QED
    BY <1>10, <1>12, <2>1 DEF IsClaimed
<1>13. ASSUME NEW f \in Events, NEW g \in Events, NEW t \in Tokens PROVE Exclusive(f, g, t)'
  <2> SUFFICES ASSUME f # g, Holds(f, t)', Holds(g, t)', SameQuake(OriginOf[f], OriginOf[g])
               PROVE  (Over(f)' /\ Silent(g, t)') \/ (Over(g)' /\ Silent(f, t)')
    BY DEF Exclusive
  <2>1. CASE f = e
    <3>1. Holds(g, t) /\ SameQuake(OriginOf[g], OriginOf[e])
      BY <1>6, <2>1 DEF SameQuake
    <3> QED
      BY <1>6, <1>7, <1>12, <2>1, <3>1
  <2>2. CASE g = e
    BY <1>6, <1>7, <1>12, <2>2
  <2>3. CASE f # e /\ g # e
    BY <1>6, <1>7, <2>3 DEF IInv, Inv, Exclusive
  <2> QED
    BY <2>1, <2>2, <2>3
<1>14. ASSUME NEW t \in Tokens PROVE Backed(t)'
  <2> SUFFICES ASSUME NEW c \in claims'[t]
               PROVE  \E f \in Events : OriginOf[f] = c.origin /\ Holds(f, t)'
    BY DEF Backed
  <2>1. CASE c \in claims[t]
    <3>1. PICK f \in Events : OriginOf[f] = c.origin /\ Holds(f, t)
      BY <2>1 DEF IInv, Inv, Backed
    <3> QED
      BY <1>6, <3>1
  <2>2. CASE c = [origin |-> OriginOf[e], at |-> clock] /\ HasOrigin(e) /\ t \in Claimable(e)
    BY <1>6, <2>2
  <2> QED
    BY <1>8, <2>1, <2>2
<1> QED
  BY <1>3, <1>4, <1>5, <1>9, <1>11, <1>13, <1>14 DEF Inv

-----------------------------------------------------------------------------
(* The steps of a round.                                                    *)
LEMMA SendInv ==
  ASSUME IInv, TypeOK', NEW e \in Events, NEW ch \in Channels, NEW r \in Recipients, Send(e, ch, r)
  PROVE  Inv'
<1> DEFINE job == jobs[e][ch]
           m == [to |-> r, env |-> HostFor(r)]
           j == Sent(job, m)
<1>0. /\ Running(e, ch) /\ r \in job.todo /\ clock < ExpiryOf[e]
      /\ UNCHANGED <<clock, seen, claims, alerts, rings>>
      /\ Becomes(e, ch, j)
  BY SendJob DEF Send, IInv
<1>1. job \in Job /\ SoundJob(job, ch) /\ Counted(e, ch)
  BY DEF IInv, TypeOK, Inv
<1>2. /\ j.targets = job.targets /\ j.todo = job.todo \ {r} /\ j.out = job.out \cup {m}
      /\ j.result = job.result /\ j.done = job.done /\ m.to = r
  BY <1>1 DEF Job, Sent
<1>3. job.result[r] = "passing" /\ r \in job.targets
  BY <1>0, <1>1 DEF SoundJob
<1> HIDE DEF j, m
<1>4. SoundJob(j, ch)
  <2>1. \A n \in job.out : n.to # r
    BY <1>0, <1>1 DEF SoundJob
  <2>2. ASSUME NEW n \in j.out PROVE n.to \in j.targets \ j.todo
    BY <1>1, <1>2, <1>3 DEF SoundJob
  <2>3. \A n, o \in j.out : n.to = o.to => n = o
    BY <1>1, <1>2, <2>1 DEF SoundJob
  <2>4. ASSUME NEW q \in Recipients, q \notin j.targets \/ q \in j.todo \/ Flying(j, q)
        PROVE  j.result[q] = "passing"
    BY <1>1, <1>2, <1>3, <2>4 DEF SoundJob, Flying
  <2> QED
    BY <1>1, <1>2, <2>2, <2>3, <2>4 DEF SoundJob
<1>5. ~(ExpiryOf[e] <= clock)
  BY <1>0, Constants DEF IInv, TypeOK
<1>6. /\ j.targets = jobs[e][ch].targets /\ ~j.done
      /\ \A q \in Audience(ch) : rings'[q][e] = IF j.result[q] = "delivered" THEN 1 ELSE 0
  BY <1>0, <1>1, <1>2 DEF Counted, Running
<1> QED
  BY <1>0, <1>4, <1>5, <1>6, JobStep

LEMMA SkipInv ==
  ASSUME IInv, TypeOK', NEW e \in Events, NEW ch \in Channels, NEW r \in Recipients, Skip(e, ch, r)
  PROVE  Inv'
<1> DEFINE job == jobs[e][ch]
           j == [job EXCEPT !.todo = @ \ {r}]
<1>0. /\ Running(e, ch) /\ UNCHANGED <<clock, seen, claims, alerts, rings>>
      /\ Becomes(e, ch, j)
  BY SkipJob DEF Skip, IInv
<1>1. job \in Job /\ SoundJob(job, ch) /\ Counted(e, ch)
  BY DEF IInv, TypeOK, Inv
<1>2. /\ j.targets = job.targets /\ j.todo = job.todo \ {r} /\ j.out = job.out
      /\ j.result = job.result /\ j.done = job.done
  BY <1>1 DEF Job
<1> HIDE DEF j
<1>3. SoundJob(j, ch)
  BY <1>1, <1>2 DEF SoundJob, Flying
<1>4. /\ j.targets = jobs[e][ch].targets /\ ~j.done
      /\ \A q \in Audience(ch) : rings'[q][e] = IF j.result[q] = "delivered" THEN 1 ELSE 0
      /\ \A t \in Tokens : job.result[t] = "passing" /\ ~Flying(job, t)
                             => j.result[t] = "passing" /\ ~Flying(j, t)
  BY <1>0, <1>1, <1>2 DEF Counted, Running, Flying
<1> QED
  BY <1>0, <1>3, <1>4, JobStep

(* An answer ends a push: it rings once, and what was not in flight does    *)
(* not ring at all.                                                         *)
LEMMA AnswerInv ==
  ASSUME IInv, TypeOK', NEW e \in Events, NEW ch \in Channels, NEW m \in jobs[e][ch].out,
         NEW status \in Statuses, Answer(e, ch, m, status)
  PROVE  Inv'
<1> DEFINE job == jobs[e][ch]
           j == [job EXCEPT !.out = @ \ {m}, !.result[m.to] = status]
<1>0. /\ Running(e, ch) /\ UNCHANGED <<clock, seen, claims, alerts>>
      /\ Becomes(e, ch, j) /\ m.to \in Recipients
      /\ rings' = IF status = "delivered" THEN [rings EXCEPT ![m.to][e] = @ + 1] ELSE rings
  BY AnswerJob DEF Answer, IInv, IsDelivered
<1>1. job \in Job /\ SoundJob(job, ch) /\ Counted(e, ch)
  BY DEF IInv, TypeOK, Inv
<1>2. /\ j.targets = job.targets /\ j.todo = job.todo /\ j.out = job.out \ {m}
      /\ j.done = job.done /\ j.result[m.to] = status
      /\ \A q \in Recipients \ {m.to} : j.result[q] = job.result[q]
  BY <1>0, <1>1 DEF Job
<1> HIDE DEF j
<1>3. /\ m.to \in job.targets \ job.todo /\ m.to \in Audience(ch)
      /\ \A n \in job.out : n.to = m.to => n = m
      /\ job.result[m.to] = "passing"
  BY <1>0, <1>1 DEF SoundJob, Flying
<1>4. ~Flying(j, m.to) /\ \A q \in Recipients : Flying(j, q) => Flying(job, q) /\ q # m.to
  BY <1>2, <1>3 DEF Flying
<1>5. SoundJob(j, ch)
  <2>1. ASSUME NEW q \in Recipients, q \notin j.targets \/ q \in j.todo \/ Flying(j, q)
        PROVE  j.result[q] = "passing"
    <3>1. q # m.to
      BY <1>2, <1>3, <1>4, <2>1
    <3> QED
      BY <1>1, <1>2, <1>4, <2>1, <3>1 DEF SoundJob
  <2> QED
    BY <1>1, <1>2, <2>1 DEF SoundJob
<1>6. rings[m.to][e] = 0
  BY <1>1, <1>3 DEF Counted
<1>7. ASSUME NEW q \in Recipients, NEW f \in Events
      PROVE  rings'[q][f] = IF q = m.to /\ f = e /\ status = "delivered" THEN 1 ELSE rings[q][f]
  <2>1. rings \in [Recipients -> [Events -> Nat]]
    BY DEF IInv, TypeOK
  <2> QED
    BY <1>0, <1>6, <2>1
<1>8. \A q \in Recipients, f \in Events : f # e \/ q \notin Audience(ch) => rings'[q][f] = rings[q][f]
  BY <1>3, <1>7
<1>9. \A q \in Audience(ch) : rings'[q][e] = IF j.result[q] = "delivered" THEN 1 ELSE 0
  BY <1>1, <1>2, <1>3, <1>6, <1>7, Constants DEF Counted
<1>10. ASSUME NEW t \in Tokens, job.result[t] = "passing", ~Flying(job, t)
       PROVE  j.result[t] = "passing" /\ ~Flying(j, t)
  <2>1. t # m.to /\ t \in Recipients
    BY <1>10, Constants DEF Flying
  <2> QED
    BY <1>2, <1>4, <1>10, <2>1
<1>11. j.targets = jobs[e][ch].targets /\ ~j.done
  BY <1>0, <1>2 DEF Running
<1> QED
  BY <1>0, <1>5, <1>8, <1>9, <1>10, <1>11, JobStep

LEMMA NextRoundInv ==
  ASSUME IInv, TypeOK', NEW e \in Events, NEW ch \in Channels, NextRound(e, ch)
  PROVE  Inv'
<1> DEFINE job == jobs[e][ch]
           j == [job EXCEPT !.todo = ToRetry(job), !.round = @ + 1]
<1>0. /\ Running(e, ch) /\ UNCHANGED <<clock, seen, claims, alerts, rings>>
      /\ Becomes(e, ch, j) /\ job.out = {}
  BY NextRoundJob DEF NextRound, RoundOver, IInv
<1>1. job \in Job /\ SoundJob(job, ch) /\ Counted(e, ch)
  BY DEF IInv, TypeOK, Inv
<1>2. /\ j.targets = job.targets /\ j.todo = ToRetry(job) /\ j.out = {}
      /\ j.result = job.result /\ j.done = job.done
  BY <1>0, <1>1 DEF Job
<1> HIDE DEF j
<1>3. SoundJob(j, ch)
  BY <1>1, <1>2 DEF SoundJob, Flying, ToRetry, IsRetryable
<1>4. /\ j.targets = jobs[e][ch].targets /\ ~j.done
      /\ \A q \in Audience(ch) : rings'[q][e] = IF j.result[q] = "delivered" THEN 1 ELSE 0
      /\ \A t \in Tokens : job.result[t] = "passing" => j.result[t] = "passing" /\ ~Flying(j, t)
  BY <1>0, <1>1, <1>2 DEF Counted, Running, Flying
<1> QED
  BY <1>0, <1>3, <1>4, JobStep

(* The end of the rounds gives back the claims of the phones that were not  *)
(* reached; an alert that goes on, or has reached the phone, keeps its own. *)
LEMMA FinishInv ==
  ASSUME IInv, TypeOK', NEW e \in Events, NEW ch \in Channels, Finish(e, ch)
  PROVE  Inv'
<1> DEFINE job == jobs[e][ch]
           j == [job EXCEPT !.done = TRUE]
<1>0. /\ Running(e, ch) /\ UNCHANGED <<clock, seen, alerts, rings>> /\ clock \in Nat
      /\ Becomes(e, ch, j) /\ claims' = Released(e, job)
  <2>1. Becomes(e, ch, j)
    BY FinishJob DEF IInv
  <2>2. Running(e, ch) /\ claims' = Released(e, job) /\ UNCHANGED <<clock, seen, alerts, rings>>
    BY DEF Finish
  <2> QED
    BY <2>1, <2>2 DEF IInv, TypeOK
<1>1. job \in Job /\ SoundJob(job, ch) /\ Counted(e, ch)
  BY DEF IInv, TypeOK, Inv
<1>2. /\ j.targets = job.targets /\ j.todo = job.todo /\ j.out = job.out
      /\ j.result = job.result /\ j.done
  BY <1>1 DEF Job
<1> HIDE DEF j
<1>3. ASSUME NEW t \in Tokens, NEW c \in claims[t], c \notin claims'[t]
      PROVE  /\ HasOrigin(e) /\ c.origin = OriginOf[e] /\ ch = "apns"
             /\ t \in job.targets /\ job.result[t] # "delivered"
  <2>1. t \in Audience(ch) => ch = "apns"
    BY Constants DEF Audience, Channels
  <2> QED
    BY <1>0, <1>1, <1>3, <2>1 DEF Released, IsDelivered, SoundJob
<1>4. \A t \in Tokens : claims'[t] \subseteq claims[t]
  BY <1>0 DEF Released
<1>5. /\ \A f \in Events : Remembered(f)'
      /\ \A t \in Tokens : Dated(t)'
      /\ \A f \in Events : Over(f)' <=> Over(f)
  BY <1>0, <1>4 DEF IInv, Inv, Remembered, Dated, Over
<1>6. ASSUME NEW f \in Events, NEW k \in Channels PROVE SoundJob(jobs[f][k], k)' /\ Counted(f, k)'
  <2>1. /\ jobs'[f][k].targets = jobs[f][k].targets /\ jobs'[f][k].todo = jobs[f][k].todo
        /\ jobs'[f][k].out = jobs[f][k].out /\ jobs'[f][k].result = jobs[f][k].result
    BY <1>0, <1>2 DEF Becomes
  <2> QED
    BY <1>0, <2>1 DEF IInv, Inv, SoundJob, Flying, Counted
<1>7. ASSUME NEW f \in Events, NEW t \in Tokens
      PROVE  /\ Holds(f, t)' => Holds(f, t)
             /\ Silent(f, t)' <=> Silent(f, t)
             /\ f # e \/ ch # "apns" => (Holds(f, t) => Holds(f, t)')
             /\ job.result[t] = "delivered" => (Holds(f, t) => Holds(f, t)')
             /\ f = e /\ ch = "apns" /\ Holds(f, t)' => job.result[t] = "delivered"
  BY <1>0, <1>2 DEF Holds, Running, Silent, Flying, Becomes, Channels
<1>8. ASSUME NEW f \in Events, NEW t \in Tokens PROVE Claimed(f, t)'
  <2> SUFFICES ASSUME Holds(f, t)', ~Over(f) PROVE \E c \in claims'[t] : c.origin = OriginOf[f]
    BY <1>5 DEF Claimed
  <2>1. PICK c \in claims[t] : c.origin = OriginOf[f]
    BY <1>7 DEF IInv, Inv, Claimed
  <2> SUFFICES ASSUME c \notin claims'[t] PROVE FALSE
    BY <2>1
  <2>2. f # e
    BY <1>3, <1>7
  <2>3. OriginOf[e] = OriginOf[f] /\ SameQuake(OriginOf[e], OriginOf[f])
    BY <1>3, <2>1, Constants DEF SameQuake
  <2>4. Holds(e, t) /\ Holds(f, t)
    BY <1>0, <1>3, <1>7 DEF Holds
  <2>5. Over(e) \/ Over(f)
    BY <2>2, <2>3, <2>4 DEF IInv, Inv, Exclusive
  <2> QED
    BY <2>3, <2>5 DEF Over
<1>9. \A f, g \in Events, t \in Tokens : Exclusive(f, g, t)'
  BY <1>5, <1>7 DEF IInv, Inv, Exclusive
<1>10. ASSUME NEW t \in Tokens PROVE Backed(t)'
  <2> SUFFICES ASSUME NEW c \in claims'[t]
               PROVE  \E f \in Events : OriginOf[f] = c.origin /\ Holds(f, t)'
    BY DEF Backed
  <2>1. PICK f \in Events : OriginOf[f] = c.origin /\ Holds(f, t)
    BY <1>4 DEF IInv, Inv, Backed
  <2>2. CASE f # e \/ ch # "apns"
    BY <1>7, <2>1, <2>2
  <2>3. CASE f = e /\ ch = "apns"
    <3>1. job.result[t] = "delivered"
      BY <1>0, <2>1, <2>3 DEF Holds, Released, IsDelivered
    <3> QED
      BY <1>7, <2>1, <3>1
  <2> QED
    BY <2>2, <2>3
<1> QED
  BY <1>5, <1>6, <1>8, <1>9, <1>10 DEF Inv

-----------------------------------------------------------------------------
LEMMA InitIInv == Init => IInv
<1>1. Init => Blank
  BY DEF Init, Blank
<1> QED
  BY <1>1, BlankInv, InitTyped DEF IInv

LEMMA RestartInv == Restart => Inv'
<1>1. Restart => Blank'
  BY DEF Restart, Blank
<1>2. Blank' => Inv'
  BY BlankInv, PTL
<1> QED
  BY <1>1, <1>2

(* Every step keeps the invariant.                                          *)
LEMMA NextIInv == IInv /\ [Next]_vars => IInv'
<1> SUFFICES ASSUME IInv, [Next]_vars PROVE Inv'
  BY NextTyped DEF IInv
<1>t. TypeOK'
  BY NextTyped DEF IInv
<1>1. CASE Client \/ Tick \/ (\E e \in Events : AnswerDuplicate(e)) \/ UNCHANGED vars
  BY <1>t, <1>1, ElsewhereInv
<1>2. ASSUME NEW e \in Events, Accept(e) \/ Deliver(e) \/ Record(e) PROVE Inv'
  BY <1>t, <1>2, AcceptInv, DeliverInv, RecordInv
<1>3. ASSUME NEW e \in Events, NEW ch \in Channels, Round(e, ch) PROVE Inv'
  BY <1>t, <1>3, SendInv, SkipInv, AnswerInv, NextRoundInv, FinishInv DEF Round
<1>4. CASE Restart
  BY <1>4, RestartInv
<1> QED
  BY <1>1, <1>2, <1>3, <1>4 DEF Next, Delivery

LEMMA SpecIInv == Spec => []IInv
BY InitIInv, NextIInv, PTL DEF Spec

(* "Two sensors seeing one quake wake the phone once" (claimQuake): in one  *)
(* life of the process no phone is reached twice by one event, however it   *)
(* is retried or accepted again, nor by two events of one quake.            *)
THEOREM OneRing == Spec => []OneRingPerQuake
<1>1. IInv => OneRingPerQuake
  <2> SUFFICES ASSUME IInv PROVE OneRingPerQuake
    OBVIOUS
  <2>1. ASSUME NEW r \in Recipients, NEW e \in Events PROVE rings[r][e] <= 1
    <3>1. PICK ch \in Channels : r \in Audience(ch)
      BY DEF Recipients, Audience, Channels
    <3> QED
      BY <3>1 DEF IInv, Inv, Counted
  <2>2. ASSUME NEW r \in Tokens, NEW e \in Events, rings[r][e] > 0, HasOrigin(e)
        PROVE  jobs[e]["apns"].result[r] = "delivered" /\ Holds(e, r)
    <3>1. jobs[e]["apns"].result[r] = "delivered"
      BY <2>2 DEF IInv, Inv, Counted, Audience, Channels
    <3>2. r \in jobs[e]["apns"].targets
      BY <3>1, Constants DEF IInv, Inv, SoundJob, Channels
    <3> QED
      BY <2>2, <3>1, <3>2 DEF Holds
  <2>3. ASSUME NEW r \in Tokens, NEW e \in Events, NEW f \in Events \ {e}, rings[r][e] > 0,
               HasOrigin(e), HasOrigin(f), SameQuake(OriginOf[e], OriginOf[f]), rings[r][f] > 0
        PROVE  FALSE
    BY <2>2, <2>3 DEF IInv, Inv, Exclusive, Silent
  <2>4. ASSUME NEW r \in Tokens, NEW f \in Events PROVE rings[r][f] > 0 \/ rings[r][f] = 0
    BY Constants DEF IInv, TypeOK
  <2> QED
    BY <2>1, <2>3, <2>4 DEF OneRingPerQuake
<1> QED
  BY <1>1, SpecIInv, PTL

(* "A failed send must not stop the same quake from another sensor reaching *)
(* this phone": behind every claim is an alert that reached the phone or is *)
(* still being tried.                                                       *)
THEOREM NoIdleClaim == Spec => []ClaimsAreBacked
<1>1. IInv => ClaimsAreBacked
  BY DEF IInv, Inv, Backed, Holds, ClaimsAreBacked, IsDelivered
<1> QED
  BY <1>1, SpecIInv, PTL

-----------------------------------------------------------------------------
(* Registrations.                                                           *)

(* A push to the wrong APNs is on the job's list of those, and a recipient  *)
(* that a service calls gone is gone, or its token is on that list.         *)
Routed(job) ==
  /\ \A m \in job.out : Strays(m) => m.to \in job.strayed
  /\ \A r \in Recipients :
       job.result[r] = "gone" => r \notin alive \/ (r \in Tokens /\ r \in job.strayed)

WithinLimit == Cardinality(Subscribed(webSubs)) <= MaxSubscriptions

RightHosts == \A e \in Events, ch \in Channels : Routed(jobs[e][ch])

LEMMA NoJobRouted == \A e \in Events, ch \in Channels : jobs[e][ch] = NoJob => Routed(jobs[e][ch])
BY DEF NoJob, NewJob, Routed

LEMMA InitRightHosts == Init => RightHosts
<1> SUFFICES ASSUME Init PROVE RightHosts
  OBVIOUS
<1>1. \A e \in Events, ch \in Channels : jobs[e][ch] = NoJob
  BY DEF Init
<1> QED
  BY <1>1, NoJobRouted DEF RightHosts

(* A job whose flights and results stay as they are.                        *)
LEMMA RoutedOn ==
  ASSUME RightHosts, NEW e \in Events, NEW ch \in Channels,
         jobs'[e][ch].out \subseteq jobs[e][ch].out, jobs'[e][ch].result = jobs[e][ch].result,
         jobs'[e][ch].strayed = jobs[e][ch].strayed, alive' \subseteq alive
  PROVE  Routed(jobs[e][ch])'
BY DEF RightHosts, Routed, Strays

LEMMA RoundRightHosts ==
  ASSUME TypeOK, RightHosts, NEW e \in Events, NEW ch \in Channels, Round(e, ch)
  PROVE  RightHosts'
<1>0. ASSUME NEW j, Becomes(e, ch, j), UNCHANGED alive, Routed(j)
      PROVE  RightHosts'
  <2> SUFFICES ASSUME NEW f \in Events, NEW k \in Channels PROVE Routed(jobs[f][k])'
    BY DEF RightHosts
  <2>1. CASE f = e /\ k = ch
    BY <1>0, <2>1 DEF Becomes, Routed, Strays
  <2>2. CASE f # e \/ k # ch
    BY <1>0, <2>2, RoutedOn DEF Becomes
  <2> QED
    BY <2>1, <2>2
<1>j. jobs[e][ch] \in Job /\ Routed(jobs[e][ch])
  BY DEF TypeOK, RightHosts
<1>1. ASSUME NEW r \in Recipients, Send(e, ch, r) PROVE RightHosts'
  <2> DEFINE m == [to |-> r, env |-> HostFor(r)]
             j == Sent(jobs[e][ch], m)
  <2>1. Becomes(e, ch, j) /\ UNCHANGED alive
    BY <1>1, SendJob DEF Send
  <2> HIDE DEF m
  <2>2. /\ j.out = jobs[e][ch].out \cup {m} /\ j.result = jobs[e][ch].result
        /\ j.strayed = IF Strays(m) THEN jobs[e][ch].strayed \cup {m.to} ELSE jobs[e][ch].strayed
    BY <1>j DEF Sent, Job
  <2> HIDE DEF j
  <2>3. Routed(j)
    BY <1>j, <2>2 DEF Routed
  <2> QED
    BY <1>0, <2>1, <2>3
<1>2. ASSUME NEW r \in Recipients, Skip(e, ch, r) PROVE RightHosts'
  <2> DEFINE j == [jobs[e][ch] EXCEPT !.todo = @ \ {r}]
  <2>1. Becomes(e, ch, j) /\ UNCHANGED alive
    BY <1>2, SkipJob DEF Skip
  <2>2. Routed(j)
    BY <1>j DEF Routed, Job
  <2> HIDE DEF j
  <2> QED
    BY <1>0, <2>1, <2>2
<1>3. ASSUME NEW m \in jobs[e][ch].out, NEW status \in Statuses, Answer(e, ch, m, status)
      PROVE  RightHosts'
  <2> DEFINE j == [jobs[e][ch] EXCEPT !.out = @ \ {m}, !.result[m.to] = status]
  <2>1. Becomes(e, ch, j) /\ UNCHANGED alive /\ m.to \in Recipients
    BY <1>3, AnswerJob DEF Answer
  <2>2. status = "gone" => m.to \notin alive \/ (m.to \in Tokens /\ m.to \in jobs[e][ch].strayed)
    <3>1. status \in ServiceAnswers(m)
      BY <1>3 DEF Answer
    <3> QED
      BY <1>j, <3>1 DEF ServiceAnswers, Routed, Strays
  <2>3. Routed(j)
    BY <1>j, <2>1, <2>2 DEF Routed, Job
  <2> HIDE DEF j
  <2> QED
    BY <1>0, <2>1, <2>3
<1>4. CASE NextRound(e, ch)
  <2> DEFINE j == [jobs[e][ch] EXCEPT !.todo = ToRetry(jobs[e][ch]), !.round = @ + 1]
  <2>1. Becomes(e, ch, j) /\ UNCHANGED alive
    BY <1>4, NextRoundJob DEF NextRound
  <2>2. Routed(j)
    BY <1>j DEF Routed, Job
  <2> HIDE DEF j
  <2> QED
    BY <1>0, <2>1, <2>2
<1>5. CASE Finish(e, ch)
  <2> DEFINE j == [jobs[e][ch] EXCEPT !.done = TRUE]
  <2>1. Becomes(e, ch, j) /\ UNCHANGED alive
    BY <1>5, FinishJob DEF Finish
  <2>2. Routed(j)
    BY <1>j DEF Routed, Job
  <2> HIDE DEF j
  <2> QED
    BY <1>0, <2>1, <2>2
<1> QED
  BY <1>1, <1>2, <1>3, <1>4, <1>5 DEF Round

LEMMA NextRightHosts == TypeOK /\ RightHosts /\ [Next]_vars => RightHosts'
<1> SUFFICES ASSUME TypeOK, RightHosts, [Next]_vars PROVE RightHosts'
  OBVIOUS
<1>1. CASE \/ Client \/ Tick \/ (\E e \in Events : Accept(e) \/ AnswerDuplicate(e) \/ Record(e))
           \/ UNCHANGED vars
  <2>1. UNCHANGED jobs /\ alive' \subseteq alive
    BY <1>1 DEF Client, Register, Unregister, Subscribe, SubscribeRefused, Uninstall, Tick,
                Accept, AnswerDuplicate, Record, alertVars, vars
  <2> QED
    BY <2>1, RoutedOn DEF RightHosts
<1>3. ASSUME NEW e \in Events, Deliver(e) PROVE RightHosts'
  <2>1. UNCHANGED alive
    BY <1>3 DEF Deliver
  <2>2. ASSUME NEW ch \in Channels PROVE Routed(jobs[e][ch])'
    <3>1. \E S : jobs'[e][ch] = NewJob(S)
      <4>1. jobs' = [jobs EXCEPT ![e] = [k \in Channels |->
                       IF k = "apns" THEN NewJob(Claimable(e))
                       ELSE NewJob({p \in Endpoints : webSubs[p] = SensorOf[e]})]]
        BY <1>3 DEF Deliver
      <4> QED
        BY <4>1 DEF TypeOK
    <3> QED
      BY <3>1 DEF NewJob, Routed
  <2>3. ASSUME NEW f \in Events \ {e}, NEW ch \in Channels PROVE Routed(jobs[f][ch])'
    <3>1. jobs'[f] = jobs[f]
      BY <1>3 DEF Deliver, TypeOK
    <3> QED
      BY <2>1, <3>1, RoutedOn
  <2> QED
    BY <2>2, <2>3 DEF RightHosts
<1>4. CASE Restart
  <2>1. \A e \in Events, ch \in Channels : jobs'[e][ch] = NoJob
    BY <1>4 DEF Restart
  <2>2. NoJob.out = {} /\ \A r \in Recipients : NoJob.result[r] = "passing"
    BY DEF NoJob, NewJob
  <2> QED
    BY <2>1, <2>2 DEF RightHosts, Routed
<1>5. ASSUME NEW e \in Events, NEW ch \in Channels, Round(e, ch) PROVE RightHosts'
  BY <1>5, RoundRightHosts
<1> QED
  BY <1>1, <1>3, <1>4, <1>5 DEF Next, Delivery

-----------------------------------------------------------------------------
(* The limit of web subscriptions.                                          *)
LEMMA SubscribedFinite ==
  ASSUME NEW subs, NEW more, Subscribed(subs) \subseteq Subscribed(more)
  PROVE  /\ IsFiniteSet(Subscribed(more)) /\ Cardinality(Subscribed(more)) \in Nat
         /\ Cardinality(Subscribed(subs)) \in Nat
         /\ Cardinality(Subscribed(subs)) <= Cardinality(Subscribed(more))
<1>1. Subscribed(more) \subseteq Endpoints /\ IsFiniteSet(Endpoints)
  BY FanoutAssumption DEF Subscribed
<1>2. IsFiniteSet(Subscribed(more))
  BY <1>1, FS_Subset
<1>3. /\ IsFiniteSet(Subscribed(subs))
      /\ Cardinality(Subscribed(subs)) <= Cardinality(Subscribed(more))
  BY <1>2, FS_Subset
<1> QED
  BY <1>2, <1>3, FS_CardinalityType

LEMMA InitWithinLimit == Init => WithinLimit
<1> SUFFICES ASSUME Init PROVE WithinLimit
  OBVIOUS
<1>1. Subscribed(webSubs) = {}
  BY DEF Init, Subscribed
<1> QED
  BY <1>1, FS_EmptySet, FanoutAssumption DEF WithinLimit

(* A browser that subscribes again is not counted with the others.          *)
LEMMA OthersThan ==
  ASSUME TypeOK, NEW p \in Endpoints
  PROVE  Subscribed(Elsewhere(p)) = Subscribed(webSubs) \ {p}
BY DEF Elsewhere, Subscribed, TypeOK

LEMMA NextWithinLimit == TypeOK /\ WithinLimit /\ [Next]_vars => WithinLimit'
<1> SUFFICES ASSUME TypeOK, WithinLimit, [Next]_vars PROVE WithinLimit'
  OBVIOUS
<1>0. ASSUME Subscribed(webSubs') \subseteq Subscribed(webSubs) PROVE WithinLimit'
  <2>1. /\ Cardinality(Subscribed(webSubs)) \in Nat /\ Cardinality(Subscribed(webSubs')) \in Nat
        /\ Cardinality(Subscribed(webSubs')) <= Cardinality(Subscribed(webSubs))
    BY <1>0, SubscribedFinite
  <2>2. Cardinality(Subscribed(webSubs)) <= MaxSubscriptions /\ MaxSubscriptions \in Nat
    BY FanoutAssumption DEF WithinLimit
  <2>3. Cardinality(Subscribed(webSubs')) <= MaxSubscriptions
    BY <2>1, <2>2
  <2> QED
    BY <2>3 DEF WithinLimit, Subscribed
<1>1. ASSUME NEW p \in Endpoints, NEW s \in Sensors, Subscribe(p, s) PROVE WithinLimit'
  <2> DEFINE others == Subscribed(Elsewhere(p))
  <2>1. Subscribed(webSubs') = others \cup {p} /\ p \notin others
    BY <1>1, FanoutAssumption DEF Subscribe, Elsewhere, Subscribed, TypeOK
  <2>2. IsFiniteSet(others) /\ Cardinality(others) \in Nat
    BY SubscribedFinite
  <2>3. ~(Cardinality(others) >= MaxSubscriptions) /\ MaxSubscriptions \in Nat
    BY <1>1, FanoutAssumption DEF Subscribe, Full
  <2> HIDE DEF others
  <2>4. Cardinality(others \cup {p}) = Cardinality(others) + 1
    BY <2>1, <2>2, FS_AddElement
  <2>5. Cardinality(Subscribed(webSubs')) <= MaxSubscriptions
    BY <2>1, <2>2, <2>3, <2>4
  <2> QED
    BY <2>5 DEF WithinLimit, Subscribed
<1>2. ASSUME NEW p \in Endpoints, SubscribeRefused(p) PROVE WithinLimit'
  <2>1. webSubs' = Elsewhere(p)
    BY <1>2 DEF SubscribeRefused
  <2> QED
    BY <1>0, <2>1, OthersThan
<1>3. ASSUME NEW e \in Events, NEW ch \in Channels, Finish(e, ch) PROVE WithinLimit'
  <2>1. \A p \in Endpoints : webSubs'[p] \in {webSubs[p], NoSensor}
    BY <1>3 DEF Finish, CleanUp
  <2>2. Subscribed(webSubs') \subseteq Subscribed(webSubs)
    BY <2>1 DEF Subscribed
  <2> QED
    BY <1>0, <2>2
<1>4. ASSUME UNCHANGED webSubs PROVE WithinLimit'
  BY <1>0, <1>4
<1>5. ASSUME NEW e \in Events, NEW ch \in Channels, Round(e, ch), ~Finish(e, ch)
      PROVE  UNCHANGED webSubs
  BY <1>5 DEF Round, Send, Skip, Answer, NextRound, clientVars
<1>6. CASE \/ \E t \in Tokens, sensors \in SUBSET Sensors : \E strong \in SUBSET sensors :
                Register(t, sensors, strong)
           \/ \E t \in Tokens : Unregister(t)
           \/ \E r \in Recipients : Uninstall(r)
           \/ Tick \/ Restart
           \/ (\E e \in Events : Accept(e) \/ AnswerDuplicate(e) \/ Deliver(e) \/ Record(e))
           \/ UNCHANGED vars
  <2>1. UNCHANGED webSubs
    BY <1>6 DEF Register, Unregister, Uninstall, Tick, Restart, Accept, AnswerDuplicate, Deliver,
                Record, clientVars, vars
  <2> QED
    BY <1>4, <2>1
<1> QED
  BY <1>1, <1>2, <1>3, <1>4, <1>5, <1>6 DEF Next, Client, Delivery

(* The limit refuses only browsers that had no subscription to lose.        *)
LEMMA RefusedHadNone ==
  ASSUME TypeOK, WithinLimit, NEW p \in Endpoints, SubscribeRefused(p)
  PROVE  \A q \in Endpoints : webSubs'[q] = webSubs[q]
<1> DEFINE all == Subscribed(webSubs)
<1>1. Subscribed(Elsewhere(p)) = all \ {p} /\ Cardinality(all \ {p}) >= MaxSubscriptions
  BY OthersThan DEF SubscribeRefused, Full
<1>2. IsFiniteSet(all) /\ Cardinality(all) \in Nat /\ Cardinality(all) <= MaxSubscriptions
  BY SubscribedFinite DEF WithinLimit
<1>3. MaxSubscriptions \in Nat
  BY FanoutAssumption
<1>4. p \notin all
  <2> HIDE DEF all
  <2> SUFFICES ASSUME p \in all PROVE FALSE
    OBVIOUS
  <2>1. Cardinality(all \ {p}) = Cardinality(all) - 1
    BY <1>2, FS_RemoveElement
  <2> QED
    BY <1>1, <1>2, <1>3, <2>1
<1>5. webSubs[p] = NoSensor
  BY <1>4 DEF Subscribed
<1> QED
  BY <1>5 DEF SubscribeRefused, Elsewhere, TypeOK

-----------------------------------------------------------------------------
(* A phone keeps its registration, or it is its own call that takes it, or  *)
(* the end of an alert that pushed to its token on the other APNs.          *)
Kept(t) ==
  \/ Has(t)'
  \/ calls' # calls /\ \A u \in Tokens \ {t} : devices'[u] = devices[u]
  \/ \E e \in Events : /\ ~jobs[e]["apns"].done /\ jobs'[e]["apns"].done
                       /\ t \in jobs[e]["apns"].strayed

(* Only the end of a send removes anybody unasked, and only the gone.       *)
LEMMA FinishSparesTheLiving ==
  ASSUME IInv, RightHosts, NEW e \in Events, NEW ch \in Channels, Finish(e, ch)
  PROVE  /\ \A t \in alive \cap Tokens : Has(t) => Kept(t)
         /\ \A p \in alive \cap Endpoints : UNCHANGED webSubs[p]
<1> DEFINE job == jobs[e][ch]
<1>1. \A r \in Gone(job) \cap alive : r \in Tokens /\ r \in job.strayed /\ r \in Audience(ch)
  <2>1. job.targets \subseteq Audience(ch) /\ Audience(ch) \subseteq Recipients
    BY Constants DEF IInv, Inv, SoundJob
  <2> QED
    BY <2>1 DEF Gone, IsGone, RightHosts, Routed
<1>2. /\ devices' = [t \in Tokens |-> IF t \in Gone(job) THEN Unregistered ELSE devices[t]]
      /\ webSubs' = [p \in Endpoints |-> IF p \in Gone(job) /\ webSubs[p] = SensorOf[e]
                                           THEN NoSensor ELSE webSubs[p]]
  BY DEF Finish, CleanUp
<1>3. ASSUME NEW t \in alive \cap Tokens, Has(t) PROVE Kept(t)
  <2>1. CASE t \notin Gone(job)
    <3>1. devices'[t] = devices[t]
      BY <1>2, <2>1
    <3> QED
      BY <1>3, <3>1 DEF Kept, Has
  <2>2. CASE t \in Gone(job)
    <3>1. ch = "apns" /\ t \in job.strayed
      BY <1>1, <2>2, Constants DEF Audience, Channels
    <3>2. ~job.done /\ jobs'[e][ch].done
      <4>1. ~job.done /\ job \in Job
        BY DEF Finish, Running, IInv, TypeOK
      <4>2. Becomes(e, ch, [job EXCEPT !.done = TRUE])
        BY FinishJob DEF IInv
      <4> QED
        BY <4>1, <4>2 DEF Becomes, Job
    <3> QED
      BY <3>1, <3>2 DEF Kept
  <2> QED
    BY <2>1, <2>2
<1>4. ASSUME NEW p \in alive \cap Endpoints PROVE webSubs'[p] = webSubs[p]
  BY <1>1, <1>2, <1>4, Constants
<1> QED
  BY <1>3, <1>4

LEMMA StepSparesTheLiving ==
  ASSUME IInv, RightHosts, WithinLimit, [Next]_vars
  PROVE  /\ \A t \in alive \cap Tokens : Has(t) => Kept(t)
         /\ \A p \in alive \cap Endpoints : webSubs[p] # NoSensor => webSubs'[p] # NoSensor
<1>t. TypeOK
  BY DEF IInv
<1>1. ASSUME NEW e \in Events, NEW ch \in Channels, Finish(e, ch)
      PROVE  /\ \A t \in alive \cap Tokens : Has(t) => Kept(t)
             /\ \A p \in alive \cap Endpoints : UNCHANGED webSubs[p]
  BY <1>1, FinishSparesTheLiving
<1>2. ASSUME NEW p \in Endpoints, NEW s \in Sensors, Subscribe(p, s)
      PROVE  UNCHANGED devices /\ \A q \in Endpoints : webSubs[q] # NoSensor => webSubs'[q] # NoSensor
  BY <1>t, <1>2, FanoutAssumption DEF Subscribe, TypeOK
<1>6. ASSUME NEW p \in Endpoints, SubscribeRefused(p)
      PROVE  UNCHANGED devices /\ \A q \in Endpoints : webSubs'[q] = webSubs[q]
  BY <1>t, <1>6, RefusedHadNone DEF SubscribeRefused
<1>3. ASSUME NEW t \in Tokens, NEW sensors \in SUBSET Sensors, NEW strong \in SUBSET sensors,
             Register(t, sensors, strong) \/ Unregister(t)
      PROVE  UNCHANGED webSubs /\ \A u \in Tokens : Has(u) => Kept(u)
  <2>1. calls' # calls /\ UNCHANGED webSubs /\ \A u \in Tokens \ {t} : devices'[u] = devices[u]
    BY <1>t, <1>3 DEF Register, Unregister, TypeOK
  <2> QED
    BY <2>1 DEF Kept, Has
<1>4. ASSUME NEW e \in Events, NEW ch \in Channels, Round(e, ch), ~Finish(e, ch)
      PROVE  UNCHANGED <<devices, webSubs>>
  BY <1>4 DEF Round, Send, Skip, Answer, NextRound, clientVars
<1>5. CASE \/ \E r \in Recipients : Uninstall(r)
           \/ Tick \/ Restart
           \/ (\E e \in Events : Accept(e) \/ AnswerDuplicate(e) \/ Deliver(e) \/ Record(e))
           \/ UNCHANGED vars
  <2>1. UNCHANGED <<devices, webSubs>>
    BY <1>5 DEF Uninstall, Tick, Restart, Accept, AnswerDuplicate, Deliver, Record, clientVars, vars
  <2> QED
    BY <2>1 DEF Has, Kept
<1> QED
  BY <1>1, <1>2, <1>3, <1>4, <1>5, <1>6 DEF Next, Client, Delivery, Has, Kept

(* Cleanup takes a phone that still works only if it pushed to its token on *)
(* the other APNs, and never a browser that still works; nor does the limit *)
(* of subscriptions cost a browser the one it has. For development and      *)
(* production phones alike, and any order of alerts, pushes and calls.      *)
THEOREM CleanupSparesTheLiving == Spec => NoLiveRegistrationDropped
<1>1. Spec => [](IInv /\ RightHosts /\ WithinLimit)
  <2>1. Init => RightHosts /\ WithinLimit
    BY InitRightHosts, InitWithinLimit
  <2>2. IInv /\ RightHosts /\ WithinLimit /\ [Next]_vars => RightHosts' /\ WithinLimit'
    BY NextRightHosts, NextWithinLimit DEF IInv
  <2> QED
    BY <2>1, <2>2, SpecIInv, PTL DEF Spec
<1>2. IInv /\ RightHosts /\ WithinLimit /\ [Next]_vars =>
        [/\ \A t \in alive \cap Tokens :
              Has(t) => \/ Has(t)'
                        \/ calls' # calls /\ \A u \in Tokens \ {t} : devices'[u] = devices[u]
                        \/ \E e \in Events : /\ ~jobs[e]["apns"].done /\ jobs'[e]["apns"].done
                                            /\ t \in jobs[e]["apns"].strayed
         /\ \A p \in alive \cap Endpoints :
              webSubs[p] # NoSensor => webSubs'[p] # NoSensor]_<<devices, webSubs>>
  BY StepSparesTheLiving DEF Kept
<1> QED
  BY <1>1, <1>2, PTL DEF Spec, NoLiveRegistrationDropped
=============================================================================
