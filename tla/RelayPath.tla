------------------------------ MODULE RelayPath ------------------------------
(***************************************************************************)
(* The way of a warning from the sensor phone's screen to the gateway: the *)
(* notification listener that may be unbound or killed and reads the       *)
(* screen when it is back (CaptureService.java), the one sender thread     *)
(* that posts each event a few times (Forwarder.java), a network that      *)
(* loses and delays, and a gateway that expires old events and remembers   *)
(* the ids it took (gateway/src/server.js).                                *)
(*                                                                         *)
(* Time is a coarse clock that both sides share. What the gateway does     *)
(* with an event it took is AlertFanout's matter.                          *)
(***************************************************************************)
EXTENDS Integers, Sequences, FiniteSets, SequencesExt

CONSTANTS
  Alerts,         \* the warnings Google may show
  Timed,          \* those that carry TIME_OCCURRED_EXTRA
  TTL,            \* ALERT_TTL_MS, counted from the capture
  MaxExpiry,      \* MAX_EXPIRY_AFTER_ORIGIN_MS, counted from the quake
  SeenTTL,        \* SEEN_TTL_MS
  Attempts,       \* the length of RETRY_BACKOFF_MS (five in the code)
  MaxClock, MaxPosts, MaxBreaks   \* bounds: time, notifications, and breaks of the listener

Never == -1

ASSUME RelayAssumption ==
  /\ IsFiniteSet(Alerts)
  /\ Timed \subseteq Alerts
  /\ {TTL, MaxExpiry, SeenTTL, Attempts} \subseteq Nat \ {0}
  /\ MaxExpiry <= SeenTTL
  /\ {MaxClock, MaxPosts, MaxBreaks} \subseteq Nat

VARIABLES
  clock,
  origin,         \* the time that names each alert's event, or Never before its first post
  screen,         \* the post time of each alert on screen, or Never (external)
  bound,          \* is the listener connected
  queue,          \* SENDER: the events to post, the first one being posted
  tries,          \* attempts made for the first one
  call,           \* the attempt under way: what has become of its request
  strays,         \* requests that nobody waits for: each may arrive, or never
  killSwitch,     \* RELAY_KILL_SWITCH of the running gateway
  seen,           \* `seen`: when each id was accepted, or Never
  taken,          \* history: ids accepted by some gateway process
  accepts,        \* history: how often the running gateway accepted each id
  givenUp,        \* history: ids whose attempts ended in failure in this app process
  posts, breaks

vars == <<clock, origin, screen, bound, queue, tries, call, strays, killSwitch, seen,
          taken, accepts, givenUp, posts, breaks>>
googleVars == <<origin, screen, posts>>
sensorVars == <<bound, queue, tries, call, strays, givenUp>>
gatewayVars == <<killSwitch, seen, taken, accepts>>

-----------------------------------------------------------------------------
Times == 0 .. MaxClock

(* eventId: the alert, and the quake's time or the notification's when      *)
(* Google leaves it out. originOf reads the same time.                      *)
Ids == [alert : Alerts, at : Times]
EventId(a, at) == [alert |-> a, at |-> at]

(* relay: the id, and captured_at from which expires_at counts.             *)
Relayed == [id : Ids, captured : Times]
Relay(a, at) == [id |-> EventId(a, at), captured |-> clock]

(* Slip: an event is as young as its last capture.                          *)
ExpiresFromCapture(event) == event.captured + TTL

(* validateEvent: the sensor's expires_at, but never long after the quake.  *)
ExpiresAt(event) ==
  IF event.captured + TTL < event.id.at + MaxExpiry
    THEN event.captured + TTL ELSE event.id.at + MaxExpiry

(* "out" until the gateway handled the request, then its answer until the   *)
(* sender reads it.                                                         *)
Calls == {"idle", "out", "2xx", "refused"}

TypeOK ==
  /\ clock \in Times
  /\ origin \in [Alerts -> Times \cup {Never}]
  /\ screen \in [Alerts -> Times \cup {Never}]
  /\ bound \in BOOLEAN
  /\ queue \in Seq(Relayed)
  /\ tries \in 0 .. Attempts
  /\ call \in Calls
  /\ call # "idle" => queue # <<>>
  /\ strays \subseteq Relayed
  /\ killSwitch \in BOOLEAN
  /\ seen \in [Ids -> Times \cup {Never}]
  /\ taken \subseteq Ids
  /\ accepts \in [Ids -> Nat]
  /\ givenUp \subseteq Ids
  /\ posts \in 0 .. MaxPosts
  /\ breaks \in 0 .. MaxBreaks

Init ==
  /\ clock = 0
  /\ origin = [a \in Alerts |-> Never]
  /\ screen = [a \in Alerts |-> Never]
  /\ bound = FALSE
  /\ queue = <<>>
  /\ tries = 0
  /\ call = "idle"
  /\ strays = {}
  /\ killSwitch \in BOOLEAN
  /\ seen = [i \in Ids |-> Never]
  /\ taken = {}
  /\ accepts = [i \in Ids |-> 0]
  /\ givenUp = {}
  /\ posts = 0
  /\ breaks = 0

(* The requests that may reach the gateway.                                 *)
Requests == strays \cup (IF call = "out" THEN {Head(queue)} ELSE {})

-----------------------------------------------------------------------------
(* The screen and the listener.                                             *)

(* Play Services posts a warning, within a step of the quake, or posts it   *)
(* again with new content: the post time moves, TIME_OCCURRED_EXTRA does    *)
(* not. A bound listener relays it.                                         *)
OnNotificationPosted(a) ==
  /\ posts < MaxPosts
  /\ origin' = [origin EXCEPT ![a] = IF a \in Timed /\ @ # Never THEN @ ELSE clock]
  /\ screen' = [screen EXCEPT ![a] = clock]
  /\ posts' = posts + 1
  /\ queue' = IF bound THEN Append(queue, Relay(a, origin'[a])) ELSE queue
  /\ UNCHANGED <<clock, bound, tries, call, strays, givenUp, gatewayVars, breaks>>

(* It goes away, or turns into the update that no sensor relays.            *)
Dismiss(a) ==
  /\ screen[a] # Never
  /\ screen' = [screen EXCEPT ![a] = Never]
  /\ UNCHANGED <<clock, origin, posts, sensorVars, gatewayVars, breaks>>

(* isReplayable.                                                            *)
OnScreen == {a \in Alerts : screen[a] # Never}
Replayable == {a \in OnScreen : clock - screen[a] < TTL}

(* onListenerConnected: what the screen shows is relayed, in the order that *)
(* getActiveNotifications happens to give.                                  *)
OnListenerConnected ==
  /\ ~bound
  /\ bound' = TRUE
  /\ \E order \in SetToSeqs(Replayable) :
       queue' = queue \o [n \in DOMAIN order |-> Relay(order[n], origin[order[n]])]
  /\ UNCHANGED <<clock, googleVars, tries, call, strays, givenUp, gatewayVars, breaks>>

(* onListenerDisconnected: the process and its sender go on.                *)
OnListenerDisconnected ==
  /\ bound
  /\ breaks < MaxBreaks
  /\ bound' = FALSE
  /\ breaks' = breaks + 1
  /\ UNCHANGED <<clock, googleVars, queue, tries, call, strays, givenUp, gatewayVars>>

Abandoned == IF call = "out" THEN strays \cup {Head(queue)} ELSE strays

(* The app's process dies with all it had in memory; a reboot also clears   *)
(* the screen.                                                              *)
Die(reboot) ==
  /\ breaks < MaxBreaks
  /\ breaks' = breaks + 1
  /\ bound' = FALSE
  /\ queue' = <<>>
  /\ tries' = 0
  /\ call' = "idle"
  /\ strays' = Abandoned
  /\ givenUp' = {}
  /\ screen' = IF reboot THEN [a \in Alerts |-> Never] ELSE screen
  /\ UNCHANGED <<clock, origin, posts, gatewayVars>>

-----------------------------------------------------------------------------
(* The sender thread.                                                       *)

Deadline == Head(queue).captured + TTL

(* Slip: as long as the deadline allows.                                    *)
PostUntilDeadline ==
  /\ queue # <<>> /\ call = "idle"
  /\ clock <= Deadline
  /\ call' = "out"
  /\ tries' = tries + 1
  /\ UNCHANGED <<clock, googleVars, bound, queue, strays, givenUp, gatewayVars, breaks>>

(* The next attempt. Every one but the first waits before it, and the wait  *)
(* may not run past the deadline; on the coarse clock it may or may not     *)
(* cross into the next step.                                                *)
Post ==
  /\ queue # <<>> /\ call = "idle"
  /\ tries < Attempts
  /\ clock <= Deadline
  /\ call' = "out"
  /\ tries' = tries + 1
  /\ UNCHANGED <<clock, googleVars, bound, queue, strays, givenUp, gatewayVars, breaks>>

(* The loop is over without a 2xx.                                          *)
GiveUp ==
  /\ queue # <<>> /\ call = "idle"
  /\ tries = Attempts \/ clock > Deadline \/ (clock = Deadline /\ tries > 0)
  /\ givenUp' = givenUp \cup {Head(queue).id}
  /\ queue' = Tail(queue)
  /\ tries' = 0
  /\ UNCHANGED <<clock, googleVars, bound, call, strays, gatewayVars, breaks>>

(* A 2xx ends the event's task.                                             *)
Succeed ==
  /\ call = "2xx"
  /\ call' = "idle"
  /\ queue' = Tail(queue)
  /\ tries' = 0
  /\ UNCHANGED <<clock, googleVars, bound, strays, givenUp, gatewayVars, breaks>>

(* Any other answer, a connection that breaks, or the read timeout: the     *)
(* request may still be on its way.                                         *)
Fail ==
  /\ call # "idle"
  /\ call' = "idle"
  /\ strays' = Abandoned
  /\ UNCHANGED <<clock, googleVars, bound, queue, tries, givenUp, gatewayVars, breaks>>

-----------------------------------------------------------------------------
(* The network and the gateway.                                             *)

(* The gateway answers the sender that waits, or one that is gone. Two      *)
(* strays of one event look the same: one may be left when one arrives.     *)
Answer(event, answer) ==
  /\ \/ /\ call = "out" /\ event = Head(queue)
        /\ call' = answer
        /\ UNCHANGED strays
     \/ /\ event \in strays
        /\ strays' \in {strays, strays \ {event}}
        /\ UNCHANGED call
  /\ UNCHANGED <<clock, googleVars, bound, queue, tries, givenUp, breaks>>

Expired(event) == ExpiresAt(event) <= clock

(* handleEvent: 400 for what has expired.                                   *)
RefuseExpired(event) ==
  /\ Expired(event)
  /\ Answer(event, "refused")
  /\ UNCHANGED gatewayVars

(* Slip: the switch only keeps the event from the phones, the answer is 202. *)
AnswerPaused(event) ==
  /\ ~Expired(event)
  /\ killSwitch
  /\ Answer(event, "2xx")
  /\ UNCHANGED gatewayVars

(* 503 while the kill switch is on: nothing is remembered.                  *)
RefusePaused(event) ==
  /\ ~Expired(event)
  /\ killSwitch
  /\ Answer(event, "refused")
  /\ UNCHANGED gatewayVars

(* pruneSeen.                                                               *)
Pruned == [i \in Ids |-> IF seen[i] # Never /\ clock - seen[i] > SeenTTL
                           THEN Never ELSE seen[i]]

(* 202 {duplicate}.                                                         *)
AnswerDuplicate(event) ==
  /\ ~Expired(event) /\ ~killSwitch
  /\ Pruned[event.id] # Never
  /\ seen' = Pruned
  /\ Answer(event, "2xx")
  /\ UNCHANGED <<killSwitch, taken, accepts>>

(* 202 {accepted}: the id is remembered before the answer leaves.           *)
Accept(event) ==
  /\ ~Expired(event) /\ ~killSwitch
  /\ Pruned[event.id] = Never
  /\ seen' = [Pruned EXCEPT ![event.id] = clock]
  /\ taken' = taken \cup {event.id}
  /\ accepts' = [accepts EXCEPT ![event.id] = @ + 1]
  /\ Answer(event, "2xx")
  /\ UNCHANGED killSwitch

(* The gateway starts again and knows no id. The kill switch is read then.  *)
RestartGateway(paused) ==
  /\ killSwitch' = paused
  /\ seen' = [i \in Ids |-> Never]
  /\ accepts' = [i \in Ids |-> 0]
  /\ UNCHANGED <<clock, googleVars, sensorVars, taken, breaks>>

Tick ==
  /\ clock < MaxClock
  /\ clock' = clock + 1
  /\ UNCHANGED <<googleVars, sensorVars, gatewayVars, breaks>>

-----------------------------------------------------------------------------

Next ==
  \/ \E a \in Alerts : OnNotificationPosted(a)
  \/ \E a \in Alerts : Dismiss(a)
  \/ OnListenerConnected
  \/ OnListenerDisconnected
  \/ \E reboot \in BOOLEAN : Die(reboot)
  \/ Post
  \/ GiveUp
  \/ Succeed
  \/ Fail
  \/ \E event \in Requests : RefuseExpired(event)
  \/ \E event \in Requests : RefusePaused(event)
  \/ \E event \in Requests : AnswerDuplicate(event)
  \/ \E event \in Requests : Accept(event)
  \/ \E paused \in BOOLEAN : RestartGateway(paused)
  \/ Tick

Spec == Init /\ [][Next]_vars

-----------------------------------------------------------------------------
(* One gateway process takes in each warning at most once, whatever the     *)
(* sender's retries, the replays of a listener that comes back, the reposts *)
(* of a warning and requests that arrive long after: the memory of an id    *)
(* outlives every copy that would still be accepted (SEEN_TTL_MS).          *)
AcceptedOncePerProcess == \A i \in Ids : accepts[i] <= 1

(* While the listener is bound, every warning on screen that is young       *)
(* enough to be replayed is with the sender, or has been taken by a         *)
(* gateway, or was refused as often as this app process tries: a process    *)
(* that died, a listener that was away and an answer read as success leave  *)
(* no warning behind (replayMissedWarnings).                                *)
Queued == {queue[n].id : n \in DOMAIN queue}
YoungWarningsAreHeld ==
  bound => \A a \in Replayable :
             EventId(a, origin[a]) \in Queued \cup taken \cup givenUp

=============================================================================
