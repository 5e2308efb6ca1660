--------------------------- MODULE RelayPathProofs ---------------------------
(* One gateway process takes a warning in at most once, for any number of   *)
(* alerts, attempts, reposts and breaks, whenever an id is remembered at    *)
(* least as long as an alert may be accepted after its quake; and no young  *)
(* warning on the screen of a bound listener is left behind.                *)
EXTENDS RelayPath, SequenceTheorems, FiniteSetTheorems, TLAPS

(* No event is named after a time to come, in the queue or on the wire.     *)
Sent == {event \in Relayed : event.id.at <= clock}

Known == \A a \in Alerts : /\ origin[a] <= clock
                           /\ screen[a] # Never => origin[a] # Never

(* An id is remembered from no earlier than its quake; one that was taken   *)
(* in is still remembered, or too old to be taken in again.                 *)
Remembered(i) ==
  /\ seen[i] # Never => i.at <= seen[i]
  /\ accepts[i] = 0 \/ (accepts[i] = 1 /\ (seen[i] # Never \/ i.at + MaxExpiry <= clock))

IInv ==
  /\ TypeOK
  /\ queue \in Seq(Sent)
  /\ strays \subseteq Sent
  /\ Known
  /\ \A i \in Ids : Remembered(i)

(* What the assumptions say of each constant.                               *)
LEMMA Constants ==
  /\ TTL \in Nat /\ MaxExpiry \in Nat /\ SeenTTL \in Nat /\ Attempts \in Nat
  /\ MaxExpiry <= SeenTTL
  /\ MaxClock \in Nat /\ MaxPosts \in Nat /\ MaxBreaks \in Nat
  /\ IsFiniteSet(Alerts)
BY RelayAssumption DEF RelayAssumption

(* The request of the attempt under way, and those nobody waits for, carry  *)
(* events that were captured.                                               *)
LEMMA RequestsSent == IInv => Requests \subseteq Sent /\ Abandoned \subseteq Sent
<1> SUFFICES ASSUME IInv PROVE Requests \subseteq Sent /\ Abandoned \subseteq Sent
  OBVIOUS
<1>1. CASE call = "out"
  <2>1. queue # <<>> /\ queue \in Seq(Sent)
    BY <1>1 DEF IInv, TypeOK
  <2>2. Head(queue) \in Sent
    BY <2>1
  <2> QED
    BY <2>2 DEF IInv, Requests, Abandoned
<1>2. CASE call # "out"
  BY <1>2 DEF IInv, Requests, Abandoned
<1> QED
  BY <1>1, <1>2

(* A warning of a known alert makes a captured event.                       *)
LEMMA RelaySent ==
  ASSUME IInv, NEW a \in Alerts, NEW at \in Times, at <= clock
  PROVE  Relay(a, at) \in Sent
BY DEF IInv, TypeOK, Relay, EventId, Sent, Relayed, Ids

(* Reading the screen back gives captured events.                           *)
LEMMA ReplaySent ==
  ASSUME IInv, NEW order \in SetToSeqs(Replayable)
  PROVE  [n \in DOMAIN order |-> Relay(order[n], origin[order[n]])] \in Seq(Sent)
<1>1. IsFiniteSet(Replayable)
  BY Constants, FS_Subset DEF Replayable, OnScreen
<1>2. Cardinality(Replayable) \in Nat
  BY <1>1, FS_CardinalityType
<1>3. order \in [1 .. Cardinality(Replayable) -> Replayable]
  BY DEF SetToSeqs
<1>4. ASSUME NEW n \in DOMAIN order PROVE Relay(order[n], origin[order[n]]) \in Sent
  <2>1. order[n] \in Alerts /\ screen[order[n]] # Never
    BY <1>3 DEF Replayable, OnScreen
  <2>2. origin[order[n]] \in Times /\ origin[order[n]] <= clock
    BY <2>1 DEF IInv, TypeOK, Known
  <2> QED
    BY <2>1, <2>2, RelaySent
<1>5. DOMAIN order = 1 .. Cardinality(Replayable)
  BY <1>3
<1>6. [n \in DOMAIN order |-> Relay(order[n], origin[order[n]])]
        \in [1 .. Cardinality(Replayable) -> Sent]
  BY <1>4, <1>5
<1> QED
  BY <1>2, <1>6

(* The invariant holds at the start.                                        *)
LEMMA InitIInv == Init => IInv
<1> SUFFICES ASSUME Init PROVE IInv
  OBVIOUS
<1> USE Constants DEF Init, Never, Times
<1>1. TypeOK
  <2>1. killSwitch \in BOOLEAN /\ bound \in BOOLEAN
    BY Zenon
  <2>2. origin \in [Alerts -> Times \cup {Never}] /\ screen \in [Alerts -> Times \cup {Never}]
    OBVIOUS
  <2>3. seen \in [Ids -> Times \cup {Never}] /\ accepts \in [Ids -> Nat]
    OBVIOUS
  <2> QED
    BY <2>1, <2>2, <2>3 DEF TypeOK, Calls
<1>2. queue \in Seq(Sent) /\ strays \subseteq Sent
  OBVIOUS
<1>3. Known
  BY DEF Known
<1>4. \A i \in Ids : Remembered(i)
  BY DEF Remembered
<1> QED
  BY <1>1, <1>2, <1>3, <1>4 DEF IInv

(* What no step of the sensor or of the clock touches.                      *)
LEMMA RememberedOn ==
  ASSUME IInv, UNCHANGED <<seen, accepts>>, clock <= clock', clock' \in Nat
  PROVE  \A i \in Ids : Remembered(i)'
<1> SUFFICES ASSUME NEW i \in Ids PROVE Remembered(i)'
  OBVIOUS
<1>1. Remembered(i) /\ clock \in Nat /\ i.at \in Nat
  BY Constants DEF IInv, TypeOK, Times, Ids
<1> QED
  BY <1>1, Constants DEF Remembered

(* The steps of Google, of the listener and of the sender, which leave the  *)
(* clock and the gateway alone.                                             *)
LEMMA SensorStep ==
  ASSUME IInv, UNCHANGED <<clock, killSwitch, seen, taken, accepts>>,
         /\ origin' \in [Alerts -> Times \cup {Never}]
         /\ screen' \in [Alerts -> Times \cup {Never}]
         /\ bound' \in BOOLEAN /\ tries' \in 0 .. Attempts /\ call' \in Calls
         /\ queue' \in Seq(Sent) /\ strays' \subseteq Sent
         /\ call' # "idle" => queue' # <<>>
         /\ givenUp' \subseteq Ids /\ posts' \in 0 .. MaxPosts /\ breaks' \in 0 .. MaxBreaks,
         Known'
  PROVE  IInv'
<1>1. Sent' = Sent
  BY DEF Sent, Relayed, Ids, Times
<1>2. \A i \in Ids : Remembered(i)'
  BY RememberedOn, Constants DEF IInv, TypeOK, Times
<1>3. Sent \subseteq Relayed
  BY DEF Sent
<1>4. queue' \in Seq(Relayed)
  BY <1>3, SeqMonotonic
<1>5. TypeOK'
  BY <1>3, <1>4 DEF IInv, TypeOK, Ids, Relayed, Times
<1> QED
  BY <1>1, <1>2, <1>5 DEF IInv

(* The steps of the gateway and the requests it handles.                    *)
LEMMA GatewayStep ==
  ASSUME IInv, NEW event \in Requests, NEW answer \in {"2xx", "refused"},
         Answer(event, answer), UNCHANGED killSwitch,
         seen' \in [Ids -> Times \cup {Never}], accepts' \in [Ids -> Nat], taken' \subseteq Ids,
         \A i \in Ids : Remembered(i)'
  PROVE  IInv'
<1>1. Sent' = Sent
  BY DEF Sent, Relayed, Ids, Times, Answer
<1>2. call' \in Calls /\ (call' # "idle" => queue' # <<>>)
  BY DEF Answer, IInv, TypeOK, Calls
<1>3. strays' \subseteq strays
  BY DEF Answer
<1>4. Known'
  BY DEF Answer, googleVars, IInv, Known
<1>5. TypeOK'
  BY <1>2, <1>3 DEF Answer, googleVars, IInv, TypeOK, Ids, Relayed, Times
<1>6. queue' \in Seq(Sent')
  BY <1>1 DEF Answer, IInv
<1> QED
  BY <1>1, <1>3, <1>4, <1>5, <1>6 DEF IInv

(* Every step keeps the invariant.                                          *)
LEMMA NextIInv == IInv /\ [Next]_vars => IInv'
<1> SUFFICES ASSUME IInv, [Next]_vars PROVE IInv'
  OBVIOUS
<1> USE Constants
<1>q. queue \in Seq(Sent) /\ Requests \subseteq Sent /\ Abandoned \subseteq Sent
  BY RequestsSent DEF IInv
<1>h. queue # <<>> => Head(queue) \in Sent /\ Tail(queue) \in Seq(Sent)
  BY <1>q
<1>k. Known /\ TypeOK
  BY DEF IInv
<1>1. ASSUME NEW a \in Alerts, OnNotificationPosted(a) PROVE IInv'
  <2>1. clock \in Times /\ clock \in Nat
    BY DEF IInv, TypeOK, Times
  <2>2. origin' \in [Alerts -> Times \cup {Never}] /\ screen' \in [Alerts -> Times \cup {Never}]
    BY <1>1, <1>k, <2>1 DEF OnNotificationPosted, TypeOK
  <2>3. origin'[a] \in Times /\ origin'[a] <= clock
    BY <1>1, <1>k, <2>1 DEF OnNotificationPosted, TypeOK, Known
  <2>4. Relay(a, origin'[a]) \in Sent
    BY <2>3, RelaySent
  <2>5. queue' \in Seq(Sent) /\ (call # "idle" => queue' # <<>>)
    <3>1. Append(queue, Relay(a, origin'[a])) \in Seq(Sent)
      BY <1>q, <2>4
    <3>2. Append(queue, Relay(a, origin'[a])) # <<>>
      BY <1>q, <2>4
    <3>3. queue' = Append(queue, Relay(a, origin'[a])) \/ queue' = queue
      BY <1>1 DEF OnNotificationPosted
    <3>4. call # "idle" => queue # <<>>
      BY <1>k DEF TypeOK
    <3> QED
      BY <1>q, <3>1, <3>2, <3>3, <3>4
  <2>6. Known'
    BY <1>1, <1>k, <2>1 DEF OnNotificationPosted, Known, TypeOK, Times, Never
  <2>7. posts' \in 0 .. MaxPosts
    BY <1>1, <1>k DEF OnNotificationPosted, TypeOK
  <2> QED
    BY <1>1, <1>q, <1>k, <2>2, <2>5, <2>6, <2>7, SensorStep
    DEF OnNotificationPosted, gatewayVars, TypeOK, IInv
<1>2. ASSUME NEW a \in Alerts, Dismiss(a) PROVE IInv'
  <2>1. screen' \in [Alerts -> Times \cup {Never}]
    BY <1>2, <1>k DEF Dismiss, TypeOK
  <2>2. Known'
    BY <1>2, <1>k DEF Dismiss, Known, TypeOK
  <2> QED
    BY <1>2, <1>q, <1>k, <2>1, <2>2, SensorStep
    DEF Dismiss, sensorVars, gatewayVars, TypeOK, IInv
<1>3. CASE OnListenerConnected
  <2>1. PICK order \in SetToSeqs(Replayable) :
          queue' = queue \o [n \in DOMAIN order |-> Relay(order[n], origin[order[n]])]
    BY <1>3 DEF OnListenerConnected
  <2>2. [n \in DOMAIN order |-> Relay(order[n], origin[order[n]])] \in Seq(Sent)
    BY ReplaySent
  <2>3. queue' \in Seq(Sent) /\ (queue # <<>> => queue' # <<>>)
    BY <1>q, <2>1, <2>2
  <2>4. Known'
    BY <1>3, <1>k DEF OnListenerConnected, googleVars, Known
  <2> QED
    BY <1>3, <1>q, <1>k, <2>3, <2>4, SensorStep
    DEF OnListenerConnected, googleVars, gatewayVars, TypeOK, IInv
<1>4. CASE OnListenerDisconnected
  <2>1. Known' /\ breaks' \in 0 .. MaxBreaks
    BY <1>4, <1>k DEF OnListenerDisconnected, googleVars, Known, TypeOK
  <2> QED
    BY <1>4, <1>q, <1>k, <2>1, SensorStep
    DEF OnListenerDisconnected, googleVars, gatewayVars, TypeOK, IInv
<1>5. ASSUME NEW reboot \in BOOLEAN, Die(reboot) PROVE IInv'
  <2>1. screen' \in [Alerts -> Times \cup {Never}] /\ breaks' \in 0 .. MaxBreaks
    BY <1>5, <1>k DEF Die, TypeOK
  <2>2. Known'
    BY <1>5, <1>k DEF Die, Known
  <2>3. queue' \in Seq(Sent) /\ call' \in Calls /\ tries' \in 0 .. Attempts
    BY <1>5 DEF Die, Calls
  <2> QED
    BY <1>5, <1>q, <1>k, <2>1, <2>2, <2>3, SensorStep
    DEF Die, gatewayVars, TypeOK, IInv
<1>6. CASE Post
  <2>1. tries' \in 0 .. Attempts /\ call' \in Calls
    BY <1>6, <1>k DEF Post, TypeOK, Calls
  <2>2. Known'
    BY <1>6, <1>k DEF Post, googleVars, Known
  <2> QED
    BY <1>6, <1>q, <1>k, <2>1, <2>2, SensorStep
    DEF Post, googleVars, gatewayVars, TypeOK, IInv
<1>7. CASE GiveUp
  <2>1. queue' \in Seq(Sent) /\ tries' \in 0 .. Attempts
    BY <1>7, <1>h DEF GiveUp
  <2>2. givenUp' \subseteq Ids
    BY <1>7, <1>h, <1>k DEF GiveUp, TypeOK, Sent, Relayed
  <2>3. Known'
    BY <1>7, <1>k DEF GiveUp, googleVars, Known
  <2> QED
    BY <1>7, <1>q, <1>k, <2>1, <2>2, <2>3, SensorStep
    DEF GiveUp, googleVars, gatewayVars, TypeOK, IInv
<1>8. CASE Succeed
  <2>1. queue' \in Seq(Sent) /\ tries' \in 0 .. Attempts /\ call' \in Calls
    BY <1>8, <1>h, <1>k DEF Succeed, TypeOK, Calls
  <2>2. Known'
    BY <1>8, <1>k DEF Succeed, googleVars, Known
  <2> QED
    BY <1>8, <1>q, <1>k, <2>1, <2>2, SensorStep
    DEF Succeed, googleVars, gatewayVars, TypeOK, IInv
<1>9. CASE Fail
  <2>1. call' \in Calls /\ strays' \subseteq Sent
    BY <1>9, <1>q DEF Fail, Calls
  <2>2. Known'
    BY <1>9, <1>k DEF Fail, googleVars, Known
  <2> QED
    BY <1>9, <1>q, <1>k, <2>1, <2>2, SensorStep
    DEF Fail, googleVars, gatewayVars, TypeOK, IInv
<1>10. ASSUME NEW event \in Requests, RefuseExpired(event) \/ RefusePaused(event) PROVE IInv'
  <2>1. Answer(event, "refused") /\ UNCHANGED <<killSwitch, seen, taken, accepts, clock>>
    BY <1>10 DEF RefuseExpired, RefusePaused, gatewayVars, Answer
  <2>2. \A i \in Ids : Remembered(i)'
    BY <1>k, <2>1, RememberedOn DEF TypeOK, Times
  <2> QED
    BY <1>k, <2>1, <2>2, GatewayStep DEF TypeOK
<1>p. ASSUME NEW i \in Ids
      PROVE  /\ Pruned[i] \in Times \cup {Never} /\ Pruned \in [Ids -> Times \cup {Never}]
             /\ Pruned[i] # Never => Pruned[i] = seen[i]
             /\ Pruned[i] = Never => seen[i] = Never \/ clock - seen[i] > SeenTTL
  <2>1. seen[i] \in Times \cup {Never} /\ clock \in Int /\ SeenTTL \in Nat
    BY <1>k DEF TypeOK, Times
  <2>2. Pruned[i] = IF seen[i] # Never /\ clock - seen[i] > SeenTTL THEN Never ELSE seen[i]
    BY DEF Pruned
  <2>3. Pruned \in [Ids -> Times \cup {Never}]
    BY <1>k DEF TypeOK, Pruned
  <2>4. CASE seen[i] # Never /\ clock - seen[i] > SeenTTL
    BY <2>2, <2>3, <2>4
  <2>5. CASE ~(seen[i] # Never /\ clock - seen[i] > SeenTTL)
    <3>1. Pruned[i] = seen[i]
      BY <2>2, <2>5
    <3> QED
      BY <3>1, <2>1, <2>3
  <2> QED
    BY <2>4, <2>5
<1>o. ASSUME NEW i \in Ids, Pruned[i] = Never, accepts[i] = 1
      PROVE  i.at + MaxExpiry <= clock
  <2>1. Remembered(i)
    BY DEF IInv
  <2>2. i.at \in Nat /\ clock \in Nat
    BY <1>k DEF TypeOK, Ids, Times
  <2>3. seen[i] \in Nat \cup {-1}
    BY <1>k DEF TypeOK, Times, Never
  <2> QED
    BY <1>o, <1>p, <2>1, <2>2, <2>3 DEF Remembered, Never
<1>11. ASSUME NEW event \in Requests, AnswerDuplicate(event) PROVE IInv'
  <2>1. /\ Answer(event, "2xx") /\ UNCHANGED <<killSwitch, taken, accepts, clock>>
        /\ seen' = Pruned
    BY <1>11 DEF AnswerDuplicate, Answer
  <2>2. seen' \in [Ids -> Times \cup {Never}]
    BY <2>1, <1>k DEF Pruned, TypeOK
  <2>3. ASSUME NEW i \in Ids PROVE Remembered(i)'
    <3>1. Remembered(i)
      BY DEF IInv
    <3> QED
      BY <3>1, <2>1, <1>p, <1>o DEF Remembered
  <2> QED
    BY <1>k, <2>1, <2>2, <2>3, GatewayStep DEF TypeOK
<1>12. ASSUME NEW event \in Requests, Accept(event) PROVE IInv'
  <2>1. /\ Answer(event, "2xx") /\ UNCHANGED <<killSwitch, clock>>
        /\ ~Expired(event) /\ Pruned[event.id] = Never
        /\ seen' = [Pruned EXCEPT ![event.id] = clock]
        /\ taken' = taken \cup {event.id}
        /\ accepts' = [accepts EXCEPT ![event.id] = @ + 1]
    BY <1>12 DEF Accept, Answer
  <2>2. event \in Sent /\ event.id \in Ids /\ event.id.at <= clock
    BY <1>q DEF Sent, Relayed
  <2>3. /\ event.captured \in Nat /\ event.id.at \in Nat /\ clock \in Nat
        /\ clock \in Times /\ clock # Never
    BY <1>k, <2>2 DEF Sent, Relayed, Ids, TypeOK, Times, Never
  <2>4. clock < event.id.at + MaxExpiry
    BY <2>1, <2>3 DEF Expired, ExpiresAt
  <2>5. accepts[event.id] = 0
    <3>1. accepts[event.id] # 1
      BY <1>o, <2>1, <2>2, <2>3, <2>4
    <3> QED
      BY <3>1, <2>2 DEF IInv, Remembered
  <2>6. Pruned \in [Ids -> Times \cup {Never}]
    BY <1>k DEF Pruned, TypeOK
  <2>7. seen' \in [Ids -> Times \cup {Never}] /\ taken' \subseteq Ids
    BY <2>1, <2>2, <2>3, <2>6, <1>k DEF TypeOK
  <2>8. accepts' \in [Ids -> Nat]
    BY <2>1, <2>2, <1>k DEF TypeOK
  <2>9. ASSUME NEW i \in Ids PROVE Remembered(i)'
    <3>1. CASE i = event.id
      <4>1. seen'[i] = clock
        BY <3>1, <2>1, <2>6
      <4>2. accepts'[i] = 1
        BY <3>1, <2>1, <2>5, <1>k DEF TypeOK
      <4> QED
        BY <3>1, <4>1, <4>2, <2>2, <2>3 DEF Remembered
    <3>2. CASE i # event.id
      <4>1. seen'[i] = Pruned[i] /\ accepts'[i] = accepts[i]
        BY <3>2, <2>1, <2>6, <1>k DEF TypeOK
      <4>2. Remembered(i)
        BY DEF IInv
      <4> QED
        BY <4>1, <4>2, <2>1, <1>p, <1>o DEF Remembered
    <3> QED
      BY <3>1, <3>2
  <2> QED
    BY <1>k, <2>1, <2>7, <2>8, <2>9, GatewayStep DEF TypeOK
<1>13. ASSUME NEW paused \in BOOLEAN, RestartGateway(paused) PROVE IInv'
  <2>1. /\ UNCHANGED <<clock, origin, screen, posts, bound, queue, tries, call, strays,
                        givenUp, taken, breaks>>
        /\ killSwitch' \in BOOLEAN
    BY <1>13, Zenon DEF RestartGateway, googleVars, sensorVars
  <2>2. /\ seen' \in [Ids -> Times \cup {Never}] /\ accepts' \in [Ids -> Nat]
        /\ \A i \in Ids : seen'[i] = Never /\ accepts'[i] = 0
    BY <1>13 DEF RestartGateway
  <2>3. TypeOK'
    BY <2>1, <2>2, <1>k DEF TypeOK, Ids, Relayed, Times
  <2>4. Known' /\ Sent' = Sent
    BY <2>1, <1>k DEF Known, Sent, Relayed, Ids, Times
  <2>5. \A i \in Ids : Remembered(i)'
    BY <2>2 DEF Remembered
  <2> QED
    BY <2>1, <2>3, <2>4, <2>5 DEF IInv, Ids, Times
<1>14. CASE Tick
  <2>1. /\ UNCHANGED <<origin, screen, posts, bound, queue, tries, call, strays, givenUp,
                        killSwitch, seen, taken, accepts, breaks>>
        /\ clock < MaxClock /\ clock' = clock + 1
    BY <1>14 DEF Tick, googleVars, sensorVars, gatewayVars
  <2>2. clock \in Nat /\ clock' \in Times /\ clock <= clock' /\ clock' \in Nat
    BY <2>1, <1>k DEF TypeOK, Times
  <2>3. TypeOK'
    BY <2>1, <2>2, <1>k DEF TypeOK, Ids, Relayed, Times
  <2>4. Sent \subseteq Sent'
    <3>1. ASSUME NEW event \in Sent PROVE event \in Sent'
      <4>1. event \in Relayed /\ event.id.at \in Nat /\ event.id.at <= clock
        BY DEF Sent, Relayed, Ids, Times
      <4> QED
        BY <4>1, <2>2 DEF Sent, Relayed, Ids, Times
    <3> QED
      BY <3>1
  <2>5. queue' \in Seq(Sent') /\ strays' \subseteq Sent'
    BY <2>1, <2>4, <1>q, SeqMonotonic DEF IInv
  <2>6. Known'
    <3>1. ASSUME NEW a \in Alerts
          PROVE  origin'[a] <= clock' /\ (screen'[a] # Never => origin'[a] # Never)
      <4>1. origin[a] \in Int /\ origin[a] <= clock /\ (screen[a] # Never => origin[a] # Never)
        BY <1>k DEF TypeOK, Known, Times, Never
      <4> QED
        BY <4>1, <2>1, <2>2
    <3> QED
      BY <3>1 DEF Known
  <2>7. \A i \in Ids : Remembered(i)'
    BY <2>1, <2>2, RememberedOn
  <2> QED
    BY <2>3, <2>5, <2>6, <2>7 DEF IInv, Ids, Times
<1>15. CASE UNCHANGED vars
  BY <1>15, <1>k DEF vars, IInv, TypeOK, Sent, Relayed, Ids, Times, Known, Remembered
<1> QED
  BY <1>1, <1>2, <1>3, <1>4, <1>5, <1>6, <1>7, <1>8, <1>9, <1>10, <1>11, <1>12, <1>13,
     <1>14, <1>15 DEF Next

LEMMA SpecIInv == Spec => []IInv
BY InitIInv, NextIInv, PTL DEF Spec

(* Type correctness: in particular an attempt is under way only for an      *)
(* event of the queue, and no event is tried more often than Attempts.      *)
THEOREM RelayTyped == Spec => []TypeOK
<1>1. IInv => TypeOK
  BY DEF IInv
<1> QED
  BY <1>1, SpecIInv, PTL

(* One gateway process takes in each warning at most once: an id is         *)
(* forgotten (pruneSeen) only after every copy of its event has expired     *)
(* (validateEvent), whatever the sensor and the network repeat.             *)
THEOREM OnceUnlessForgotten == Spec => []AcceptedOncePerProcess
<1>1. IInv => AcceptedOncePerProcess
  BY DEF IInv, Remembered, AcceptedOncePerProcess
<1> QED
  BY <1>1, SpecIInv, PTL

-----------------------------------------------------------------------------
(* The other promise: no warning is left behind. What the gateway remembers *)
(* and what it answered as success was taken in.                            *)
Honest ==
  /\ \A i \in Ids : seen[i] # Never => i \in taken
  /\ call = "2xx" => Head(queue).id \in taken

HeldInv == IInv /\ Honest /\ YoungWarningsAreHeld

(* The ids of a queue that ends with one event more, or lost its first.     *)
IdsOf(q) == {q[n].id : n \in DOMAIN q}

LEMMA IdsOfAppend ==
  ASSUME NEW S, NEW q \in Seq(S), NEW event \in S
  PROVE  /\ IdsOf(Append(q, event)) = IdsOf(q) \cup {event.id}
         /\ q # <<>> => Head(Append(q, event)) = Head(q)
<1>1. /\ DOMAIN Append(q, event) = 1 .. Len(q) + 1 /\ DOMAIN q = 1 .. Len(q) /\ Len(q) \in Nat
      /\ \A n \in 1 .. Len(q) : Append(q, event)[n] = q[n]
      /\ Append(q, event)[Len(q) + 1] = event
  OBVIOUS
<1>2. ASSUME NEW i PROVE i \in IdsOf(Append(q, event)) <=> i \in IdsOf(q) \cup {event.id}
  BY <1>1 DEF IdsOf
<1>3. q # <<>> => Head(Append(q, event)) = Head(q)
  OBVIOUS
<1> QED
  BY <1>2, <1>3

LEMMA IdsOfTail ==
  ASSUME NEW S, NEW q \in Seq(S), q # <<>>
  PROVE  IdsOf(q) \subseteq IdsOf(Tail(q)) \cup {Head(q).id}
<1>1. /\ DOMAIN q = 1 .. Len(q) /\ Len(q) \in Nat /\ Len(q) > 0
      /\ DOMAIN Tail(q) = 1 .. Len(q) - 1 /\ Head(q) = q[1]
      /\ \A n \in 1 .. Len(q) - 1 : Tail(q)[n] = q[n + 1]
  OBVIOUS
<1>2. ASSUME NEW n \in 1 .. Len(q) PROVE q[n].id \in IdsOf(Tail(q)) \cup {Head(q).id}
  <2>1. CASE n = 1
    BY <1>1, <2>1
  <2>2. CASE n # 1
    <3>1. n - 1 \in DOMAIN Tail(q) /\ Tail(q)[n - 1] = q[n]
      BY <1>1, <2>2
    <3> QED
      BY <3>1 DEF IdsOf
  <2> QED
    BY <2>1, <2>2
<1> QED
  BY <1>1, <1>2 DEF IdsOf

LEMMA IdsOfConcat ==
  ASSUME NEW S, NEW q \in Seq(S), NEW r \in Seq(S)
  PROVE  /\ IdsOf(q) \subseteq IdsOf(q \o r) /\ IdsOf(r) \subseteq IdsOf(q \o r)
         /\ q # <<>> => Head(q \o r) = Head(q)
<1>1. /\ DOMAIN q = 1 .. Len(q) /\ DOMAIN r = 1 .. Len(r) /\ Len(q) \in Nat /\ Len(r) \in Nat
      /\ DOMAIN (q \o r) = 1 .. Len(q) + Len(r)
      /\ \A n \in 1 .. Len(q) : (q \o r)[n] = q[n]
      /\ \A n \in 1 .. Len(r) : (q \o r)[Len(q) + n] = r[n]
  OBVIOUS
<1>2. IdsOf(q) \subseteq IdsOf(q \o r)
  BY <1>1 DEF IdsOf
<1>3. ASSUME NEW n \in 1 .. Len(r) PROVE r[n].id \in IdsOf(q \o r)
  <2>1. Len(q) + n \in DOMAIN (q \o r) /\ (q \o r)[Len(q) + n] = r[n]
    BY <1>1
  <2> QED
    BY <2>1 DEF IdsOf
<1>4. q # <<>> => Head(q \o r) = Head(q)
  BY <1>1
<1> QED
  BY <1>1, <1>2, <1>3, <1>4 DEF IdsOf

(* A listener that comes back reads every young warning off the screen,     *)
(* whatever the order in which Android gives them.                          *)
LEMMA ReplayedAll ==
  ASSUME NEW order \in SetToSeqs(Replayable), NEW a \in Replayable
  PROVE  EventId(a, origin[a])
           \in IdsOf([n \in DOMAIN order |-> Relay(order[n], origin[order[n]])])
<1> DEFINE D == 1 .. Cardinality(Replayable)
<1>1. IsFiniteSet(Replayable) /\ Cardinality(Replayable) \in Nat
  BY Constants, FS_Subset, FS_CardinalityType DEF Replayable, OnScreen
<1>2. order \in Injection(D, Replayable)
  BY DEF SetToSeqs, Injection, IsInjective
<1>3. IsFiniteSet(D) /\ Cardinality(D) = Cardinality(Replayable)
  BY <1>1, FS_Interval
<1>4. order \in Surjection(D, Replayable)
  BY <1>1, <1>2, <1>3, FS_Injection
<1>5. PICK n \in D : order[n] = a
  BY <1>4 DEF Surjection
<1>6. DOMAIN order = D
  BY <1>2 DEF Injection
<1> QED
  BY <1>5, <1>6 DEF IdsOf, Relay

LEMMA InitHeld == Init => HeldInv
<1> SUFFICES ASSUME Init PROVE HeldInv
  OBVIOUS
<1>1. Honest /\ YoungWarningsAreHeld
  BY DEF Init, Honest, YoungWarningsAreHeld
<1> QED
  BY <1>1, InitIInv DEF HeldInv

(* A step that shows no warning anew loses none: whatever leaves the queue  *)
(* is taken in or given up.                                                 *)
LEMMA HeldOn ==
  ASSUME HeldInv, UNCHANGED origin, bound' => bound, Replayable' \subseteq Replayable,
         IdsOf(queue) \cup taken \cup givenUp \subseteq IdsOf(queue') \cup taken' \cup givenUp'
  PROVE  YoungWarningsAreHeld'
<1> SUFFICES ASSUME bound', NEW a \in Replayable'
             PROVE  EventId(a, origin[a]) \in IdsOf(queue') \cup taken' \cup givenUp'
  BY DEF YoungWarningsAreHeld, EventId, Queued, IdsOf
<1>1. EventId(a, origin[a]) \in Queued \cup taken \cup givenUp
  BY DEF HeldInv, YoungWarningsAreHeld
<1> QED
  BY <1>1 DEF Queued, IdsOf

(* An answer moves nothing but the request it answers.                      *)
LEMMA AnswerHolds ==
  ASSUME HeldInv, NEW event \in Requests, NEW answer \in {"2xx", "refused"},
         Answer(event, answer), taken \subseteq taken',
         answer = "2xx" => event.id \in taken',
         \A i \in Ids : seen'[i] # Never => i \in taken'
  PROVE  Honest' /\ YoungWarningsAreHeld'
<1>1. UNCHANGED <<clock, origin, screen, bound, queue, givenUp>>
  BY DEF Answer, googleVars
<1>2. call' = "2xx" => Head(queue').id \in taken'
  <2>1. CASE UNCHANGED call
    BY <1>1, <2>1 DEF HeldInv, Honest
  <2>2. CASE event = Head(queue) /\ call' = answer
    BY <1>1, <2>2
  <2> QED
    BY <2>1, <2>2 DEF Answer
<1>3. Honest'
  BY <1>2 DEF Honest
<1>4. Replayable' = Replayable
  BY <1>1 DEF Replayable, OnScreen
<1> QED
  BY <1>1, <1>3, <1>4, HeldOn

LEMMA NextHeld == HeldInv /\ [Next]_vars => HeldInv'
<1> SUFFICES ASSUME HeldInv, [Next]_vars PROVE Honest' /\ YoungWarningsAreHeld'
  BY NextIInv DEF HeldInv
<1> USE Constants
<1>q. queue \in Seq(Sent) /\ Requests \subseteq Sent /\ (call # "idle" => queue # <<>>)
  BY RequestsSent DEF HeldInv, IInv, TypeOK
<1>t. /\ clock \in Nat /\ \A a \in Alerts : screen[a] \in Nat \cup {Never}
      /\ origin \in [Alerts -> Times \cup {Never}] /\ screen \in [Alerts -> Times \cup {Never}]
      /\ seen \in [Ids -> Times \cup {Never}]
  BY DEF HeldInv, IInv, TypeOK, Times
<1>h. Honest
  BY DEF HeldInv
<1>1. ASSUME NEW a \in Alerts, OnNotificationPosted(a)
      PROVE  Honest' /\ YoungWarningsAreHeld'
  <2>1. /\ UNCHANGED <<clock, bound, call, givenUp, taken, seen>>
        /\ screen' = [screen EXCEPT ![a] = clock]
        /\ \A b \in Alerts \ {a} : origin'[b] = origin[b]
        /\ queue' = IF bound THEN Append(queue, Relay(a, origin'[a])) ELSE queue
    BY <1>1, <1>t DEF OnNotificationPosted, gatewayVars
  <2>2. origin'[a] \in Times /\ origin'[a] <= clock
    BY <1>1, <1>t DEF OnNotificationPosted, HeldInv, IInv, TypeOK, Known, Times
  <2>3. Relay(a, origin'[a]) \in Sent
    BY <2>2, RelaySent DEF HeldInv
  <2>4. Relay(a, origin'[a]).id = EventId(a, origin'[a])
    BY DEF Relay
  <2>5. /\ IdsOf(queue') = IF bound THEN IdsOf(queue) \cup {EventId(a, origin'[a])} ELSE IdsOf(queue)
        /\ queue # <<>> => Head(queue') = Head(queue)
    <3> DEFINE event == Relay(a, origin'[a])
    <3>1. /\ IdsOf(Append(queue, event)) = IdsOf(queue) \cup {event.id}
          /\ queue # <<>> => Head(Append(queue, event)) = Head(queue)
      BY <1>q, <2>3, IdsOfAppend
    <3>2. CASE bound
      <4>1. queue' = Append(queue, event)
        BY <2>1, <3>2
      <4> HIDE DEF event
      <4>2. event.id = EventId(a, origin'[a])
        BY <2>4 DEF event
      <4> QED
        BY <3>1, <3>2, <4>1, <4>2
    <3>3. CASE ~bound
      BY <2>1, <3>3
    <3> QED
      BY <3>2, <3>3
  <2>6. Honest'
    BY <1>q, <1>h, <2>1, <2>5 DEF Honest
  <2>7. ASSUME bound', NEW b \in Replayable'
        PROVE  EventId(b, origin'[b]) \in IdsOf(queue') \cup taken' \cup givenUp'
    <3>1. CASE b = a
      BY <2>1, <2>5, <2>7, <3>1
    <3>2. CASE b # a
      <4>1. b \in Replayable /\ origin'[b] = origin[b]
        BY <1>t, <2>1, <2>7, <3>2 DEF Replayable, OnScreen
      <4>2. EventId(b, origin[b]) \in IdsOf(queue) \cup taken \cup givenUp
        BY <2>1, <2>7, <4>1 DEF HeldInv, YoungWarningsAreHeld, Queued, IdsOf
      <4> QED
        BY <2>1, <2>5, <4>1, <4>2
    <3> QED
      BY <3>1, <3>2
  <2> QED
    BY <2>6, <2>7 DEF YoungWarningsAreHeld, EventId, Queued, IdsOf
<1>2. ASSUME NEW a \in Alerts, Dismiss(a) PROVE Honest' /\ YoungWarningsAreHeld'
  <2>1. /\ UNCHANGED <<clock, origin, bound, queue, call, givenUp, taken, seen>>
        /\ screen' = [screen EXCEPT ![a] = Never]
    BY <1>2 DEF Dismiss, sensorVars, gatewayVars
  <2>2. Replayable' \subseteq Replayable
    BY <1>t, <2>1 DEF Replayable, OnScreen
  <2> QED
    BY <1>h, <2>1, <2>2, HeldOn DEF Honest
<1>3. CASE OnListenerConnected
  <2>1. PICK order \in SetToSeqs(Replayable) :
          queue' = queue \o [n \in DOMAIN order |-> Relay(order[n], origin[order[n]])]
    BY <1>3 DEF OnListenerConnected
  <2>2. UNCHANGED <<clock, origin, screen, call, givenUp, taken, seen>>
    BY <1>3 DEF OnListenerConnected, googleVars, gatewayVars
  <2> DEFINE replay == [n \in DOMAIN order |-> Relay(order[n], origin[order[n]])]
  <2>3. replay \in Seq(Sent)
    BY ReplaySent DEF HeldInv
  <2>4. \A a \in Replayable : EventId(a, origin[a]) \in IdsOf(replay)
    BY ReplayedAll
  <2> HIDE DEF replay
  <2>5. IdsOf(replay) \subseteq IdsOf(queue') /\ (queue # <<>> => Head(queue') = Head(queue))
    BY <1>q, <2>1, <2>3, IdsOfConcat DEF replay
  <2>6. Replayable' = Replayable
    BY <2>2 DEF Replayable, OnScreen
  <2>7. \A a \in Replayable' : EventId(a, origin'[a]) \in IdsOf(queue')
    BY <2>2, <2>4, <2>5, <2>6
  <2>8. Honest'
    BY <1>q, <1>h, <2>2, <2>5 DEF Honest
  <2> QED
    BY <2>7, <2>8 DEF YoungWarningsAreHeld, EventId, Queued, IdsOf
<1>4. CASE OnListenerDisconnected
  <2>1. bound' = FALSE /\ UNCHANGED <<queue, call, taken, seen>>
    BY <1>4 DEF OnListenerDisconnected, gatewayVars
  <2> QED
    BY <1>h, <2>1 DEF Honest, YoungWarningsAreHeld
<1>5. ASSUME NEW reboot \in BOOLEAN, Die(reboot) PROVE Honest' /\ YoungWarningsAreHeld'
  <2>1. bound' = FALSE /\ call' = "idle" /\ UNCHANGED <<taken, seen>>
    BY <1>5 DEF Die, gatewayVars
  <2> QED
    BY <1>h, <2>1 DEF Honest, YoungWarningsAreHeld
<1>6. CASE Post \/ Fail
  <2>1. /\ UNCHANGED <<clock, origin, screen, bound, queue, givenUp, taken, seen>>
        /\ call' # "2xx"
    BY <1>6 DEF Post, Fail, googleVars, gatewayVars
  <2>2. Replayable' = Replayable
    BY <2>1 DEF Replayable, OnScreen
  <2> QED
    BY <1>h, <2>1, <2>2, HeldOn DEF Honest
<1>7. CASE GiveUp
  <2>1. /\ queue # <<>> /\ call = "idle" /\ queue' = Tail(queue)
        /\ givenUp' = givenUp \cup {Head(queue).id}
        /\ UNCHANGED <<clock, origin, screen, bound, call, taken, seen>>
    BY <1>7 DEF GiveUp, googleVars, gatewayVars
  <2>2. IdsOf(queue) \subseteq IdsOf(queue') \cup {Head(queue).id}
    BY <1>q, <2>1, IdsOfTail
  <2>3. Replayable' = Replayable
    BY <2>1 DEF Replayable, OnScreen
  <2>4. YoungWarningsAreHeld'
    BY <2>1, <2>2, <2>3, HeldOn
  <2> QED
    BY <1>h, <2>1, <2>4 DEF Honest
<1>8. CASE Succeed
  <2>1. /\ call = "2xx" /\ queue' = Tail(queue) /\ call' = "idle"
        /\ UNCHANGED <<clock, origin, screen, bound, givenUp, taken, seen>>
    BY <1>8 DEF Succeed, googleVars, gatewayVars
  <2>2. queue # <<>> /\ Head(queue).id \in taken
    BY <1>q, <1>h, <2>1 DEF Honest
  <2>3. IdsOf(queue) \subseteq IdsOf(queue') \cup {Head(queue).id}
    BY <1>q, <2>1, <2>2, IdsOfTail
  <2>4. Replayable' = Replayable
    BY <2>1 DEF Replayable, OnScreen
  <2>5. YoungWarningsAreHeld'
    BY <2>1, <2>2, <2>3, <2>4, HeldOn
  <2> QED
    BY <1>h, <2>1, <2>5 DEF Honest
<1>9. ASSUME NEW event \in Requests, RefuseExpired(event) \/ RefusePaused(event)
      PROVE  Honest' /\ YoungWarningsAreHeld'
  <2>1. Answer(event, "refused") /\ UNCHANGED <<seen, taken>>
    BY <1>9 DEF RefuseExpired, RefusePaused, gatewayVars
  <2> QED
    BY <1>h, <2>1, AnswerHolds DEF Honest
<1>p. ASSUME NEW i \in Ids, Pruned[i] # Never PROVE i \in taken
  BY <1>h, <1>p DEF Pruned, Honest
<1>10. ASSUME NEW event \in Requests, AnswerDuplicate(event)
       PROVE  Honest' /\ YoungWarningsAreHeld'
  <2>1. Answer(event, "2xx") /\ UNCHANGED taken /\ seen' = Pruned /\ Pruned[event.id] # Never
    BY <1>10 DEF AnswerDuplicate
  <2>2. event.id \in Ids
    BY <1>q DEF Sent, Relayed
  <2> QED
    BY <1>p, <2>1, <2>2, AnswerHolds
<1>11. ASSUME NEW event \in Requests, Accept(event)
       PROVE  Honest' /\ YoungWarningsAreHeld'
  <2>1. /\ Answer(event, "2xx") /\ taken' = taken \cup {event.id}
        /\ seen' = [Pruned EXCEPT ![event.id] = clock]
    BY <1>11 DEF Accept
  <2>2. \A i \in Ids : seen'[i] # Never => i \in taken'
    BY <1>p, <2>1 DEF Pruned
  <2> QED
    BY <2>1, <2>2, AnswerHolds
<1>12. ASSUME NEW paused \in BOOLEAN, RestartGateway(paused)
       PROVE  Honest' /\ YoungWarningsAreHeld'
  <2>1. /\ UNCHANGED <<clock, origin, screen, bound, queue, call, givenUp, taken>>
        /\ \A i \in Ids : seen'[i] = Never
    BY <1>12 DEF RestartGateway, googleVars, sensorVars
  <2>2. Replayable' = Replayable
    BY <2>1 DEF Replayable, OnScreen
  <2>3. YoungWarningsAreHeld'
    BY <2>1, <2>2, HeldOn
  <2> QED
    BY <1>h, <2>1, <2>3 DEF Honest
<1>13. CASE Tick
  <2>1. /\ UNCHANGED <<origin, screen, bound, queue, call, givenUp, taken, seen>>
        /\ clock' = clock + 1
    BY <1>13 DEF Tick, googleVars, sensorVars, gatewayVars
  <2>2. ASSUME NEW a \in Replayable' PROVE a \in Replayable
    <3>1. a \in Alerts /\ screen[a] # Never /\ clock' - screen[a] < TTL
      BY <2>1, <2>2 DEF Replayable, OnScreen
    <3>2. screen[a] \in Nat /\ clock \in Nat /\ TTL \in Nat
      BY <1>t, <3>1
    <3>3. clock - screen[a] < TTL
      BY <2>1, <3>1, <3>2
    <3> QED
      BY <3>1, <3>3 DEF Replayable, OnScreen
  <2>3. YoungWarningsAreHeld'
    BY <2>1, <2>2, HeldOn
  <2> QED
    BY <1>h, <2>1, <2>3 DEF Honest
<1>14. CASE UNCHANGED vars
  <2>1. /\ UNCHANGED <<clock, origin, screen, bound, queue, call, givenUp, taken, seen>>
    BY <1>14 DEF vars
  <2>2. Replayable' = Replayable
    BY <2>1 DEF Replayable, OnScreen
  <2>3. YoungWarningsAreHeld'
    BY <2>1, <2>2, HeldOn
  <2> QED
    BY <1>h, <2>1, <2>3 DEF Honest
<1> QED
  BY <1>1, <1>2, <1>3, <1>4, <1>5, <1>6, <1>7, <1>8, <1>9, <1>10, <1>11, <1>12, <1>13, <1>14
  DEF Next

(* While the listener is bound, each warning on screen that is young enough *)
(* to replay is queued, or was taken in by a gateway, or was refused for as *)
(* long as this app process tries (replayMissedWarnings, Forwarder).        *)
THEOREM NoYoungWarningLeftBehind == Spec => []YoungWarningsAreHeld
<1>1. HeldInv => YoungWarningsAreHeld
  BY DEF HeldInv
<1> QED
  BY <1>1, InitHeld, NextHeld, PTL DEF Spec
=============================================================================
