------------------------------- MODULE Devices -------------------------------
(***************************************************************************)
(* The registrations of the iPhones: POST and DELETE /devices, the monitor's *)
(* telemetry switch, the cleanup of dead tokens and the "no coverage yet"    *)
(* notice, over the one JSON file they share (gateway/src/server.js).        *)
(*                                                                           *)
(* The file is used as JsonFile shows it to behave: a write takes its        *)
(* snapshot when it starts, one runs at a time, callers that come meanwhile  *)
(* share the next one, and a write that dies half way changes nothing. What  *)
(* a registration says is reduced to whether it names a sensor.              *)
(***************************************************************************)
EXTENDS Integers, FiniteSets

CONSTANTS
  Tokens,
  Limit,                          \* MAX_DEVICES
  MaxCalls, MaxFailures, MaxRestarts   \* bounds: calls, failed writes, process deaths

ASSUME DevicesAssumption == {Limit, MaxCalls, MaxFailures, MaxRestarts} \subseteq Nat

VARIABLES
  byToken,        \* `byToken`: the store in memory
  disk,           \* devices.json
  writing,        \* the running write: its snapshot and the calls that wait for it
  waiting,        \* the calls that wait for the next write
  notices,        \* "no coverage yet" pushes on their way, per token
  lastAsked,      \* history: the call by which the app last asked about its token
  lastSwitch,     \* history: the monitor's last call about the token
  promised,       \* history: what the app was last answered, if it asked nothing since
  telemetry,      \* history: what the monitor was last answered, while it holds
  calls, failures, restarts

vars == <<byToken, disk, writing, waiting, notices, lastAsked, lastSwitch,
          promised, telemetry, calls, failures, restarts>>
answers == <<lastAsked, lastSwitch, promised, telemetry>>

-----------------------------------------------------------------------------
Registration == [known : BOOLEAN, sensors : BOOLEAN, telemetry : BOOLEAN, verified : BOOLEAN]
Absent == [known |-> FALSE, sensors |-> FALSE, telemetry |-> FALSE, verified |-> FALSE]
Store == [Tokens -> Registration]
Has(t) == byToken[t].known

Ops == {"register", "register nowhere", "remove", "telemetry on", "telemetry off", "internal"}
RegisterOp(sensors) == IF sensors THEN "register" ELSE "register nowhere"
Nobody == 0
CallIds == Nobody .. MaxCalls
Call(t, op, id) == [token |-> t, op |-> op, id |-> id]
Calls == [token : Tokens, op : Ops, id : CallIds]
NoWrite == [busy |-> FALSE, snapshot |-> [t \in Tokens |-> Absent], callers |-> {}]

TypeOK ==
  /\ byToken \in Store /\ disk \in Store
  /\ writing \in [busy : BOOLEAN, snapshot : Store, callers : SUBSET Calls]
  /\ waiting \in SUBSET Calls
  /\ notices \in [Tokens -> 0 .. MaxCalls]
  /\ lastAsked \in [Tokens -> CallIds] /\ lastSwitch \in [Tokens -> CallIds]
  /\ promised \in [Tokens -> {"none", "register", "remove"}]
  /\ telemetry \in [Tokens -> {"none", "on", "off"}]
  /\ calls \in 0 .. MaxCalls /\ failures \in 0 .. MaxFailures /\ restarts \in 0 .. MaxRestarts

Init ==
  /\ byToken = [t \in Tokens |-> Absent] /\ disk = byToken
  /\ writing = NoWrite /\ waiting = {}
  /\ notices = [t \in Tokens |-> 0]
  /\ lastAsked = [t \in Tokens |-> Nobody] /\ lastSwitch = lastAsked
  /\ promised = [t \in Tokens |-> "none"] /\ telemetry = promised
  /\ calls = 0 /\ failures = 0 /\ restarts = 0

-----------------------------------------------------------------------------
(* A handler changes the store and waits for a write.                       *)
Persist(t, value, op, id) ==
  /\ byToken' = [byToken EXCEPT ![t] = value]
  /\ waiting' = waiting \cup {Call(t, op, id)}
  /\ UNCHANGED <<disk, writing>>

Counted == calls < MaxCalls /\ calls' = calls + 1

AppAsks(t) ==
  /\ Counted
  /\ lastAsked' = [lastAsked EXCEPT ![t] = calls']

(* The token is taken out: nothing the monitor was told of it holds now.    *)
TakeOut(t, op, id) ==
  /\ Has(t)
  /\ Persist(t, Absent, op, id)
  /\ telemetry' = [telemetry EXCEPT ![t] = "none"]
  /\ lastSwitch' = [lastSwitch EXCEPT ![t] = Nobody]

(* Slip: what the app sends is all that is kept.                            *)
PutWhole(t, sensors) ==
  [known |-> TRUE, sensors |-> sensors, telemetry |-> FALSE, verified |-> FALSE]

(* Slip: APNs' word on the token is not carried over.                       *)
PutUnverified(t, sensors) ==
  [known |-> TRUE, sensors |-> sensors, telemetry |-> byToken[t].telemetry]

(* put: only what the monitor and APNs said of the token survives.          *)
Put(t, sensors) ==
  [known |-> TRUE, sensors |-> sensors, telemetry |-> byToken[t].telemetry,
   verified |-> byToken[t].verified]

(* POST /devices; a new token over the limit is an error, nothing changes.  *)
Register(t, sensors) ==
  /\ Has(t) \/ Cardinality({u \in Tokens : Has(u)}) < Limit
  /\ AppAsks(t)
  /\ Persist(t, Put(t, sensors), RegisterOp(sensors), calls')
  /\ promised' = [promised EXCEPT ![t] = "none"]
  /\ UNCHANGED <<notices, telemetry, lastSwitch, failures, restarts>>

(* DELETE /devices of a known token waits for its write.                    *)
Remove(t) ==
  /\ AppAsks(t)
  /\ TakeOut(t, "remove", calls')
  /\ promised' = [promised EXCEPT ![t] = "none"]
  /\ UNCHANGED <<notices, failures, restarts>>

(* "204 whether or not the token was registered": for a token not in memory *)
(* the answer comes at once.                                                *)
RemoveUnknown(t) ==
  /\ ~Has(t)
  /\ AppAsks(t)
  /\ promised' = [promised EXCEPT ![t] = "remove"]
  /\ UNCHANGED <<byToken, disk, writing, waiting, notices, telemetry, lastSwitch, failures,
                 restarts>>

(* POST /devices/telemetry, monitor only.                                   *)
SwitchTelemetry(t, on) ==
  /\ Counted
  /\ Has(t)
  /\ Persist(t, [byToken[t] EXCEPT !.telemetry = on],
             IF on THEN "telemetry on" ELSE "telemetry off", calls')
  /\ telemetry' = [telemetry EXCEPT ![t] = "none"]
  /\ lastSwitch' = [lastSwitch EXCEPT ![t] = calls']
  /\ UNCHANGED <<notices, lastAsked, promised, failures, restarts>>

(* APNs says that the token is gone; nobody waits for that write.           *)
Cleanup(t) ==
  /\ Counted
  /\ TakeOut(t, "internal", Nobody)
  /\ lastAsked' = [lastAsked EXCEPT ![t] = Nobody]
  /\ promised' = [promised EXCEPT ![t] = "none"]
  /\ UNCHANGED <<notices, failures, restarts>>

-----------------------------------------------------------------------------
(* The "no coverage yet" push; its delivery verifies the token.             *)
NoticeArrives(t) ==
  /\ notices[t] > 0
  /\ notices' = [notices EXCEPT ![t] = @ - 1]
  /\ IF Has(t) /\ ~byToken[t].verified
       THEN Persist(t, [byToken[t] EXCEPT !.verified = TRUE], "internal", Nobody)
       ELSE UNCHANGED <<byToken, disk, writing, waiting>>
  /\ UNCHANGED <<answers, calls, failures, restarts>>

NoticeFails(t) ==
  /\ notices[t] > 0
  /\ notices' = [notices EXCEPT ![t] = @ - 1]
  /\ UNCHANGED <<byToken, disk, writing, waiting, answers, calls, failures, restarts>>

-----------------------------------------------------------------------------
(* The file.                                                                *)

StartWrite ==
  /\ waiting # {} /\ ~writing.busy
  /\ writing' = [busy |-> TRUE, snapshot |-> byToken, callers |-> waiting]
  /\ waiting' = {}
  /\ UNCHANGED <<byToken, disk, notices, answers, calls, failures, restarts>>

(* An answer counts unless its asker asked something else since.            *)
Answered(t) ==
  IF \E sensors \in BOOLEAN : Call(t, RegisterOp(sensors), lastAsked[t]) \in writing.callers
    THEN "register"
  ELSE IF Call(t, "remove", lastAsked[t]) \in writing.callers THEN "remove"
  ELSE promised[t]

SwitchAnswered(t) ==
  IF Call(t, "telemetry on", lastSwitch[t]) \in writing.callers THEN "on"
  ELSE IF Call(t, "telemetry off", lastSwitch[t]) \in writing.callers THEN "off"
  ELSE telemetry[t]

(* handleDevice goes on after its save: a phone that registered with no     *)
(* sensor and was not verified by then is told so, once per call.           *)
NoCoverageNotices(t) ==
  IF byToken[t].verified THEN 0
  ELSE Cardinality({c \in writing.callers : c.token = t /\ c.op = "register nowhere"})

WriteDone ==
  /\ writing.busy
  /\ disk' = writing.snapshot
  /\ writing' = NoWrite
  /\ promised' = [t \in Tokens |-> Answered(t)]
  /\ telemetry' = [t \in Tokens |-> SwitchAnswered(t)]
  /\ notices' = [t \in Tokens |-> notices[t] + NoCoverageNotices(t)]
  /\ UNCHANGED <<byToken, waiting, lastAsked, lastSwitch, calls, failures, restarts>>

(* Slip: the callers of a failed write are answered as if it had been done. *)
WriteFailsSilently ==
  /\ writing.busy
  /\ failures < MaxFailures
  /\ failures' = failures + 1
  /\ writing' = NoWrite
  /\ promised' = [t \in Tokens |-> Answered(t)]
  /\ UNCHANGED <<byToken, disk, waiting, notices, lastAsked, lastSwitch, telemetry, calls,
                 restarts>>

(* Its callers get an error; the change stays in memory.                    *)
WriteFails ==
  /\ writing.busy
  /\ failures < MaxFailures
  /\ failures' = failures + 1
  /\ writing' = NoWrite
  /\ UNCHANGED <<byToken, disk, waiting, notices, answers, calls, restarts>>

Restart ==
  /\ restarts < MaxRestarts
  /\ restarts' = restarts + 1
  /\ byToken' = disk
  /\ writing' = NoWrite /\ waiting' = {}
  /\ notices' = [t \in Tokens |-> 0]
  /\ UNCHANGED <<disk, answers, calls, failures>>

Next ==
  \/ \E t \in Tokens : \/ \E sensors \in BOOLEAN : Register(t, sensors)
                       \/ Remove(t) \/ RemoveUnknown(t) \/ Cleanup(t)
                       \/ \E on \in BOOLEAN : SwitchTelemetry(t, on)
                       \/ NoticeArrives(t) \/ NoticeFails(t)
  \/ StartWrite \/ WriteDone \/ WriteFails
  \/ Restart

Spec == Init /\ [][Next]_vars

-----------------------------------------------------------------------------
(* A phone that was answered 201, and asked nothing since, is registered in *)
(* the running process and would be after a crash at any point.             *)
RegisteredIsKept ==
  \A t \in Tokens : promised[t] = "register" => Has(t) /\ disk[t].known

(* "Set by the monitor only: re-registering from the app must not drop it": *)
(* an opt-in or opt-out that was answered 200 holds, in memory and after a  *)
(* crash, through every registration of the same token.                     *)
TelemetryIsKept ==
  \A t \in Tokens :
    telemetry[t] \in {"on", "off"} =>
      /\ Has(t) /\ byToken[t].telemetry = (telemetry[t] = "on")
      /\ disk[t].known /\ disk[t].telemetry = (telemetry[t] = "on")

=============================================================================
