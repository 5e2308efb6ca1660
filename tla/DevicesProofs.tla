----------------------------- MODULE DevicesProofs -----------------------------
(* What the app and the monitor were answered about a token holds, in        *)
(* memory, on disk and in the write that runs, for any number of phones,     *)
(* calls, failed writes and deaths of the process.                           *)
EXTENDS Devices, FiniteSetTheorems, TLAPS

RegisterOps == {"register", "register nowhere"}
SwitchOps == {"telemetry on", "telemetry off"}

(* A call whose answer would still be the last word on its token.           *)
Current(c) == \/ c.op \in RegisterOps /\ c.id = lastAsked[c.token]
              \/ c.op \in SwitchOps /\ c.id = lastSwitch[c.token]

(* A registration shows what the call asked for.                            *)
Shows(registration, c) ==
  /\ registration.known
  /\ c.op = "telemetry on" => registration.telemetry
  /\ c.op = "telemetry off" => ~registration.telemetry

(* It shows what was answered about the token.                              *)
Keeps(registration, t) ==
  /\ promised[t] = "register" => registration.known
  /\ telemetry[t] \in {"on", "off"} =>
       registration.known /\ registration.telemetry = (telemetry[t] = "on")

(* What was answered holds wherever the token's registration is, so also in *)
(* the write that will replace the file.                                    *)
Kept(t) ==
  /\ Keeps(byToken[t], t) /\ Keeps(disk[t], t)
  /\ writing.busy => Keeps(writing.snapshot[t], t)

(* What will be answered holds in memory, and in the write that answers it. *)
Coming ==
  /\ \A c \in waiting \cup writing.callers : Current(c) => Shows(byToken[c.token], c)
  /\ \A c \in writing.callers : Current(c) => Shows(writing.snapshot[c.token], c)

(* Calls are numbered; nobody waits for an internal one.                    *)
Numbered ==
  \A c \in waiting \cup writing.callers :
    c.id <= calls /\ (c.op \in RegisterOps \cup SwitchOps => c.id > 0)

(* A phone gets one notice for each call at most.                           *)
Nowhere(callers, t) == {c \in callers : c.token = t /\ c.op = "register nowhere"}
OneNoticePerCall(t) ==
  notices[t] + Cardinality(Nowhere(waiting, t)) + Cardinality(Nowhere(writing.callers, t)) <= calls

Inv ==
  /\ \A t \in Tokens : Kept(t) /\ OneNoticePerCall(t)
  /\ Coming /\ Numbered
  /\ IsFiniteSet(waiting) /\ IsFiniteSet(writing.callers)

IInv == TypeOK /\ Inv

-----------------------------------------------------------------------------
LEMMA Constants ==
  /\ Limit \in Nat /\ MaxCalls \in Nat /\ MaxFailures \in Nat /\ MaxRestarts \in Nat
  /\ Absent \in Registration
  /\ NoWrite \in [busy : BOOLEAN, snapshot : Store, callers : SUBSET Calls]
  /\ NoWrite.callers = {} /\ ~NoWrite.busy
BY DevicesAssumption DEF Absent, Registration, NoWrite, Store

(* A call more is a notice more at most.                                    *)
LEMMA NowhereGrows ==
  ASSUME NEW S, IsFiniteSet(S), NEW c, NEW t
  PROVE  /\ IsFiniteSet(S \cup {c})
         /\ Cardinality(Nowhere(S, t)) \in Nat
         /\ Cardinality(Nowhere(S \cup {c}, t)) \in Nat
         /\ Cardinality(Nowhere(S \cup {c}, t)) <= Cardinality(Nowhere(S, t)) + 1
<1>1. IsFiniteSet(Nowhere(S, t))
  BY FS_Subset DEF Nowhere
<1>2. Nowhere(S \cup {c}, t) = IF c.op = "register nowhere" /\ c.token = t
                               THEN Nowhere(S, t) \cup {c} ELSE Nowhere(S, t)
  BY DEF Nowhere
<1> DEFINE T == Nowhere(S, t)
           n == Cardinality(T)
           m == Cardinality(T \cup {c})
<1> HIDE DEF T
<1>3. IsFiniteSet(S \cup {c})
  BY FS_AddElement
<1>4. IsFiniteSet(T \cup {c}) /\ m = IF c \in T THEN n ELSE n + 1
  BY <1>1, FS_AddElement DEF T
<1>5. n \in Nat
  BY <1>1, FS_CardinalityType DEF T
<1>6. m \in Nat /\ m <= n + 1
  BY <1>4, <1>5
<1>7. CASE c.op = "register nowhere" /\ c.token = t
  <2>1. Nowhere(S \cup {c}, t) = T \cup {c}
    BY <1>2, <1>7 DEF T
  <2> QED
    BY <1>3, <1>5, <1>6, <1>7, <2>1 DEF T
<1>8. CASE ~(c.op = "register nowhere" /\ c.token = t)
  <2>1. Nowhere(S \cup {c}, t) = T
    BY <1>2, <1>8 DEF T
  <2>2. n <= n + 1
    BY <1>5
  <2> QED
    BY <1>3, <1>5, <2>1, <2>2 DEF T
<1> QED
  BY <1>7, <1>8

LEMMA NobodyNowhere ==
  ASSUME NEW t
  PROVE  Cardinality(Nowhere({}, t)) = 0 /\ IsFiniteSet({})
<1>1. Nowhere({}, t) = {}
  BY DEF Nowhere
<1> QED
  BY <1>1, FS_EmptySet

(* One call more pays for one notice more.                                  *)
LEMMA Budget ==
  ASSUME NEW n \in Nat, NEW n1 \in Nat, NEW a \in Nat, NEW b \in Nat, NEW w \in Nat,
         NEW k \in Nat, NEW k1 \in Nat, n + a + w <= k, n1 <= n,
         (b = a /\ k <= k1) \/ (b <= a + 1 /\ k1 = k + 1)
  PROVE  n1 + b + w <= k1
OBVIOUS

LEMMA AtMost ==
  ASSUME NEW i \in Nat, NEW k \in Nat, NEW k1 \in Nat, i <= k, k <= k1
  PROVE  i <= k1
OBVIOUS

LEMMA Types ==
  ASSUME TypeOK
  PROVE  /\ calls \in Nat /\ waiting \subseteq Calls /\ writing.callers \subseteq Calls
         /\ \A t \in Tokens : notices[t] \in Nat
         /\ \A c \in waiting \cup writing.callers : c.id \in Nat /\ c.token \in Tokens
BY Constants DEF TypeOK, Calls, CallIds, Nobody

LEMMA Naturals ==
  /\ \A n \in 0 .. MaxCalls : n \in Nat
  /\ \A f \in [Tokens -> 0 .. MaxCalls] : \A t \in Tokens : f[t] \in Nat
BY Constants

LEMMA InitIInv == Init => IInv
<1> SUFFICES ASSUME Init PROVE IInv
  OBVIOUS
<1> USE Constants
<1>1. TypeOK
  BY DEF Init, TypeOK, Store, CallIds, Nobody
<1>2. /\ writing = NoWrite /\ waiting = {} /\ calls = 0
      /\ \A t \in Tokens : notices[t] = 0 /\ promised[t] = "none" /\ telemetry[t] = "none"
  BY DEF Init
<1>3. \A t \in Tokens : Kept(t) /\ OneNoticePerCall(t)
  BY <1>2, NobodyNowhere DEF Kept, Keeps, OneNoticePerCall
<1>4. Coming /\ Numbered /\ IsFiniteSet(waiting) /\ IsFiniteSet(writing.callers)
  BY <1>2, NobodyNowhere DEF Coming, Numbered
<1> QED
  BY <1>1, <1>3, <1>4 DEF IInv, Inv

-----------------------------------------------------------------------------
(* The steps of handlers: one registration changes, one call waits. What    *)
(* the change must respect is what was answered and what will be.           *)
LEMMA HandlerStep ==
  ASSUME IInv, NEW t \in Tokens, NEW value \in Registration, NEW op \in Ops, NEW id \in CallIds,
         Persist(t, value, op, id),
         calls' \in 0 .. MaxCalls, calls <= calls', id <= calls',
         op \in RegisterOps \cup SwitchOps => id > 0,
         \A u \in Tokens : notices'[u] <= notices[u],
         notices' \in [Tokens -> 0 .. MaxCalls],
         op = "register nowhere" => calls' = calls + 1,
         lastAsked' \in [Tokens -> CallIds], lastSwitch' \in [Tokens -> CallIds],
         promised' \in [Tokens -> {"none", "register", "remove"}],
         telemetry' \in [Tokens -> {"none", "on", "off"}],
         \A u \in Tokens \ {t} : /\ lastAsked'[u] = lastAsked[u] /\ lastSwitch'[u] = lastSwitch[u]
                                 /\ promised'[u] = promised[u] /\ telemetry'[u] = telemetry[u],
         promised'[t] = "register" => promised[t] = "register" /\ value.known,
         telemetry'[t] \in {"on", "off"} =>
           telemetry'[t] = telemetry[t] /\ value.known /\ value.telemetry = byToken[t].telemetry,
         \A c \in waiting \cup writing.callers :
           c.token = t /\ Current(c)' => Current(c) /\ Shows(value, c),
         Current(Call(t, op, id))' => Shows(value, Call(t, op, id)),
         UNCHANGED <<failures, restarts>>
  PROVE  IInv'
<1> DEFINE new == Call(t, op, id)
<1>0. /\ byToken' = [byToken EXCEPT ![t] = value] /\ waiting' = waiting \cup {new}
      /\ UNCHANGED <<disk, writing>>
      /\ new \in Calls /\ new.token = t /\ new.op = op /\ new.id = id
  BY DEF Persist, Call, Calls
<1> HIDE DEF new
<1>1. TypeOK'
  BY <1>0 DEF IInv, TypeOK, Store
<1>2. /\ byToken'[t] = value /\ \A u \in Tokens \ {t} : byToken'[u] = byToken[u]
  BY <1>0 DEF IInv, TypeOK, Store
<1>3. ASSUME NEW u \in Tokens PROVE Kept(u)'
  <2>1. Kept(u)
    BY DEF IInv, Inv
  <2>2. CASE u # t
    BY <1>0, <1>2, <2>1, <2>2 DEF Kept, Keeps
  <2>3. CASE u = t
    <3>1. Keeps(byToken[t], t) /\ Keeps(disk[t], t)
          /\ (writing.busy => Keeps(writing.snapshot[t], t))
      BY <2>1, <2>3 DEF Kept
    <3>2. Keeps(byToken[t], t)'
      <4>1. promised'[t] = "register" => value.known
        OBVIOUS
      <4>2. ASSUME telemetry'[t] \in {"on", "off"}
            PROVE  value.known /\ value.telemetry = (telemetry'[t] = "on")
        <5>1. telemetry'[t] = telemetry[t] /\ value.known /\ value.telemetry = byToken[t].telemetry
          BY <4>2
        <5>2. byToken[t].telemetry = (telemetry[t] = "on")
          BY <3>1, <4>2, <5>1 DEF Keeps
        <5> QED
          BY <5>1, <5>2
      <4>3. byToken'[t] = value
        BY <1>2
      <4> QED
        BY <4>1, <4>2, <4>3 DEF Keeps
    <3>3. ASSUME NEW registration, Keeps(registration, t)
          PROVE  /\ promised'[t] = "register" => registration.known
                 /\ telemetry'[t] \in {"on", "off"} =>
                      registration.known /\ registration.telemetry = (telemetry'[t] = "on")
      <4>1. promised'[t] = "register" => registration.known
        BY <3>3 DEF Keeps
      <4>2. ASSUME telemetry'[t] \in {"on", "off"}
            PROVE  registration.known /\ registration.telemetry = (telemetry'[t] = "on")
        <5>1. telemetry'[t] = telemetry[t]
          BY <4>2
        <5> QED
          BY <3>3, <4>2, <5>1 DEF Keeps
      <4> QED
        BY <4>1, <4>2
    <3>4. Keeps(disk[t], t)'
      BY <1>0, <3>1, <3>3 DEF Keeps
    <3>5. writing'.busy => Keeps(writing.snapshot[t], t)'
      BY <1>0, <3>1, <3>3 DEF Keeps
    <3> QED
      BY <2>3, <3>2, <3>4, <3>5 DEF Kept
  <2> QED
    BY <2>2, <2>3
<1>4. ASSUME NEW u \in Tokens PROVE OneNoticePerCall(u)'
  <2> DEFINE a == Cardinality(Nowhere(waiting, u))
             b == Cardinality(Nowhere(waiting \cup {new}, u))
             w == Cardinality(Nowhere(writing.callers, u))
  <2>0. IsFiniteSet(waiting) /\ IsFiniteSet(writing.callers)
    BY DEF IInv, Inv
  <2>1. a \in Nat /\ b \in Nat /\ b <= a + 1
    BY <2>0, NowhereGrows
  <2>2. ASSUME op # "register nowhere" PROVE b = a
    <3>1. new.op # "register nowhere"
      BY <1>0, <2>2
    <3>2. Nowhere(waiting \cup {new}, u) = Nowhere(waiting, u)
      BY <3>1 DEF Nowhere
    <3> QED
      BY <3>2
  <2>3. w \in Nat
    BY <2>0, NowhereGrows
  <2>4. notices[u] + a + w <= calls
    BY DEF IInv, Inv, OneNoticePerCall
  <2>5. notices[u] \in Nat /\ notices'[u] \in Nat /\ calls \in Nat /\ calls' \in Nat
    BY Types, Naturals DEF IInv
  <2> HIDE DEF a, b, w
  <2>6. notices'[u] + b + w <= calls'
    <3>1. (b = a /\ calls <= calls') \/ (b <= a + 1 /\ calls' = calls + 1)
      <4>1. CASE op = "register nowhere"
        BY <2>1, <4>1
      <4>2. CASE op # "register nowhere"
        BY <2>2, <4>2
      <4> QED
        BY <4>1, <4>2
    <3> QED
      BY <2>1, <2>3, <2>4, <2>5, <3>1, Budget
  <2> QED
    BY <1>0, <2>6 DEF OneNoticePerCall, Nowhere, b, w
<1>5. ASSUME NEW c \in waiting \cup writing.callers, Current(c)'
      PROVE  Current(c) /\ Shows(byToken'[c.token], c)
  <2>1. c.token \in Tokens
    BY DEF IInv, TypeOK, Calls
  <2>2. CASE c.token = t
    BY <1>2, <1>5, <2>2
  <2>3. CASE c.token # t
    <3>1. Current(c)
      BY <1>5, <2>1, <2>3 DEF Current
    <3> QED
      BY <1>2, <2>1, <2>3, <3>1 DEF IInv, Inv, Coming
  <2> QED
    BY <2>2, <2>3
<1>6. Current(new)' => Shows(byToken'[t], new)
  BY <1>2 DEF new
<1>7. Coming'
  <2>1. \A c \in waiting' \cup writing'.callers : Current(c)' => Shows(byToken'[c.token], c)
    BY <1>0, <1>5, <1>6
  <2>2. \A c \in writing'.callers : Current(c)' => Shows(writing'.snapshot[c.token], c)
    BY <1>0, <1>5 DEF IInv, Inv, Coming
  <2> QED
    BY <2>1, <2>2 DEF Coming
<1>8. Numbered'
  <2>1. ASSUME NEW c \in waiting' \cup writing'.callers
        PROVE  c.id <= calls' /\ (c.op \in RegisterOps \cup SwitchOps => c.id > 0)
    <3>1. CASE c = new
      <4>1. c.id = id /\ c.op = op
        BY <1>0, <3>1
      <4>2. id <= calls' /\ (op \in RegisterOps \cup SwitchOps => id > 0)
        OBVIOUS
      <4> QED
        BY <4>1, <4>2
    <3>2. CASE c \in waiting \cup writing.callers
      <4>1. c.id \in Nat /\ calls \in Nat /\ calls' \in Nat
        BY <3>2, Types, Naturals DEF IInv
      <4>2. c.id <= calls /\ (c.op \in RegisterOps \cup SwitchOps => c.id > 0)
        BY <3>2 DEF IInv, Inv, Numbered
      <4>3. calls <= calls'
        OBVIOUS
      <4>4. c.id <= calls'
        BY <4>1, <4>2, <4>3, AtMost
      <4> QED
        BY <4>2, <4>4
    <3> QED
      BY <1>0, <3>1, <3>2
  <2> QED
    BY <2>1 DEF Numbered
<1>9. IsFiniteSet(waiting') /\ IsFiniteSet(writing'.callers)
  BY <1>0, NowhereGrows DEF IInv, Inv
<1> QED
  BY <1>1, <1>3, <1>4, <1>7, <1>8, <1>9 DEF IInv, Inv

(* The calls that wait are older than the next one and none is nobody's.    *)
LEMMA OldCall ==
  ASSUME IInv, NEW c \in waiting \cup writing.callers, c.op \in RegisterOps \cup SwitchOps
  PROVE  c.id # calls + 1 /\ c.id # Nobody
<1>1. c.id <= calls /\ c.id > 0
  BY DEF IInv, Inv, Numbered
<1>2. c.id \in Nat /\ calls \in Nat
  BY Types DEF IInv
<1> QED
  BY <1>1, <1>2 DEF Nobody

(* Counting a call keeps the count a number within its bound.               *)
LEMMA CountedCall ==
  ASSUME IInv, Counted
  PROVE  /\ calls' = calls + 1 /\ calls' \in 0 .. MaxCalls /\ calls' \in CallIds
         /\ calls <= calls' /\ calls' <= calls' /\ calls' > 0
<1>1. calls' = calls + 1 /\ calls < MaxCalls
  BY DEF Counted
<1>2. calls \in Nat /\ MaxCalls \in Nat
  BY Constants, Types DEF IInv
<1> QED
  BY <1>1, <1>2 DEF CallIds, Nobody

LEMMA NoticesStay ==
  ASSUME IInv, UNCHANGED notices
  PROVE  /\ \A u \in Tokens : notices'[u] <= notices[u]
         /\ notices' \in [Tokens -> 0 .. MaxCalls]
<1>1. \A u \in Tokens : notices[u] \in Nat
  BY Types DEF IInv
<1> QED
  BY <1>1 DEF IInv, TypeOK

LEMMA NoticeGoes ==
  ASSUME IInv, NEW t \in Tokens, notices[t] > 0, notices' = [notices EXCEPT ![t] = @ - 1]
  PROVE  /\ \A u \in Tokens : notices'[u] <= notices[u]
         /\ notices' \in [Tokens -> 0 .. MaxCalls]
<1>1. notices \in [Tokens -> 0 .. MaxCalls] /\ MaxCalls \in Nat
  BY Constants DEF IInv, TypeOK
<1>2. notices[t] \in 0 .. MaxCalls /\ notices[t] - 1 \in 0 .. MaxCalls
  BY <1>1
<1>3. notices' \in [Tokens -> 0 .. MaxCalls]
  BY <1>1, <1>2
<1>4. \A u \in Tokens : notices'[u] <= notices[u]
  BY <1>1, <1>2
<1> QED
  BY <1>3, <1>4

(* What the app sends never drops what the monitor was told.                *)
LEMMA RegisterStep ==
  ASSUME IInv, NEW t \in Tokens, NEW sensors \in BOOLEAN, Register(t, sensors)
  PROVE  IInv'
<1> DEFINE value == Put(t, sensors)
           op == RegisterOp(sensors)
           id == calls + 1
<1>1. /\ Counted /\ lastAsked' = [lastAsked EXCEPT ![t] = calls']
      /\ Persist(t, value, op, calls')
      /\ promised' = [promised EXCEPT ![t] = "none"]
      /\ UNCHANGED <<notices, telemetry, lastSwitch, failures, restarts>>
  BY DEF Register, AppAsks
<1>2. /\ calls' = id /\ calls' \in 0 .. MaxCalls /\ id \in CallIds
      /\ calls <= calls' /\ id <= calls' /\ id > 0
  BY <1>1, CountedCall
<1>3. /\ value \in Registration /\ value.known
      /\ value.telemetry = byToken[t].telemetry
  BY DEF Put, IInv, TypeOK, Store, Registration
<1>4. op \in RegisterOps /\ op \in Ops /\ op \notin SwitchOps
  BY DEF RegisterOp, RegisterOps, SwitchOps, Ops
<1>5. /\ lastAsked' \in [Tokens -> CallIds] /\ lastSwitch' \in [Tokens -> CallIds]
      /\ promised' \in [Tokens -> {"none", "register", "remove"}]
      /\ telemetry' \in [Tokens -> {"none", "on", "off"}]
      /\ lastAsked'[t] = id /\ promised'[t] = "none"
      /\ lastSwitch' = lastSwitch /\ telemetry' = telemetry
      /\ \A u \in Tokens \ {t} : lastAsked'[u] = lastAsked[u] /\ promised'[u] = promised[u]
  BY <1>1, <1>2 DEF IInv, TypeOK
<1>6. ASSUME NEW c \in waiting \cup writing.callers, c.token = t, Current(c)'
      PROVE  Current(c) /\ Shows(value, c)
  <2>1. c.op \in SwitchOps /\ c.id = lastSwitch[t]
    BY <1>5, <1>6, OldCall DEF Current
  <2>2. Current(c) /\ Shows(byToken[t], c)
    BY <1>6, <2>1 DEF Current, IInv, Inv, Coming
  <2> QED
    BY <1>3, <2>2 DEF Shows
<1>7. Shows(value, Call(t, op, id))
  BY <1>3, <1>4 DEF Shows, Call, SwitchOps
<1>8. telemetry'[t] \in {"on", "off"} =>
        telemetry'[t] = telemetry[t] /\ value.known /\ value.telemetry = byToken[t].telemetry
  BY <1>3, <1>5
<1>9. /\ \A u \in Tokens : notices'[u] <= notices[u]
      /\ notices' \in [Tokens -> 0 .. MaxCalls]
  BY <1>1, NoticesStay
<1>10. \A u \in Tokens \ {t} : /\ lastAsked'[u] = lastAsked[u] /\ lastSwitch'[u] = lastSwitch[u]
                               /\ promised'[u] = promised[u] /\ telemetry'[u] = telemetry[u]
  BY <1>5
<1>11. Persist(t, value, op, id) /\ promised'[t] # "register" /\ UNCHANGED <<failures, restarts>>
  BY <1>1, <1>2, <1>5
<1> HIDE DEF value, op, id
<1> QED
  BY <1>2, <1>3, <1>4, <1>5, <1>6, <1>7, <1>8, <1>9, <1>10, <1>11, HandlerStep DEF id

(* A token that is taken out: of what waits, nothing is the last word on it.*)
LEMMA TakeOutStep ==
  ASSUME IInv, NEW t \in Tokens, NEW op \in {"remove", "internal"}, NEW id \in CallIds,
         Counted, TakeOut(t, op, id), id <= calls',
         NEW asked \in {Nobody, calls + 1}, lastAsked' = [lastAsked EXCEPT ![t] = asked],
         promised' = [promised EXCEPT ![t] = "none"],
         UNCHANGED <<notices, failures, restarts>>
  PROVE  IInv'
<1>1. /\ Persist(t, Absent, op, id)
      /\ telemetry' = [telemetry EXCEPT ![t] = "none"]
      /\ lastSwitch' = [lastSwitch EXCEPT ![t] = Nobody]
  BY DEF TakeOut
<1>2. /\ calls' = calls + 1 /\ calls' \in 0 .. MaxCalls /\ calls + 1 \in CallIds
      /\ calls <= calls' /\ Nobody \in CallIds
  BY CountedCall, Constants DEF CallIds, Nobody
<1>3. op \in Ops /\ op \notin RegisterOps \cup SwitchOps /\ op # "register nowhere"
  BY DEF Ops, RegisterOps, SwitchOps
<1>4. /\ lastAsked' \in [Tokens -> CallIds] /\ lastSwitch' \in [Tokens -> CallIds]
      /\ promised' \in [Tokens -> {"none", "register", "remove"}]
      /\ telemetry' \in [Tokens -> {"none", "on", "off"}]
      /\ lastAsked'[t] = asked /\ lastSwitch'[t] = Nobody
      /\ promised'[t] = "none" /\ telemetry'[t] = "none"
      /\ \A u \in Tokens \ {t} : /\ lastAsked'[u] = lastAsked[u] /\ lastSwitch'[u] = lastSwitch[u]
                                 /\ promised'[u] = promised[u] /\ telemetry'[u] = telemetry[u]
  BY <1>1, <1>2 DEF IInv, TypeOK
<1>5. ASSUME NEW c \in waiting \cup writing.callers, c.token = t, Current(c)'
      PROVE  Current(c) /\ Shows(Absent, c)
  BY <1>4, <1>5, OldCall DEF Current
<1>6. ~Current(Call(t, op, id))'
  BY <1>3 DEF Current, Call
<1>7. /\ \A u \in Tokens : notices'[u] <= notices[u]
      /\ notices' \in [Tokens -> 0 .. MaxCalls]
  BY NoticesStay
<1> QED
  BY <1>1, <1>2, <1>3, <1>4, <1>5, <1>6, <1>7, Constants, HandlerStep

LEMMA RemoveStep ==
  ASSUME IInv, NEW t \in Tokens, Remove(t)
  PROVE  IInv'
<1>1. Counted /\ calls' = calls + 1 /\ calls' \in CallIds /\ calls' <= calls'
  BY CountedCall DEF Remove, AppAsks
<1>2. /\ TakeOut(t, "remove", calls + 1) /\ calls + 1 \in CallIds /\ calls + 1 <= calls'
      /\ lastAsked' = [lastAsked EXCEPT ![t] = calls + 1]
      /\ promised' = [promised EXCEPT ![t] = "none"]
      /\ UNCHANGED <<notices, failures, restarts>>
  BY <1>1 DEF Remove, AppAsks
<1> QED
  BY <1>1, <1>2, TakeOutStep

LEMMA CleanupStep ==
  ASSUME IInv, NEW t \in Tokens, Cleanup(t)
  PROVE  IInv'
<1>1. Counted /\ calls' > 0 /\ calls' \in 0 .. MaxCalls
  BY CountedCall DEF Cleanup
<1>2. Nobody \in CallIds /\ Nobody <= calls'
  BY <1>1, Constants DEF CallIds, Nobody
<1> QED
  BY <1>1, <1>2, TakeOutStep DEF Cleanup

(* What the monitor asks for leaves the phone registered.                   *)
LEMMA SwitchTelemetryStep ==
  ASSUME IInv, NEW t \in Tokens, NEW on \in BOOLEAN, SwitchTelemetry(t, on)
  PROVE  IInv'
<1> DEFINE value == [byToken[t] EXCEPT !.telemetry = on]
           op == IF on THEN "telemetry on" ELSE "telemetry off"
           id == calls + 1
<1>1. /\ Counted /\ Has(t) /\ Persist(t, value, op, calls')
      /\ telemetry' = [telemetry EXCEPT ![t] = "none"]
      /\ lastSwitch' = [lastSwitch EXCEPT ![t] = calls']
      /\ UNCHANGED <<notices, lastAsked, promised, failures, restarts>>
  BY DEF SwitchTelemetry
<1>2. /\ calls' = id /\ calls' \in 0 .. MaxCalls /\ id \in CallIds
      /\ calls <= calls' /\ id <= calls' /\ id > 0
  BY <1>1, CountedCall
<1>3. value \in Registration /\ value.known /\ value.telemetry = on
  BY <1>1 DEF Has, IInv, TypeOK, Store, Registration
<1>4. op \in SwitchOps /\ op \in Ops /\ op \notin RegisterOps /\ op # "register nowhere"
  BY DEF RegisterOps, SwitchOps, Ops
<1>5. /\ lastAsked' \in [Tokens -> CallIds] /\ lastSwitch' \in [Tokens -> CallIds]
      /\ promised' \in [Tokens -> {"none", "register", "remove"}]
      /\ telemetry' \in [Tokens -> {"none", "on", "off"}]
      /\ lastSwitch'[t] = id /\ telemetry'[t] = "none"
      /\ lastAsked' = lastAsked /\ promised' = promised
      /\ \A u \in Tokens \ {t} : lastSwitch'[u] = lastSwitch[u] /\ telemetry'[u] = telemetry[u]
  BY <1>1, <1>2 DEF IInv, TypeOK
<1>6. ASSUME NEW c \in waiting \cup writing.callers, c.token = t, Current(c)'
      PROVE  Current(c) /\ Shows(value, c)
  <2>1. c.op \in RegisterOps /\ c.id = lastAsked[t]
    BY <1>5, <1>6, OldCall DEF Current
  <2>2. Current(c)
    BY <1>6, <2>1 DEF Current
  <2> QED
    BY <1>3, <2>1, <2>2 DEF Shows, RegisterOps
<1>7. Shows(value, Call(t, op, id))
  BY <1>3 DEF Shows, Call
<1>8. telemetry'[t] \notin {"on", "off"}
  BY <1>5
<1>9. /\ \A u \in Tokens : notices'[u] <= notices[u]
      /\ notices' \in [Tokens -> 0 .. MaxCalls]
  BY <1>1, NoticesStay
<1>10. \A u \in Tokens \ {t} : /\ lastAsked'[u] = lastAsked[u] /\ lastSwitch'[u] = lastSwitch[u]
                               /\ promised'[u] = promised[u] /\ telemetry'[u] = telemetry[u]
  BY <1>5
<1>11. /\ Persist(t, value, op, id) /\ UNCHANGED <<failures, restarts>>
       /\ promised'[t] = "register" => promised[t] = "register" /\ value.known
  BY <1>1, <1>2, <1>3, <1>5
<1> HIDE DEF value, op, id
<1> QED
  BY <1>2, <1>3, <1>4, <1>5, <1>6, <1>7, <1>8, <1>9, <1>10, <1>11, HandlerStep DEF id

-----------------------------------------------------------------------------
(* The steps that leave store, file and writes alone.                       *)
LEMMA NothingWritten ==
  ASSUME IInv, TypeOK', UNCHANGED <<byToken, disk, writing, waiting, telemetry>>,
         calls' = calls \/ calls' = calls + 1,
         \A u \in Tokens : notices'[u] <= notices[u],
         \A u \in Tokens : promised'[u] = "register" => promised[u] = "register",
         \A c \in waiting \cup writing.callers : Current(c)' => Current(c)
  PROVE  IInv'
<1>1. ASSUME NEW u \in Tokens PROVE Kept(u)'
  <2>1. Kept(u)
    BY DEF IInv, Inv
  <2> QED
    BY <2>1 DEF Kept, Keeps
<1>2. ASSUME NEW u \in Tokens PROVE OneNoticePerCall(u)'
  <2> DEFINE a == Cardinality(Nowhere(waiting, u))
             w == Cardinality(Nowhere(writing.callers, u))
  <2>1. a \in Nat /\ w \in Nat
    BY NowhereGrows DEF IInv, Inv
  <2>2. notices[u] + a + w <= calls
    BY DEF IInv, Inv, OneNoticePerCall
  <2>3. /\ notices[u] \in Nat /\ notices'[u] \in Nat /\ calls \in Nat /\ calls' \in Nat
        /\ notices'[u] <= notices[u]
    BY Types, Naturals DEF IInv, TypeOK
  <2>4. a = a /\ calls <= calls'
    BY <2>3
  <2> HIDE DEF a, w
  <2>5. notices'[u] + a + w <= calls'
    BY <2>1, <2>2, <2>3, <2>4, Budget
  <2> QED
    BY <2>5 DEF OneNoticePerCall, Nowhere, a, w
<1>3. Coming'
  BY DEF IInv, Inv, Coming
<1>4. Numbered'
  <2>1. calls \in Nat /\ \A c \in waiting \cup writing.callers : c.id \in Nat
    BY Types DEF IInv
  <2> QED
    BY <2>1 DEF IInv, Inv, Numbered
<1>5. IsFiniteSet(waiting') /\ IsFiniteSet(writing'.callers)
  BY DEF IInv, Inv
<1> QED
  BY <1>1, <1>2, <1>3, <1>4, <1>5 DEF IInv, Inv

LEMMA RemoveUnknownStep ==
  ASSUME IInv, NEW t \in Tokens, RemoveUnknown(t)
  PROVE  IInv'
<1>1. /\ Counted /\ lastAsked' = [lastAsked EXCEPT ![t] = calls']
      /\ promised' = [promised EXCEPT ![t] = "remove"]
      /\ UNCHANGED <<byToken, disk, writing, waiting, notices, telemetry, lastSwitch, failures,
                     restarts>>
  BY DEF RemoveUnknown, AppAsks
<1>2. calls' = calls + 1 /\ calls' \in 0 .. MaxCalls /\ calls' \in CallIds
  BY <1>1, CountedCall
<1>3. TypeOK'
  BY <1>1, <1>2 DEF IInv, TypeOK
<1>4. \A u \in Tokens : promised'[u] = "register" => promised[u] = "register"
  BY <1>1 DEF IInv, TypeOK
<1>5. ASSUME NEW c \in waiting \cup writing.callers, Current(c)'
      PROVE  Current(c)
  <2>1. c.token \in Tokens
    BY Types DEF IInv
  <2>2. /\ lastAsked'[t] = calls + 1 /\ lastSwitch' = lastSwitch
        /\ \A u \in Tokens \ {t} : lastAsked'[u] = lastAsked[u]
    BY <1>1, <1>2 DEF IInv, TypeOK
  <2> QED
    BY <1>5, <2>1, <2>2, OldCall DEF Current
<1>6. \A u \in Tokens : notices'[u] <= notices[u]
  BY <1>1, NoticesStay
<1> QED
  BY <1>1, <1>2, <1>3, <1>4, <1>5, <1>6, NothingWritten

LEMMA NoticeFailsStep ==
  ASSUME IInv, NEW t \in Tokens, notices[t] > 0, notices' = [notices EXCEPT ![t] = @ - 1],
         UNCHANGED <<byToken, disk, writing, waiting, answers, calls, failures, restarts>>
  PROVE  IInv'
<1>1. /\ \A u \in Tokens : notices'[u] <= notices[u]
      /\ notices' \in [Tokens -> 0 .. MaxCalls]
  BY NoticeGoes
<1>2. TypeOK'
  BY <1>1 DEF IInv, TypeOK, answers
<1>3. \A c \in waiting \cup writing.callers : Current(c)' => Current(c)
  BY DEF Current, answers
<1> QED
  BY <1>1, <1>2, <1>3, NothingWritten DEF answers

LEMMA NoticeArrivesStep ==
  ASSUME IInv, NEW t \in Tokens, NoticeArrives(t)
  PROVE  IInv'
<1>1. /\ notices[t] > 0 /\ notices' = [notices EXCEPT ![t] = @ - 1]
      /\ UNCHANGED <<answers, calls, failures, restarts>>
  BY DEF NoticeArrives
<1>2. CASE Has(t) /\ ~byToken[t].verified
  <2> DEFINE value == [byToken[t] EXCEPT !.verified = TRUE]
  <2>1. Persist(t, value, "internal", Nobody)
    BY <1>2 DEF NoticeArrives
  <2>2. /\ \A u \in Tokens : notices'[u] <= notices[u]
        /\ notices' \in [Tokens -> 0 .. MaxCalls]
    BY <1>1, NoticeGoes
  <2>3. value \in Registration /\ value.known /\ value.telemetry = byToken[t].telemetry
    BY <1>2 DEF Has, IInv, TypeOK, Store, Registration
  <2>4. /\ lastAsked' \in [Tokens -> CallIds] /\ lastSwitch' \in [Tokens -> CallIds]
        /\ promised' \in [Tokens -> {"none", "register", "remove"}]
        /\ telemetry' \in [Tokens -> {"none", "on", "off"}]
        /\ lastAsked' = lastAsked /\ lastSwitch' = lastSwitch
        /\ promised' = promised /\ telemetry' = telemetry
        /\ UNCHANGED <<failures, restarts>>
    BY <1>1 DEF IInv, TypeOK, answers
  <2>5. /\ calls' \in 0 .. MaxCalls /\ calls <= calls' /\ Nobody <= calls' /\ Nobody \in CallIds
    BY <1>1, Constants DEF IInv, TypeOK, CallIds, Nobody
  <2>6. /\ "internal" \in Ops /\ "internal" \notin RegisterOps \cup SwitchOps
    BY DEF Ops, RegisterOps, SwitchOps
  <2>7. ASSUME NEW c \in waiting \cup writing.callers, c.token = t, Current(c)'
        PROVE  Current(c) /\ Shows(value, c)
    <3>1. Current(c) /\ Shows(byToken[t], c)
      BY <2>4, <2>7 DEF Current, IInv, Inv, Coming
    <3> QED
      BY <2>3, <3>1 DEF Shows
  <2>8. ~Current(Call(t, "internal", Nobody))'
    BY <2>6 DEF Current, Call
  <2> HIDE DEF value
  <2> QED
    BY <2>1, <2>2, <2>3, <2>4, <2>5, <2>6, <2>7, <2>8, HandlerStep
<1>3. CASE ~(Has(t) /\ ~byToken[t].verified)
  <2>1. UNCHANGED <<byToken, disk, writing, waiting>>
    BY <1>3 DEF NoticeArrives
  <2> QED
    BY <1>1, <2>1, NoticeFailsStep
<1> QED
  BY <1>2, <1>3

-----------------------------------------------------------------------------
(* The steps of the file. The write takes what memory shows.                *)
LEMMA StartWriteStep ==
  ASSUME IInv, StartWrite
  PROVE  IInv'
<1>1. /\ writing' = [busy |-> TRUE, snapshot |-> byToken, callers |-> waiting]
      /\ waiting' = {} /\ ~writing.busy
      /\ UNCHANGED <<byToken, disk, notices, lastAsked, lastSwitch, promised, telemetry,
                     calls, failures, restarts>>
  BY DEF StartWrite, answers
<1>2. TypeOK'
  BY <1>1 DEF IInv, TypeOK
<1>3. ASSUME NEW u \in Tokens PROVE Kept(u)'
  BY <1>1 DEF IInv, Inv, Kept, Keeps
<1>4. ASSUME NEW u \in Tokens PROVE OneNoticePerCall(u)'
  <2> DEFINE a == Cardinality(Nowhere(waiting, u))
             w == Cardinality(Nowhere(writing.callers, u))
             z == Cardinality(Nowhere({}, u))
  <2>1. a \in Nat /\ w \in Nat
    BY NowhereGrows DEF IInv, Inv
  <2>2. notices[u] + a + w <= calls /\ notices[u] \in Nat /\ calls \in Nat
    BY Types DEF IInv, Inv, OneNoticePerCall
  <2>3. z = 0
    BY NobodyNowhere
  <2> HIDE DEF a, w, z
  <2>4. notices[u] + z + a <= calls
    BY <2>1, <2>2, <2>3
  <2>5. writing'.callers = waiting /\ waiting' = {} /\ notices' = notices /\ calls' = calls
    BY <1>1
  <2> QED
    BY <2>4, <2>5 DEF OneNoticePerCall, Nowhere, a, z
<1>5. Coming' /\ Numbered'
  BY <1>1 DEF IInv, Inv, Coming, Numbered, Current
<1>6. IsFiniteSet(waiting') /\ IsFiniteSet(writing'.callers)
  BY <1>1, NobodyNowhere DEF IInv, Inv
<1> QED
  BY <1>2, <1>3, <1>4, <1>5, <1>6 DEF IInv, Inv

(* A write is over, for good or bad: nobody waits for it any more.          *)
LEMMA WriteEnds ==
  ASSUME IInv, writing' = NoWrite, UNCHANGED <<byToken, waiting, lastAsked, lastSwitch, calls>>,
         TypeOK', \A u \in Tokens : Kept(u)',
         \A u \in Tokens : notices'[u] <= notices[u] + Cardinality(Nowhere(writing.callers, u))
  PROVE  IInv'
<1>1. ASSUME NEW u \in Tokens PROVE OneNoticePerCall(u)'
  <2> DEFINE a == Cardinality(Nowhere(waiting, u))
             w == Cardinality(Nowhere(writing.callers, u))
             z == Cardinality(Nowhere({}, u))
  <2>1. a \in Nat /\ w \in Nat
    BY NowhereGrows DEF IInv, Inv
  <2>2. notices[u] + a + w <= calls /\ notices[u] \in Nat /\ calls \in Nat
    BY Types DEF IInv, Inv, OneNoticePerCall
  <2>3. z = 0
    BY NobodyNowhere
  <2>4. notices'[u] \in Nat /\ notices'[u] <= notices[u] + w
    BY Naturals DEF TypeOK
  <2> HIDE DEF a, w, z
  <2>5. notices'[u] + a + z <= calls
    BY <2>1, <2>2, <2>3, <2>4
  <2>6. writing'.callers = {} /\ waiting' = waiting /\ calls' = calls
    BY Constants
  <2> QED
    BY <2>5, <2>6 DEF OneNoticePerCall, Nowhere, a, z
<1>2. Coming' /\ Numbered'
  BY Constants DEF IInv, Inv, Coming, Numbered, Current
<1>3. IsFiniteSet(waiting') /\ IsFiniteSet(writing'.callers)
  BY Constants, NobodyNowhere DEF IInv, Inv
<1> QED
  BY <1>1, <1>2, <1>3 DEF IInv, Inv

(* Whoever is answered finds it so in memory and in the write.              *)
LEMMA AnsweredShows ==
  ASSUME IInv, writing.busy, NEW t \in Tokens,
         NEW registration \in {byToken[t], writing.snapshot[t]}
  PROVE  /\ Answered(t) = "register" => registration.known
         /\ SwitchAnswered(t) \in {"on", "off"} =>
              registration.known /\ registration.telemetry = (SwitchAnswered(t) = "on")
         /\ Answered(t) \in {"none", "register", "remove"}
         /\ SwitchAnswered(t) \in {"none", "on", "off"}
<1>1. Keeps(registration, t)
  BY DEF IInv, Inv, Kept
<1>2. ASSUME NEW c \in writing.callers, c.token = t, Current(c)
      PROVE  Shows(registration, c)
  BY <1>2 DEF IInv, Inv, Coming
<1>3. registration.telemetry \in BOOLEAN
  BY DEF IInv, TypeOK, Store, Registration
<1>4. promised[t] \in {"none", "register", "remove"} /\ telemetry[t] \in {"none", "on", "off"}
  BY DEF IInv, TypeOK
<1>5. Answered(t) = "register" => registration.known
  <2>1. CASE \E sensors \in BOOLEAN :
               Call(t, RegisterOp(sensors), lastAsked[t]) \in writing.callers
    <3>1. PICK sensors \in BOOLEAN :
            Call(t, RegisterOp(sensors), lastAsked[t]) \in writing.callers
      BY <2>1
    <3>2. /\ Current(Call(t, RegisterOp(sensors), lastAsked[t]))
          /\ Call(t, RegisterOp(sensors), lastAsked[t]).token = t
      BY DEF Current, Call, RegisterOp, RegisterOps
    <3> QED
      BY <1>2, <3>1, <3>2 DEF Shows
  <2>2. CASE ~\E sensors \in BOOLEAN :
               Call(t, RegisterOp(sensors), lastAsked[t]) \in writing.callers
    BY <1>1, <2>2 DEF Answered, Keeps
  <2> QED
    BY <2>1, <2>2
<1>6. ASSUME SwitchAnswered(t) \in {"on", "off"}
      PROVE  registration.known /\ registration.telemetry = (SwitchAnswered(t) = "on")
  <2> DEFINE c == Call(t, "telemetry on", lastSwitch[t])
             d == Call(t, "telemetry off", lastSwitch[t])
  <2>1. CASE c \in writing.callers
    <3>1. Current(c) /\ c.token = t /\ c.op = "telemetry on" /\ SwitchAnswered(t) = "on"
      BY <2>1 DEF Current, Call, SwitchOps, SwitchAnswered
    <3>2. registration.known /\ registration.telemetry
      BY <1>2, <2>1, <3>1 DEF Shows
    <3> QED
      BY <1>3, <3>1, <3>2
  <2>2. CASE c \notin writing.callers /\ d \in writing.callers
    <3>1. Current(d) /\ d.token = t /\ d.op = "telemetry off" /\ SwitchAnswered(t) = "off"
      BY <2>2 DEF Current, Call, SwitchOps, SwitchAnswered
    <3>2. registration.known /\ ~registration.telemetry
      BY <1>2, <2>2, <3>1 DEF Shows
    <3> QED
      BY <1>3, <3>1, <3>2
  <2>3. CASE c \notin writing.callers /\ d \notin writing.callers
    <3>1. SwitchAnswered(t) = telemetry[t]
      BY <2>3 DEF SwitchAnswered
    <3> QED
      BY <1>1, <1>6, <3>1 DEF Keeps
  <2> QED
    BY <2>1, <2>2, <2>3
<1>7. Answered(t) \in {"none", "register", "remove"}
  BY <1>4 DEF Answered
<1>8. SwitchAnswered(t) \in {"none", "on", "off"}
  BY <1>4 DEF SwitchAnswered
<1> QED
  BY <1>5, <1>6, <1>7, <1>8

LEMMA WriteDoneStep ==
  ASSUME IInv, WriteDone
  PROVE  IInv'
<1>1. /\ writing.busy /\ disk' = writing.snapshot /\ writing' = NoWrite
      /\ promised' = [t \in Tokens |-> Answered(t)]
      /\ telemetry' = [t \in Tokens |-> SwitchAnswered(t)]
      /\ notices' = [t \in Tokens |-> notices[t] + NoCoverageNotices(t)]
      /\ UNCHANGED <<byToken, waiting, lastAsked, lastSwitch, calls, failures, restarts>>
  BY DEF WriteDone
<1>2. ASSUME NEW u \in Tokens
      PROVE  /\ notices'[u] \in 0 .. MaxCalls
             /\ notices'[u] <= notices[u] + Cardinality(Nowhere(writing.callers, u))
  <2> DEFINE a == Cardinality(Nowhere(waiting, u))
             w == Cardinality(Nowhere(writing.callers, u))
  <2>1. a \in Nat /\ w \in Nat
    BY NowhereGrows DEF IInv, Inv
  <2>2. notices[u] + a + w <= calls /\ notices[u] \in Nat /\ calls \in Nat
    BY Types DEF IInv, Inv, OneNoticePerCall
  <2>3. calls <= MaxCalls /\ MaxCalls \in Nat
    BY Constants DEF IInv, TypeOK
  <2>4. NoCoverageNotices(u) = 0 \/ NoCoverageNotices(u) = w
    BY DEF NoCoverageNotices, Nowhere
  <2>5. notices'[u] = notices[u] + NoCoverageNotices(u)
    BY <1>1
  <2> HIDE DEF a, w
  <2>6. notices'[u] \in 0 .. MaxCalls /\ notices'[u] <= notices[u] + w
    BY <2>1, <2>2, <2>3, <2>4, <2>5
  <2> QED
    BY <2>6 DEF w
<1>3. /\ promised' \in [Tokens -> {"none", "register", "remove"}]
      /\ telemetry' \in [Tokens -> {"none", "on", "off"}]
  BY <1>1, AnsweredShows
<1>4. notices' \in [Tokens -> 0 .. MaxCalls]
  BY <1>1, <1>2
<1>5. TypeOK'
  BY <1>1, <1>3, <1>4, Constants DEF IInv, TypeOK
<1>6. ASSUME NEW u \in Tokens PROVE Kept(u)'
  <2>1. promised'[u] = Answered(u) /\ telemetry'[u] = SwitchAnswered(u)
    BY <1>1
  <2>2. ASSUME NEW registration \in {byToken[u], writing.snapshot[u]}
        PROVE  /\ promised'[u] = "register" => registration.known
               /\ telemetry'[u] \in {"on", "off"} =>
                    registration.known /\ registration.telemetry = (telemetry'[u] = "on")
    BY <1>1, <2>1, <2>2, AnsweredShows
  <2>3. Keeps(byToken[u], u)' /\ Keeps(disk[u], u)'
    BY <1>1, <2>2 DEF Keeps
  <2> QED
    BY <1>1, <2>3, Constants DEF Kept
<1> QED
  BY <1>1, <1>2, <1>5, <1>6, WriteEnds

(* A write that fails leaves what was there.                                *)
LEMMA WriteFailsStep ==
  ASSUME IInv, WriteFails
  PROVE  IInv'
<1>1. /\ writing' = NoWrite /\ failures < MaxFailures /\ failures' = failures + 1
      /\ UNCHANGED <<byToken, disk, waiting, notices, lastAsked, lastSwitch, promised, telemetry,
                     calls, restarts>>
  BY DEF WriteFails, answers
<1>2. failures' \in 0 .. MaxFailures
  BY <1>1, Constants DEF IInv, TypeOK
<1>3. TypeOK'
  BY <1>1, <1>2, Constants DEF IInv, TypeOK
<1>4. ASSUME NEW u \in Tokens PROVE Kept(u)'
  BY <1>1, Constants DEF IInv, Inv, Kept, Keeps
<1>5. ASSUME NEW u \in Tokens
      PROVE  notices'[u] <= notices[u] + Cardinality(Nowhere(writing.callers, u))
  <2>1. notices[u] \in Nat /\ Cardinality(Nowhere(writing.callers, u)) \in Nat
    BY Types, NowhereGrows DEF IInv, Inv
  <2> QED
    BY <1>1, <2>1
<1> QED
  BY <1>1, <1>3, <1>4, <1>5, WriteEnds

(* After a death the file is all there is.                                  *)
LEMMA RestartStep ==
  ASSUME IInv, Restart
  PROVE  IInv'
<1>1. /\ restarts < MaxRestarts /\ restarts' = restarts + 1
      /\ byToken' = disk /\ writing' = NoWrite /\ waiting' = {}
      /\ notices' = [t \in Tokens |-> 0]
      /\ UNCHANGED <<disk, lastAsked, lastSwitch, promised, telemetry, calls, failures>>
  BY DEF Restart, answers
<1>2. restarts' \in 0 .. MaxRestarts /\ notices' \in [Tokens -> 0 .. MaxCalls]
  BY <1>1, Constants DEF IInv, TypeOK
<1>3. TypeOK'
  BY <1>1, <1>2, Constants DEF IInv, TypeOK
<1>4. ASSUME NEW u \in Tokens PROVE Kept(u)'
  BY <1>1, Constants DEF IInv, Inv, Kept, Keeps
<1>5. ASSUME NEW u \in Tokens PROVE OneNoticePerCall(u)'
  <2>1. Cardinality(Nowhere({}, u)) = 0 /\ calls \in Nat
    BY NobodyNowhere, Types DEF IInv
  <2>2. writing'.callers = {} /\ waiting' = {} /\ notices'[u] = 0 /\ calls' = calls
    BY <1>1, Constants
  <2>3. Nowhere(waiting', u) = Nowhere({}, u) /\ Nowhere(writing'.callers, u) = Nowhere({}, u)
    BY <2>2
  <2>4. notices'[u] + Cardinality(Nowhere(waiting', u)) + Cardinality(Nowhere(writing'.callers, u))
          <= calls'
    BY <2>1, <2>2, <2>3
  <2> QED
    BY <2>4 DEF OneNoticePerCall, Nowhere
<1>6. Coming' /\ Numbered'
  BY <1>1, Constants DEF Coming, Numbered
<1>7. IsFiniteSet(waiting') /\ IsFiniteSet(writing'.callers)
  BY <1>1, Constants, NobodyNowhere
<1> QED
  BY <1>3, <1>4, <1>5, <1>6, <1>7 DEF IInv, Inv

-----------------------------------------------------------------------------
LEMMA NextIInv == IInv /\ [Next]_vars => IInv'
<1> SUFFICES ASSUME IInv, [Next]_vars PROVE IInv'
  OBVIOUS
<1>1. ASSUME NEW t \in Tokens, NEW sensors \in BOOLEAN, Register(t, sensors) PROVE IInv'
  BY <1>1, RegisterStep
<1>2. ASSUME NEW t \in Tokens, Remove(t) PROVE IInv'
  BY <1>2, RemoveStep
<1>3. ASSUME NEW t \in Tokens, RemoveUnknown(t) PROVE IInv'
  BY <1>3, RemoveUnknownStep
<1>4. ASSUME NEW t \in Tokens, Cleanup(t) PROVE IInv'
  BY <1>4, CleanupStep
<1>5. ASSUME NEW t \in Tokens, NEW on \in BOOLEAN, SwitchTelemetry(t, on) PROVE IInv'
  BY <1>5, SwitchTelemetryStep
<1>6. ASSUME NEW t \in Tokens, NoticeArrives(t) PROVE IInv'
  BY <1>6, NoticeArrivesStep
<1>7. ASSUME NEW t \in Tokens, NoticeFails(t) PROVE IInv'
  BY <1>7, NoticeFailsStep DEF NoticeFails
<1>8. CASE StartWrite
  BY <1>8, StartWriteStep
<1>9. CASE WriteDone
  BY <1>9, WriteDoneStep
<1>10. CASE WriteFails
  BY <1>10, WriteFailsStep
<1>11. CASE Restart
  BY <1>11, RestartStep
<1>12. CASE UNCHANGED vars
  BY <1>12 DEF vars, IInv, Inv, TypeOK, Kept, Keeps, OneNoticePerCall, Nowhere, Coming, Current,
               Numbered
<1> QED
  BY <1>1, <1>2, <1>3, <1>4, <1>5, <1>6, <1>7, <1>8, <1>9, <1>10, <1>11, <1>12 DEF Next

LEMMA SpecIInv == Spec => []IInv
BY InitIInv, NextIInv, PTL DEF Spec

(* Memory, file, the running write and the callers are what the handlers    *)
(* of POST and DELETE /devices take them for, and the notices of a phone    *)
(* never outnumber the calls.                                               *)
THEOREM DevicesTyped == Spec => []TypeOK
<1>1. IInv => TypeOK
  BY DEF IInv
<1> QED
  BY <1>1, SpecIInv, PTL

(* A phone that was answered 201, and asked nothing since, is registered in *)
(* memory and on disk, whatever writes failed, overlapped or were cut off   *)
(* by a restart meanwhile.                                                  *)
THEOREM AnsweredRegistrationIsKept == Spec => []RegisteredIsKept
<1>1. IInv => RegisteredIsKept
  BY DEF IInv, Inv, Kept, Keeps, RegisteredIsKept, Has
<1> QED
  BY <1>1, SpecIInv, PTL

(* An opt-in or opt-out that the monitor was answered 200 holds in memory   *)
(* and on disk through every registration of the same token by its app.     *)
THEOREM AnsweredTelemetryIsKept == Spec => []TelemetryIsKept
<1>1. IInv => TelemetryIsKept
  BY DEF IInv, Inv, Kept, Keeps, TelemetryIsKept, Has
<1> QED
  BY <1>1, SpecIInv, PTL
=============================================================================
