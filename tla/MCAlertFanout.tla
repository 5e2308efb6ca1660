---------------------------- MODULE MCAlertFanout ----------------------------
(* TLC instances of AlertFanout. Time is in steps of about two and a half   *)
(* minutes for the expiry and the id memory.                                *)
EXTENDS AlertFanout, TLC

CONSTANTS e1, e2, s1, s2, t1, t2, p1, p2

(* Two sensors report one quake, their origins one step, the window, apart. *)
PairSensorOf == (e1 :> s1) @@ (e2 :> s2)
PairOriginOf == (e1 :> 0) @@ (e2 :> 1)
PairExpiryOf == (e1 :> 2) @@ (e2 :> 3)

(* One sensor reports twice, the second time without an origin.             *)
RepeatSensorOf == (e1 :> s1) @@ (e2 :> s1)
RepeatOriginOf == (e1 :> 0) @@ (e2 :> NoOrigin)
RepeatExpiryOf == (e1 :> 2) @@ (e2 :> 2)

SingleSensorOf == e1 :> s1
SingleOriginOf == e1 :> 0
SingleExpiryOf == e1 :> 2

ProductionOnly == [t \in Tokens |-> "production"]
SandboxOnly == [t \in Tokens |-> "sandbox"]
=============================================================================
