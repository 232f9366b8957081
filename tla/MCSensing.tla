----------------------------- MODULE MCSensing -----------------------------
(* An instance of Sensing for TLC: two ToF sensors and the AS5600, whose    *)
(* rotation and service take at most one time unit less than the budget.   *)
EXTENDS Sensing, TLC

CONSTANTS reverse, forward, angle

MCTof == <<reverse, forward>>
MCFresh == (reverse :> 5) @@ (forward :> 5) @@ (angle :> 5)
=============================================================================
