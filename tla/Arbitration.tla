---------------------------- MODULE Arbitration ----------------------------
(***************************************************************************)
(* The arbitration funnel: every actuator intent passes through apply(),   *)
(* and a single current intent comes out (src/domain/arbitration.h,        *)
(* src/domain/safety_intent.h).  A funnel is a record: the current intent  *)
(* and whether any intent was installed since the last reset.  The         *)
(* setpoint of an intent is zero or not; sequence numbers are left out.    *)
(***************************************************************************)
EXTENDS Naturals

IntentSource == {"Activity", "Safety"}
IntentKind == {"VelocitySetpoint", "Stop", "ForceStop", "Lift"}
StopProfile == {"Controlled", "Immediate", "ForceStop"}
Velocity == {0, 1}

Intent ==
    [kind : IntentKind, source : IntentSource,
     profile : StopProfile, velocity : Velocity]

Funnel == [current : Intent, active : BOOLEAN]

DefaultIntent ==
    [kind |-> "VelocitySetpoint", source |-> "Activity",
     profile |-> "Controlled", velocity |-> 0]

IsStop(i) == i.kind \in {"Stop", "ForceStop"}

IntentMotion(i) == i.kind \in {"VelocitySetpoint", "Lift"}

\* SAFETY_STOP > SAFETY_MOTION > ACTIVITY_INTENT.
Rank(i) ==
    CASE i.source = "Safety" /\ i.kind = "ForceStop" -> 4
      [] i.source = "Safety" /\ i.kind = "Stop" -> 3
      [] i.source = "Safety" /\ IntentMotion(i) -> 2
      [] i.source = "Activity" -> 1

IntentPreempts(candidate, current) ==
    \/ Rank(candidate) > Rank(current)
    \/ Rank(candidate) = Rank(current) /\ candidate.kind = current.kind

\* A stop replaces whatever is not a stop; otherwise the order decides.
Apply(funnel, candidate) ==
    IF \/ IsStop(candidate) /\ ~IsStop(funnel.current)
       \/ IntentPreempts(candidate, funnel.current)
    THEN [current |-> candidate, active |-> TRUE]
    ELSE funnel

ResetFunnel == [current |-> DefaultIntent, active |-> FALSE]
=============================================================================
