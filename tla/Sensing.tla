------------------------------- MODULE Sensing -------------------------------
(***************************************************************************)
(* The Sensing Service (src/domain/sensing.cpp): one step() reads the next *)
(* ToF sensor of the rotation and, when its service is due, the AS5600,    *)
(* records the outcomes in the sensors' snapshots, asks for a recovery of  *)
(* a stuck bus and brings ages and freshness up to date.                   *)
(*                                                                         *)
(* A step happens gap milliseconds after the one before.  Times are kept   *)
(* relative to the last step: an age stops at the freshness budget it is   *)
(* compared with, the streak counters at their thresholds.  Readings are   *)
(* data and left out; "NoAck" stands for Short too, which is handled alike.*)
(*                                                                         *)
(* The operators named Bug... are faulty variants of the definition that   *)
(* follows them; no specification uses them.                               *)
(***************************************************************************)
EXTENDS Integers, Sequences

CONSTANTS
    Tof,                \* the ToF sensors in the order of the rotation
    As5600,
    Fresh,              \* tof_fresh_ms or as5600_fresh_ms of a sensor
    FaultThreshold,     \* fault_threshold
    RecoverySuccesses,  \* recovery_successes
    ServiceMs,          \* as5600_service_ms
    CooldownMs,         \* recovery_cooldown_ms
    MaxGap              \* bound on the time between two steps

Tofs == {Tof[i] : i \in 1 .. Len(Tof)}
Sensor == Tofs \cup {As5600}

ASSUME SensorAssumption ==
    /\ Tof \in Seq(Tofs) /\ Len(Tof) > 0
    /\ As5600 \notin Tofs
ASSUME ConfigAssumption ==
    /\ Fresh \in [Sensor -> Nat \ {0}]
    /\ FaultThreshold \in Nat \ {0}
    /\ RecoverySuccesses \in Nat \ {0}
    /\ ServiceMs \in Nat \ {0} /\ CooldownMs \in Nat \ {0} /\ MaxGap \in Nat \ {0}

HealthState == {"Starting", "Healthy", "Degraded", "Faulted", "Recovering"}
SensorFault == {"None", "Transport", "Stale"}
ReadResult == {"Ok", "NoAck", "Busy", "Stuck"}
Failure == {"NoAck", "Stuck"}
Skipped == "Skipped"

VARIABLES
    snap,      \* m_snapshots
    rr,        \* the sensor whose turn it is: m_rr_index modulo their number
    service,   \* time left until m_next_as5600_ms
    cool,      \* time left until recover() is allowed
    attempt    \* what the last step read: a result by sensor, or Skipped

vars == <<snap, rr, service, cool, attempt>>

AtMost(n, bound) == IF n < bound THEN n ELSE bound

Left(t, d) == IF t > d THEN t - d ELSE 0

Snapshot ==
    [sampled : BOOLEAN, age : Nat, state : HealthState, fault : SensorFault,
     failures : 0 .. FaultThreshold, successes : 0 .. RecoverySuccesses]

----------------------------------------------------------------------------
\* A success leaves the count of failures as it was.
BugSuccessKeepsFailures(s) ==
    [s EXCEPT
      !.sampled = TRUE, !.age = 0, !.fault = "None",
      !.successes = AtMost(s.successes + 1, RecoverySuccesses),
      !.state = IF s.state \in {"Faulted", "Recovering"}
                     /\ s.successes + 1 < RecoverySuccesses
                THEN "Recovering" ELSE "Healthy"]

RecordSuccess(s) ==
    [sampled |-> TRUE, age |-> 0, fault |-> "None", failures |-> 0,
     successes |-> AtMost(s.successes + 1, RecoverySuccesses),
     state |-> IF s.state \in {"Faulted", "Recovering"}
                    /\ s.successes + 1 < RecoverySuccesses
               THEN "Recovering" ELSE "Healthy"]

RecordFailure(s) ==
    [s EXCEPT
      !.fault = "Transport",
      !.successes = 0,
      !.failures = AtMost(s.failures + 1, FaultThreshold),
      !.state = IF \/ s.state \in {"Faulted", "Recovering"}
                   \/ s.failures + 1 >= FaultThreshold
                THEN "Faulted"
                ELSE IF s.sampled THEN "Degraded" ELSE "Starting"]

\* The branches of step() on the result of a read; Busy skips the slot.
Recorded(s, result) ==
    CASE result = "Ok" -> RecordSuccess(s)
      [] result \in Failure -> RecordFailure(s)
      [] OTHER -> s

Older(s, id, gap) == [s EXCEPT !.age = AtMost(s.age + gap, Fresh[id])]

\* Losing freshness starts the count of failures anew.
BugStaleForgets(s, id) ==
    IF ~s.sampled \/ s.age < Fresh[id] THEN s
    ELSE [s EXCEPT !.state = "Degraded", !.failures = 0]

\* refresh_freshness() for one sensor.
Refreshed(s, id) ==
    IF ~s.sampled \/ s.age < Fresh[id] THEN s
    ELSE IF s.failures >= FaultThreshold
    THEN [s EXCEPT !.state = "Faulted", !.fault = "Stale"]
    ELSE [s EXCEPT !.state = "Degraded"]

\* The sensors a step reads after a gap.
Reads(gap) == {Tof[rr]} \cup (IF service <= gap THEN {As5600} ELSE {})

\* What each sensor answered to the step.
Attempt(result) ==
    [id \in Sensor |-> IF id \in DOMAIN result THEN result[id] ELSE Skipped]

\* schedule_recovery() calls recover() unless the cooldown runs.  A second
\* request in the same step finds it running.
CallsRecover(gap, result) ==
    /\ \E id \in DOMAIN result : result[id] = "Stuck"
    /\ cool <= gap

Cooling(gap, result) ==
    IF CallsRecover(gap, result) THEN CooldownMs ELSE Left(cool, gap)

\* The rotation leaves out the last sensor.
BugNextTof(r) == IF r + 1 < Len(Tof) THEN r + 1 ELSE 1

NextTof(r) == (r % Len(Tof)) + 1

Step(gap, result) ==
    /\ snap' = [id \in Sensor |->
                  Refreshed(Recorded(Older(snap[id], id, gap), Attempt(result)[id]), id)]
    /\ rr' = NextTof(rr)
    /\ service' = IF service <= gap THEN ServiceMs ELSE service - gap
    /\ cool' = Cooling(gap, result)
    /\ attempt' = Attempt(result)

Init ==
    /\ snap = [id \in Sensor |->
                 [sampled |-> FALSE, age |-> 0, state |-> "Starting",
                  fault |-> "None", failures |-> 0, successes |-> 0]]
    /\ rr = 1
    /\ service = 0
    /\ cool = 0
    /\ attempt = [id \in Sensor |-> Skipped]

Next ==
    \E gap \in 1 .. MaxGap : \E result \in [Reads(gap) -> ReadResult] :
        Step(gap, result)

Spec == Init /\ [][Next]_vars

\* schedule_tick() re-arms itself for ever (StepsRun of Kernel).
FairSpec == Spec /\ WF_vars(Next)

----------------------------------------------------------------------------
\* Properties.

\* Every variable has its type and the streak counters their bounds.
TypeOK ==
    /\ snap \in [Sensor -> Snapshot]
    /\ rr \in 1 .. Len(Tof)
    /\ service \in Nat
    /\ cool \in Nat
    /\ attempt \in [Sensor -> ReadResult \cup {Skipped}]

\* The health state the Safety Authority and the diagnostics read agrees with
\* the sample and the streaks it is derived from, although record_success,
\* record_failure and refresh_freshness each overwrite it: a Healthy or
\* Recovering sensor has a fresh sample and no failure since, a Faulted one
\* failures and no success since, a Starting one no sample.
HealthHonest ==
    \A id \in Sensor :
        /\ snap[id].state \in {"Healthy", "Recovering"} =>
              /\ snap[id].sampled /\ snap[id].age < Fresh[id]
              /\ snap[id].failures = 0 /\ snap[id].successes > 0
        /\ snap[id].state = "Recovering" => snap[id].successes < RecoverySuccesses
        /\ snap[id].state = "Faulted" =>
              /\ snap[id].failures > 0 /\ snap[id].successes = 0
              /\ snap[id].fault # "None"
        /\ snap[id].state = "Starting" =>
              ~snap[id].sampled /\ snap[id].failures < FaultThreshold
        /\ snap[id].failures >= FaultThreshold => snap[id].state = "Faulted"

Failed(id) == attempt[id] \in Failure

\* A sensor becomes Faulted only in a step in which its own read failed:
\* neither time alone, a skipped slot nor another sensor's stuck bus does it.
FaultByFailure ==
    [][\A id \in Sensor :
         snap[id].state # "Faulted" /\ snap'[id].state = "Faulted" =>
             Failed(id)']_vars

\* When every read succeeds from some time on, every sensor becomes Healthy
\* and stays so: the rotation and the AS5600 service come round before a
\* sample is stale.
GoodIsHealthy ==
    (<>[]\A id \in Sensor : attempt[id] \in {"Ok", Skipped}) =>
        <>[]\A id \in Sensor : snap[id].state = "Healthy"

\* A sensor whose reads all fail from some time on ends up Faulted for good:
\* staleness does not turn it back to Degraded.
DeadIsFaulted ==
    \A id \in Sensor :
        <>[](Failed(id) \/ attempt[id] = Skipped) =>
            <>[](snap[id].state = "Faulted")
=============================================================================
