--------------------------- MODULE SensingProofs ---------------------------
(***************************************************************************)
(* Proofs about Sensing, for any sensors, budgets, thresholds and gaps     *)
(* between steps.                                                          *)
(***************************************************************************)
EXTENDS Sensing, TLAPS

\* HealthHonest for one snapshot.
Honest(s, id) ==
    /\ s.state \in {"Healthy", "Recovering"} =>
          /\ s.sampled /\ s.age < Fresh[id]
          /\ s.failures = 0 /\ s.successes > 0
    /\ s.state = "Recovering" => s.successes < RecoverySuccesses
    /\ s.state = "Faulted" =>
          /\ s.failures > 0 /\ s.successes = 0
          /\ s.fault # "None"
    /\ s.state = "Starting" => ~s.sampled /\ s.failures < FaultThreshold
    /\ s.failures >= FaultThreshold => s.state = "Faulted"

\* Between the recording of a read and refresh_freshness() a Healthy or
\* Recovering sensor may have a stale sample.
AlmostHonest(s) ==
    /\ s.state \in {"Healthy", "Recovering"} =>
          s.sampled /\ s.failures = 0 /\ s.successes > 0
    /\ s.state = "Recovering" => s.successes < RecoverySuccesses
    /\ s.state = "Faulted" =>
          /\ s.failures > 0 /\ s.successes = 0
          /\ s.fault # "None"
    /\ s.state = "Starting" => ~s.sampled /\ s.failures < FaultThreshold
    /\ s.failures >= FaultThreshold => s.state = "Faulted"

IInv == TypeOK /\ HealthHonest

LEMMA OlderHonest ==
  ASSUME NEW id \in Sensor, NEW s \in Snapshot, Honest(s, id),
         NEW gap \in 1 .. MaxGap
  PROVE  LET t == Older(s, id, gap)
         IN  t \in Snapshot /\ AlmostHonest(t) /\ t.state = s.state
<1>1. Fresh[id] \in Nat /\ gap \in Nat
  BY ConfigAssumption
<1>2. AtMost(s.age + gap, Fresh[id]) \in Nat
  BY <1>1 DEF AtMost, Snapshot
<1> QED
  BY <1>2 DEF Older, Snapshot, Honest, AlmostHonest

LEMMA SuccessHonest ==
  ASSUME NEW s \in Snapshot, AlmostHonest(s)
  PROVE  /\ RecordSuccess(s) \in Snapshot
         /\ AlmostHonest(RecordSuccess(s))
         /\ RecordSuccess(s).state # "Faulted"
<1>1. s.successes \in 0 .. RecoverySuccesses /\ RecoverySuccesses \in Nat \ {0}
      /\ FaultThreshold \in Nat \ {0}
  BY ConfigAssumption DEF Snapshot
<1> DEFINE n == AtMost(s.successes + 1, RecoverySuccesses)
           w == IF s.state \in {"Faulted", "Recovering"}
                     /\ s.successes + 1 < RecoverySuccesses
                THEN "Recovering" ELSE "Healthy"
<1>2. /\ n \in 0 .. RecoverySuccesses /\ n > 0
      /\ w \in {"Healthy", "Recovering"}
      /\ w = "Recovering" => n < RecoverySuccesses
  BY <1>1 DEF AtMost
<1>3. RecordSuccess(s) =
        [sampled |-> TRUE, age |-> 0, fault |-> "None", failures |-> 0,
         successes |-> n, state |-> w]
  BY DEF RecordSuccess
<1> HIDE DEF n, w
<1> QED
  BY <1>1, <1>2, <1>3 DEF Snapshot, AlmostHonest, HealthState, SensorFault

LEMMA FailureHonest ==
  ASSUME NEW s \in Snapshot, AlmostHonest(s)
  PROVE  RecordFailure(s) \in Snapshot /\ AlmostHonest(RecordFailure(s))
<1>1. s.failures \in 0 .. FaultThreshold /\ RecoverySuccesses \in Nat \ {0}
      /\ FaultThreshold \in Nat \ {0}
  BY ConfigAssumption DEF Snapshot
<1> DEFINE n == AtMost(s.failures + 1, FaultThreshold)
           w == IF \/ s.state \in {"Faulted", "Recovering"}
                   \/ s.failures + 1 >= FaultThreshold
                THEN "Faulted"
                ELSE IF s.sampled THEN "Degraded" ELSE "Starting"
<1>2. /\ n \in 0 .. FaultThreshold /\ n > 0
      /\ w \in {"Faulted", "Degraded", "Starting"}
      /\ n >= FaultThreshold => w = "Faulted"
      /\ w = "Starting" => ~s.sampled /\ n < FaultThreshold
  BY <1>1 DEF AtMost
<1>3. RecordFailure(s) =
        [s EXCEPT !.fault = "Transport", !.successes = 0,
                  !.failures = n, !.state = w]
  BY DEF RecordFailure
<1> HIDE DEF n, w
<1> DEFINE t == RecordFailure(s)
<1>4. /\ t.sampled = s.sampled /\ t.fault = "Transport" /\ t.successes = 0
      /\ t.failures = n /\ t.state = w
  BY <1>3 DEF Snapshot
<1>5. t \in Snapshot
  <2>1. w \in HealthState /\ "Transport" \in SensorFault /\ 0 \in 0 .. RecoverySuccesses
    BY <1>1, <1>2 DEF HealthState, SensorFault
  <2> QED
    BY <1>2, <1>3, <2>1 DEF Snapshot
<1> HIDE DEF t
<1>6. AlmostHonest(t)
  BY <1>1, <1>2, <1>4 DEF AlmostHonest
<1> QED
  BY <1>5, <1>6 DEF t

\* Recording an answer keeps the snapshot consistent but for its freshness and
\* makes it Faulted only when the answer is a failure.
LEMMA RecordedHonest ==
  ASSUME NEW s \in Snapshot, AlmostHonest(s),
         NEW result \in ReadResult \cup {Skipped}
  PROVE  /\ Recorded(s, result) \in Snapshot
         /\ AlmostHonest(Recorded(s, result))
         /\ Recorded(s, result).state = "Faulted" =>
               s.state = "Faulted" \/ result \in Failure
<1>1. CASE result = "Ok"
  <2>1. Recorded(s, result) = RecordSuccess(s)
    BY <1>1 DEF Recorded, Failure
  <2>2. /\ RecordSuccess(s) \in Snapshot /\ AlmostHonest(RecordSuccess(s))
        /\ RecordSuccess(s).state # "Faulted"
    BY SuccessHonest
  <2> QED
    BY <2>1, <2>2
<1>2. CASE result \in Failure
  <2>1. Recorded(s, result) = RecordFailure(s)
    BY <1>2 DEF Recorded, Failure
  <2> QED
    BY <1>2, <2>1, FailureHonest
<1>3. CASE result # "Ok" /\ result \notin Failure
  BY <1>3 DEF Recorded
<1> QED
  BY <1>1, <1>2, <1>3

\* refresh_freshness() completes the consistency and faults nobody.
LEMMA RefreshedHonest ==
  ASSUME NEW id \in Sensor, NEW s \in Snapshot, AlmostHonest(s)
  PROVE  /\ Refreshed(s, id) \in Snapshot
         /\ Honest(Refreshed(s, id), id)
         /\ Refreshed(s, id).state = "Faulted" => s.state = "Faulted"
<1>1. /\ Fresh[id] \in Nat /\ s.age \in Nat
      /\ FaultThreshold \in Nat /\ s.failures \in Nat
  BY ConfigAssumption DEF Snapshot
<1>2. CASE ~s.sampled
  BY <1>1, <1>2 DEF Refreshed, Honest, AlmostHonest
<1>3. CASE s.sampled /\ s.age < Fresh[id]
  BY <1>1, <1>3 DEF Refreshed, Honest, AlmostHonest
<1>4. CASE s.sampled /\ ~(s.age < Fresh[id]) /\ s.failures >= FaultThreshold
  <2>1. Refreshed(s, id) = [s EXCEPT !.state = "Faulted", !.fault = "Stale"]
    BY <1>4 DEF Refreshed
  <2> QED
    BY <1>1, <1>4, <2>1
       DEF Snapshot, Honest, AlmostHonest, HealthState, SensorFault
<1>5. CASE s.sampled /\ ~(s.age < Fresh[id]) /\ ~(s.failures >= FaultThreshold)
  <2>1. Refreshed(s, id) = [s EXCEPT !.state = "Degraded"]
    BY <1>5 DEF Refreshed
  <2> QED
    BY <1>1, <1>5, <2>1 DEF Snapshot, Honest, AlmostHonest, HealthState
<1> QED
  BY <1>1, <1>2, <1>3, <1>4, <1>5 DEF Snapshot

----------------------------------------------------------------------------

LEMMA HonestSnapshots == HealthHonest <=> \A id \in Sensor : Honest(snap[id], id)
BY DEF HealthHonest, Honest

LEMMA InitHonest == Init => IInv
<1> SUFFICES ASSUME Init PROVE IInv
  OBVIOUS
<1>1. Len(Tof) \in Nat /\ Len(Tof) > 0
  BY SensorAssumption
<1>2. \A id \in Sensor : snap[id] \in Snapshot /\ Honest(snap[id], id)
  BY ConfigAssumption DEF Init, Snapshot, Honest, HealthState, SensorFault
<1>3. snap \in [Sensor -> Snapshot]
  BY <1>2 DEF Init
<1>4. TypeOK
  BY <1>1, <1>3 DEF Init, TypeOK
<1> QED
  BY <1>2, <1>4, HonestSnapshots DEF IInv

\* What a step does to each sensor.
LEMMA StepHonest ==
  ASSUME IInv, NEW gap \in 1 .. MaxGap, NEW result \in [Reads(gap) -> ReadResult],
         Step(gap, result), NEW id \in Sensor
  PROVE  /\ snap'[id] \in Snapshot
         /\ Honest(snap'[id], id)
         /\ attempt'[id] \in ReadResult \cup {Skipped}
         /\ snap'[id].state = "Faulted" => snap[id].state = "Faulted" \/ Failed(id)'
<1>1. snap[id] \in Snapshot /\ Honest(snap[id], id)
  BY HonestSnapshots DEF IInv, TypeOK
<1> DEFINE a == Attempt(result)[id]
           old == Older(snap[id], id, gap)
           rec == Recorded(old, a)
<1>2. a \in ReadResult \cup {Skipped}
  BY DEF Attempt
<1>3. old \in Snapshot /\ AlmostHonest(old) /\ old.state = snap[id].state
  BY <1>1, OlderHonest
<1>4. snap'[id] = Refreshed(rec, id) /\ attempt'[id] = a
  BY DEF Step, Attempt
<1> HIDE DEF a, old
<1>5. /\ rec \in Snapshot /\ AlmostHonest(rec)
      /\ rec.state = "Faulted" => old.state = "Faulted" \/ a \in Failure
  BY <1>2, <1>3, RecordedHonest
<1> HIDE DEF rec
<1>6. /\ Refreshed(rec, id) \in Snapshot /\ Honest(Refreshed(rec, id), id)
      /\ Refreshed(rec, id).state = "Faulted" => rec.state = "Faulted"
  BY <1>5, RefreshedHonest
<1> QED
  BY <1>2, <1>3, <1>4, <1>5, <1>6 DEF Failed

LEMMA StepType ==
  ASSUME IInv, NEW gap \in 1 .. MaxGap, NEW result \in [Reads(gap) -> ReadResult],
         Step(gap, result)
  PROVE  IInv'
<1>1. Len(Tof) \in Nat /\ Len(Tof) > 0
  BY SensorAssumption
<1>2. rr' \in 1 .. Len(Tof)
  BY <1>1 DEF Step, NextTof, IInv, TypeOK
<1>3. service' \in Nat
  BY ConfigAssumption DEF Step, IInv, TypeOK
<1>4. cool' \in Nat
  BY ConfigAssumption DEF Step, Cooling, Left, IInv, TypeOK
<1>5. snap' \in [Sensor -> Snapshot]
  <2>1. snap' = [id \in Sensor |-> snap'[id]]
    BY DEF Step
  <2> QED
    BY <2>1, StepHonest
<1>6. attempt' \in [Sensor -> ReadResult \cup {Skipped}]
  <2>1. attempt' = [id \in Sensor |-> attempt'[id]]
    BY DEF Step, Attempt
  <2> QED
    BY <2>1, StepHonest
<1>7. TypeOK'
  BY <1>2, <1>3, <1>4, <1>5, <1>6 DEF TypeOK
<1>8. HealthHonest'
  BY StepHonest DEF HealthHonest, Honest
<1> QED
  BY <1>7, <1>8 DEF IInv

\* The types and the consistency of the snapshots are preserved together.
THEOREM Invariance == Spec => []IInv
<1>1. IInv /\ [Next]_vars => IInv'
  <2> SUFFICES ASSUME IInv, [Next]_vars PROVE IInv'
    OBVIOUS
  <2>1. CASE Next
    BY <2>1, StepType DEF Next
  <2>2. CASE UNCHANGED vars
    BY <2>2 DEF vars, IInv, TypeOK, HealthHonest
  <2> QED
    BY <2>1, <2>2
<1> QED
  BY <1>1, InitHonest, PTL DEF Spec

\* Every variable has its type and the streak counters their bounds.
THEOREM TypeCorrect == Spec => []TypeOK
<1>1. IInv => TypeOK
  BY DEF IInv
<1> QED
  BY <1>1, Invariance, PTL

\* The health states agree with samples and streaks after every step().
THEOREM HealthIsHonest == Spec => []HealthHonest
<1>1. IInv => HealthHonest
  BY DEF IInv
<1> QED
  BY <1>1, Invariance, PTL

\* A sensor becomes Faulted only when its own read has failed.
THEOREM FaultsHaveFailures == Spec => FaultByFailure
<1> DEFINE A == \A id \in Sensor :
                  snap[id].state # "Faulted" /\ snap'[id].state = "Faulted" =>
                      Failed(id)'
<1>1. IInv /\ [Next]_vars => [A]_vars
  <2> SUFFICES ASSUME IInv, Next PROVE A
    OBVIOUS
  <2>1. PICK gap \in 1 .. MaxGap : \E result \in [Reads(gap) -> ReadResult] :
          Step(gap, result)
    BY DEF Next
  <2>2. PICK result \in [Reads(gap) -> ReadResult] : Step(gap, result)
    BY <2>1
  <2> QED
    BY <2>2, StepHonest
<1> QED
  BY <1>1, Invariance, PTL DEF Spec, FaultByFailure
=============================================================================
