-------------------------- MODULE SafetyAuthority --------------------------
(***************************************************************************)
(* The Safety Authority (src/domain/safety_authority.cpp): the health      *)
(* state machine that decides whether motion is allowed, and the owner of  *)
(* the arbitration funnel.                                                 *)
(*                                                                         *)
(* The kernel calls tick() at every step boundary.  A tick reads the       *)
(* sensing snapshots and the CAN error state, moves the state machine,     *)
(* reacts to a CAN error and emits force-stop frames.  Between ticks the   *)
(* producers of activity intents call arbitrate().  Ticks and calls run in *)
(* the foreground, so each is one atomic step.                             *)
(*                                                                         *)
(* Time is what elapses between two ticks: at most MaxStep.  The clock is  *)
(* monotonic, so it is never negative.  The operators named Bug... are     *)
(* faulty variants of the definition that follows them; no specification   *)
(* uses them.                                                              *)
(***************************************************************************)
EXTENDS Arbitration, Integers

CONSTANTS
    TDeg,         \* t_deg_ms: Degraded for this long becomes a Fault
    Grace,        \* grace_ms: the shortest way from Initializing to Ready
    Reconciled,   \* reset_cause_reconciled
    MaxStep       \* bound on the time between two ticks

ASSUME TDegAssumption == TDeg \in Nat \ {0}
ASSUME GraceAssumption == Grace \in Nat
ASSUME ReconciledAssumption == Reconciled \in BOOLEAN
ASSUME StepAssumption == MaxStep \in Nat \ {0}

VARIABLES
    sa,        \* state machine and funnel
    uptime,    \* time since the first tick, up to Grace; -1 before it
    marker,    \* crash_pending in the backup register, kept over restarts
    obs,       \* what the last tick observed
    forced,    \* the last tick called force_stop_tx()
    lostFor    \* how long all ticks have seen sensing lost, up to TDeg

vars == <<sa, uptime, marker, obs, forced, lostFor>>

SafetyHealth == {"Initializing", "Ready", "Degraded", "Fault"}
DegradedClass == {"None", "Sensing", "CanBus", "Overtemp", "BmsStale"}
SafetyFault ==
    {"None", "DegradedTimeout", "DirectionalToF", "CanFailsafe", "CrashMarker"}
CanErrorState == {"Active", "ErrorPassive", "BusOff"}

\* any_sensor_faulted(), directional_sensing_fresh() and error_state().
Observation == [faulted : BOOLEAN, fresh : BOOLEAN, can : CanErrorState]

Unobserved == [faulted |-> FALSE, fresh |-> FALSE, can |-> "Active"]

NoTimebase == -1

AtMost(bound, n) == IF n < bound THEN n ELSE bound

----------------------------------------------------------------------------
\* The methods, as functions of the state they change.

SensingLost(o) == o.faulted \/ ~o.fresh

Classify(o) ==
    IF SensingLost(o) THEN "Sensing"
    ELSE IF o.can # "Active" THEN "CanBus" ELSE "None"

\* The wrong class drives the degraded timer.
BugMotionCapableCan(cls) == cls = "CanBus"

IsMotionCapable(cls) == cls \in {"Sensing", "Overtemp"}

EnterDegraded(s, cls) ==
    [s EXCEPT !.health = "Degraded", !.class = cls, !.deg = 0]

EnterFault(s, f) == [s EXCEPT !.health = "Fault", !.fault = f]

EnterReady(s) == [s EXCEPT !.health = "Ready", !.class = "None", !.deg = 0]

SafetyStop(profile) ==
    [kind |-> IF profile = "ForceStop" THEN "ForceStop" ELSE "Stop",
     source |-> "Safety", profile |-> profile, velocity |-> 0]

EmitStop(s, profile) == [s EXCEPT !.funnel = Apply(@, SafetyStop(profile))]

\* The funnel is not reset: the stop of a cleared fault stays current.
BugClearFaultKeepsStop(s) ==
    [s EXCEPT !.health = "Degraded", !.class = "None", !.fault = "None", !.deg = 0]

\* The timer survives the fault it raised.
BugClearFaultKeepsTimer(s) ==
    [s EXCEPT !.health = "Degraded", !.class = "None", !.fault = "None",
              !.funnel = ResetFunnel]

\* Auto-clear: the fault, its stop and the timer go; health re-qualifies.
ClearFault(s) ==
    [s EXCEPT !.health = "Degraded", !.class = "None", !.fault = "None",
              !.deg = 0, !.funnel = ResetFunnel]

\* No reaction to an error in Fault.
BugCanReactionNotInFault(s, can) ==
    IF can = "Active" \/ s.health = "Fault" THEN s
    ELSE EmitStop(EnterFault(s, "CanFailsafe"), "ForceStop")

\* A CAN error latches CanFailsafe unless a fault is latched already, and
\* always emits a force-stop.
CanReaction(s, can) ==
    IF can = "Active" THEN s
    ELSE EmitStop(IF s.health = "Fault" THEN s ELSE EnterFault(s, "CanFailsafe"),
                  "ForceStop")

\* The Level 1 emission of a tick, straight from the current intent.
ForceStopTx(s) ==
    \/ s.funnel.current.kind = "ForceStop"
    \/ s.funnel.current.profile = "ForceStop"

----------------------------------------------------------------------------
\* tick(): one action per branch of the state machine.

Elapsed(dt) == IF uptime = NoTimebase THEN 0 ELSE AtMost(Grace, uptime + dt)

\* What every tick does around its branch, which turned sa into s.
Finish(s, o, dt) ==
    /\ sa' = CanReaction(s, o.can)
    /\ forced' = ForceStopTx(sa')
    /\ uptime' = Elapsed(dt)
    /\ obs' = o
    /\ lostFor' = IF SensingLost(o) /\ SensingLost(obs) /\ uptime # NoTimebase
                  THEN AtMost(TDeg, lostFor + dt) ELSE 0
    /\ UNCHANGED marker

LatchCrashMarker(o, dt) ==
    /\ sa.health = "Initializing"
    /\ marker
    /\ Finish(EnterFault(sa, "CrashMarker"), o, dt)

\* The marker is not looked at before the observations.
BugDegradeFirst(o, dt) ==
    /\ sa.health \in {"Initializing", "Ready"}
    /\ Classify(o) # "None"
    /\ Finish(EnterDegraded(sa, Classify(o)), o, dt)

Degrade(o, dt) ==
    /\ \/ sa.health = "Initializing" /\ ~marker
       \/ sa.health = "Ready"
    /\ Classify(o) # "None"
    /\ Finish(EnterDegraded(sa, Classify(o)), o, dt)

ReadyConditions(dt) == Reconciled /\ Elapsed(dt) >= Grace

Qualify(o, dt) ==
    /\ sa.health = "Initializing"
    /\ ~marker
    /\ Classify(o) = "None"
    /\ ReadyConditions(dt)
    /\ Finish(EnterReady(sa), o, dt)

Requalify(o, dt) ==
    /\ sa.health = "Degraded"
    /\ Classify(o) = "None"
    /\ Finish(EnterReady(sa), o, dt)

\* The timer holds the last interval, not the sum.
BugTimerRestarts(o, dt) ==
    /\ sa.health = "Degraded"
    /\ IsMotionCapable(Classify(o))
    /\ sa.deg + dt < TDeg
    /\ Finish([sa EXCEPT !.deg = dt], o, dt)

\* The degraded timer runs; at TDeg it latches a fault and stops the drives.
AccumulateDegraded(o, dt) ==
    /\ sa.health = "Degraded"
    /\ IsMotionCapable(Classify(o))
    /\ sa.deg + dt < TDeg
    /\ Finish([sa EXCEPT !.deg = @ + dt], o, dt)

DegradedTimeout(o, dt) ==
    /\ sa.health = "Degraded"
    /\ IsMotionCapable(Classify(o))
    /\ sa.deg + dt >= TDeg
    /\ Finish(EmitStop(EnterFault([sa EXCEPT !.deg = @ + dt], "DegradedTimeout"),
                       "Controlled"), o, dt)

\* A CAN failure clears like a sensing failure.
BugClearableCan(s, o) ==
    /\ s.fault # "CrashMarker"
    /\ Classify(o) = "None"
    /\ ~IntentMotion(s.funnel.current)

\* The stationary condition is inverted.
BugClearableMoving(s, o) ==
    /\ s.fault \notin {"CrashMarker", "CanFailsafe"}
    /\ Classify(o) = "None"
    /\ IntentMotion(s.funnel.current)

\* What tick() asks of a fault before it clears it.
Clearable(s, o) ==
    /\ s.fault \notin {"CrashMarker", "CanFailsafe"}
    /\ Classify(o) = "None"
    /\ ~IntentMotion(s.funnel.current)

AutoClear(o, dt) ==
    /\ sa.health = "Fault"
    /\ Clearable(sa, o)
    /\ Finish(ClearFault(sa), o, dt)

\* No transition of the state machine; a CAN error still counts.
Hold(o, dt) ==
    /\ \/ /\ sa.health = "Initializing"
          /\ ~marker /\ Classify(o) = "None" /\ ~ReadyConditions(dt)
       \/ sa.health = "Ready" /\ Classify(o) = "None"
       \/ /\ sa.health = "Degraded"
          /\ Classify(o) # "None" /\ ~IsMotionCapable(Classify(o))
       \/ sa.health = "Fault" /\ ~Clearable(sa, o)
    /\ Finish(sa, o, dt)

Tick(o, dt) ==
    \/ LatchCrashMarker(o, dt) \/ Degrade(o, dt) \/ Qualify(o, dt)
    \/ Requalify(o, dt) \/ AccumulateDegraded(o, dt) \/ DegradedTimeout(o, dt)
    \/ AutoClear(o, dt) \/ Hold(o, dt)

----------------------------------------------------------------------------

\* What the Operation Runtime and the Manual Session may ask for; the
\* intents of the Safety Authority itself go straight to the funnel.
ActivityIntents ==
    {i \in Intent :
        /\ i.source = "Activity"
        /\ i.kind = "ForceStop" <=> i.profile = "ForceStop"
        /\ IntentMotion(i) => i.profile = "Controlled"
        /\ IsStop(i) => i.velocity = 0}

\* arbitrate(): an activity intent counts in Ready only.
Admitted(candidate) == candidate.source = "Activity" => sa.health = "Ready"

Arbitrate(candidate) ==
    /\ sa' = IF Admitted(candidate)
             THEN [sa EXCEPT !.funnel = Apply(@, candidate)] ELSE sa
    /\ UNCHANGED <<uptime, marker, obs, forced, lostFor>>

InitialSa ==
    [health |-> "Initializing", class |-> "None", fault |-> "None", deg |-> 0,
     funnel |-> ResetFunnel]

\* A reset of the controller: init() reads the marker, which survives.
Restart ==
    /\ sa' = InitialSa
    /\ uptime' = NoTimebase
    /\ obs' = Unobserved
    /\ forced' = FALSE
    /\ lostFor' = 0
    /\ UNCHANGED marker

Init ==
    /\ sa = InitialSa
    /\ uptime = NoTimebase
    /\ marker \in BOOLEAN
    /\ obs = Unobserved
    /\ forced = FALSE
    /\ lostFor = 0

Next ==
    \/ \E o \in Observation, dt \in 0 .. MaxStep : Tick(o, dt)
    \/ \E c \in ActivityIntents : Arbitrate(c)
    \/ Restart

Spec == Init /\ [][Next]_vars

----------------------------------------------------------------------------
\* Properties.

\* Every variable has its type.
TypeOK ==
    /\ sa \in [health : SafetyHealth, class : DegradedClass, fault : SafetyFault,
               deg : Nat, funnel : Funnel]
    /\ uptime \in {NoTimebase} \cup 0 .. Grace
    /\ marker \in BOOLEAN
    /\ obs \in Observation
    /\ forced \in BOOLEAN
    /\ lostFor \in 0 .. TDeg

current == sa.funnel.current

\* Health, fault and funnel agree.  A latched fault stands exactly in Fault,
\* and there a safety stop is current: no fault of a tick leaves an activity
\* intent driving, except that a crash marker is latched before any intent
\* was installed.  Outside Fault no safety stop is left over, which would
\* block motion in Ready for good.
FaultHoldsStop ==
    /\ sa.fault = "None" <=> sa.health # "Fault"
    /\ sa.health = "Initializing" => ~sa.funnel.active
    /\ sa.health # "Fault" => current.source = "Activity"
    /\ sa.health = "Fault" =>
         \/ IsStop(current) /\ current.source = "Safety"
         \/ sa.fault = "CrashMarker" /\ ~sa.funnel.active

\* While CanFailsafe is latched the force-stop is current and each tick sends
\* it: no later, weaker stop and no activity intent takes its place.
CanFailsafeForces ==
    sa.fault = "CanFailsafe" => current.kind = "ForceStop" /\ forced

\* A CAN error seen by a tick is answered by that very tick, in every state,
\* also over a fault that is latched already.
CanErrorForces == obs.can # "Active" => sa.health = "Fault" /\ forced

\* A pending crash marker keeps the controller out of Ready and Degraded
\* through any number of restarts; a power cycle is no acknowledgement.
MarkerBlocks ==
    /\ marker => sa.health \in {"Initializing", "Fault"}
    /\ sa.fault = "CrashMarker" => marker

\* Sensing that every tick has seen lost for TDeg has become a Fault: the
\* degraded timer is not restarted while the condition stands.
SensingLossFaults == lostFor >= TDeg => sa.health = "Fault"

\* The timeout fault does not come early: all ticks of the last TDeg, less
\* the one interval in which sensing was lost, saw sensing lost.
NoEarlyTimeout ==
    [][sa.health = "Degraded" /\ sa'.fault = "DegradedTimeout" =>
         lostFor' + MaxStep >= TDeg]_vars

\* A CanFailsafe or CrashMarker fault is latched: nothing but a restart ends
\* it, and no other fault takes its place.
FaultLatched ==
    [][sa.fault \in {"CanFailsafe", "CrashMarker"} =>
         sa'.fault = sa.fault \/ sa' = InitialSa]_vars
=============================================================================
