--------------------------- MODULE SafetyLiveness ---------------------------
(***************************************************************************)
(* SafetyAuthority with a kernel that keeps ticking.  A tick that observes *)
(* what the last one observed may leave the whole state as it was; beat    *)
(* flips with each tick, so that fairness of ticks asks for ticks and not  *)
(* for observations that change.                                           *)
(***************************************************************************)
EXTENDS SafetyAuthority

VARIABLE beat

liveVars == <<vars, beat>>

LiveInit == Init /\ beat = FALSE

LiveTick(o, dt) == Tick(o, dt) /\ beat' = ~beat

LiveArbitrate(c) == Arbitrate(c) /\ UNCHANGED beat

LiveRestart == Restart /\ UNCHANGED beat

LiveNext ==
    \/ \E o \in Observation, dt \in 0 .. MaxStep : LiveTick(o, dt)
    \/ \E c \in ActivityIntents : LiveArbitrate(c)
    \/ LiveRestart

\* The kernel ticks as long as the clock runs, and the clock runs.
Ticking == WF_liveVars(\E o \in Observation, dt \in 1 .. MaxStep : LiveTick(o, dt))

FairSpec == LiveInit /\ [][LiveNext]_liveVars /\ Ticking

----------------------------------------------------------------------------

\* Sensing that stays lost ends in a Fault under a safety stop, for good.
SensingLossStops ==
    <>[](SensingLost(obs) /\ uptime # NoTimebase) =>
        <>[](sa.health = "Fault" /\ (sa.fault # "CrashMarker" => IsStop(current)))

\* When every observation is good from some time on, the controller becomes
\* Ready, unless a fault that needs a reset is latched.
Recovers ==
    Reconciled /\ <>[](Classify(obs) = "None") =>
        <>[](sa.health = "Ready" \/ sa.fault \in {"CanFailsafe", "CrashMarker"})
=============================================================================
