---------------------------- MODULE SafetyClaims ----------------------------
(***************************************************************************)
(* SafetyAuthority with a history variable, for a statement about what     *)
(* happened earlier: the last candidate of arbitrate() since the last      *)
(* tick.                                                                   *)
(***************************************************************************)
EXTENDS SafetyAuthority

VARIABLE offered

claimVars == <<vars, offered>>

NoCandidate == [kind |-> "None"]

ClaimInit == Init /\ offered = NoCandidate

ClaimTick(o, dt) == Tick(o, dt) /\ offered' = NoCandidate

ClaimArbitrate(c) == Arbitrate(c) /\ offered' = c

ClaimRestart == Restart /\ offered' = NoCandidate

ClaimNext ==
    \/ \E o \in Observation, dt \in 0 .. MaxStep : ClaimTick(o, dt)
    \/ \E c \in ActivityIntents : ClaimArbitrate(c)
    \/ ClaimRestart

ClaimSpec == ClaimInit /\ [][ClaimNext]_claimVars

----------------------------------------------------------------------------

\* What arbitrate() says of itself, "stop intents always pass": once a stop was
\* offered no motion intent drives.
StopsAccepted ==
    IsStop(offered) => ~(sa.funnel.active /\ IntentMotion(current))
=============================================================================
