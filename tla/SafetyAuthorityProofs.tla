----------------------- MODULE SafetyAuthorityProofs -----------------------
(***************************************************************************)
(* Theorems about SafetyAuthority, for all values of TDeg, Grace and       *)
(* MaxStep.                                                                *)
(*                                                                         *)
(* Each tick is a branch of the state machine followed by the reaction to  *)
(* the CAN state.  A predicate on the record sa is therefore proved in     *)
(* two halves: the branch establishes it for the record s it hands to      *)
(* Finish, and CanReaction carries it over.                                *)
(***************************************************************************)
EXTENDS SafetyAuthority, TLAPS

SaType ==
    [health : SafetyHealth, class : DegradedClass, fault : SafetyFault,
     deg : Nat, funnel : Funnel]

\* The branch of tick(o, dt), without the reaction to the CAN state: s is the
\* record it leaves behind.
Branch(s, o, dt) ==
    \/ /\ sa.health = "Initializing" /\ marker
       /\ s = EnterFault(sa, "CrashMarker")
    \/ /\ (sa.health = "Initializing" /\ ~marker) \/ sa.health = "Ready"
       /\ Classify(o) # "None"
       /\ s = EnterDegraded(sa, Classify(o))
    \/ /\ (sa.health = "Initializing" /\ ~marker) \/ sa.health = "Degraded"
       /\ Classify(o) = "None"
       /\ s = EnterReady(sa)
    \/ /\ sa.health = "Degraded"
       /\ SensingLost(o)
       /\ sa.deg + dt < TDeg
       /\ s = [sa EXCEPT !.deg = @ + dt]
    \/ /\ sa.health = "Degraded"
       /\ SensingLost(o)
       /\ sa.deg + dt >= TDeg
       /\ s = EmitStop(EnterFault([sa EXCEPT !.deg = @ + dt], "DegradedTimeout"),
                       "Controlled")
    \/ /\ sa.health = "Fault"
       /\ Clearable(sa, o)
       /\ s = ClearFault(sa)
    \/ /\ \/ sa.health \in {"Initializing", "Ready"} /\ Classify(o) = "None"
          \/ sa.health = "Degraded" /\ Classify(o) = "CanBus"
          \/ sa.health = "Fault" /\ ~Clearable(sa, o)
       /\ sa.health = "Initializing" => ~marker
       /\ s = sa

\* Every tick is a branch and what Finish adds to it.
LEMMA TickShape ==
  ASSUME NEW o \in Observation, NEW dt \in 0 .. MaxStep, Tick(o, dt)
  PROVE  \E s : Branch(s, o, dt) /\ Finish(s, o, dt)
<1>1. IsMotionCapable(Classify(o)) <=> SensingLost(o)
  BY DEF IsMotionCapable, Classify
<1>2. Classify(o) \in {"None", "Sensing", "CanBus"}
  BY DEF Classify
<1>3. CASE LatchCrashMarker(o, dt)
  BY <1>3 DEF LatchCrashMarker, Branch
<1>4. CASE Degrade(o, dt)
  BY <1>4 DEF Degrade, Branch
<1>5. CASE Qualify(o, dt) \/ Requalify(o, dt)
  BY <1>5 DEF Qualify, Requalify, Branch
<1>6. CASE AccumulateDegraded(o, dt)
  BY <1>1, <1>6 DEF AccumulateDegraded, Branch
<1>7. CASE DegradedTimeout(o, dt)
  BY <1>1, <1>7 DEF DegradedTimeout, Branch
<1>8. CASE AutoClear(o, dt)
  BY <1>8 DEF AutoClear, Branch
<1>9. CASE Hold(o, dt)
  BY <1>2, <1>9 DEF Hold, Branch, IsMotionCapable
<1>10. QED
  BY <1>3, <1>4, <1>5, <1>6, <1>7, <1>8, <1>9 DEF Tick

-----------------------------------------------------------------------------
\* What passes the funnel is an intent.
LEMMA ApplyType ==
  ASSUME NEW f \in Funnel, NEW c \in Intent
  PROVE  Apply(f, c) \in Funnel
  BY DEF Apply, Funnel

\* The stops of the Safety Authority are intents.
LEMMA SafetyStopType ==
  ASSUME NEW profile \in StopProfile
  PROVE  /\ SafetyStop(profile) \in Intent
         /\ SafetyStop(profile).source = "Safety"
         /\ IsStop(SafetyStop(profile))
         /\ SafetyStop("ForceStop").kind = "ForceStop"
  BY DEF SafetyStop, Intent, IntentKind, IntentSource, StopProfile, Velocity, IsStop

\* A reset funnel is a funnel at rest.
LEMMA ResetFunnelType ==
  /\ ResetFunnel \in Funnel
  /\ ~ResetFunnel.active
  /\ ResetFunnel.current.source = "Activity"
  BY DEF ResetFunnel, Funnel, DefaultIntent, Intent, IntentKind, IntentSource,
         StopProfile, Velocity

\* emit_stop changes the funnel only.
LEMMA EmitStopType ==
  ASSUME NEW s \in SaType, NEW profile \in StopProfile
  PROVE  /\ EmitStop(s, profile) \in SaType
         /\ EmitStop(s, profile) = [s EXCEPT !.funnel = Apply(s.funnel, SafetyStop(profile))]
  BY ApplyType, SafetyStopType DEF EmitStop, SaType

\* Every branch leaves a well-formed record behind.
LEMMA BranchType ==
  ASSUME sa \in SaType, NEW o \in Observation, NEW dt \in 0 .. MaxStep,
         NEW s, Branch(s, o, dt)
  PROVE  s \in SaType
<1> USE StepAssumption DEF SafetyHealth, DegradedClass, SafetyFault
<1>1. Classify(o) \in DegradedClass
  BY DEF Classify
<1>2. /\ EnterFault(sa, "CrashMarker") \in SaType
      /\ EnterDegraded(sa, Classify(o)) \in SaType
      /\ EnterReady(sa) \in SaType
      /\ [sa EXCEPT !.deg = @ + dt] \in SaType
      /\ ClearFault(sa) \in SaType
  <2>1. EnterFault(sa, "CrashMarker") \in SaType
    BY DEF SaType, EnterFault
  <2>2. EnterDegraded(sa, Classify(o)) \in SaType
    BY <1>1 DEF SaType, EnterDegraded
  <2>3. EnterReady(sa) \in SaType
    BY DEF SaType, EnterReady
  <2>4. [sa EXCEPT !.deg = @ + dt] \in SaType
    BY DEF SaType
  <2>5. ClearFault(sa) \in SaType
    BY ResetFunnelType DEF SaType, ClearFault
  <2>6. QED
    BY <2>1, <2>2, <2>3, <2>4, <2>5
<1>3. EnterFault([sa EXCEPT !.deg = @ + dt], "DegradedTimeout") \in SaType
  BY <1>2, ZenonT(30) DEF SaType, EnterFault
<1>4. EmitStop(EnterFault([sa EXCEPT !.deg = @ + dt], "DegradedTimeout"), "Controlled")
        \in SaType
  <2>1. "Controlled" \in StopProfile
    BY DEF StopProfile
  <2> HIDE DEF SafetyHealth, DegradedClass, SafetyFault
  <2>2. QED
    BY <1>3, <2>1, EmitStopType
<1>5. QED
  BY <1>2, <1>4 DEF Branch

\* The reaction to the CAN state keeps the record well-formed; it is silent
\* exactly when the bus is fine.
LEMMA CanReactionType ==
  ASSUME NEW s \in SaType, NEW can \in CanErrorState
  PROVE  CanReaction(s, can) \in SaType
<1>1. EnterFault(s, "CanFailsafe") \in SaType
  BY DEF EnterFault, SaType, SafetyHealth, SafetyFault
<1>2. QED
  BY <1>1, EmitStopType DEF CanReaction, StopProfile

\* Before the first tick nothing was observed.
LEMMA UnobservedType == Unobserved \in Observation /\ SensingLost(Unobserved)
  BY DEF Unobserved, Observation, CanErrorState, SensingLost

\* The initial record is well-formed.
LEMMA InitialType == InitialSa \in SaType
  BY ResetFunnelType DEF InitialSa, SaType, SafetyHealth, DegradedClass, SafetyFault

\* Capping at a bound.
LEMMA AtMostFacts ==
  ASSUME NEW bound \in Nat, NEW n \in Nat
  PROVE  AtMost(bound, n) \in 0 .. bound /\ AtMost(bound, n) <= n
  BY DEF AtMost

\* Every step keeps the types.
LEMMA TypeNext == TypeOK /\ [Next]_vars => TypeOK'
<1> SUFFICES ASSUME TypeOK, [Next]_vars PROVE TypeOK'
  OBVIOUS
<1> USE DEF TypeOK
<1>1. sa \in SaType
  BY DEF SaType
<1>2. ASSUME NEW o \in Observation, NEW dt \in 0 .. MaxStep, Tick(o, dt)
      PROVE  TypeOK'
  <2>1. PICK s : Branch(s, o, dt) /\ Finish(s, o, dt)
    BY <1>2, TickShape
  <2>2. sa' \in SaType
    BY <1>1, <2>1, BranchType, CanReactionType DEF Finish, Observation
  <2>3. uptime' \in {NoTimebase} \cup 0 .. Grace
    BY <2>1, StepAssumption, GraceAssumption DEF Finish, Elapsed, AtMost, NoTimebase
  <2>4. lostFor' \in 0 .. TDeg
    BY <2>1, StepAssumption, TDegAssumption DEF Finish, AtMost
  <2>5. forced' \in BOOLEAN /\ obs' \in Observation /\ marker' \in BOOLEAN
    BY <2>1 DEF Finish, ForceStopTx
  <2>6. QED
    BY <2>2, <2>3, <2>4, <2>5 DEF SaType
<1>3. ASSUME NEW c \in ActivityIntents, Arbitrate(c) PROVE TypeOK'
  <2>1. Apply(sa.funnel, c) \in Funnel
    BY <1>1, ApplyType DEF ActivityIntents, SaType
  <2>2. sa' \in SaType
    BY <1>1, <1>3, <2>1 DEF Arbitrate, SaType
  <2>3. QED
    BY <1>3, <2>2 DEF Arbitrate, SaType
<1>4. CASE Restart
  <2>1. sa' \in SaType /\ uptime' = NoTimebase /\ obs' \in Observation
    BY <1>4, InitialType, UnobservedType DEF Restart
  <2>2. lostFor' \in 0 .. TDeg
    BY <1>4, TDegAssumption DEF Restart
  <2>3. forced' \in BOOLEAN /\ marker' \in BOOLEAN
    BY <1>4 DEF Restart
  <2>4. QED
    BY <2>1, <2>2, <2>3 DEF SaType
<1>5. CASE UNCHANGED vars
  BY <1>5 DEF vars
<1>6. QED
  BY <1>2, <1>3, <1>4, <1>5 DEF Next

\* The initial state has its types.
LEMMA TypeInit == Init => TypeOK
<1> SUFFICES ASSUME Init PROVE TypeOK
  OBVIOUS
<1>1. sa \in SaType /\ uptime = NoTimebase /\ obs \in Observation
  BY InitialType, UnobservedType DEF Init
<1>2. lostFor \in 0 .. TDeg
  BY TDegAssumption DEF Init
<1>3. forced \in BOOLEAN /\ marker \in BOOLEAN
  BY DEF Init
<1>4. QED
  BY <1>1, <1>2, <1>3 DEF TypeOK, SaType

\* Every variable of the Safety Authority keeps its type.
THEOREM TypeCorrect == Spec => []TypeOK
  BY TypeInit, TypeNext, PTL DEF Spec
-----------------------------------------------------------------------------
\* A stop of the Safety Authority always leaves a safety stop in the funnel,
\* and a force-stop always gets through.
LEMMA StopTakesOver ==
  ASSUME NEW f \in Funnel, NEW profile \in StopProfile
  PROVE  LET g == Apply(f, SafetyStop(profile))
         IN  /\ g.current.source = "Safety"
             /\ IsStop(g.current)
             /\ profile = "ForceStop" => g.current.kind = "ForceStop"
<1> DEFINE c == SafetyStop(profile)
<1>1. c \in Intent /\ c.source = "Safety" /\ IsStop(c)
  BY SafetyStopType
<1>2. profile = "ForceStop" => c.kind = "ForceStop"
  BY DEF SafetyStop
<1>3. f.current \in Intent
  BY DEF Funnel
<1>4. CASE f.current.source = "Safety" /\ IsStop(f.current)
  <2>1. Rank(c) \in {3, 4} /\ Rank(f.current) \in {3, 4}
    BY <1>1, <1>4 DEF Rank, IsStop, IntentMotion
  <2>2. profile = "ForceStop" => IntentPreempts(c, f.current)
    <3>1. profile = "ForceStop" => Rank(c) = 4
      BY <1>1, <1>2 DEF Rank, IntentMotion
    <3>2. Rank(f.current) = 4 => f.current.kind = "ForceStop"
      BY <1>3, <1>4 DEF Rank, IsStop, IntentMotion
    <3>3. QED
      BY <1>2, <2>1, <3>1, <3>2 DEF IntentPreempts
  <2>3. Apply(f, c) = f \/ Apply(f, c) = [current |-> c, active |-> TRUE]
    BY DEF Apply
  <2>4. profile = "ForceStop" => Apply(f, c) = [current |-> c, active |-> TRUE]
    BY <2>2 DEF Apply
  <2>5. QED
    BY <1>1, <1>2, <1>4, <2>3, <2>4
<1>5. CASE ~(f.current.source = "Safety" /\ IsStop(f.current))
  <2>1. \/ IsStop(c) /\ ~IsStop(f.current)
        \/ Rank(c) > Rank(f.current)
    <3>1. CASE f.current.source = "Activity"
      <4>1. Rank(f.current) = 1
        BY <1>3, <3>1 DEF Rank
      <4>2. Rank(c) \in {3, 4}
        BY <1>1 DEF Rank, IsStop, IntentMotion
      <4>3. QED
        BY <4>1, <4>2
    <3>2. CASE ~IsStop(f.current)
      BY <1>1, <3>2
    <3>3. QED
      BY <1>3, <1>5, <3>1, <3>2 DEF Intent, IntentSource
  <2>2. Apply(f, c) = [current |-> c, active |-> TRUE]
    BY <2>1 DEF Apply, IntentPreempts
  <2>3. QED
    BY <1>1, <1>2, <2>2
<1>6. QED
  BY <1>4, <1>5

\* What emit_stop does to a record.
LEMMA EmitStopFacts ==
  ASSUME NEW s \in SaType, NEW profile \in StopProfile
  PROVE  LET r == EmitStop(s, profile)
         IN  /\ r.health = s.health /\ r.fault = s.fault /\ r.deg = s.deg
             /\ r.funnel.current.source = "Safety"
             /\ IsStop(r.funnel.current)
             /\ profile = "ForceStop" => r.funnel.current.kind = "ForceStop"
<1> DEFINE g == Apply(s.funnel, SafetyStop(profile))
<1>1. s.funnel \in Funnel
  BY DEF SaType
<1>2. /\ g.current.source = "Safety" /\ IsStop(g.current)
      /\ profile = "ForceStop" => g.current.kind = "ForceStop"
  BY <1>1, StopTakesOver
<1> HIDE DEF g
<1>3. EmitStop(s, profile) = [s EXCEPT !.funnel = g]
  BY DEF EmitStop, g
<1>4. QED
  BY <1>2, <1>3 DEF SaType

\* What the reaction to the CAN state does to a record: nothing while the bus
\* is fine, a Fault under a force-stop otherwise.
LEMMA CanReactionFacts ==
  ASSUME NEW s \in SaType, NEW can \in CanErrorState
  PROVE  LET r == CanReaction(s, can)
         IN  \/ can = "Active" /\ r = s
             \/ /\ can # "Active"
                /\ r.health = "Fault"
                /\ r.fault = IF s.health = "Fault" THEN s.fault ELSE "CanFailsafe"
                /\ r.funnel.current.source = "Safety"
                /\ r.funnel.current.kind = "ForceStop"
<1>1. CASE can = "Active"
  BY <1>1 DEF CanReaction
<1>2. CASE can # "Active"
  <2> DEFINE t == IF s.health = "Fault" THEN s ELSE EnterFault(s, "CanFailsafe")
  <2>1. t \in SaType
    BY DEF EnterFault, SaType, SafetyHealth, SafetyFault
  <2>2. /\ t.health = "Fault"
        /\ t.fault = IF s.health = "Fault" THEN s.fault ELSE "CanFailsafe"
    BY DEF EnterFault, SaType
  <2> HIDE DEF t
  <2>3. "ForceStop" \in StopProfile
    BY DEF StopProfile
  <2>4. LET r == EmitStop(t, "ForceStop")
        IN  /\ r.health = t.health /\ r.fault = t.fault
            /\ r.funnel.current.source = "Safety"
            /\ r.funnel.current.kind = "ForceStop"
    BY <2>1, <2>3, EmitStopFacts
  <2>5. CanReaction(s, can) = EmitStop(t, "ForceStop")
    BY <1>2 DEF CanReaction, t
  <2>6. QED
    BY <1>2, <2>2, <2>4, <2>5
<1>3. QED
  BY <1>1, <1>2
-----------------------------------------------------------------------------
\* The inductive invariant.  The record sa: a fault stands exactly in Fault,
\* under a safety stop; CanFailsafe stands under a force-stop.
SaInv(s) ==
    /\ s.fault = "None" <=> s.health # "Fault"
    /\ s.health = "Initializing" => ~s.funnel.active
    /\ s.health # "Fault" => s.funnel.current.source = "Activity"
    /\ s.health = "Fault" =>
         \/ IsStop(s.funnel.current) /\ s.funnel.current.source = "Safety"
         \/ s.fault = "CrashMarker" /\ ~s.funnel.active
    /\ s.fault = "CanFailsafe" => s.funnel.current.kind = "ForceStop"

\* With the marker pending, CrashMarker is the one fault there is: auto-clear
\* never gets a DegradedTimeout to clear.
MarkerInv(s) ==
    /\ marker => s.health = "Initializing" \/ s.fault = "CrashMarker"
    /\ s.fault = "CrashMarker" => marker

\* The degraded timer against the time the ticks have really seen.  It is
\* ahead by at most one interval: after an auto-clear the timer runs from
\* the last tick that saw sensing good.
TimerInv ==
    /\ sa.health = "Degraded" =>
         /\ sa.deg < TDeg
         /\ lostFor <= sa.deg
         /\ sa.deg <= lostFor + MaxStep
         /\ ~SensingLost(obs) => sa.deg = 0
    /\ sa.health \in {"Initializing", "Ready"} => lostFor = 0
    /\ sa.health = "Ready" => ~SensingLost(obs)
    /\ sa.health = "Initializing" => ~SensingLost(obs) \/ uptime = NoTimebase
    /\ ~SensingLost(obs) => lostFor = 0
    /\ uptime = NoTimebase => sa.health = "Initializing"

IInv ==
    /\ TypeOK
    /\ SaInv(sa)
    /\ MarkerInv(sa)
    /\ TimerInv
    /\ CanFailsafeForces
    /\ CanErrorForces

\* The fields of the record that each method leaves behind.
LEMMA MethodFields ==
  ASSUME NEW s \in SaType
  PROVE  /\ \A f : /\ EnterFault(s, f).health = "Fault"
                   /\ EnterFault(s, f).fault = f
                   /\ EnterFault(s, f).deg = s.deg
                   /\ EnterFault(s, f).funnel = s.funnel
         /\ \A cls : /\ EnterDegraded(s, cls).health = "Degraded"
                     /\ EnterDegraded(s, cls).fault = s.fault
                     /\ EnterDegraded(s, cls).deg = 0
                     /\ EnterDegraded(s, cls).funnel = s.funnel
         /\ /\ EnterReady(s).health = "Ready"
            /\ EnterReady(s).fault = s.fault
            /\ EnterReady(s).deg = 0
            /\ EnterReady(s).funnel = s.funnel
         /\ /\ ClearFault(s).health = "Degraded"
            /\ ClearFault(s).fault = "None"
            /\ ClearFault(s).deg = 0
            /\ ClearFault(s).funnel = ResetFunnel
  BY DEF SaType, EnterFault, EnterDegraded, EnterReady, ClearFault

\* What a branch leaves behind, field by field.
Outline(s, o, dt) ==
    \/ /\ sa.health = "Initializing" /\ marker
       /\ s.health = "Fault" /\ s.fault = "CrashMarker" /\ s.funnel = sa.funnel
    \/ /\ (sa.health = "Initializing" /\ ~marker) \/ sa.health = "Ready"
       /\ Classify(o) # "None"
       /\ s.health = "Degraded" /\ s.fault = sa.fault /\ s.deg = 0
       /\ s.funnel = sa.funnel
    \/ /\ (sa.health = "Initializing" /\ ~marker) \/ sa.health = "Degraded"
       /\ Classify(o) = "None"
       /\ s.health = "Ready" /\ s.fault = sa.fault /\ s.funnel = sa.funnel
    \/ /\ sa.health = "Degraded" /\ SensingLost(o) /\ sa.deg + dt < TDeg
       /\ s.health = "Degraded" /\ s.fault = sa.fault /\ s.deg = sa.deg + dt
       /\ s.funnel = sa.funnel
    \/ /\ sa.health = "Degraded" /\ SensingLost(o) /\ sa.deg + dt >= TDeg
       /\ s.health = "Fault" /\ s.fault = "DegradedTimeout"
       /\ s.funnel.current.source = "Safety" /\ IsStop(s.funnel.current)
    \/ /\ sa.health = "Fault" /\ Clearable(sa, o)
       /\ s.health = "Degraded" /\ s.fault = "None" /\ s.deg = 0
       /\ s.funnel = ResetFunnel
    \/ /\ \/ sa.health \in {"Initializing", "Ready"} /\ Classify(o) = "None"
          \/ sa.health = "Degraded" /\ Classify(o) = "CanBus"
          \/ sa.health = "Fault" /\ ~Clearable(sa, o)
       /\ sa.health = "Initializing" => ~marker
       /\ s = sa

\* Every branch has that outline.
LEMMA BranchOutline ==
  ASSUME sa \in SaType, NEW o \in Observation, NEW dt \in 0 .. MaxStep,
         NEW s, Branch(s, o, dt)
  PROVE  Outline(s, o, dt)
<1> DEFINE late == [sa EXCEPT !.deg = @ + dt]
           faulty == EnterFault(late, "DegradedTimeout")
<1>1. late \in SaType /\ late.deg = sa.deg + dt /\ late.health = sa.health
        /\ late.fault = sa.fault /\ late.funnel = sa.funnel
  BY StepAssumption DEF SaType
<1>2. faulty \in SaType
  BY <1>1 DEF SaType, EnterFault, SafetyHealth, SafetyFault
<1>3. faulty.health = "Fault" /\ faulty.fault = "DegradedTimeout"
  BY <1>1, MethodFields
<1> HIDE DEF late
<1>4. CASE sa.health = "Degraded" /\ SensingLost(o) /\ sa.deg + dt >= TDeg
             /\ s = EmitStop(faulty, "Controlled")
  <2> HIDE DEF faulty
  <2>1. "Controlled" \in StopProfile
    BY DEF StopProfile
  <2>2. /\ s.health = "Fault" /\ s.fault = "DegradedTimeout"
        /\ s.funnel.current.source = "Safety" /\ IsStop(s.funnel.current)
    BY <1>2, <1>3, <1>4, <2>1, EmitStopFacts
  <2>3. QED
    BY <1>4, <2>2 DEF Outline
<1>5. CASE sa.health = "Initializing" /\ marker /\ s = EnterFault(sa, "CrashMarker")
  BY <1>5, MethodFields DEF Outline
<1>6. CASE /\ (sa.health = "Initializing" /\ ~marker) \/ sa.health = "Ready"
           /\ Classify(o) # "None"
           /\ s = EnterDegraded(sa, Classify(o))
  BY <1>6, MethodFields DEF Outline
<1>7. CASE /\ (sa.health = "Initializing" /\ ~marker) \/ sa.health = "Degraded"
           /\ Classify(o) = "None"
           /\ s = EnterReady(sa)
  BY <1>7, MethodFields DEF Outline
<1>8. CASE sa.health = "Degraded" /\ SensingLost(o) /\ sa.deg + dt < TDeg /\ s = late
  BY <1>1, <1>8 DEF Outline
<1>9. CASE sa.health = "Fault" /\ Clearable(sa, o) /\ s = ClearFault(sa)
  BY <1>9, MethodFields DEF Outline
<1>10. CASE /\ \/ sa.health \in {"Initializing", "Ready"} /\ Classify(o) = "None"
               \/ sa.health = "Degraded" /\ Classify(o) = "CanBus"
               \/ sa.health = "Fault" /\ ~Clearable(sa, o)
            /\ sa.health = "Initializing" => ~marker
            /\ s = sa
  BY <1>10 DEF Outline
<1>11. QED
  BY <1>4, <1>5, <1>6, <1>7, <1>8, <1>9, <1>10 DEF Branch, late

\* The record and the marker stay consistent through a branch.
LEMMA BranchKeeps ==
  ASSUME IInv, NEW o \in Observation, NEW dt \in 0 .. MaxStep,
         NEW s, Outline(s, o, dt)
  PROVE  SaInv(s) /\ MarkerInv(s) /\ (marker => s.health = "Fault")
<1>1. SaInv(s)
  BY ResetFunnelType DEF IInv, TypeOK, SafetyHealth, SaInv, Outline
<1>2. MarkerInv(s) /\ (marker => s.health = "Fault")
  BY DEF IInv, TypeOK, SafetyHealth, SaInv, MarkerInv, Outline, Clearable
<1>3. QED
  BY <1>1, <1>2

\* ... and through the reaction to the CAN state.
LEMMA CanReactionKeeps ==
  ASSUME NEW s \in SaType, SaInv(s), MarkerInv(s), marker => s.health = "Fault",
         NEW can \in CanErrorState
  PROVE  SaInv(CanReaction(s, can)) /\ MarkerInv(CanReaction(s, can))
<1>1. CASE can = "Active"
  BY <1>1 DEF CanReaction
<1>2. CASE can # "Active"
  <2> DEFINE r == CanReaction(s, can)
  <2>1. /\ r.health = "Fault"
        /\ r.fault = IF s.health = "Fault" THEN s.fault ELSE "CanFailsafe"
        /\ r.funnel.current.source = "Safety"
        /\ r.funnel.current.kind = "ForceStop"
    BY <1>2, CanReactionFacts
  <2> HIDE DEF r
  <2>2. SaInv(r)
    BY <2>1 DEF SaInv, IsStop
  <2>3. MarkerInv(r)
    BY <2>1 DEF SaInv, MarkerInv
  <2>4. QED
    BY <2>2, <2>3 DEF r
<1>3. QED
  BY <1>1, <1>2

\* The timer stays exact through a tick.
LEMMA TimerKeeps ==
  ASSUME IInv, NEW o \in Observation, NEW dt \in 0 .. MaxStep,
         NEW s \in SaType, Outline(s, o, dt), Finish(s, o, dt)
  PROVE  TimerInv'
<1>1. /\ obs' = o
      /\ lostFor' = IF SensingLost(o) /\ SensingLost(obs) /\ uptime # NoTimebase
                    THEN AtMost(TDeg, lostFor + dt) ELSE 0
      /\ sa' = CanReaction(s, o.can)
      /\ uptime' # NoTimebase
  BY StepAssumption, GraceAssumption
     DEF Finish, IInv, TypeOK, Elapsed, AtMost, NoTimebase
<1>2. o.can \in CanErrorState
  BY DEF Observation
<1>3. (SensingLost(obs))' <=> SensingLost(o)
  BY <1>1 DEF SensingLost
<1>4. CASE o.can # "Active"
  <2>1. sa'.health = "Fault"
    BY <1>1, <1>2, <1>4, CanReactionFacts
  <2>2. QED
    BY <1>1, <1>3, <2>1 DEF TimerInv
<1>5. CASE o.can = "Active"
  <2>1. sa' = s
    BY <1>1, <1>2, <1>5, CanReactionFacts
  <2>2. Classify(o) = IF SensingLost(o) THEN "Sensing" ELSE "None"
    BY <1>5 DEF Classify
  <2>3. /\ dt \in Nat /\ dt <= MaxStep /\ MaxStep \in Nat
        /\ TDeg \in Nat /\ TDeg > 0 /\ lostFor \in 0 .. TDeg /\ sa.deg \in Nat
    BY StepAssumption, TDegAssumption DEF IInv, TypeOK
  <2>4. \/ lostFor' = 0
        \/ lostFor' <= lostFor + dt /\ lostFor + dt < TDeg /\ lostFor' = lostFor + dt
        \/ lostFor' = TDeg /\ lostFor + dt >= TDeg
    BY <1>1, <2>3 DEF AtMost
  <2>5. CASE sa.health = "Degraded" /\ SensingLost(o)
    <3>1. IF SensingLost(obs) THEN lostFor' = AtMost(TDeg, lostFor + dt) ELSE lostFor' = 0
      BY <1>1, <2>5 DEF IInv, TimerInv
    <3>2. \/ s.health = "Degraded" /\ s.deg = sa.deg + dt /\ sa.deg + dt < TDeg
          \/ s.health = "Fault"
      BY <2>2, <2>5 DEF Outline
    <3>3. QED
      BY <1>1, <1>3, <2>1, <2>3, <2>4, <2>5, <3>1, <3>2 DEF TimerInv, IInv, AtMost
  <2>6. CASE ~(sa.health = "Degraded" /\ SensingLost(o))
    <3>1. \/ s.health = "Degraded" /\ s.deg = 0
          \/ s.health = "Ready" /\ ~SensingLost(o)
          \/ s.health = "Initializing" /\ ~SensingLost(o)
          \/ s.health = "Fault"
      BY <2>2, <2>6 DEF Outline, IInv, TypeOK, SafetyHealth
    <3>2. s.health = "Degraded" => lostFor' = 0
      BY <1>1, <2>2, <2>6 DEF Outline, IInv, TimerInv, Clearable
    <3>3. QED
      BY <1>1, <1>3, <2>1, <2>3, <3>1, <3>2 DEF TimerInv
  <2>7. QED
    BY <2>5, <2>6
<1>6. QED
  BY <1>4, <1>5

\* A tick keeps the invariant.
LEMMA TickKeeps ==
  ASSUME IInv, TypeOK', NEW o \in Observation, NEW dt \in 0 .. MaxStep, Tick(o, dt)
  PROVE  IInv'
<1>1. PICK s : Branch(s, o, dt) /\ Finish(s, o, dt)
  BY TickShape
<1>2. sa \in SaType
  BY DEF IInv, TypeOK, SaType
<1>3. s \in SaType /\ Outline(s, o, dt)
  BY <1>1, <1>2, BranchType, BranchOutline
<1>4. o.can \in CanErrorState
  BY DEF Observation
<1>5. sa' = CanReaction(s, o.can) /\ forced' = ForceStopTx(sa') /\ obs' = o /\ marker' = marker
  BY <1>1 DEF Finish
<1>6. SaInv(sa') /\ MarkerInv(sa')
  BY <1>3, <1>4, <1>5, BranchKeeps, CanReactionKeeps
<1>7. SaInv(sa)' /\ MarkerInv(sa)'
  BY <1>5, <1>6 DEF SaInv, MarkerInv
<1>8. TimerInv'
  BY <1>1, <1>3, TimerKeeps
<1>9. sa'.fault = "CanFailsafe" => sa'.funnel.current.kind = "ForceStop" /\ forced'
  BY <1>5, <1>6 DEF SaInv, ForceStopTx
<1>10. obs'.can # "Active" => sa'.health = "Fault" /\ forced'
  BY <1>3, <1>4, <1>5, CanReactionFacts DEF ForceStopTx
<1>11. QED
  BY <1>7, <1>8, <1>9, <1>10 DEF IInv, CanFailsafeForces, CanErrorForces, current

\* An activity intent keeps the invariant: it passes in Ready only, where the
\* current intent is an activity's.
LEMMA ArbitrateKeeps ==
  ASSUME IInv, TypeOK', NEW c \in ActivityIntents, Arbitrate(c)
  PROVE  IInv'
<1>1. c \in Intent /\ c.source = "Activity"
  BY DEF ActivityIntents
<1>2. UNCHANGED <<uptime, marker, obs, forced, lostFor>>
  BY DEF Arbitrate
<1>3. CASE sa' = sa
  BY <1>2, <1>3 DEF IInv, SaInv, MarkerInv, TimerInv, CanFailsafeForces, CanErrorForces,
                    current, SensingLost
<1>4. CASE sa.health = "Ready" /\ sa' = [sa EXCEPT !.funnel = Apply(@, c)]
  <2>1. /\ sa'.health = "Ready" /\ sa'.fault = sa.fault /\ sa'.deg = sa.deg
        /\ sa'.funnel = Apply(sa.funnel, c)
    BY <1>4 DEF IInv, TypeOK
  <2>2. sa'.funnel.current.source = "Activity"
    BY <1>1, <1>4, <2>1 DEF Apply, IInv, SaInv
  <2>3. SaInv(sa)'
    BY <1>4, <2>1, <2>2 DEF SaInv, IInv
  <2>4. MarkerInv(sa)' /\ TimerInv'
    BY <1>2, <1>4, <2>1 DEF IInv, MarkerInv, TimerInv, SensingLost
  <2>5. CanFailsafeForces' /\ CanErrorForces'
    BY <1>2, <1>4, <2>1 DEF IInv, SaInv, CanFailsafeForces, CanErrorForces, current
  <2>6. QED
    BY <2>3, <2>4, <2>5 DEF IInv
<1>5. QED
  BY <1>1, <1>3, <1>4 DEF Arbitrate, Admitted

\* The invariant holds in every state that init() leaves behind.
LEMMA FreshIInv ==
  ASSUME TypeOK, sa = InitialSa, uptime = NoTimebase, obs = Unobserved,
         forced = FALSE, lostFor = 0
  PROVE  IInv
<1>1. SaInv(sa) /\ MarkerInv(sa)
  BY ResetFunnelType DEF InitialSa, SaInv, MarkerInv
<1>2. TimerInv
  BY DEF InitialSa, TimerInv
<1>3. CanFailsafeForces /\ CanErrorForces
  BY DEF InitialSa, Unobserved, CanFailsafeForces, CanErrorForces
<1>4. QED
  BY <1>1, <1>2, <1>3 DEF IInv

\* Every step keeps the invariant.
LEMMA IInvNext == IInv /\ [Next]_vars => IInv'
<1> SUFFICES ASSUME IInv, [Next]_vars PROVE IInv'
  OBVIOUS
<1>1. TypeOK'
  BY TypeNext DEF IInv
<1>2. ASSUME NEW o \in Observation, NEW dt \in 0 .. MaxStep, Tick(o, dt) PROVE IInv'
  BY <1>1, <1>2, TickKeeps
<1>3. ASSUME NEW c \in ActivityIntents, Arbitrate(c) PROVE IInv'
  BY <1>1, <1>3, ArbitrateKeeps
<1>4. CASE Restart
  <2>1. /\ sa' = InitialSa /\ uptime' = NoTimebase /\ obs' = Unobserved
        /\ forced' = FALSE /\ lostFor' = 0
    BY <1>4 DEF Restart
  <2>2. InitialSa = InitialSa' /\ Unobserved = Unobserved'
    BY DEF InitialSa, Unobserved, ResetFunnel, DefaultIntent
  <2>3. SaInv(sa)' /\ MarkerInv(sa)'
    BY <2>1, ResetFunnelType DEF InitialSa, SaInv, MarkerInv
  <2>4. TimerInv'
    BY <2>1 DEF InitialSa, TimerInv
  <2>5. CanFailsafeForces' /\ CanErrorForces'
    BY <2>1 DEF InitialSa, Unobserved, CanFailsafeForces, CanErrorForces
  <2>6. QED
    BY <1>1, <2>3, <2>4, <2>5 DEF IInv
<1>5. CASE UNCHANGED vars
  BY <1>5 DEF vars, IInv, TypeOK, SaInv, MarkerInv, TimerInv, CanFailsafeForces,
              CanErrorForces, current, SensingLost
<1>6. QED
  BY <1>2, <1>3, <1>4, <1>5 DEF Next

\* The invariant holds in the initial states.
LEMMA IInvInit == Init => IInv
  BY TypeInit, FreshIInv DEF Init

\* The invariant holds throughout.
THEOREM Invariance == Spec => []IInv
  BY IInvInit, IInvNext, PTL DEF Spec

\* Whatever fault a tick latches, a safety stop is current while it stands and
\* none is left over afterwards.
THEOREM StopHeld == Spec => []FaultHoldsStop
<1>1. IInv => FaultHoldsStop
  BY DEF IInv, SaInv, FaultHoldsStop, current
<1>2. QED
  BY <1>1, Invariance, PTL

\* CanFailsafe stands under a force-stop that each tick sends.
THEOREM FailsafeForced == Spec => []CanFailsafeForces
<1>1. IInv => CanFailsafeForces
  BY DEF IInv
<1>2. QED
  BY <1>1, Invariance, PTL

\* The tick that sees a CAN error answers it, in every state.
THEOREM CanErrorForced == Spec => []CanErrorForces
<1>1. IInv => CanErrorForces
  BY DEF IInv
<1>2. QED
  BY <1>1, Invariance, PTL

\* A pending crash marker blocks motion through any number of restarts.
THEOREM MarkerHolds == Spec => []MarkerBlocks
<1>1. IInv => MarkerBlocks
  BY DEF IInv, SaInv, MarkerInv, MarkerBlocks, TypeOK, SafetyHealth
<1>2. QED
  BY <1>1, Invariance, PTL

\* Sensing lost for TDeg has become a Fault.
THEOREM LossDetected == Spec => []SensingLossFaults
<1>1. IInv => SensingLossFaults
  BY TDegAssumption DEF IInv, TypeOK, SafetyHealth, TimerInv, SensingLossFaults
<1>2. QED
  BY <1>1, Invariance, PTL

-----------------------------------------------------------------------------
\* What FaultLatched allows a step to do.
LatchedStep ==
    sa.fault \in {"CanFailsafe", "CrashMarker"} =>
      sa'.fault = sa.fault \/ sa' = InitialSa

\* No step but a restart takes a latched fault away.
LEMMA LatchedNext == IInv /\ [Next]_vars => [LatchedStep]_vars
<1> SUFFICES ASSUME IInv, Next, sa.fault \in {"CanFailsafe", "CrashMarker"}
             PROVE  sa'.fault = sa.fault \/ sa' = InitialSa
  BY DEF LatchedStep
<1>1. sa.health = "Fault"
  BY DEF IInv, SaInv
<1>2. ASSUME NEW o \in Observation, NEW dt \in 0 .. MaxStep, Tick(o, dt)
      PROVE  sa'.fault = sa.fault
  <2>1. PICK s : Branch(s, o, dt) /\ Finish(s, o, dt)
    BY <1>2, TickShape
  <2>2. s = sa
    BY <1>1, <2>1 DEF Branch, Clearable
  <2>3. sa' = CanReaction(sa, o.can) /\ sa \in SaType /\ o.can \in CanErrorState
    BY <2>1, <2>2 DEF Finish, IInv, TypeOK, SaType, Observation
  <2>4. QED
    BY <1>1, <2>3, CanReactionFacts
<1>3. ASSUME NEW c \in ActivityIntents, Arbitrate(c) PROVE sa'.fault = sa.fault
  BY <1>1, <1>3 DEF Arbitrate, Admitted, ActivityIntents
<1>4. CASE Restart
  BY <1>4 DEF Restart
<1>5. QED
  BY <1>2, <1>3, <1>4 DEF Next

\* CanFailsafe and CrashMarker end with a restart only, and no other fault
\* takes their place.
THEOREM LatchKept == Spec => FaultLatched
<1>1. Spec => [][LatchedStep]_vars
  BY Invariance, LatchedNext, PTL DEF Spec
<1>2. QED
  BY <1>1 DEF FaultLatched, LatchedStep

\* What NoEarlyTimeout allows a step to do.
TimeoutStep ==
    sa.health = "Degraded" /\ sa'.fault = "DegradedTimeout" =>
      lostFor' + MaxStep >= TDeg

\* The step that latches DegradedTimeout ends TDeg of lost sensing.
LEMMA TimeoutNext == IInv /\ [Next]_vars => [TimeoutStep]_vars
<1> SUFFICES ASSUME IInv, Next, sa.health = "Degraded", sa'.fault = "DegradedTimeout"
             PROVE  lostFor' + MaxStep >= TDeg
  BY DEF TimeoutStep
<1>1. sa.fault = "None"
  BY DEF IInv, SaInv
<1>2. ASSUME NEW o \in Observation, NEW dt \in 0 .. MaxStep, Tick(o, dt)
      PROVE  lostFor' + MaxStep >= TDeg
  <2>1. PICK s : Branch(s, o, dt) /\ Finish(s, o, dt)
    BY <1>2, TickShape
  <2>2. sa \in SaType /\ o.can \in CanErrorState
    BY DEF IInv, TypeOK, SaType, Observation
  <2>3. s \in SaType /\ Outline(s, o, dt)
    BY <2>1, <2>2, BranchType, BranchOutline
  <2>4. s.fault = "DegradedTimeout"
    BY <2>1, <2>2, <2>3, CanReactionFacts DEF Finish
  <2>5. SensingLost(o) /\ sa.deg + dt >= TDeg
    BY <1>1, <2>3, <2>4 DEF Outline
  <2>6. lostFor' = IF SensingLost(obs) THEN AtMost(TDeg, lostFor + dt) ELSE 0
    BY <2>1, <2>5 DEF Finish, IInv, TimerInv
  <2>7. /\ sa.deg \in Nat /\ lostFor \in Nat /\ dt \in Nat /\ dt <= MaxStep
        /\ MaxStep \in Nat /\ TDeg \in Nat
        /\ sa.deg <= lostFor + MaxStep
        /\ ~SensingLost(obs) => sa.deg = 0
    BY StepAssumption, TDegAssumption DEF IInv, TypeOK, TimerInv
  <2>8. QED
    BY <2>5, <2>6, <2>7 DEF AtMost
<1>3. ASSUME NEW c \in ActivityIntents, Arbitrate(c) PROVE FALSE
  BY <1>1, <1>3 DEF Arbitrate, Admitted, ActivityIntents
<1>4. CASE Restart
  BY <1>4 DEF Restart, InitialSa
<1>5. QED
  BY <1>2, <1>3, <1>4 DEF Next

\* The timeout fault is never early by more than one interval.
THEOREM TimeoutNotEarly == Spec => NoEarlyTimeout
<1>1. Spec => [][TimeoutStep]_vars
  BY Invariance, TimeoutNext, PTL DEF Spec
<1>2. QED
  BY <1>1 DEF NoEarlyTimeout, TimeoutStep
=============================================================================
