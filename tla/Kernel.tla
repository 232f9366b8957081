------------------------------- MODULE Kernel -------------------------------
(***************************************************************************)
(* The execution core (src/platform/execution_core.cpp, coop_core.h), the  *)
(* steps that re-arm themselves (sensing_schedule.cpp, admission_glue.cpp, *)
(* observability_schedule.cpp) and the emission step of the Actuator       *)
(* Controller, which the safety boundary arms (actuation_schedule.cpp,     *)
(* safety_glue.cpp, domain/actuator.cpp).                                  *)
(*                                                                         *)
(* One action is one pass of run(): process_tick() reads the clock, runs   *)
(* the first step of the ring if it is due, then the safety boundary with  *)
(* the time it read at the start.  Time passes inside: run while the step  *)
(* works, late between a reading of the clock and the reading schedule()   *)
(* compares it with, next from the start of this tick to that of the next. *)
(* Deadlines are kept relative to the start of the coming tick, so the     *)
(* 32-bit arithmetic of the code, exact within its window, is plain        *)
(* arithmetic here.  Whether an intent is active is decided elsewhere.     *)
(*                                                                         *)
(* The operators named Bug... are faulty variants of the definition that   *)
(* follows them; no specification uses them.                               *)
(***************************************************************************)
EXTENDS Integers, Sequences

CONSTANTS
    Startup,     \* the periodic steps, in the order setup() schedules them
    Actuation,   \* the emission step
    Delay,       \* how far ahead a step re-arms itself
    Retry,       \* what it tries when that is rejected
    MaxSteps,    \* capacity of the ring
    StepBudget,  \* StepBudgetMs: how far ahead a deadline may lie
    TxGate,      \* tx_gate_ms: the shortest time between two frames
    MaxRun,      \* bound on the duration of a step
    MaxLate,     \* bound on the time between two readings a few lines apart
    MaxNext      \* bound on the time between two ticks

Periodic == {Startup[i] : i \in 1 .. Len(Startup)}
Step == Periodic \cup {Actuation}

\* The last chance of a rejected step: a deadline from a new reading of the
\* clock, from the reading it has, or none.
RetryKind == {"fresh", "stale", "none"}

ASSUME StartupAssumption ==
    /\ Startup \in Seq(Periodic)
    /\ \A i, j \in 1 .. Len(Startup) : Startup[i] = Startup[j] => i = j
    /\ Actuation \notin Periodic
\* A delay beyond the window, as a long sensing slot gives, needs a retry.
ASSUME DelayAssumption ==
    /\ StepBudget \in Nat \ {0}
    /\ Delay \in [Step -> Nat \ {0}]
    /\ Retry \in [Step -> RetryKind]
    /\ \A f \in Step : Delay[f] > StepBudget => Retry[f] # "none"
\* Room for every step and for the entry of the one that is running.
ASSUME RingAssumption == MaxSteps \in Nat /\ MaxSteps > Len(Startup) + 1
ASSUME TimeAssumption ==
    /\ TxGate \in Nat /\ MaxRun \in Nat /\ MaxLate \in {0, 1}
    /\ MaxNext \in Nat /\ MaxNext > MaxRun + MaxLate

VARIABLES
    ring,    \* the entries of the StepRing, first to last
    armed,   \* g_armed
    active,  \* intent_active()
    gate,    \* time left until m_next_gate_ms
    last,    \* the step the last tick ran, or Nothing
    sent     \* the last tick handed a control frame to the CAN port

vars == <<ring, armed, active, gate, last, sent>>

Nothing == "nothing"

Entry(fn, wait) == [fn |-> fn, wait |-> wait]

\* What is left of a time t after d has passed; a deadline that has come or
\* gone is 0.
Left(t, d) == IF t > d THEN t - d ELSE 0

Later(r, d) == [i \in 1 .. Len(r) |-> Entry(r[i].fn, Left(r[i].wait, d))]

\* kernel::schedule() of a deadline that lies delta ahead.
Accepts(r, delta) == delta \in 0 .. StepBudget /\ Len(r) < MaxSteps

\* The deadline counts from before the step: a long step makes it stale.
BugRearmedFromStart(f, run, late) ==
    IF Accepts(ring, Delay[f] - run - late) THEN Append(ring, Entry(f, Delay[f]))
    ELSE IF Accepts(ring, 1 - run - late) THEN Append(ring, Entry(f, 1))
    ELSE ring

\* The ring after step f has re-armed itself.  Its own entry still stands at
\* the head.
Rearmed(f, run, late) ==
    IF Accepts(ring, Delay[f] - late)
    THEN Append(ring, Entry(f, run + Delay[f]))
    ELSE IF Retry[f] = "fresh" /\ Accepts(ring, 1)
    THEN Append(ring, Entry(f, run + late + 1))
    ELSE IF Retry[f] = "stale" /\ Accepts(ring, 1 - late)
    THEN Append(ring, Entry(f, run + 1))
    ELSE ring

\* The safety slot arms the step without a look at g_armed.
BugSafetyBoundary(r, arm, spent, next) ==
    /\ active' \in BOOLEAN
    /\ armed' = (arm \/ active')
    /\ ring' = Later(IF active' /\ Accepts(r, 1 - spent)
                     THEN Append(r, Entry(Actuation, 1)) ELSE r, next)

\* The safety boundary of a tick that has spent this much time, and the wait
\* for the next tick: tick() of the Safety Authority decides whether an
\* intent is active, and actuation_arm() schedules the emission step.
SafetyBoundary(r, arm, spent, next) ==
    /\ active' \in BOOLEAN
    /\ armed' = (arm \/ active')
    /\ ring' = Later(IF active' /\ ~arm /\ Accepts(r, 1 - spent)
                     THEN Append(r, Entry(Actuation, 1)) ELSE r, next)

\* The times of a tick: the next one starts later and on a new millisecond.
Times(run, late, next) == next >= run + late /\ next >= 1

Due == ring # <<>> /\ Head(ring).wait = 0

\* No step is due: the ring is empty or its head blocks it.
IdleTick(late, next) ==
    /\ ~Due
    /\ Times(0, late, next)
    /\ SafetyBoundary(ring, armed, late, next)
    /\ gate' = Left(gate, next)
    /\ last' = Nothing
    /\ sent' = FALSE

\* A periodic step is due: it works, then re-arms itself.
PeriodicTick(f, run, late, next) ==
    /\ Due /\ Head(ring).fn = f
    /\ Times(run, late, next)
    /\ SafetyBoundary(Tail(Rearmed(f, run, late)), armed, run + late, next)
    /\ gate' = Left(gate, next)
    /\ last' = f
    /\ sent' = FALSE

\* A step that finds the gate closed disarms and leaves it to the boundary to
\* arm it again.
BugEmissionTickDisarm(run, late, next) ==
    /\ Due /\ Head(ring).fn = Actuation
    /\ Times(run, late, next)
    /\ SafetyBoundary(Tail(IF active /\ gate = 0 THEN Rearmed(Actuation, run, late)
                           ELSE ring),
                      active /\ gate = 0 /\ armed, run + late, next)
    /\ gate' = Left(IF active /\ gate = 0 THEN TxGate ELSE gate, next)
    /\ last' = Actuation
    /\ sent' = (active /\ gate = 0)

\* The emission step goes back to the head of the ring.
BugEmissionTickFront(run, late, next) ==
    /\ Due /\ Head(ring).fn = Actuation
    /\ Times(run, late, next)
    /\ SafetyBoundary((IF active THEN <<Entry(Actuation, run + Delay[Actuation])>>
                       ELSE <<>>) \o Tail(ring),
                      active /\ armed, run + late, next)
    /\ gate' = Left(IF active /\ gate = 0 THEN TxGate ELSE gate, next)
    /\ last' = Actuation
    /\ sent' = (active /\ gate = 0)

\* The gate starts anew with every step, sent or not.
BugEmissionTickGate(run, late, next) ==
    /\ Due /\ Head(ring).fn = Actuation
    /\ Times(run, late, next)
    /\ SafetyBoundary(Tail(IF active THEN Rearmed(Actuation, run, late) ELSE ring),
                      active /\ armed, run + late, next)
    /\ gate' = Left(IF active THEN TxGate ELSE gate, next)
    /\ last' = Actuation
    /\ sent' = (active /\ gate = 0)

\* actuation_step(): a frame when the gate is open, then re-arm or disarm.
EmissionTick(run, late, next) ==
    /\ Due /\ Head(ring).fn = Actuation
    /\ Times(run, late, next)
    /\ SafetyBoundary(Tail(IF active THEN Rearmed(Actuation, run, late) ELSE ring),
                      active /\ armed, run + late, next)
    /\ gate' = Left(IF active /\ gate = 0 THEN TxGate ELSE gate, next)
    /\ last' = Actuation
    /\ sent' = (active /\ gate = 0)

Init ==
    /\ ring \in [1 .. Len(Startup) -> [fn : Periodic, wait : {0, 1}]]
    /\ \A i \in 1 .. Len(Startup) : ring[i].fn = Startup[i]
    /\ armed = FALSE
    /\ active = FALSE
    /\ gate = 0
    /\ last = Nothing
    /\ sent = FALSE

Next ==
    \E run \in 0 .. MaxRun, late \in 0 .. MaxLate, next \in 1 .. MaxNext :
        \/ IdleTick(late, next)
        \/ \E f \in Periodic : PeriodicTick(f, run, late, next)
        \/ EmissionTick(run, late, next)

Spec == Init /\ [][Next]_vars

\* run() goes on for ever while the clock does.
FairSpec == Spec /\ WF_vars(Next)

----------------------------------------------------------------------------
\* Properties.

\* Every variable has its type and the ring its capacity.
TypeOK ==
    /\ ring \in Seq([fn : Step, wait : Nat])
    /\ Len(ring) <= MaxSteps
    /\ armed \in BOOLEAN
    /\ active \in BOOLEAN
    /\ gate \in Nat
    /\ last \in Step \cup {Nothing}
    /\ sent \in BOOLEAN

Scheduled(f) == \E i \in 1 .. Len(ring) : ring[i].fn = f

\* No periodic step ever dies: between two ticks each of them is in the ring,
\* however long steps take and although a step re-arms itself while its own
\* entry still takes up room.
StepsAlive == \A f \in Periodic : Scheduled(f)

\* No step is in the ring twice: the armed flag and the re-arming steps never
\* schedule the same work a second time.
ScheduledOnce ==
    \A i, j \in 1 .. Len(ring) : ring[i].fn = ring[j].fn => i = j

\* The head never blocks the ring for longer than the step budget.
BlockBounded == \A i \in 1 .. Len(ring) : ring[i].wait <= StepBudget

\* What actuation_schedule.cpp says of the emission step, "emission never
\* dies silently": while it counts as armed it is in the ring.
EmissionAlive == armed => Scheduled(Actuation)

\* What of that is true however long steps take and however late the clock is
\* read: while an intent is active an emission step that is in the ring stays
\* there, over its own runs too.  Only the arming can lose it.
EmissionStays ==
    [][active /\ Scheduled(Actuation) => Scheduled(Actuation)']_vars

\* Each periodic step runs again and again: neither a blocking head nor the
\* steps before it starve it.
StepsRun == \A f \in Periodic : []<>(last = f)

\* While an intent stays active and its emission step was armed, its frames
\* keep going out, whatever the other steps do in front of it.
EmissionContinues == <>[](active /\ Scheduled(Actuation)) => []<>sent
=============================================================================
