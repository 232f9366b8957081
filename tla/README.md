# ShuttleControllerV3: TLA+ models

Specifications of the firmware of a pallet shuttle controller (STM32F4, C++),
the TLC configurations that check them on small instances, and TLAPS proofs of
the properties that matter most. Paths below are relative to the repository.

## 1. The system

One foreground loop and a few interrupts. `platform/execution_core.cpp` runs at
most one bounded step of a FIFO per millisecond tick, then the *safety
boundary*, then reloads the watchdog. The domain is a set of single-writer
objects called from those steps, so each call is atomic with respect to the
others; concurrency is the *order* of calls, the clock that moves while a step
runs, and the interrupts under the drivers.

| component | state it keeps | operations | talks to |
| --- | --- | --- | --- |
| Operation Runtime (`domain/runtime.cpp`) | array of live operation instances in insertion order, op id counter | create_root, create_child, advance, stop, fault_cascade | slot (claim, release), drivers (callback), events |
| Exclusive slot (`domain/slot.cpp`) | the active exclusive activity | try_claim, release | Operation Runtime |
| Safety Authority (`domain/safety_authority.cpp`) | health, degraded class, fault, degraded timer, funnel | init, tick, arbitrate | sensing snapshots, CAN port, crash marker |
| Arbitration funnel (`domain/arbitration.h`, `safety_intent.h`) | the one current intent | apply, reset | Safety Authority, Actuator Controller |
| Crash marker (`adapters/backup_marker.cpp`) | one word in backup SRAM | read, write, clear | Safety Authority at init |
| Actuator Controller (`domain/actuator.cpp`, `platform/actuation_schedule.cpp`) | next transmit gate, armed flag | step, arm | current intent, CAN port, kernel |
| Sensing (`domain/sensing.cpp`, `platform/sensing_schedule.cpp`) | per sensor: health, failures, successes, sample, age | step, get_snapshot | I2C port, Safety Authority, kernel |
| Semantic Contract (`domain/semantic.cpp`, `platform/admission_glue.cpp`) | grant | process_frame: requests, stops, queries, subscriptions | queues, ledger, runtime, subscriptions, gates |
| Request ledger (`domain/ledger.cpp`) | ring of the last decisions of each authority | lookup, store | Semantic Contract |
| Subscriptions (`domain/subscriptions.cpp`) | bounded table of subscriptions | subscribe, unsubscribe, birth | Semantic Contract, Sink |
| Inbound queues (`domain/queues.h`, `static_queue.h`) | bounded class queues | push, pop | UART reader, inbound step |
| Observability (`domain/observability.cpp`, `platform/observability_schedule.cpp`) | class queues, record numbers, drop counters, fault capture | producer records, documents, sink tick, birth check | everyone, UART bridge |
| Execution core (`platform/execution_core.cpp`, `coop_core.h`) | ring of steps, last tick | schedule, process_tick, run | all steps, safety slot, watchdog |
| Clock (`platform/monotonic.cpp`, `seqlock.h`, `adapters/tim2_clock.cpp`) | milliseconds, cycle count under a seqlock | now_ms, ticks_us, tick interrupt | everyone |
| UART bridge (`adapters/uart_bridge.cpp`) | transmit ring, interrupt enable | tx, TXE interrupt | Sink |
| Other adapters (`adapters/*`) | peripheral registers | see ports.h | domain ports |

What is hard here: terminals of operations that are deferred while descendants
run; one outcome field for many children; id counters that wrap; a health
machine, a fault latch and an intent ratchet that change in the same tick in a
fixed order; timers that are sums of tick intervals; state that survives a
reset; steps that must re-arm themselves or never run again; rings and
counters shared with interrupts; requests that are repeated while the gates and
the ledger change; texts sent in pieces through queues that overflow. `PROJECT.json` lists each hazard at its line.

What makes each component correct:
- Runtime: the ownership tree has no orphans or cycles, the slot belongs to
  exactly one live root, each operation ends exactly once and after its
  descendants, no stop, wake-up or child outcome is lost, a stop ends everything.
- Safety Authority: a fault holds a stop, a CAN error forces a stop in the same
  tick in every state, reset-only faults stay, sensing loss is neither missed
  nor reported early, a stop that has served its purpose is released.
- Sensing: a sensor the Safety Authority takes for fresh was sampled recently.
- Admission: a request runs at most one operation, repetitions get the first
  answer, a stop gets through a full queue.
- Sink, Subscriptions: bounded, every record sent, queued or counted as dropped,
  texts and fault captures never mixed, nothing stuck in a queue. (A lost answer
  or birth is not counted, and may not be reported either: `Observability_drops`.)
- UART ring, clock: no byte lost or left behind, no torn time, wherever an
  interrupt breaks in.
- Execution core: a self-repeating step never dies, the safety boundary runs on
  every tick.

## 2. Modules

- `OperationRuntime`: `inst` maps the op ids of live instances to records
  (`Instance`), `before` is the order of the array, `lastId` is `m_next_op_id`,
  `slot` the exclusive slot, `reported` the terminal events of the last step.
  One action per method; `advance()` is one action per driver event because the
  driver may return any of them at any time. The loops over parent links are
  least fixed points (`Ancestors`, `Finalized`), which TLAPS can reason about.
  Rejected creations change nothing and are stutters.
- `ExclusiveActivity`: what the slot promises; `OperationRuntime` implements it
  under the mapping `Holder`.
- `Arbitration`: intents, their order and the funnel, as operators.
- `SafetyAuthority`: `sa` is the object (health, class, fault, `deg` =
  `m_deg_motion_ms`, funnel), `uptime` the time since the first tick, `marker`
  the crash flag that survives `Restart`. `tick()` is one action per branch of
  its state machine; what every branch shares (CAN reaction, force-stop
  emission, time) is `Finish`. `obs`, `forced` and `lostFor` record what the
  ticks saw and sent.
- `SafetyClaims`: the Safety Authority with the history a documented claim
  speaks of.
- `SafetyLiveness`: the Safety Authority under a kernel that keeps ticking.
- `Kernel`: the execution core. `ring` is the StepRing with each deadline as the
  time left at the start of the next tick, `armed` is `g_armed`, `gate` the time
  left until `m_next_gate_ms`. One action is one pass of `run()`: the first step
  if it is due (`PeriodicTick`, `EmissionTick`) or none (`IdleTick`), then the
  safety boundary with the time read at the start, which may arm the emission
  step. Time passes inside the action (`run`, `late`, `next`), because the
  stale readings of the clock are what can go wrong. How a step re-arms itself
  is data (`Delay`, `Retry`): the seven steps follow three patterns. Whether an
  intent is active is a free choice at each boundary; `SafetyAuthority` decides it.
- `Sensing`: `step()` of the Sensing Service: rotation over the ToF sensors,
  AS5600 service, recording of the answers, recovery cooldown, freshness.
  `snap` is `m_snapshots` without the readings; ages stop at the freshness
  budget and streaks at their thresholds, the only values they are compared
  with. `attempt` records what the last step read.
- `Codec`: what `decode()` and the payload decoders let through, as conditions on
  the properties of a frame they look at. CRCs and request fingerprints are
  perfect: equal exactly when what they cover is equal.
- `Admission`: the way of a control frame from the inbound Control queue
  (`working`, `reserve`) through `inbound_tick` into the Semantic Contract.
  `ring` is the ledger ring of the granted authority, `forgotten` the keys it has
  evicted, `ops` what shares instances and op ids with admission: the operations
  of requests and the children that drivers spawn (`RuntimeSpawns`), which go past
  admission and leave no entry in the ledger (`NoRequest`). `given` counts the ids
  given out since the boot, up to one lap of the counter. One `InboundTick` is one
  frame taken out and processed to the end; `HandleOperationRequest` has one
  alternative per outcome of `admit()` (`RefuseStatic`, `Replay`,
  `RefuseDynamic`, `Accept`), and the nested checks of the code are the two
  reject functions, in the order of the code. Any frame may arrive at any
  time and any number of times, and the gates may have any value whenever a
  request is decided; `Reboot` clears everything kept in RAM. The epoch of
  `main.cpp` is a stub with a constant value, the contract wants a new one per
  boot; the model allows both.
- `RequestDecisions`: what a client is promised about its requests; `Admission`
  implements it with the ledger as the list of remembered decisions.
- `Subscriptions`: the registry: slots, ids, class masks, births.
- `Observability`: Producer, Sink and the steps that drive them. `out` holds the
  class queues, record numbers, drop counters and the fault capture; `sink` is a
  `Sink::tick()` under way, split at every look at the UART ring, because the
  transmitter empties it meanwhile; `age` is the time since the periodic steps
  acted; `wire` records what went out. Steps of others that end in the
  Producer are `RecordEvent`, `RecordCrash`, `RecordLog`, `SendAck` and the
  handlers of queries and subscriptions. A frame is its kind, number, place
  among its fragments and size. The firmware calls neither `log_emit` nor the
  Service class yet; the Producer offers them and the model uses the first.
- `UartBridge`: the transmit ring, `tx()` split at each access to what it shares
  with the TXE interrupt. `ByteChannel`: what the ring promises.
- `Tim2Clock`: the tick interrupt, `raw_now_ms()` in two words under PRIMASK and
  `raw_ticks_us()` with the seqlock, load by load.
- `Interrupts`: one processor that runs `tx()` or a clock reader, the two
  interrupts that break in, and the hardware.
- `MCKernel`, `MCSensing`, `MCAdmission`, `MCObservability`: instances for TLC.
- `OperationRuntimeProofs`, `SafetyAuthorityProofs`, `KernelProofs`,
  `SensingProofs`, `AdmissionProofs`, `ObservabilityProofs`, `InterruptsProofs`:
  theorems and proofs.

Operators named `Bug...` are faulty variants of the definition that follows
them; no specification uses them.

## 3. Runs

| run | question | result |
| --- | --- | --- |
| `OperationRuntime_pass` | tree, slot, deferral, stops, wake-ups, outcomes, refinement of the slot; does a stop of everything drain the runtime | holds |
| `SafetyAuthority_pass` | fault, latch, timer, CAN and marker invariants; sensing loss stops; good observations recover | holds |
| `SafetyClaims_stops` | "stop intents always pass" | violated outside Ready |
| `Kernel_steps` | no periodic step dies, doubles or starves; a scheduled emission step stays scheduled while an intent is active and its frames go out | holds |
| `Kernel_rearm` | "emission never dies silently": an armed emission step is scheduled | violated: stale deadline on arming |
| `Sensing_pass` | health states, samples and streaks agree; good sensors become Healthy, dead ones Faulted | holds |
| `Admission_pass` | at most one operation per request, answers repeated unchanged, ledger and runtime agree, stops served; refinement of `RequestDecisions` | holds |
| `Admission_last` | at most one operation per request, for the last authority id | violated: the ledger has no ring for it |
| `Observability_pass` | numbers, queues and drop counters agree; captures and documents never mixed; queues drain, captures are delivered | holds |
| `Observability_drops` | "answer queue full: dropped + event" | violated: the one latched drop is overwritten by that of another class |
| `Observability_stamp` | `set_now()` is called before any record of a tick | violated: it is called by the telemetry step only |
| `Interrupts_pass` | ring implements `ByteChannel`, no byte left behind, no torn time | holds |

Each violated run has a finding in `PROJECT.json` that quotes the statement it
contradicts. What is proved for all values of the constants and adds nothing to
the other properties of a run is not checked there again: the type invariants of
`OperationRuntime`, `SafetyAuthority`, `Kernel` and `Sensing`, and `SlotOwned`,
`ArrayOrder`, `NoLostWakeup`, `CanFailsafeForces`, `BlockBounded` and
`FaultByFailure` (section 4).

**Known disagreements without a run of their own**, seen while modelling, all
reachable in the models:
- `stop()` of an operation whose terminal is deferred returns at
  `domain/runtime.cpp:396` and marks none of its descendants; `runtime.h:149`
  says a stop is cascaded.
- `create_child` (`runtime.cpp:119`) accepts a parent that is Stopping; the
  comment at `runtime.cpp:223` says "no new children while stopping".
- A CAN error that arrives in Fault(DegradedTimeout) is not latched
  (`safety_authority.cpp:161`), so the fault may clear by itself; `ports.h:146`
  says it stays until a reset.
- Degraded leads to Ready (`safety_authority.cpp:117`) without the grace period
  that `docs/safety-model-v3.md:95` asks for before Ready.
- A stop from an activity is never replaced by intents of the same rank
  (`safety_intent.h:66`); in Ready nothing but a fault and its clearing
  (`safety_authority.cpp:140`) removes it.

**Bounds.** Runtime: three instances, depth 2, three usable op ids and two
activity classes. Three instances allow a chain and a parent with two
children, the shapes that deferral, cascades and outcome overwriting need;
ids wrap after a few creations, so an id is reused while others live. Safety
Authority: T_deg 8, grace 3, up to 3 time units per tick (0 included: two
ticks of one millisecond value): the timer takes several ticks, and can
overshoot.
Kernel: one periodic step for each pattern of re-arming and the emission step in
a ring with exactly the room they need, budget 3; in `Kernel_steps` a step may
take the whole budget and the sensing slot is longer than the window, so that
first attempts are rejected. Times between two readings a few lines apart are at
most one millisecond (`MaxLate`). Sensing: two ToF sensors and the AS5600,
thresholds of 2, gaps of 1 or 2: a round then takes at most one unit less than
the budget of 5, and one lost answer makes a sensor stale.
Admission: a queue of one with a reserve of one, a ledger of depth two against
three request ids (one with two payloads, one for each of two epochs), two
instances, three op ids, an exclusive type and one for roots and children;
damaged frames and frames of another epoch too. So decisions are evicted while
their operation lives, requests and spawns compete for instances, the ids go
round more than once, and stops meet a full queue. Observability: sizes in
units of about 32 bytes, where a full fragment is the whole class cap and more
than half the ring; queues of one or two frames, numbers and drop counters
that wrap at 3, and three steps of others (`MaxLoad`), enough for a capture
that supersedes one half sent, for drops beyond the wrap and for their report.
In the code a full document has 188 bytes and the buffer 456, four fragments
at most; the assumptions of the module state what of this is needed. Interrupts: a
ring of three bytes, frames of one and two, words of two bits and four cycles
and ticks, so that ring, words and counter wrap under the readers.

**Fairness.** `OperationRuntime!FairSpec`: a driver that is called again and again
with `stop_requested` ends its operation, which is its contract (`runtime.h`,
OperationEnv); it is strong fairness because other instances may be driven in
between. Nothing is assumed of other drivers. `SafetyLiveness!FairSpec`: ticks
with the clock advancing happen again and again (`execution_core.cpp`, run);
`beat` flips with each, so that fairness asks for ticks and not for observations
that change.
`Kernel!FairSpec`: `run()` never returns and the timer interrupt wakes it.
`Sensing!FairSpec`: `schedule_tick` runs again and again, which is `StepsRun` of
`Kernel`; for the same reason `Admission!Spec` has the inbound step and
`Observability!Spec` the Sink's step weakly fair, the latter with the clock that
empties the ring. `Interrupts!Spec`: the foreground goes on after an interrupt, a
byte leaves the data register, and a pending interrupt is taken when PRIMASK is
lifted (strong, as the mask comes and goes). `Cycle` assumes that neither a tick
nor a reader's call is as late as the wrap of the 32-bit counter, 25 seconds.

## 4. Proofs

For every capacity, depth, id modulus (greater than the capacity) and set of
activities, `OperationRuntimeProofs` proves `IInv`: the conjunction of the type
invariant, the total order of the array, the ownership tree, the slot's
ownership, `DeferredHasDescendants` and `NoLostWakeup`. None of these is
inductive alone: that a deferred parent still has a descendant needs the tree
to be free of orphans, which needs removals to take whole chains
(`Finalized`), which needs the order of the array. The other theorems follow
from `IInv`: the five invariants, `ChildOutcomeSeen` (a woken parent stands
before its children, so `advance()` drives it first), the refinement of
`ExclusiveActivity`, and three more action properties. For these each step is
sorted into one that reports nothing (`Keeps`) or the end of one due instance
(`Ends`); then `DeferredOutcomeFixed` and `ReportedOnce` are facts about the
cascade of `finalize`, whose members other than the driven one were all
deferred and have all their descendants in it (`FinalizedFacts`).

For every T_deg, grace period and bound on the tick interval,
`SafetyAuthorityProofs` proves the invariants of `SafetyAuthority_pass`, its
action properties and `CanFailsafeForces`, from an inductive invariant that relates the timer
`deg` to `lostFor`: in Degraded the two differ by at most the interval in which
sensing was lost.

`KernelProofs` proves, for any number of periodic steps that leaves room for two
more entries, any delays, retries, budget and duration of steps, that no
periodic step dies, none is scheduled twice and no head waits longer than the
budget. The invariant counts: the ring holds each periodic step once and the
emission step at most once (`Sound`), so there is room whenever a step re-arms
itself, so re-arming succeeds, so the ring holds each step. That the emission
step in the ring counts as armed closes the circle: the boundary never adds a
second one. The converse, that an armed step is in the ring, is false
(`Kernel_rearm`): arming it with a time read too early loses it. What does hold
without a condition on how long steps take is that an emission step that is in
the ring stays there while an intent is active (`EmissionKept`): it
re-arms itself with a time read afterwards, which the kernel accepts. Assumed:
readings of the clock a few lines apart differ by at most a millisecond, and a
delay beyond the window has a retry.

`SensingProofs` proves the type invariant, `HealthHonest` and `FaultByFailure` for
any sensors, budgets, thresholds and gaps; between the record of an answer and
the freshness check the weaker `AlmostHonest` holds.

`AdmissionProofs` proves, for any queue, ledger depth, frames, types and gates,
the types and capacities (`TypeCorrect`, also for a grant the ledger has no ring
for), and under `Ringed`, "each authority that may be granted has a ring", three
things: a request never runs two operations unless its decision has been evicted
in between, remembered decisions are true of the runtime, and `Admission`
implements `RequestDecisions`. `Ringed` is needed: `Admission_last` violates the
first of them without it, and in the code authority 16 has no ring (a finding).
The inductive invariant is `TypeInv /\ MemoryInv`. `TypeInv` holds more than the
types: the keys in the ring differ and each entry's request was acceptable in
itself, so a repetition reaches the ledger again. `MemoryInv` says that a live
operation of a request is named by its decision or was forgotten (`Remembered`),
that a decision names no other operation (`NamesTrue`), and why: until every id
has been given out once, ids come in turn and none that is still to come is known
to an operation or a decision (`FirstLap`).

`NamesTrue` is limited to that first lap, and must be. Requests and the spawns of
drivers take their ids from one counter, and spawns leave no entry that would push
the old decision out of the ledger. So after a full lap a decision that is still
remembered can name the operation of another request, or a spawned child, and a
late repetition would be answered with its id. The code relies on there being
"2^32 ids per epoch without reboot" (`runtime.cpp:59`); it does not enforce it, and
nothing here shows that a boot stays below. The other promises hold for ever, ids
reused or not: at most one operation per request, answers repeated unchanged, and
an operation of a remembered request is the one its decision names.

`ObservabilityProofs` proves the four safety properties of `Observability_pass` for
any capacities, sizes, periods and moduli within the module's assumptions. Of
its inductive invariant, `Registered` bounds the subscription table, `Paced` the
Sink's step, budget and ring, and `Queued` relates queues, counters and wire: each
frame stands in a queue where it belongs, records are accounted for
(`Balanced`), what is queued of a capture is the rest of exactly one
(`Captured`), and in the Control queue a fragment that is not the first follows
its predecessor, in the queue or on the wire (`Chained`). Each is a fact about
`out`, `sent` and `last`, kept by the operators that push, drop and send, so that
an action is a chain of these lemmas. `FragmentsInOrder` is
read off the steps from there. That
`DropModulus` is a multiple of `SeqModulus` is what lets the sum of numbers,
queues and drops close when they wrap at different widths (8 and 16 bits in the
code). Assumed and evaluated by TLC, not proved: the size of each document the
constants allow is within `MaxDocument`; it is a sum by a fold, which needs an
induction.

`InterruptsProofs` proves the three safety properties of `Interrupts_pass` for any ring,
frames and word width. The invariant says what each program counter knows.
For the ring: a room computed with an old head is at most too small, so what
`tx()` still has to store fits; the byte behind the tail is in its slot before
the tail moves; and between the flag `m_txe_enabled` and the register bit the
interrupt cannot come and clear the flag. That gives the refinement of
`ByteChannel`. For the clock: what a reader has loaded comes from counts published
since its call began, in that order. Two passes that agree on the low word saw
one count, because less than a wrap of the counter passed since the call; from
there high word and previous reading are of that count too. The proof does not
use the sequence number: with calls shorter than a wrap of the cycle counter
(assumed in `Cycle`) the comparison of both passes is enough.

Only model-checked: the liveness properties, as fairness and ENABLED are out of
the prover's reach (`StoppingDrains`, `SensingLossStops`, `Recovers`, `StepsRun`,
`EmissionContinues`, `GoodIsHealthy`, `DeadIsFaulted`, `StopServed`, `Drains`,
`CaptureDelivered`, `BytesLeave`). Every invariant and action property the passing
runs check is proved.

## 5. Not modelled, and the plan

Not modelled: the byte layouts of record bodies (sequential conversions with unit
tests of their own), the CAN and I2C adapters (what they add is the behaviour of
registers; their results are free choices of the models that use them), the
watchdog policy (an unconditional reload, and a flash window nobody opens), RTC,
reset cause and identity reads, the order of start-up calls, the bring-up
images and the bench tools. The Service and Update queues have no consumer, and
reception on the UART is switched off, so there is nothing to model yet. Counters
that only a document prints (uptime, resets, admission histograms) are left out.

Theorems wanted next are the safety parts of the liveness properties, each an
action property that says what cannot be undone on the way:
1. `OperationRuntime`: while everything is Stopping, no step but a creation adds
   an instance, and each honoured stop ends one or defers it for good
   (`StoppingDrains`).
2. `SafetyAuthority`: a Fault stays while sensing is lost, and the recovery timer
   only grows while observations are good (`SensingLossStops`, `Recovers`).
3. `Sensing`: with gaps so short that a round fits into the budget, a Healthy
   sensor whose reads succeed stays Healthy (`GoodIsHealthy`).
4. `Observability`: a queued frame is overtaken only by the classes before its
   own (`Drains`, `CaptureDelivered`).
