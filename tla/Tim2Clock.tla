----------------------------- MODULE Tim2Clock -----------------------------
(***************************************************************************)
(* The monotonic clock: the TIM2 interrupt and the readers of              *)
(* src/adapters/tim2_clock.cpp with the seqlock of src/platform/seqlock.h. *)
(* The processor reads a 64-bit value in two words, so a reader may see    *)
(* half of one tick and half of the next; the interrupt itself, of the     *)
(* highest priority, is one step.                                          *)
(***************************************************************************)
EXTENDS Naturals, Sequences

CONSTANTS
    Word,      \* 2^32
    MaxTicks,  \* bound on the number of ticks
    MaxCycles  \* bound on the number of cycles

ASSUME ClockAssumption ==
    Word \in Nat /\ Word > 1 /\ MaxTicks \in Nat /\ MaxCycles \in Nat

VARIABLES
    now,     \* g_now_ms
    cycle,   \* g_cycle: [seq, cycles, prev]
    total,   \* auxiliary: cycles since the counter was started
    primask, \* interrupts are disabled
    read     \* a reader under way: [pc, next, s1, s2, begun, value]

clock == <<now, cycle, total, primask, read>>

Low(n) == n % Word
High(n) == n \div Word
Live == total % Word  \* DWT->CYCCNT
Since(prev) == (Live + Word - prev) % Word

\* A snapshot before any of its words is loaded.
Blank == [seq |-> 0, low |-> 0, high |-> 0, prev |-> 0]
NoRead == [pc |-> "idle", next |-> 1, s1 |-> Blank, s2 |-> Blank, begun |-> 0, value |-> 0]

ClockInit ==
    /\ now = 0 /\ total = 0
    /\ cycle = [seq |-> 0, cycles |-> 0, prev |-> 0]
    /\ primask = FALSE
    /\ read = NoRead

\* on_tick(), cycles after the last one; the sequence number is odd only
\* within this step.
OnTick ==
    /\ now < MaxTicks /\ total > cycle.cycles
    /\ now' = now + 1
    /\ cycle' = [seq |-> (cycle.seq + 2) % Word,
                 cycles |-> cycle.cycles + Since(cycle.prev),
                 prev |-> Live]
    /\ UNCHANGED <<total, primask, read>>

\* The counter runs; neither a tick nor the end of a reader's call is as late
\* as the wrap of the counter.
Cycle ==
    /\ total < MaxCycles /\ total + 1 < cycle.cycles + Word
    /\ read.pc \in {"s1", "s2", "live"} => total + 1 < read.begun + Word
    /\ total' = total + 1
    /\ UNCHANGED <<now, cycle, primask, read>>

----------------------------------------------------------------------------
\* raw_now_ms(): two words, with interrupts disabled.

NowCall ==
    /\ read.pc = "idle"
    /\ primask' = TRUE
    /\ read' = [read EXCEPT !.pc = "nowLow"]
    /\ UNCHANGED <<now, cycle, total>>

NowLow ==
    /\ read.pc = "nowLow"
    /\ read' = [read EXCEPT !.pc = "nowHigh", !.s1.low = Low(now)]
    /\ UNCHANGED <<now, cycle, total, primask>>

\* The read that leaves interrupts disabled.
BugNowHigh ==
    /\ read.pc = "nowHigh"
    /\ read' = [NoRead EXCEPT !.pc = "gotNow", !.value = High(now) * Word + read.s1.low]
    /\ UNCHANGED <<now, cycle, total, primask>>

NowHigh ==
    /\ read.pc = "nowHigh"
    /\ read' = [NoRead EXCEPT !.pc = "gotNow", !.value = High(now) * Word + read.s1.low]
    /\ primask' = FALSE
    /\ UNCHANGED <<now, cycle, total>>

----------------------------------------------------------------------------
\* raw_ticks_us() and snapshot_cycle().

TicksCall ==
    /\ read.pc = "idle"
    /\ read' = [read EXCEPT !.pc = "s1", !.begun = cycle.cycles]
    /\ UNCHANGED <<now, cycle, total, primask>>

Loads == 4

\* The n-th load of a pass; cycles takes two of them.
Load(s, n) == CASE n = 1 -> [s EXCEPT !.seq = cycle.seq]
                [] n = 2 -> [s EXCEPT !.low = Low(cycle.cycles)]
                [] n = 3 -> [s EXCEPT !.high = High(cycle.cycles)]
                [] n = 4 -> [s EXCEPT !.prev = cycle.prev]

\* A reader that takes the first pass for good.
BugConsistent(s1, s2) == s1.seq % 2 = 0

\* The passes agree, and no writer was at work.
Consistent(s1, s2) == s1.seq % 2 = 0 /\ s1 = s2

\* One load of the first pass; an odd number at its end starts over.
FirstPass ==
    /\ read.pc = "s1"
    /\ LET s == Load(read.s1, read.next)
       IN  read' = [read EXCEPT !.s1 = s, !.next = IF @ < Loads THEN @ + 1 ELSE 1,
                     !.pc = IF read.next < Loads \/ s.seq % 2 # 0 THEN "s1" ELSE "s2"]
    /\ UNCHANGED <<now, cycle, total, primask>>

\* One load of the second pass; any difference at its end starts over.
SecondPass ==
    /\ read.pc = "s2"
    /\ LET s == Load(read.s2, read.next)
       IN  read' = [read EXCEPT !.s2 = s, !.next = IF @ < Loads THEN @ + 1 ELSE 1,
                     !.pc = IF read.next < Loads THEN "s2"
                            ELSE IF Consistent(read.s1, s) THEN "live" ELSE "s1"]
    /\ UNCHANGED <<now, cycle, total, primask>>

\* The snapshot and what the counter has done since.
TicksLive ==
    /\ read.pc = "live"
    /\ read' = [NoRead EXCEPT !.pc = "gotTicks", !.value =
                  read.s1.high * Word + read.s1.low + Since(read.s1.prev)]
    /\ UNCHANGED <<now, cycle, total, primask>>

Return ==
    /\ read.pc \in {"gotNow", "gotTicks"}
    /\ read' = NoRead
    /\ UNCHANGED <<now, cycle, total, primask>>

ReadStep == NowLow \/ NowHigh \/ FirstPass \/ SecondPass \/ TicksLive \/ Return
=============================================================================
