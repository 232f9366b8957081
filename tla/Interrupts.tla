----------------------------- MODULE Interrupts -----------------------------
(***************************************************************************)
(* One processor: the foreground, which at any time sends bytes or reads a *)
(* clock, and the two interrupts that break into it between any two of its *)
(* accesses, unless it has disabled them.  The hardware, which empties the *)
(* data register and counts cycles, goes on by itself.                     *)
(***************************************************************************)
EXTENDS UartBridge, Tim2Clock

vars == <<uart, clock>>

Free == tx.pc = "idle" /\ read.pc = "idle"

Frames == UNION {[1 .. n -> Byte] : n \in 1 .. MaxFrame}

Transmit == \E data \in Frames : Free /\ TxCall(data) /\ UNCHANGED clock
ReadNow == Free /\ NowCall /\ UNCHANGED uart
ReadTicks == Free /\ TicksCall /\ UNCHANGED uart

\* The foreground goes on with what it has begun.
Foreground ==
    \/ TxStep /\ UNCHANGED clock
    \/ ReadStep /\ UNCHANGED uart

Usart1 == ~primask /\ Usart1Isr /\ UNCHANGED clock
Tim2 == ~primask /\ OnTick /\ UNCHANGED uart
Hardware == Shift /\ UNCHANGED clock
CycleCounter == Cycle /\ UNCHANGED uart

Init == UartInit /\ ClockInit

Next == Transmit \/ ReadNow \/ ReadTicks \/ Foreground \/ Usart1 \/ Tim2
          \/ Hardware \/ CycleCounter

\* The foreground runs on after an interrupt; a byte leaves the register; an
\* interrupt that is pending is taken once interrupts are enabled again.
Fairness == WF_vars(Foreground) /\ WF_vars(Hardware) /\ SF_vars(Usart1)

Spec == Init /\ [][Next]_vars /\ Fairness

----------------------------------------------------------------------------
\* Properties.

\* The ring's indices and the readers' progress; an enabled interrupt is
\* always known to be so, and interrupts are disabled only in raw_now_ms().
TypeOK ==
    /\ head \in 0 .. RingSize - 1 /\ tail \in 0 .. RingSize - 1
    /\ slots \in [0 .. RingSize - 1 -> Byte] /\ line \in Byte
    /\ {enabled, txeie, full, primask} \subseteq BOOLEAN
    /\ tx.pc \in {"idle", "room", "store", "advance", "enable"}
    /\ read.pc \in {"idle", "nowLow", "nowHigh", "s1", "s2", "live", "gotNow", "gotTicks"}
    /\ now \in 0 .. MaxTicks /\ total \in 0 .. MaxCycles
    /\ txeie => enabled
    /\ primask = (read.pc \in {"nowLow", "nowHigh"})
    /\ Free \/ tx.pc = "idle" \/ read.pc = "idle"

\* Nothing of a frame is lost, repeated or overtaken on its way through the
\* ring, wherever the interrupt breaks into tx().
Channel == INSTANCE ByteChannel WITH Depth <- RingSize - 1, channel <- Contents

ImplementsChannel == Channel!Spec

\* The interrupt is not lost: a byte in the ring is moved out in the end, even
\* if the ring ran empty while tx() was filling it.
BytesLeave == \A h \in 0 .. RingSize - 1 : (head = h /\ head # tail) ~> (head # h)

\* A clock that is read shows the time of the reading, although ticks come in
\* between the words of a value and the counter wraps: a torn value would be
\* far off, and time would not be monotonic.
TimeTrue ==
    [][/\ read'.pc = "gotNow" /\ read.pc # "gotNow" => read'.value = now
       /\ read'.pc = "gotTicks" /\ read.pc # "gotTicks" => read'.value = total]_vars
=============================================================================
