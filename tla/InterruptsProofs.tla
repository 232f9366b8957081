-------------------------- MODULE InterruptsProofs --------------------------
(***************************************************************************)
(* Proofs about Interrupts, for every size of the ring, set of bytes and   *)
(* width of a word.                                                        *)
(***************************************************************************)
EXTENDS Interrupts, Integers, SequenceTheorems, TLAPS

----------------------------------------------------------------------------
\* Arithmetic modulo m.

LEMMA ModSmall ==
  ASSUME NEW m \in Nat, NEW x \in Nat, x < m
  PROVE  x % m = x
OBVIOUS

LEMMA ModBig ==
  ASSUME NEW m \in Nat, NEW x \in Nat, m <= x, x < m + m
  PROVE  x % m = x - m
OBVIOUS

LEMMA DivMod ==
  ASSUME NEW m \in Nat \ {0}, NEW x \in Nat
  PROVE  /\ x % m \in 0 .. m - 1
         /\ x \div m \in Nat
         /\ x = m * (x \div m) + (x % m)
BY SMTT(60)

\* Two numbers less than m apart: their difference is seen modulo m.
LEMMA ModDifference ==
  ASSUME NEW m \in Nat \ {0}, NEW a \in Nat, NEW b \in Nat, a <= b, b < a + m
  PROVE  ((b % m) + m - (a % m)) % m = b - a
<1> DEFINE qa == a \div m
           ra == a % m
           qb == b \div m
           rb == b % m
<1>1. ra \in 0 .. m - 1 /\ qa \in Nat /\ a = m * qa + ra
  BY DivMod
<1>2. rb \in 0 .. m - 1 /\ qb \in Nat /\ b = m * qb + rb
  BY DivMod
<1> HIDE DEF qa, ra, qb, rb
<1>3. b - a = m * (qb - qa) + rb - ra
  BY <1>1, <1>2
<1>4. qb - qa = 0 \/ qb - qa = 1
  <2>1. qb - qa \in Int
    BY <1>1, <1>2
  <2>2. ASSUME qb - qa >= 2 PROVE FALSE
    <3>1. m * (qb - qa) >= m * 2
      BY <2>1, <2>2
    <3>2. QED
      BY <3>1, <1>1, <1>2, <1>3, <2>1
  <2>3. ASSUME qb - qa <= 0 - 1 PROVE FALSE
    <3>1. m * (qb - qa) <= m * (0 - 1)
      BY <2>1, <2>3
    <3>2. QED
      BY <3>1, <1>1, <1>2, <1>3, <2>1
  <2>4. QED
    BY <2>1, <2>2, <2>3
<1>5. CASE qb - qa = 0
  <2>1. b - a = rb - ra
    BY <1>1, <1>2, <1>3, <1>5
  <2>2. rb + m - ra \in Nat /\ m <= rb + m - ra /\ rb + m - ra < m + m
    BY <2>1, <1>1, <1>2
  <2>3. (rb + m - ra) % m = (rb + m - ra) - m
    BY <2>2, ModBig
  <2>4. QED
    BY <2>1, <2>3, <1>1, <1>2 DEF ra, rb
<1>6. CASE qb - qa = 1
  <2>1. b - a = m + rb - ra
    BY <1>1, <1>2, <1>3, <1>6
  <2>2. rb + m - ra \in Nat /\ rb + m - ra < m
    BY <2>1, <1>1, <1>2
  <2>3. (rb + m - ra) % m = rb + m - ra
    BY <2>2, ModSmall
  <2>4. QED
    BY <2>1, <2>3, <1>1, <1>2 DEF ra, rb
<1>7. QED
  BY <1>4, <1>5, <1>6

\* Two numbers less than m apart that agree modulo m are equal.
LEMMA ModInjective ==
  ASSUME NEW m \in Nat \ {0}, NEW a \in Nat, NEW b \in Nat, a <= b, b < a + m,
         a % m = b % m
  PROVE  a = b
<1>1. a % m \in 0 .. m - 1
  BY DivMod
<1>2. (b % m) + m - (a % m) = m
  BY <1>1
<1>3. m % m = 0
  BY ModBig
<1>4. ((b % m) + m - (a % m)) % m = b - a
  BY ModDifference
<1>5. b - a = 0
  BY <1>2, <1>3, <1>4
<1>6. QED
  BY <1>5

----------------------------------------------------------------------------
\* The clock.

Snapshot == [seq : Nat, low : Nat, high : Nat, prev : Nat]
Reading == [pc : {"idle", "nowLow", "nowHigh", "s1", "s2", "live", "gotNow", "gotTicks"},
            next : 1 .. 4, s1 : Snapshot, s2 : Snapshot, begun : Nat, value : Nat]

ClockType ==
    /\ now \in 0 .. MaxTicks /\ total \in 0 .. MaxCycles
    /\ cycle \in [seq : Nat, cycles : Nat, prev : Nat]
    /\ primask \in BOOLEAN
    /\ read \in Reading

\* The published count is that of a moment less than a word ago.
Published ==
    /\ cycle.cycles <= total /\ total < cycle.cycles + Word
    /\ cycle.prev = Low(cycle.cycles)

\* Counts that were published, in this order, since the reader began: what
\* the loads of its first pass have seen, and the low word of the second.
Loaded(a, b, c, d) ==
    /\ read.begun <= a /\ a <= b /\ b <= c /\ c <= d /\ d <= cycle.cycles
    /\ read.pc = "s1" /\ read.next >= 3 => read.s1.low = Low(a)
    /\ read.pc = "s1" /\ read.next = 4 => read.s1.high = High(b)
    /\ read.pc = "s2" => /\ read.s1.low = Low(a) /\ read.s1.high = High(b)
                         /\ read.s1.prev = Low(c)
    /\ read.pc = "s2" /\ read.next >= 3 => read.s2.low = Low(d)

\* What a reader knows at each of its loads.
ReaderKnows ==
    /\ primask <=> read.pc \in {"nowLow", "nowHigh"}
    /\ read.pc = "nowHigh" => read.s1.low = Low(now)
    /\ read.pc \in {"s1", "s2", "live"} => total < read.begun + Word
    /\ read.pc \notin {"s1", "s2"} => read.next = 1
    /\ read.pc \in {"s1", "s2"} => \E a, b, c, d \in Nat : Loaded(a, b, c, d)
    /\ read.pc = "live" => \E a \in Nat :
          /\ read.begun <= a /\ a <= cycle.cycles
          /\ read.s1.low = Low(a) /\ read.s1.high = High(a) /\ read.s1.prev = Low(a)

ClockInv == ClockType /\ Published /\ ReaderKnows

LEMMA WordNat == Word \in Nat \ {0}
BY ClockAssumption

LEMMA WordsOf ==
  ASSUME NEW n \in Nat
  PROVE  /\ Low(n) \in 0 .. Word - 1 /\ High(n) \in Nat
         /\ n = High(n) * Word + Low(n)
<1>1. n = Word * (n \div Word) + (n % Word)
  BY WordNat, DivMod
<1>2. n \div Word \in Nat /\ n % Word \in 0 .. Word - 1
  BY WordNat, DivMod
<1>3. Word * (n \div Word) = (n \div Word) * Word
  BY <1>2, WordNat
<1>4. QED
  BY <1>1, <1>2, <1>3 DEF Low, High

LEMMA SinceIs ==
  ASSUME NEW a \in Nat, total \in Nat, a <= total, total < a + Word
  PROVE  Since(Low(a)) = total - a
BY WordNat, ModDifference DEF Since, Live, Low

\* The record of a finished call.
LEMMA AnswerType ==
  ASSUME NEW v \in Nat, NEW p \in {"gotNow", "gotTicks"}
  PROVE  /\ [NoRead EXCEPT !.pc = p, !.value = v] \in Reading
         /\ [NoRead EXCEPT !.pc = p, !.value = v].pc = p
         /\ [NoRead EXCEPT !.pc = p, !.value = v].next = 1
         /\ [NoRead EXCEPT !.pc = p, !.value = v].value = v
<1>1. NoRead \in Reading /\ NoRead.next = 1
  BY DEF NoRead, Reading, Blank, Snapshot
<1>2. QED
  BY <1>1 DEF Reading

LEMMA ClockInit1 == ClockInit => ClockInv
<1> SUFFICES ASSUME ClockInit PROVE ClockInv
  OBVIOUS
<1>1. Low(0) = 0
  BY WordNat, ModSmall DEF Low
<1>0. primask \in BOOLEAN /\ ~primask
  BY DEF ClockInit
<1>2. ClockType
  BY <1>0, ClockAssumption DEF ClockInit, ClockType, NoRead, Blank, Reading, Snapshot
<1>3. Published
  BY <1>1, WordNat DEF ClockInit, Published
<1>4. ReaderKnows
  BY <1>0 DEF ClockInit, ReaderKnows, NoRead
<1>5. QED
  BY <1>2, <1>3, <1>4 DEF ClockInv

LEMMA OnTickInv == ClockInv /\ ~primask /\ OnTick => ClockInv'
<1> SUFFICES ASSUME ClockInv, ~primask, OnTick PROVE ClockInv'
  OBVIOUS
<1> USE DEF ClockInv, ClockType
<1>1. cycle.cycles \in Nat /\ total \in Nat /\ cycle.seq \in Nat /\ cycle.prev \in Nat
  OBVIOUS
<1>2. Since(cycle.prev) = total - cycle.cycles
  BY <1>1, SinceIs DEF Published
<1>3. cycle'.cycles = total /\ cycle'.prev = Low(total)
  BY <1>1, <1>2 DEF OnTick, Live, Low
<1>4. (cycle.seq + 2) % Word \in Nat /\ Live \in Nat
  BY <1>1, WordNat, DivMod DEF Live
<1>5. ClockType'
  <2>1. cycle' \in [seq : Nat, cycles : Nat, prev : Nat]
    BY <1>1, <1>2, <1>4 DEF OnTick, Published
  <2>2. QED
    BY <2>1, ClockAssumption DEF OnTick
<1>6. Published'
  BY <1>1, <1>3, WordNat DEF OnTick, Published
<1>7. ReaderKnows'
  <2>1. cycle.cycles <= cycle'.cycles /\ read' = read /\ primask' = primask /\ total' = total
    BY <1>1, <1>3 DEF OnTick, Published
  <2>2. ASSUME NEW a \in Nat, NEW b \in Nat, NEW c \in Nat, NEW d \in Nat,
               Loaded(a, b, c, d)
        PROVE  Loaded(a, b, c, d)'
    BY <1>1, <1>3, <2>1, <2>2 DEF Loaded
  <2>3. read.pc \in {"s1", "s2"} => (\E a, b, c, d \in Nat : Loaded(a, b, c, d))'
    BY <2>2 DEF ReaderKnows
  <2>4. read.pc = "live" => (\E a \in Nat :
          /\ read.begun <= a /\ a <= cycle.cycles
          /\ read.s1.low = Low(a) /\ read.s1.high = High(a) /\ read.s1.prev = Low(a))'
    BY <1>1, <1>3, <2>1 DEF ReaderKnows, Published
  <2>5. read.pc # "nowHigh"
    BY DEF ReaderKnows
  <2>6. QED
    BY <2>1, <2>3, <2>4, <2>5 DEF ReaderKnows
<1>8. QED
  BY <1>5, <1>6, <1>7

LEMMA CycleInv == ClockInv /\ Cycle => ClockInv'
<1> SUFFICES ASSUME ClockInv, Cycle PROVE ClockInv'
  OBVIOUS
<1> USE DEF ClockInv, ClockType
<1>1. ClockType'
  BY ClockAssumption DEF Cycle
<1>2. Published'
  BY DEF Cycle, Published
<1>3. ReaderKnows'
  <2>1. UNCHANGED <<read, cycle, primask, now>> /\ total' = total + 1
    BY DEF Cycle
  <2>2. \A a, b, c, d \in Nat : Loaded(a, b, c, d) => Loaded(a, b, c, d)'
    BY <2>1 DEF Loaded
  <2>3. read.pc \in {"s1", "s2", "live"} => total' < read'.begun + Word
    BY <2>1 DEF Cycle
  <2>4. QED
    BY <2>1, <2>2, <2>3 DEF ReaderKnows
<1>4. QED
  BY <1>1, <1>2, <1>3

LEMMA NowInv == ClockInv /\ (NowCall \/ NowLow \/ NowHigh) => ClockInv'
<1> SUFFICES ASSUME ClockInv, NowCall \/ NowLow \/ NowHigh PROVE ClockInv'
  OBVIOUS
<1> USE DEF ClockInv, ClockType
<1>1. Low(now) \in Nat /\ High(now) \in Nat /\ now = High(now) * Word + Low(now)
  BY WordsOf
<1>2. UNCHANGED <<now, cycle, total>>
  BY DEF NowCall, NowLow, NowHigh
<1>3. Published'
  BY <1>2 DEF Published
<1>4. CASE NowCall
  <2>1. primask' /\ primask' \in BOOLEAN
    BY <1>4 DEF NowCall
  <2>2. read' \in Reading /\ read'.pc = "nowLow" /\ read'.next = read.next /\ read.pc = "idle"
    BY <1>4 DEF NowCall, Reading
  <2>3. QED
    BY <1>2, <1>3, <2>1, <2>2 DEF ReaderKnows
<1>5. CASE NowLow
  <2>1. read' \in Reading /\ read'.pc = "nowHigh" /\ read'.next = read.next
          /\ read'.s1.low = Low(now) /\ read.pc = "nowLow"
    BY <1>1, <1>5 DEF NowLow, Reading, Snapshot
  <2>2. primask' = primask
    BY <1>5 DEF NowLow
  <2>3. QED
    BY <1>2, <1>3, <2>1, <2>2 DEF ReaderKnows
<1>6. CASE NowHigh
  <2>1. ~primask' /\ primask' \in BOOLEAN
    BY <1>6 DEF NowHigh
  <2>2. read.s1.low = Low(now)
    BY <1>6 DEF NowHigh, ReaderKnows
  <2>5. High(now) * Word + read.s1.low \in Nat
    BY <1>1, <2>2
  <2>3. read' \in Reading /\ read'.pc = "gotNow" /\ read'.next = 1
    BY <1>6, <2>5, AnswerType DEF NowHigh
  <2>4. QED
    BY <1>2, <1>3, <2>1, <2>3 DEF ReaderKnows
<1>7. QED
  BY <1>4, <1>5, <1>6

\* A consistent snapshot and what the counter has done since make the count.
LEMMA TicksValue ==
  ASSUME ClockInv, TicksLive
  PROVE  /\ total \in Nat
         /\ read.s1.high * Word + read.s1.low + Since(read.s1.prev) = total
<1> USE DEF ClockInv, ClockType
<1>1. PICK a \in Nat : /\ read.begun <= a /\ a <= cycle.cycles
                       /\ read.s1.low = Low(a) /\ read.s1.high = High(a) /\ read.s1.prev = Low(a)
  BY DEF TicksLive, ReaderKnows
<1>2. total \in Nat /\ cycle.cycles \in Nat /\ read.begun \in Nat /\ Word \in Nat
  BY WordNat, ClockAssumption DEF Reading
<1>3. a <= total /\ total < a + Word
  BY <1>1, <1>2 DEF TicksLive, ReaderKnows, Published
<1>4. Since(read.s1.prev) = total - a
  BY <1>1, <1>2, <1>3, SinceIs
<1>5. High(a) * Word + Low(a) = a
  BY WordsOf
<1>6. QED
  BY <1>1, <1>2, <1>4, <1>5

LEMMA CallInv == ClockInv /\ (TicksCall \/ TicksLive \/ Return) => ClockInv'
<1> SUFFICES ASSUME ClockInv, TicksCall \/ TicksLive \/ Return PROVE ClockInv'
  OBVIOUS
<1> USE DEF ClockInv, ClockType
<1>2. UNCHANGED <<now, cycle, total, primask>>
  BY DEF TicksCall, TicksLive, Return
<1>3. Published'
  BY <1>2 DEF Published
<1>4. CASE TicksCall
  <2>1. read' \in Reading /\ read'.pc = "s1" /\ read'.next = 1
          /\ read'.begun = cycle.cycles /\ read.pc = "idle"
    BY <1>4 DEF TicksCall, Reading, ReaderKnows
  <2>2. Loaded(cycle.cycles, cycle.cycles, cycle.cycles, cycle.cycles)'
    BY <1>2, <2>1 DEF Loaded
  <2>3. (\E a, b, c, d \in Nat : Loaded(a, b, c, d))'
    BY <1>2, <2>2
  <2>4. QED
    BY <1>2, <1>3, <2>1, <2>3 DEF ReaderKnows, Published
<1>5. CASE TicksLive
  <2>5. read' \in Reading /\ read'.pc = "gotTicks" /\ read'.next = 1
    <3>1. total \in Nat /\ read.s1.high * Word + read.s1.low + Since(read.s1.prev) = total
      BY <1>5, TicksValue
    <3>2. QED
      BY <1>5, <3>1, AnswerType DEF TicksLive
  <2>6. read.pc = "live"
    BY <1>5 DEF TicksLive
  <2>7. QED
    BY <1>2, <1>3, <2>5, <2>6 DEF ReaderKnows
<1>6. CASE Return
  <2>1. read' \in Reading /\ read'.pc = "idle" /\ read'.next = 1
    BY <1>6 DEF Return, Reading, NoRead, Blank, Snapshot
  <2>2. read.pc \in {"gotNow", "gotTicks"}
    BY <1>6 DEF Return
  <2>3. QED
    BY <1>2, <1>3, <2>1, <2>2 DEF ReaderKnows
<1>7. QED
  BY <1>4, <1>5, <1>6

LEMMA FirstPassInv == ClockInv /\ FirstPass => ClockInv'
<1> SUFFICES ASSUME ClockInv, FirstPass PROVE ClockInv'
  OBVIOUS
<1> USE DEF ClockInv, ClockType
<1>1. UNCHANGED <<now, cycle, total, primask>> /\ read.pc = "s1"
  BY DEF FirstPass
<1>2. Published'
  BY <1>1 DEF Published
<1> DEFINE C == cycle.cycles
           s == Load(read.s1, read.next)
<1>3. /\ C \in Nat /\ Low(C) \in Nat /\ High(C) \in Nat /\ cycle.seq \in Nat
      /\ cycle.prev \in Nat /\ cycle.prev = Low(C)
  BY WordsOf DEF Published
<1>4. PICK a \in Nat, b \in Nat, c \in Nat, d \in Nat : Loaded(a, b, c, d)
  BY <1>1 DEF ReaderKnows
<1>5. read.next \in 1 .. 4 /\ read.s1 \in Snapshot /\ read.begun \in Nat
  BY DEF Reading
<1>6. s \in Snapshot
  BY <1>3, <1>5 DEF Load, Snapshot, s
<1> HIDE DEF s
<1>70. read' = [pc |-> IF read.next < 4 \/ s.seq % 2 # 0 THEN "s1" ELSE "s2",
                next |-> IF read.next < 4 THEN read.next + 1 ELSE 1,
                s1 |-> s, s2 |-> read.s2, begun |-> read.begun, value |-> read.value]
  BY DEF FirstPass, Reading, Loads, s
<1>7. /\ read'.s1 = s
      /\ read'.next = IF read.next < 4 THEN read.next + 1 ELSE 1
      /\ read'.pc \in {"s1", "s2"}
      /\ read'.pc = "s2" => read.next = 4
      /\ read'.begun = read.begun
      /\ read' \in Reading
  BY <1>5, <1>6, <1>70 DEF Reading
<1>8. (\E p, q, r, t \in Nat : Loaded(p, q, r, t))'
  <2>1. CASE read.next = 1
    <3>1. Loaded(C, C, C, C)'
      BY <1>1, <1>3, <1>4, <1>5, <1>7, <2>1 DEF Loaded
    <3>2. QED
      BY <3>1, <1>1, <1>3
  <2>2. CASE read.next = 2
    <3>1. s.low = Low(C)
      BY <2>2, <1>5 DEF Load, Snapshot, s
    <3>2. Loaded(C, C, C, C)'
      BY <1>1, <1>3, <1>4, <1>5, <1>7, <2>2, <3>1 DEF Loaded
    <3>3. QED
      BY <3>2, <1>1, <1>3
  <2>3. CASE read.next = 3
    <3>1. s.high = High(C) /\ s.low = read.s1.low
      BY <2>3, <1>5 DEF Load, Snapshot, s
    <3>2. Loaded(a, C, C, C)'
      BY <1>1, <1>3, <1>4, <1>5, <1>7, <2>3, <3>1 DEF Loaded
    <3>3. QED
      BY <3>2, <1>1, <1>3
  <2>4. CASE read.next = 4
    <3>1. s.prev = Low(C) /\ s.high = read.s1.high /\ s.low = read.s1.low
      BY <2>4, <1>3, <1>5 DEF Load, Snapshot, s
    <3>2. Loaded(a, b, C, C)'
      BY <1>1, <1>3, <1>4, <1>5, <1>7, <2>4, <3>1 DEF Loaded
    <3>3. QED
      BY <3>2, <1>1, <1>3
  <2>5. QED
    BY <1>5, <2>1, <2>2, <2>3, <2>4
<1>9. ReaderKnows'
  BY <1>1, <1>7, <1>8 DEF ReaderKnows
<1>10. QED
  BY <1>1, <1>2, <1>7, <1>9

LEMMA SecondPassInv == ClockInv /\ SecondPass => ClockInv'
<1> SUFFICES ASSUME ClockInv, SecondPass PROVE ClockInv'
  OBVIOUS
<1> USE DEF ClockInv, ClockType
<1>1. UNCHANGED <<now, cycle, total, primask>> /\ read.pc = "s2"
  BY DEF SecondPass
<1>2. Published'
  BY <1>1 DEF Published
<1> DEFINE C == cycle.cycles
           s == Load(read.s2, read.next)
<1>3. /\ C \in Nat /\ Low(C) \in Nat /\ High(C) \in Nat /\ cycle.seq \in Nat
      /\ cycle.prev \in Nat /\ cycle.prev = Low(C)
  BY WordsOf DEF Published
<1>4. PICK a \in Nat, b \in Nat, c \in Nat, d \in Nat : Loaded(a, b, c, d)
  BY <1>1 DEF ReaderKnows
<1>5. read.next \in 1 .. 4 /\ read.s1 \in Snapshot /\ read.s2 \in Snapshot /\ read.begun \in Nat
  BY DEF Reading
<1>6. s \in Snapshot
  BY <1>3, <1>5 DEF Load, Snapshot, s
<1> HIDE DEF s
<1>70. read' = [pc |-> IF read.next < 4 THEN "s2"
                       ELSE IF Consistent(read.s1, s) THEN "live" ELSE "s1",
                next |-> IF read.next < 4 THEN read.next + 1 ELSE 1,
                s1 |-> read.s1, s2 |-> s, begun |-> read.begun, value |-> read.value]
  BY DEF SecondPass, Reading, Loads, s
<1>7. /\ read'.s1 = read.s1 /\ read'.s2 = s
      /\ read'.next = IF read.next < 4 THEN read.next + 1 ELSE 1
      /\ read'.pc \in {"s1", "s2", "live"}
      /\ read'.pc = "s2" <=> read.next < 4
      /\ read'.pc = "live" => read.next = 4 /\ read.s1 = s
      /\ read'.begun = read.begun
      /\ read' \in Reading
  BY <1>5, <1>6, <1>70 DEF Reading, Consistent
<1>8. read'.pc # "live" => (\E p, q, r, t \in Nat : Loaded(p, q, r, t))'
  <2>1. CASE read.next = 1
    <3>1. Loaded(a, b, c, d)'
      BY <1>1, <1>3, <1>4, <1>5, <1>7, <2>1 DEF Loaded
    <3>2. QED
      BY <3>1
  <2>2. CASE read.next = 2
    <3>1. s.low = Low(C)
      BY <2>2, <1>5 DEF Load, Snapshot, s
    <3>2. Loaded(a, b, c, C)'
      BY <1>1, <1>3, <1>4, <1>5, <1>7, <2>2, <3>1 DEF Loaded
    <3>3. QED
      BY <3>2, <1>1, <1>3
  <2>3. CASE read.next = 3
    <3>1. s.low = read.s2.low
      BY <2>3, <1>5 DEF Load, Snapshot, s
    <3>2. Loaded(a, b, c, d)'
      BY <1>1, <1>3, <1>4, <1>5, <1>7, <2>3, <3>1 DEF Loaded
    <3>3. QED
      BY <3>2
  <2>4. CASE read.next = 4 /\ read'.pc = "s1"
    <3>1. Loaded(a, b, c, d)'
      BY <1>1, <1>3, <1>4, <1>5, <1>7, <2>4 DEF Loaded
    <3>2. QED
      BY <3>1
  <2>5. QED
    BY <1>5, <1>7, <2>1, <2>2, <2>3, <2>4
<1>9. read'.pc = "live" =>
        /\ read.begun <= a /\ a <= C
        /\ read.s1.low = Low(a) /\ read.s1.high = High(a) /\ read.s1.prev = Low(a)
  <2> SUFFICES ASSUME read'.pc = "live"
               PROVE  /\ read.begun <= a /\ a <= C
                      /\ read.s1.low = Low(a) /\ read.s1.high = High(a)
                      /\ read.s1.prev = Low(a)
    OBVIOUS
  <2>1. read.next = 4 /\ read.s1 = s
    BY <1>7
  <2>2. s.low = read.s2.low
    BY <2>1, <1>5 DEF Load, Snapshot, s
  <2>3. Low(a) = Low(d)
    BY <1>1, <1>4, <2>1, <2>2 DEF Loaded
  <2>4. a <= d /\ d < a + Word
    BY <1>1, <1>3, <1>4, <1>5, WordNat DEF Loaded, ReaderKnows, Published
  <2>5. a = d
    BY <2>3, <2>4, WordNat, ModInjective DEF Low
  <2>6. b = a /\ c = a
    BY <1>4, <2>5 DEF Loaded
  <2>7. QED
    BY <1>1, <1>3, <1>4, <2>6 DEF Loaded
<1>10. ReaderKnows'
  <2>1. read'.pc = "live" => read'.next = 1
    BY <1>7
  <2>2. read'.pc = "live" => (\E e \in Nat :
          /\ read.begun <= e /\ e <= cycle.cycles
          /\ read.s1.low = Low(e) /\ read.s1.high = High(e) /\ read.s1.prev = Low(e))'
    BY <1>1, <1>7, <1>9
  <2>3. QED
    BY <1>1, <1>7, <1>8, <2>1, <2>2 DEF ReaderKnows
<1>11. QED
  BY <1>1, <1>2, <1>7, <1>10

----------------------------------------------------------------------------
\* The ring: its indices and its contents, without the remainders.

Index == 0 .. RingSize - 1
Count(h, t) == IF t >= h THEN t - h ELSE t + RingSize - h
Forward(n) == IF n + 1 < RingSize THEN n + 1 ELSE 0
Slot(h, i) == IF h + i - 1 < RingSize THEN h + i - 1 ELSE h + i - 1 - RingSize
Ring(s, h, t) == [i \in 1 .. Count(h, t) |-> s[Slot(h, i)]]

LEMMA ForwardIs ==
  ASSUME NEW n \in Index
  PROVE  (n + 1) % RingSize = Forward(n) /\ Forward(n) \in Index
<1>1. n \in Nat /\ n < RingSize /\ RingSize \in Nat
  BY RingAssumption DEF Index
<1>2. CASE n + 1 < RingSize
  <2>1. (n + 1) % RingSize = n + 1
    BY <1>1, <1>2, ModSmall
  <2>2. QED
    BY <1>1, <1>2, <2>1 DEF Forward, Index
<1>3. CASE n + 1 = RingSize
  <2>1. RingSize % RingSize = 0
    BY <1>1, ModBig
  <2>2. QED
    BY <1>1, <1>3, <2>1, RingAssumption DEF Forward, Index
<1>4. QED
  BY <1>1, <1>2, <1>3

LEMMA CountIs ==
  ASSUME NEW h \in Index, NEW t \in Index
  PROVE  (t + RingSize - h) % RingSize = Count(h, t) /\ Count(h, t) \in Index
<1>1. h \in Nat /\ h < RingSize /\ t \in Nat /\ t < RingSize /\ RingSize \in Nat
  BY RingAssumption DEF Index
<1>2. CASE t >= h
  <2> DEFINE x == t + RingSize - h
  <2>3. x \in Nat /\ RingSize <= x /\ x < RingSize + RingSize
    BY <1>1, <1>2
  <2> HIDE DEF x
  <2>4. x % RingSize = x - RingSize
    BY <1>1, <2>3, ModBig
  <2>1. (t + RingSize - h) % RingSize = t - h
    BY <1>1, <2>4 DEF x
  <2>2. QED
    BY <1>1, <1>2, <2>1 DEF Count, Index
<1>3. CASE t < h
  <2>1. (t + RingSize - h) % RingSize = t + RingSize - h
    BY <1>1, <1>3, ModSmall
  <2>2. QED
    BY <1>1, <1>3, <2>1 DEF Count, Index
<1>4. QED
  BY <1>1, <1>2, <1>3

LEMMA SlotIs ==
  ASSUME NEW h \in Index, NEW i \in 1 .. RingSize
  PROVE  (h + i - 1) % RingSize = Slot(h, i) /\ Slot(h, i) \in Index
<1>1. h \in Nat /\ h < RingSize /\ h + i - 1 \in Nat /\ RingSize \in Nat
  BY RingAssumption DEF Index
<1>2. CASE h + i - 1 < RingSize
  <2>1. (h + i - 1) % RingSize = h + i - 1
    BY <1>1, <1>2, ModSmall
  <2>2. QED
    BY <1>1, <1>2, <2>1 DEF Slot, Index
<1>3. CASE h + i - 1 >= RingSize
  <2> DEFINE x == h + i - 1
  <2>3. x \in Nat /\ RingSize <= x /\ x < RingSize + RingSize
    BY <1>1, <1>3
  <2> HIDE DEF x
  <2>4. x % RingSize = x - RingSize
    BY <1>1, <2>3, ModBig
  <2>1. (h + i - 1) % RingSize = h + i - 1 - RingSize
    BY <1>1, <2>4 DEF x
  <2>2. QED
    BY <1>1, <1>3, <2>1 DEF Slot, Index
<1>4. QED
  BY <1>1, <1>2, <1>3

\* What lies between head and tail, as Contents writes it.
LEMMA RingIs ==
  ASSUME NEW s, NEW h \in Index, NEW t \in Index
  PROVE  [i \in 1 .. (t + RingSize - h) % RingSize |-> s[(h + i - 1) % RingSize]]
           = Ring(s, h, t)
<1>1. (t + RingSize - h) % RingSize = Count(h, t) /\ Count(h, t) \in Index
  BY CountIs
<1>2. ASSUME NEW i \in 1 .. Count(h, t) PROVE (h + i - 1) % RingSize = Slot(h, i)
  <2>1. i \in 1 .. RingSize
    BY <1>1, RingAssumption DEF Index
  <2>2. QED
    BY <2>1, SlotIs
<1>3. QED
  BY <1>1, <1>2, Zenon DEF Ring

LEMMA RingSeq ==
  ASSUME NEW s \in [Index -> Byte], NEW h \in Index, NEW t \in Index
  PROVE  /\ Ring(s, h, t) \in Seq(Byte) /\ Len(Ring(s, h, t)) = Count(h, t)
         /\ \A i \in 1 .. Count(h, t) : Ring(s, h, t)[i] = s[Slot(h, i)]
<1>1. Count(h, t) \in Nat /\ Count(h, t) < RingSize
  BY RingAssumption DEF Index, Count
<1>2. ASSUME NEW i \in 1 .. Count(h, t) PROVE s[Slot(h, i)] \in Byte
  BY <1>1, SlotIs, RingAssumption
<1>3. QED
  BY <1>1, <1>2, IsASeq DEF Ring

\* A byte stored at the tail is not among them.
LEMMA RingStore ==
  ASSUME NEW s \in [Index -> Byte], NEW h \in Index, NEW t \in Index, NEW e \in Byte
  PROVE  Ring([s EXCEPT ![t] = e], h, t) = Ring(s, h, t)
<1>1. Count(h, t) \in Nat /\ Count(h, t) < RingSize
  BY RingAssumption DEF Index, Count
<1>2. ASSUME NEW i \in 1 .. Count(h, t)
      PROVE  [s EXCEPT ![t] = e][Slot(h, i)] = s[Slot(h, i)]
  <2>1. Slot(h, i) \in Index
    BY <1>1, SlotIs, RingAssumption
  <2>2. Slot(h, i) # t
    BY <1>1, RingAssumption DEF Slot, Count, Index
  <2>3. QED
    BY <2>1, <2>2
<1>3. QED
  BY <1>2, Zenon DEF Ring

\* The tail moved on takes the byte there in, at the end.
LEMMA RingPut ==
  ASSUME NEW s \in [Index -> Byte], NEW h \in Index, NEW t \in Index,
         Count(h, t) < RingSize - 1
  PROVE  /\ Count(h, Forward(t)) = Count(h, t) + 1
         /\ Ring(s, h, Forward(t)) = Append(Ring(s, h, t), s[t])
<1>1. RingSize \in Nat /\ RingSize > 1 /\ Forward(t) \in Index /\ s[t] \in Byte
  BY RingAssumption, ForwardIs
<1>2. Count(h, Forward(t)) = Count(h, t) + 1
  BY <1>1 DEF Count, Forward, Index
<1>3. Slot(h, Count(h, t) + 1) = t
  BY <1>1 DEF Count, Slot, Index
<1>4. Count(h, t) \in Nat
  BY <1>1 DEF Count, Index
<1>5. /\ Ring(s, h, Forward(t)) \in Seq(Byte)
      /\ Len(Ring(s, h, Forward(t))) = Count(h, t) + 1
      /\ \A i \in 1 .. Count(h, t) + 1 : Ring(s, h, Forward(t))[i] = s[Slot(h, i)]
  <2> DEFINE r == Forward(t)
  <2>1. r \in Index
    BY <1>1
  <2> HIDE DEF r
  <2>2. /\ Ring(s, h, r) \in Seq(Byte) /\ Len(Ring(s, h, r)) = Count(h, r)
        /\ \A i \in 1 .. Count(h, r) : Ring(s, h, r)[i] = s[Slot(h, i)]
    BY <2>1, RingSeq
  <2>3. QED
    BY <1>2, <2>2 DEF r
<1>6. /\ Append(Ring(s, h, t), s[t]) \in Seq(Byte)
      /\ Len(Append(Ring(s, h, t), s[t])) = Count(h, t) + 1
      /\ \A i \in 1 .. Count(h, t) : Append(Ring(s, h, t), s[t])[i] = s[Slot(h, i)]
      /\ Append(Ring(s, h, t), s[t])[Count(h, t) + 1] = s[t]
  <2> DEFINE r == Ring(s, h, t)
  <2>1. /\ r \in Seq(Byte) /\ Len(r) = Count(h, t)
        /\ \A i \in 1 .. Count(h, t) : r[i] = s[Slot(h, i)]
    BY RingSeq
  <2> HIDE DEF r
  <2>2. /\ Append(r, s[t]) \in Seq(Byte) /\ Len(Append(r, s[t])) = Len(r) + 1
        /\ \A i \in 1 .. Len(r) : Append(r, s[t])[i] = r[i]
        /\ Append(r, s[t])[Len(r) + 1] = s[t]
    BY <1>1, <2>1, AppendProperties
  <2>3. QED
    BY <2>1, <2>2 DEF r
<1>7. \A i \in 1 .. Count(h, t) + 1 :
        Ring(s, h, Forward(t))[i] = Append(Ring(s, h, t), s[t])[i]
  BY <1>3, <1>4, <1>5, <1>6
<1>8. QED
  BY <1>2, <1>5, <1>6, <1>7, SeqEqual

\* The head moved on leaves the first byte out.
LEMMA RingGet ==
  ASSUME NEW s \in [Index -> Byte], NEW h \in Index, NEW t \in Index, h # t
  PROVE  /\ Count(Forward(h), t) = Count(h, t) - 1
         /\ Ring(s, h, t) # <<>> /\ Head(Ring(s, h, t)) = s[h]
         /\ Ring(s, Forward(h), t) = Tail(Ring(s, h, t))
<1>1. RingSize \in Nat /\ RingSize > 1 /\ Forward(h) \in Index /\ s[h] \in Byte
  BY RingAssumption, ForwardIs
<1>2. Count(Forward(h), t) = Count(h, t) - 1 /\ Count(h, t) \in Nat /\ Count(h, t) > 0
  BY <1>1 DEF Count, Forward, Index
<1>3. Slot(h, 1) = h
  BY <1>1 DEF Slot, Index
<1>4. ASSUME NEW i \in 1 .. Count(h, t) - 1 PROVE Slot(Forward(h), i) = Slot(h, i + 1)
  <2>1. Count(h, t) < RingSize /\ i \in Nat /\ h \in Nat /\ h < RingSize
    BY <1>1, <1>2 DEF Count, Index
  <2>2. i + 1 < RingSize
    BY <1>1, <1>2, <2>1
  <2>3. QED
    BY <1>1, <2>1, <2>2 DEF Slot, Forward
<1>5. /\ Ring(s, h, t) \in Seq(Byte) /\ Len(Ring(s, h, t)) = Count(h, t)
      /\ \A i \in 1 .. Count(h, t) : Ring(s, h, t)[i] = s[Slot(h, i)]
  BY RingSeq
<1>6. /\ Ring(s, Forward(h), t) \in Seq(Byte)
      /\ Len(Ring(s, Forward(h), t)) = Count(h, t) - 1
      /\ \A i \in 1 .. Count(h, t) - 1 : Ring(s, Forward(h), t)[i] = s[Slot(Forward(h), i)]
  <2> DEFINE r == Forward(h)
  <2>1. r \in Index
    BY <1>1
  <2> HIDE DEF r
  <2>2. /\ Ring(s, r, t) \in Seq(Byte) /\ Len(Ring(s, r, t)) = Count(r, t)
        /\ \A i \in 1 .. Count(r, t) : Ring(s, r, t)[i] = s[Slot(r, i)]
    BY <2>1, RingSeq
  <2>3. QED
    BY <1>2, <2>2 DEF r
<1>7. Ring(s, h, t) # <<>> /\ Head(Ring(s, h, t)) = s[h]
  <2>1. Ring(s, h, t) # <<>>
    BY <1>2, <1>5, EmptySeq
  <2>2. Head(Ring(s, h, t)) = Ring(s, h, t)[1]
    BY <1>5, <2>1
  <2>3. QED
    BY <1>2, <1>3, <1>5, <2>1, <2>2
<1>8. /\ Tail(Ring(s, h, t)) \in Seq(Byte) /\ Len(Tail(Ring(s, h, t))) = Count(h, t) - 1
      /\ \A i \in 1 .. Count(h, t) - 1 : Tail(Ring(s, h, t))[i] = Ring(s, h, t)[i + 1]
  BY <1>5, <1>7, HeadTailProperties
<1>9. \A i \in 1 .. Count(h, t) - 1 : Ring(s, Forward(h), t)[i] = Tail(Ring(s, h, t))[i]
  BY <1>2, <1>4, <1>5, <1>6, <1>8
<1>10. Ring(s, Forward(h), t) = Tail(Ring(s, h, t))
  BY <1>6, <1>8, <1>9, SeqEqual
<1>11. QED
  BY <1>2, <1>7, <1>10

----------------------------------------------------------------------------
\* The transmitter.

Call == [pc : {"idle", "room", "store", "advance", "enable"}, data : Seq(Byte), head : Nat]

UartType ==
    /\ head \in Index /\ tail \in Index
    /\ slots \in [Index -> Byte] /\ line \in Byte
    /\ enabled \in BOOLEAN /\ txeie \in BOOLEAN /\ full \in BOOLEAN
    /\ tx \in Call

\* What tx() knows at each of its steps: the head it read may be old, but the
\* interrupt only makes room; what it still has to store fits; and between the
\* flag and the register bit the interrupt cannot come to clear the flag.
CallKnows ==
    /\ tx.pc = "room" => /\ tx.head \in Index
                         /\ Count(head, tail) <= Count(tx.head, tail)
    /\ tx.pc \in {"store", "advance"} => Count(head, tail) + Len(tx.data) < RingSize
    /\ tx.pc = "advance" => tx.data # <<>> /\ slots[tail] = Head(tx.data)
    /\ tx.pc = "enable" => enabled /\ ~txeie
    /\ txeie => enabled

UartInv == UartType /\ CallKnows

LEMMA UartInit1 == UartInit => UartInv
<1> SUFFICES ASSUME UartInit PROVE UartInv
  OBVIOUS
<1>1. /\ enabled \in BOOLEAN /\ txeie \in BOOLEAN /\ full \in BOOLEAN
      /\ ~txeie
  BY DEF UartInit
<1>2. head \in Index /\ tail \in Index /\ slots \in [Index -> Byte] /\ line \in Byte
  BY RingAssumption DEF UartInit, Index
<1>3. tx \in Call /\ tx.pc = "idle"
  BY DEF UartInit, Idle, Call
<1>4. QED
  BY <1>1, <1>2, <1>3 DEF UartInv, UartType, CallKnows

LEMMA TxCallInv ==
  ASSUME NEW data \in Seq(Byte), UartInv, TxCall(data)
  PROVE  UartInv'
<1> USE DEF UartInv, UartType
<1>1. UNCHANGED <<head, tail, slots, enabled, txeie, full, line>>
  BY DEF TxCall
<1>2. tx' \in Call /\ tx'.pc = "room" /\ tx'.head = head
  BY RingAssumption DEF TxCall, Call, Index
<1>3. Count(head, tail) \in Int
  BY RingAssumption DEF Count, Index
<1>4. CallKnows'
  BY <1>1, <1>2, <1>3 DEF CallKnows
<1>5. UartType'
  BY <1>1, <1>2
<1>6. QED
  BY <1>4, <1>5

LEMMA TxRoomInv == UartInv /\ TxRoom => UartInv'
<1> SUFFICES ASSUME UartInv, TxRoom PROVE UartInv'
  OBVIOUS
<1> USE DEF UartInv, UartType
<1>1. UNCHANGED <<head, tail, slots, enabled, txeie, full, line>> /\ tx.pc = "room"
  BY DEF TxRoom
<1>2. Len(tx.data) \in Nat /\ tx.data \in Seq(Byte)
  BY DEF Call
<1>3. CASE Len(tx.data) > TxBytesAvailable(tx.head)
  <2>1. tx' \in Call /\ tx'.pc = "idle"
    BY <1>3 DEF TxRoom, Idle, Call
  <2>2. QED
    BY <1>1, <2>1 DEF CallKnows
<1>4. CASE ~(Len(tx.data) > TxBytesAvailable(tx.head))
  <2>1. tx' \in Call /\ tx'.pc = "store" /\ tx'.data = tx.data
    BY <1>4 DEF TxRoom, Call
  <2>2. TxBytesAvailable(tx.head) = RingSize - 1 - Count(tx.head, tail)
    BY <1>1, RingAssumption DEF TxBytesAvailable, Count, Index, CallKnows
  <2>3. Count(head, tail) \in Int /\ Count(tx.head, tail) \in Int
    BY <1>1, RingAssumption DEF Count, Index, CallKnows
  <2>4. Count(head, tail) + Len(tx.data) < RingSize
    BY <1>1, <1>2, <1>4, <2>2, <2>3, RingAssumption DEF CallKnows
  <2>5. CallKnows'
    BY <1>1, <2>1, <2>4 DEF CallKnows
  <2>6. QED
    BY <1>1, <2>1, <2>5
<1>5. QED
  BY <1>3, <1>4

LEMMA TxStoreInv == UartInv /\ TxStore => UartInv'
<1> SUFFICES ASSUME UartInv, TxStore PROVE UartInv'
  OBVIOUS
<1> USE DEF UartInv, UartType
<1>1. UNCHANGED <<head, tail, enabled, txeie, full, line>> /\ tx.pc = "store" /\ tx.data # <<>>
  BY DEF TxStore
<1>2. tx.data \in Seq(Byte) /\ Head(tx.data) \in Byte
  BY <1>1, HeadTailProperties DEF Call
<1>3. tx' \in Call /\ tx'.pc = "advance" /\ tx'.data = tx.data
  BY DEF TxStore, Call
<1>4. slots' \in [Index -> Byte] /\ slots'[tail] = Head(tx.data)
  BY <1>2 DEF TxStore
<1>5. CallKnows'
  BY <1>1, <1>3, <1>4 DEF CallKnows
<1>6. QED
  BY <1>1, <1>3, <1>4, <1>5

LEMMA TxAdvanceInv == UartInv /\ TxAdvance => UartInv'
<1> SUFFICES ASSUME UartInv, TxAdvance PROVE UartInv'
  OBVIOUS
<1> USE DEF UartInv, UartType
<1>1. UNCHANGED <<head, slots, enabled, txeie, full, line>> /\ tx.pc = "advance" /\ tx.data # <<>>
  BY DEF TxAdvance, CallKnows
<1>2. /\ tx.data \in Seq(Byte) /\ Tail(tx.data) \in Seq(Byte)
      /\ Len(Tail(tx.data)) = Len(tx.data) - 1 /\ Len(tx.data) \in Nat
      /\ Len(tx.data) > 0
  BY <1>1, HeadTailProperties, EmptySeq, LenProperties DEF Call
<1>3. tx' \in Call /\ tx'.pc = "store" /\ tx'.data = Tail(tx.data)
  BY <1>2 DEF TxAdvance, Call
<1>4. tail' = Forward(tail) /\ tail' \in Index
  BY ForwardIs DEF TxAdvance
<1>5. Count(head, tail) \in Nat /\ Count(head, tail) < RingSize - 1 /\ RingSize \in Nat
  <2>1. Count(head, tail) \in Nat
    BY RingAssumption DEF Count, Index
  <2>2. QED
    BY <1>1, <1>2, <2>1, RingAssumption DEF CallKnows
<1>6. Count(head, Forward(tail)) = Count(head, tail) + 1
  BY <1>5, RingPut
<1>7. Count(head, tail') + Len(tx'.data) < RingSize
  BY <1>1, <1>2, <1>3, <1>4, <1>5, <1>6 DEF CallKnows
<1>8. CallKnows'
  BY <1>1, <1>3, <1>7 DEF CallKnows
<1>9. QED
  BY <1>1, <1>3, <1>4, <1>8

LEMMA TxEndInv == UartInv /\ (TxCheck \/ TxEnable) => UartInv'
<1> SUFFICES ASSUME UartInv, TxCheck \/ TxEnable PROVE UartInv'
  OBVIOUS
<1> USE DEF UartInv, UartType
<1>1. UNCHANGED <<head, tail, slots, full, line>>
  BY DEF TxCheck, TxEnable
<1>2. Idle \in Call /\ Idle.pc = "idle"
  BY DEF Idle, Call
<1>3. CASE TxCheck
  <2>1. enabled' /\ enabled' \in BOOLEAN /\ txeie' = txeie
    BY <1>3 DEF TxCheck
  <2>2. CASE enabled
    <3>1. tx' = Idle
      BY <1>3, <2>2 DEF TxCheck
    <3>2. QED
      BY <1>1, <1>2, <2>1, <3>1 DEF CallKnows
  <2>3. CASE ~enabled
    <3>1. tx' \in Call /\ tx'.pc = "enable"
      BY <1>3, <2>3 DEF TxCheck, Call
    <3>2. ~txeie
      BY <2>3 DEF CallKnows
    <3>3. QED
      BY <1>1, <2>1, <3>1, <3>2 DEF CallKnows
  <2>4. QED
    BY <2>2, <2>3
<1>4. CASE TxEnable
  <2>1. enabled /\ enabled' = enabled /\ txeie' \in BOOLEAN /\ tx' = Idle
    BY <1>4 DEF TxEnable, CallKnows
  <2>2. QED
    BY <1>1, <1>2, <2>1 DEF CallKnows
<1>5. QED
  BY <1>3, <1>4

LEMMA Usart1IsrInv == UartInv /\ Usart1Isr => UartInv'
<1> SUFFICES ASSUME UartInv, Usart1Isr PROVE UartInv'
  OBVIOUS
<1> USE DEF UartInv, UartType
<1>1. UNCHANGED <<tail, slots, tx>> /\ txeie /\ tx.pc # "enable"
  BY DEF Usart1Isr, CallKnows
<1>2. CASE head # tail
  <2>1. head' = Forward(head) /\ head' \in Index
    BY <1>2, ForwardIs DEF Usart1Isr
  <2>2. line' \in Byte /\ full' \in BOOLEAN /\ enabled' = enabled /\ txeie' = txeie
    BY <1>2 DEF Usart1Isr
  <2>3. Count(head', tail) = Count(head, tail) - 1
    BY <1>2, <2>1, RingGet
  <2>4. Count(head, tail) \in Int /\ (tx.head \in Index => Count(tx.head, tail) \in Int)
    BY RingAssumption DEF Count, Index
  <2>5. Len(tx.data) \in Nat
    BY LenProperties DEF Call
  <2>6. CallKnows'
    BY <1>1, <2>2, <2>3, <2>4, <2>5, RingAssumption DEF CallKnows
  <2>7. QED
    BY <1>1, <2>1, <2>2, <2>6
<1>3. CASE head = tail
  <2>1. /\ line' = line /\ full' = full /\ head' = head
        /\ txeie' \in BOOLEAN /\ ~txeie' /\ enabled' \in BOOLEAN
    BY <1>3 DEF Usart1Isr
  <2>2. CallKnows'
    BY <1>1, <2>1 DEF CallKnows
  <2>3. QED
    BY <1>1, <2>1, <2>2
<1>4. QED
  BY <1>2, <1>3

LEMMA ShiftInv == UartInv /\ Shift => UartInv'
<1> SUFFICES ASSUME UartInv, Shift PROVE UartInv'
  OBVIOUS
<1>1. UNCHANGED <<head, tail, slots, enabled, txeie, line, tx>> /\ full' \in BOOLEAN
  BY DEF Shift
<1>2. QED
  BY <1>1 DEF UartInv, UartType, CallKnows

----------------------------------------------------------------------------
\* Both together.

OneCall == tx.pc = "idle" \/ read.pc = "idle"
IInv == ClockInv /\ UartInv /\ OneCall

LEMMA UartUnchanged == UartInv /\ UNCHANGED uart => UartInv'
BY DEF uart, UartInv, UartType, CallKnows

LEMMA ClockUnchanged == ClockInv /\ UNCHANGED clock => ClockInv'
<1> SUFFICES ASSUME ClockInv, UNCHANGED clock PROVE ClockInv'
  OBVIOUS
<1>1. now' = now /\ cycle' = cycle /\ total' = total /\ primask' = primask /\ read' = read
  BY DEF clock
<1>2. ClockType' /\ Published'
  BY <1>1 DEF ClockInv, ClockType, Published
<1>3. \A a, b, c, d \in Nat : Loaded(a, b, c, d) => Loaded(a, b, c, d)'
  BY <1>1 DEF Loaded
<1>4. ReaderKnows'
  BY <1>1, <1>3 DEF ClockInv, ReaderKnows
<1>5. QED
  BY <1>2, <1>4 DEF ClockInv

LEMMA FrameIsSeq == \A data \in Frames : data \in Seq(Byte)
<1> SUFFICES ASSUME NEW data \in Frames PROVE data \in Seq(Byte)
  OBVIOUS
<1>1. PICK n \in 1 .. MaxFrame : data \in [1 .. n -> Byte]
  BY DEF Frames
<1>2. n \in Nat
  OBVIOUS
<1>3. QED
  BY <1>1, <1>2, SeqDef

LEMMA InductiveInit == Init => IInv
BY ClockInit1, UartInit1 DEF Init, IInv, OneCall, UartInit, Idle

LEMMA ForegroundInv == IInv /\ Foreground => IInv'
<1> SUFFICES ASSUME IInv, Foreground PROVE IInv'
  OBVIOUS
<1> USE DEF IInv, OneCall
<1>1. CASE TxStep /\ UNCHANGED clock
  <2>1. UartInv' /\ ClockInv'
    BY <1>1, ClockUnchanged, TxRoomInv, TxStoreInv, TxAdvanceInv, TxEndInv DEF TxStep
  <2>2. tx.pc # "idle"
    BY <1>1 DEF TxStep, TxRoom, TxStore, TxAdvance, TxCheck, TxEnable
  <2>3. QED
    BY <1>1, <2>1, <2>2 DEF clock
<1>2. CASE ReadStep /\ UNCHANGED uart
  <2>1. UartInv' /\ ClockInv'
    BY <1>2, UartUnchanged, NowInv, CallInv, FirstPassInv, SecondPassInv DEF ReadStep
  <2>2. read.pc # "idle"
    BY <1>2 DEF ReadStep, NowLow, NowHigh, FirstPass, SecondPass, TicksLive, Return
  <2>3. QED
    BY <1>2, <2>1, <2>2 DEF uart
<1>3. QED
  BY <1>1, <1>2 DEF Foreground

LEMMA InductiveStep == IInv /\ [Next]_vars => IInv'
<1> SUFFICES ASSUME IInv, [Next]_vars PROVE IInv'
  OBVIOUS
<1> USE DEF IInv, OneCall
<1>1. CASE Transmit
  <2>1. PICK data \in Frames : Free /\ TxCall(data) /\ UNCHANGED clock
    BY <1>1 DEF Transmit
  <2>2. UartInv' /\ ClockInv'
    BY <2>1, FrameIsSeq, TxCallInv, ClockUnchanged
  <2>3. QED
    BY <2>1, <2>2 DEF Free, clock
<1>2. CASE ReadNow
  BY <1>2, NowInv, UartUnchanged DEF ReadNow, Free, uart
<1>3. CASE ReadTicks
  BY <1>3, CallInv, UartUnchanged DEF ReadTicks, Free, uart
<1>4. CASE Foreground
  BY <1>4, ForegroundInv
<1>5. CASE Usart1
  BY <1>5, Usart1IsrInv, ClockUnchanged DEF Usart1, Usart1Isr, clock
<1>6. CASE Tim2
  BY <1>6, OnTickInv, UartUnchanged DEF Tim2, OnTick, uart
<1>7. CASE Hardware
  BY <1>7, ShiftInv, ClockUnchanged DEF Hardware, Shift, clock
<1>8. CASE CycleCounter
  BY <1>8, CycleInv, UartUnchanged DEF CycleCounter, Cycle, uart
<1>9. CASE UNCHANGED vars
  BY <1>9, UartUnchanged, ClockUnchanged DEF vars, uart, clock
<1>10. QED
  BY <1>1, <1>2, <1>3, <1>4, <1>5, <1>6, <1>7, <1>8, <1>9 DEF Next

LEMMA Inductive == Spec => []IInv
<1>1. QED
  BY InductiveInit, InductiveStep, PTL DEF Spec

\* For every ring and every width of a word: the ring's indices stay in it, an
\* interrupt that is enabled is known to be so (m_txe_enabled in
\* uart_bridge.cpp), interrupts are disabled only inside raw_now_ms(), and the
\* foreground is in one call at a time.
THEOREM TypeCorrect == Spec => []TypeOK
<1>1. IInv => TypeOK
  <2> SUFFICES ASSUME IInv PROVE TypeOK
    OBVIOUS
  <2>1. primask = (read.pc \in {"nowLow", "nowHigh"})
    <3>1. primask \in BOOLEAN /\ (primask <=> read.pc \in {"nowLow", "nowHigh"})
      BY DEF IInv, ClockInv, ClockType, ReaderKnows
    <3>2. CASE primask
      <4>1. primask = TRUE /\ (read.pc \in {"nowLow", "nowHigh"}) = TRUE
        BY <3>1, <3>2
      <4>2. QED
        BY <4>1
    <3>3. CASE ~primask
      <4>1. primask = FALSE /\ (read.pc \in {"nowLow", "nowHigh"}) = FALSE
        BY <3>1, <3>3
      <4>2. QED
        BY <4>1
    <3>4. QED
      BY <3>2, <3>3
  <2>2. {enabled, txeie, full, primask} \subseteq BOOLEAN
    BY DEF IInv, UartInv, UartType, ClockInv, ClockType
  <2>3. /\ head \in 0 .. RingSize - 1 /\ tail \in 0 .. RingSize - 1
        /\ slots \in [0 .. RingSize - 1 -> Byte] /\ line \in Byte
        /\ tx.pc \in {"idle", "room", "store", "advance", "enable"}
        /\ txeie => enabled
    BY DEF IInv, UartInv, UartType, Index, Call, CallKnows
  <2>4. /\ read.pc \in {"idle", "nowLow", "nowHigh", "s1", "s2", "live", "gotNow", "gotTicks"}
        /\ now \in 0 .. MaxTicks /\ total \in 0 .. MaxCycles
    BY DEF IInv, ClockInv, ClockType, Reading
  <2>5. QED
    BY <2>1, <2>2, <2>3, <2>4, Zenon DEF TypeOK, IInv, OneCall
<1>2. QED
  BY <1>1, Inductive, PTL

----------------------------------------------------------------------------
\* The clock tells the time.

LEMMA NowTrue ==
  ASSUME IInv, NowHigh
  PROVE  read'.pc = "gotNow" /\ read'.value = now
<1>1. now \in Nat /\ read.s1.low = Low(now)
  BY DEF IInv, ClockInv, ClockType, ReaderKnows, NowHigh
<1>2. High(now) * Word + read.s1.low = now
  BY <1>1, WordsOf
<1>3. QED
  BY <1>1, <1>2, AnswerType DEF NowHigh

LEMMA TicksTrue ==
  ASSUME IInv, TicksLive
  PROVE  read'.pc = "gotTicks" /\ read'.value = total
<1>1. total \in Nat /\ read.s1.high * Word + read.s1.low + Since(read.s1.prev) = total
  BY TicksValue DEF IInv
<1>2. QED
  BY <1>1, AnswerType DEF TicksLive

\* What a finished call returns.
Answer == /\ read'.pc = "gotNow" /\ read.pc # "gotNow" => read'.value = now
          /\ read'.pc = "gotTicks" /\ read.pc # "gotTicks" => read'.value = total

LEMMA AnswerTrue == IInv /\ [Next]_vars => Answer
<1> SUFFICES ASSUME IInv, [Next]_vars PROVE Answer
  OBVIOUS
<1>0. read \in Reading
  BY DEF IInv, ClockInv, ClockType
<1>1. CASE UNCHANGED read
  BY <1>1 DEF Answer
<1>2. CASE NowCall \/ TicksCall \/ NowLow \/ Return
  <2>1. read'.pc \in {"nowLow", "s1", "nowHigh", "idle"}
    <3>1. NowCall => read'.pc = "nowLow"
      BY <1>0 DEF NowCall, Reading
    <3>2. TicksCall => read'.pc = "s1"
      BY <1>0 DEF TicksCall, Reading
    <3>3. NowLow => read'.pc = "nowHigh"
      BY <1>0 DEF NowLow, Reading
    <3>4. Return => read'.pc = "idle"
      BY DEF Return, NoRead
    <3>5. QED
      BY <1>2, <3>1, <3>2, <3>3, <3>4
  <2>2. QED
    BY <2>1 DEF Answer
<1>3. CASE FirstPass
  <2>1. read'.pc \in {"s1", "s2"}
    BY <1>0, <1>3 DEF FirstPass, Reading
  <2>2. QED
    BY <2>1 DEF Answer
<1>4. CASE SecondPass
  <2> DEFINE s == Load(read.s2, read.next)
             p == IF read.next < Loads THEN "s2"
                  ELSE IF Consistent(read.s1, s) THEN "live" ELSE "s1"
  <2>3. read'.pc = p
    BY <1>0, <1>4, Zenon DEF SecondPass, Reading
  <2>1. read'.pc \in {"s1", "s2", "live"}
    BY <2>3
  <2>2. QED
    BY <2>1 DEF Answer
<1>5. CASE NowHigh
  BY <1>5, NowTrue DEF Answer
<1>6. CASE TicksLive
  BY <1>6, TicksTrue DEF Answer
<1>7. \/ UNCHANGED read \/ NowCall \/ TicksCall \/ NowLow \/ Return
      \/ FirstPass \/ SecondPass \/ NowHigh \/ TicksLive
  BY DEF Next, Transmit, ReadNow, ReadTicks, Foreground, ReadStep, Usart1, Tim2, OnTick,
         Hardware, CycleCounter, Cycle, clock, vars
<1>8. QED
  BY <1>1, <1>2, <1>3, <1>4, <1>5, <1>6, <1>7

\* For every width of a word: a clock that is read shows the time of its last
\* load, although the TIM2 interrupt comes in between any two loads of
\* raw_now_ms() or raw_ticks_us() and the counter wraps.  Not even the parity
\* of the sequence number is needed, nor that it does not come round: two
\* passes that agree on the low word, in less than a wrap of the counter, have
\* seen the same count.
THEOREM ClockTrue == Spec => TimeTrue
<1>1. IInv /\ [Next]_vars => [Answer]_vars
  BY AnswerTrue
<1>2. Spec => [][Answer]_vars
  BY <1>1, Inductive, PTL DEF Spec
<1>3. QED
  BY <1>2 DEF TimeTrue, Answer

----------------------------------------------------------------------------
\* The ring is a bounded channel.

LEMMA ContentsIs == UartType => Contents = Ring(slots, head, tail)
BY RingIs DEF UartType, Contents

LEMMA ContentsNext == UartType' => Contents' = Ring(slots', head', tail')
BY RingIs DEF UartType, Contents

LEMMA ChannelInit == UartInit => Channel!Init
<1> SUFFICES ASSUME UartInit PROVE Channel!Init
  OBVIOUS
<1>1. UartType
  BY UartInit1 DEF UartInv
<1>2. Count(head, tail) = 0
  BY RingAssumption DEF UartInit, Count
<1>3. Ring(slots, head, tail) \in Seq(Byte) /\ Len(Ring(slots, head, tail)) = 0
  BY <1>1, <1>2, RingSeq DEF UartType
<1>4. Contents = <<>>
  BY <1>1, <1>3, ContentsIs, EmptySeq
<1>5. QED
  BY <1>1, <1>4 DEF Channel!Init, UartType

\* What leaves the ring and the register alone is no step of the channel.
LEMMA ChannelStutter ==
  ASSUME UNCHANGED <<head, tail, slots, line>>
  PROVE  UNCHANGED <<Contents, line>>
BY DEF Contents

LEMMA StorePut ==
  ASSUME UartInv, UartInv', TxStore
  PROVE  UNCHANGED <<Contents, line>>
<1>1. tx.data \in Seq(Byte) /\ tx.data # <<>>
  BY DEF UartInv, UartType, Call, TxStore
<1>2. Head(tx.data) \in Byte
  BY <1>1, HeadTailProperties
<1>3. UNCHANGED <<head, tail, line>> /\ slots' = [slots EXCEPT ![tail] = Head(tx.data)]
  BY DEF TxStore
<1>4. Ring([slots EXCEPT ![tail] = Head(tx.data)], head, tail) = Ring(slots, head, tail)
  BY <1>2, RingStore DEF UartInv, UartType
<1>5. Contents = Ring(slots, head, tail) /\ Contents' = Ring(slots', head', tail')
  BY ContentsIs, ContentsNext DEF UartInv
<1>6. QED
  BY <1>3, <1>4, <1>5

LEMMA AdvancePut ==
  ASSUME UartInv, UartInv', TxAdvance
  PROVE  Channel!Next
<1>1. UNCHANGED <<head, slots, line>> /\ tail' = Forward(tail)
  BY ForwardIs DEF TxAdvance, UartInv, UartType
<1>2. tx.data \in Seq(Byte) /\ tx.data # <<>> /\ tx.pc = "advance"
  BY DEF UartInv, UartType, Call, CallKnows, TxAdvance
<1>3. Len(tx.data) \in Nat /\ Len(tx.data) > 0
  BY <1>2, EmptySeq, LenProperties
<1>4. Count(head, tail) \in Nat
  BY RingAssumption DEF Count, Index, UartInv, UartType
<1>5. Count(head, tail) < RingSize - 1
  BY <1>2, <1>3, <1>4, RingAssumption DEF UartInv, CallKnows
<1>6. Contents' = Append(Contents, slots[tail])
  BY <1>1, <1>5, RingPut, ContentsIs, ContentsNext DEF UartInv, UartType
<1>7. Len(Contents) < RingSize - 1 /\ slots[tail] \in Byte
  BY <1>5, RingSeq, ContentsIs DEF UartInv, UartType
<1>8. Channel!Put(slots[tail])
  BY <1>1, <1>6, <1>7 DEF Channel!Put
<1>9. QED
  BY <1>7, <1>8 DEF Channel!Next

LEMMA IsrGet ==
  ASSUME UartInv, UartInv', Usart1Isr
  PROVE  [Channel!Next]_<<Contents, line>>
<1>1. UNCHANGED <<tail, slots>>
  BY DEF Usart1Isr
<1>2. CASE head # tail
  <2>1. line' = slots[head] /\ head' = Forward(head)
    BY <1>2, ForwardIs DEF Usart1Isr, UartInv, UartType
  <2>2. Contents # <<>> /\ Head(Contents) = slots[head] /\ Contents' = Tail(Contents)
    BY <1>1, <1>2, <2>1, RingGet, ContentsIs, ContentsNext DEF UartInv, UartType
  <2>3. Channel!Get
    BY <2>1, <2>2 DEF Channel!Get
  <2>4. QED
    BY <2>3 DEF Channel!Next
<1>3. CASE head = tail
  <2>1. UNCHANGED <<head, tail, slots, line>>
    BY <1>1, <1>3 DEF Usart1Isr
  <2>2. QED
    BY <2>1, ChannelStutter
<1>4. QED
  BY <1>2, <1>3

LEMMA ChannelStep == IInv /\ IInv' /\ [Next]_vars => [Channel!Next]_<<Contents, line>>
<1> SUFFICES ASSUME IInv, IInv', [Next]_vars PROVE [Channel!Next]_<<Contents, line>>
  OBVIOUS
<1>0. UartInv /\ UartInv'
  BY DEF IInv
<1>1. CASE UNCHANGED <<head, tail, slots, line>>
  BY <1>1, ChannelStutter
<1>2. CASE TxStore
  BY <1>0, <1>2, StorePut
<1>3. CASE TxAdvance
  BY <1>0, <1>3, AdvancePut
<1>4. CASE Usart1Isr
  BY <1>0, <1>4, IsrGet
<1>5. \/ UNCHANGED <<head, tail, slots, line>> \/ TxStore \/ TxAdvance \/ Usart1Isr
  BY DEF Next, Transmit, TxCall, ReadNow, ReadTicks, Foreground, TxStep, TxRoom, TxCheck,
         TxEnable, Usart1, Tim2, Hardware, Shift, CycleCounter, uart, vars
<1>6. QED
  BY <1>1, <1>2, <1>3, <1>4, <1>5

\* For every ring: the bytes tx() accepts come out of uart1_isr() in their
\* order, none lost, repeated or overtaken, wherever the interrupt breaks into
\* the filling of the ring.  A slot is written only behind the tail and is free
\* then, because the room was computed with a head that is at most too old.
THEOREM BridgeIsChannel == Spec => ImplementsChannel
<1>1. Init => Channel!Init
  BY ChannelInit DEF Init
<1>2. IInv /\ IInv' /\ [Next]_vars => [Channel!Next]_<<Contents, line>>
  BY ChannelStep
<1>3. Spec => Channel!Spec
  BY <1>1, <1>2, Inductive, PTL DEF Spec, Channel!Spec
<1>4. QED
  BY <1>3 DEF ImplementsChannel

=============================================================================
