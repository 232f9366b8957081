------------------------- MODULE ObservabilityProofs -------------------------
(***************************************************************************)
(* Proofs about Observability, for all capacities, sizes, caps and budgets *)
(* that the assumptions allow.                                             *)
(***************************************************************************)
EXTENDS Observability, SequenceTheorems, WellFoundedInduction,
        FiniteSetTheorems, TLAPS

----------------------------------------------------------------------------
\* Arithmetic.

LEMMA DivMod ==
  ASSUME NEW m \in Nat \ {0}, NEW x \in Nat
  PROVE  /\ x % m \in 0 .. m - 1
         /\ x \div m \in Nat
         /\ x = m * (x \div m) + (x % m)
BY SMTT(60)

\* Products of m that are less than m apart are equal.
LEMMA Multiples ==
  ASSUME NEW m \in Nat \ {0}, NEW p \in Int, NEW q \in Int,
         m * p - m * q < m, m * q - m * p < m
  PROVE  p = q
<1>1. ASSUME p - q >= 1 PROVE FALSE
  <2>1. m * (p - q) >= m * 1
    BY <1>1
  <2>2. m * (p - q) = m * p - m * q
    OBVIOUS
  <2>3. QED
    BY <2>1, <2>2
<1>2. ASSUME q - p >= 1 PROVE FALSE
  <2>1. m * (q - p) >= m * 1
    BY <1>2
  <2>2. m * (q - p) = m * q - m * p
    OBVIOUS
  <2>3. QED
    BY <2>1, <2>2
<1>3. QED
  BY <1>1, <1>2

\* A multiple of m makes no difference to a remainder.
LEMMA ModShift ==
  ASSUME NEW m \in Nat \ {0}, NEW x \in Nat, NEW y \in Nat, NEW k \in Int, x = y + m * k
  PROVE  x % m = y % m
<1> DEFINE qx == x \div m
           rx == x % m
           qy == y \div m
           ry == y % m
<1>1. rx \in 0 .. m - 1 /\ qx \in Nat /\ x = m * qx + rx
  BY DivMod
<1>2. ry \in 0 .. m - 1 /\ qy \in Nat /\ y = m * qy + ry
  BY DivMod
<1> HIDE DEF qx, rx, qy, ry
<1>3. m * (qy + k) = m * qy + m * k
  BY <1>2
<1>4. m * qx - m * (qy + k) = ry - rx
  BY <1>1, <1>2, <1>3
<1>5. qx = qy + k
  BY <1>1, <1>2, <1>4, Multiples
<1>6. rx = ry
  BY <1>1, <1>2, <1>4, <1>5
<1>7. QED
  BY <1>6 DEF rx, ry

\* A remainder may be taken before an addition.
LEMMA ModPlus ==
  ASSUME NEW m \in Nat \ {0}, NEW x \in Nat, NEW y \in Nat
  PROVE  ((x % m) + y) % m = (x + y) % m
<1> DEFINE q == x \div m
           r == x % m
<1>1. r \in 0 .. m - 1 /\ q \in Nat /\ x = m * q + r
  BY DivMod
<1> HIDE DEF q, r
<1>2. x + y = (r + y) + m * q
  BY <1>1
<1>3. (x + y) % m = (r + y) % m
  <2> DEFINE s == x + y
             u == r + y
  <2>1. s \in Nat /\ u \in Nat /\ q \in Int /\ s = u + m * q
    BY <1>1, <1>2
  <2> HIDE DEF s, u
  <2>2. s % m = u % m
    BY <2>1, ModShift, Zenon
  <2>3. QED
    BY <2>2 DEF s, u
<1>4. QED
  BY <1>3 DEF r

----------------------------------------------------------------------------
\* Texts and their fragments.

Count(n) == (n + Chunk - 1) \div Chunk

LEMMA CountIs ==
  ASSUME NEW n \in Nat \ {0}
  PROVE  /\ Count(n) \in Nat \ {0} /\ n - Chunk * (Count(n) - 1) \in 1 .. Chunk
         /\ \A k \in Nat : n <= Chunk * k => Count(n) <= k
<1>0. Chunk \in Nat \ {0}
  BY RecordAssumption
<1> DEFINE x == n + Chunk - 1
           r == x % Chunk
           q == x \div Chunk
<1>1. x \in Nat
  BY <1>0
<1>2. r \in 0 .. Chunk - 1 /\ q \in Nat /\ x = Chunk * q + r
  BY <1>0, <1>1, DivMod
<1> HIDE DEF r, q
<1>3. n = Chunk * q + r - Chunk + 1
  BY <1>0, <1>2
<1>4. q # 0
  BY <1>0, <1>2, <1>3
<1>5. Chunk * (q - 1) = Chunk * q - Chunk
  BY <1>0, <1>2
<1>6. n - Chunk * (q - 1) = r + 1
  BY <1>0, <1>2, <1>3, <1>5
<1>7. ASSUME NEW k \in Nat, n <= Chunk * k PROVE q <= k
  <2> SUFFICES ASSUME q - k >= 1 PROVE FALSE
    BY <1>2
  <2>1. Chunk * (q - k) >= Chunk * 1
    BY <1>0, <1>2
  <2>2. Chunk * (q - k) = Chunk * q - Chunk * k
    BY <1>0, <1>2
  <2>3. QED
    BY <1>0, <1>2, <1>3, <1>7, <2>1, <2>2
<1>8. Count(n) = q
  BY DEF Count, q
<1>9. QED
  BY <1>0, <1>2, <1>4, <1>6, <1>7, <1>8

TextKinds == {"Document", "Trace"}

LEMMA FragmentsAre ==
  ASSUME NEW kind \in TextKinds, NEW of \in Nat, NEW n \in Nat \ {0}
  PROVE  /\ Fragments(kind, of, n) \in Seq(Frames)
         /\ Len(Fragments(kind, of, n)) = Count(n)
         /\ \A i \in 1 .. Count(n) :
               /\ Fragments(kind, of, n)[i].kind = kind
               /\ Fragments(kind, of, n)[i].of = of
               /\ Fragments(kind, of, n)[i].index = i - 1
               /\ Fragments(kind, of, n)[i].count = Count(n)
<1> DEFINE c == Count(n)
           share(i) == Overhead + IF i < c THEN Chunk ELSE n - Chunk * (c - 1)
<1>1. c \in Nat \ {0} /\ n - Chunk * (c - 1) \in 1 .. Chunk
  BY CountIs
<1>2. Fragments(kind, of, n) = [i \in 1 .. c |-> Frame(kind, of, i - 1, c, share(i))]
  BY DEF Fragments, Count
<1> HIDE DEF c
<1>3. ASSUME NEW i \in 1 .. c PROVE share(i) \in 1 .. PerClassCap
  BY <1>1, RecordAssumption, SinkAssumption
<1> HIDE DEF share
<1>4. ASSUME NEW i \in 1 .. c PROVE Frame(kind, of, i - 1, c, share(i)) \in Frames
  BY <1>1, <1>3 DEF Frame, Frames, TextKinds
<1>5. /\ Fragments(kind, of, n) \in Seq(Frames) /\ Len(Fragments(kind, of, n)) = c
  BY <1>1, <1>2, <1>4, IsASeq
<1>6. \A i \in 1 .. c : /\ Fragments(kind, of, n)[i].kind = kind
                        /\ Fragments(kind, of, n)[i].of = of
                        /\ Fragments(kind, of, n)[i].index = i - 1
                        /\ Fragments(kind, of, n)[i].count = c
  BY <1>2 DEF Frame
<1>7. QED
  BY <1>5, <1>6 DEF c

----------------------------------------------------------------------------
\* The types of the Producer and its queues.

Kinds == {"Event", "Log", "Telemetry", "Ack", "Query", "Document", "Trace"}
Tails == {"Events", "Logs"}

OutType == [queue : [Classes -> Seq(Frames)], seq : [Numbered -> 0 .. SeqModulus - 1],
            dropped : [Numbered -> 0 .. DropModulus - 1], high : [Numbered -> Nat],
            tail : [Tails -> 0 .. TailDepth], pendingDrop : Classes \cup {"None"},
            version : 0 .. SeqModulus - 1, pending : BOOLEAN, flag : BOOLEAN]

\* A frame that may be in the queue of class c: texts only in their own.
Belongs(c, f) ==
    /\ f.kind = "Document" => c = "Control"
    /\ f.kind = "Trace" => c = "Traces"
    /\ c = "Traces" => f.kind = "Trace"
    /\ f.kind = "Query" => f.mask \in QueryMasks
    /\ f.kind \notin TextKinds => f.index = 0

OutInv(o) ==
    /\ o \in OutType
    /\ \A c \in Classes : Len(o.queue[c]) <= Capacity[c]
    /\ \A c \in Numbered : Len(o.queue[c]) <= o.high[c] /\ o.high[c] <= Capacity[c]
    /\ \A c \in Classes : \A i \in 1 .. Len(o.queue[c]) : Belongs(c, o.queue[c][i])

LEMMA ClassNames ==
  /\ Classes = {"Control", "Service", "Events", "Logs", "Traces", "Telemetry"}
  /\ Numbered \subseteq Classes /\ Tails \subseteq Numbered
  /\ DropOldest \subseteq Numbered /\ Tails \cap DropOldest = {}
<1>1. Classes = {"Control", "Service", "Events", "Logs", "Traces", "Telemetry"}
  <2>1. /\ Order[1] = "Control" /\ Order[2] = "Service" /\ Order[3] = "Events"
        /\ Order[4] = "Logs" /\ Order[5] = "Traces" /\ Order[6] = "Telemetry"
    BY DEF Order
  <2>2. \A i \in 1 .. 6 : i = 1 \/ i = 2 \/ i = 3 \/ i = 4 \/ i = 5 \/ i = 6
    OBVIOUS
  <2>3. QED
    BY <2>1, <2>2 DEF Classes
<1>2. QED
  BY <1>1 DEF Numbered, Tails, DropOldest

LEMMA CapacityNat == \A c \in Classes : Capacity[c] \in Nat \ {0}
BY SinkAssumption

LEMMA ExcessIs ==
  ASSUME NEW c \in Classes, NEW all \in Seq(Frames)
  PROVE  /\ Excess(c, all) \in 0 .. Len(all)
         /\ Len(all) - Excess(c, all) <= Capacity[c]
         /\ Excess(c, all) = 0 <=> Len(all) <= Capacity[c]
BY CapacityNat, LenProperties DEF Excess

LEMMA KeptIs ==
  ASSUME NEW c \in Classes, NEW all \in Seq(Frames)
  PROVE  /\ Kept(c, all) \in Seq(Frames)
         /\ Len(Kept(c, all)) = Len(all) - Excess(c, all)
         /\ Len(Kept(c, all)) <= Capacity[c]
         /\ c \in DropOldest => \A i \in 1 .. Len(all) - Excess(c, all) :
                                   Kept(c, all)[i] = all[i + Excess(c, all)]
         /\ c \notin DropOldest => \A i \in 1 .. Len(all) - Excess(c, all) :
                                      Kept(c, all)[i] = all[i]
         /\ Excess(c, all) = 0 => Kept(c, all) = all
<1> DEFINE e == Excess(c, all)
<1>1. e \in 0 .. Len(all) /\ Len(all) - e <= Capacity[c] /\ Len(all) \in Nat
  BY ExcessIs, LenProperties
<1>2. CASE c \in DropOldest
  <2>1. Kept(c, all) = SubSeq(all, e + 1, Len(all))
    BY <1>2 DEF Kept
  <2> HIDE DEF e
  <2>2. /\ SubSeq(all, e + 1, Len(all)) \in Seq(Frames)
        /\ Len(SubSeq(all, e + 1, Len(all))) = Len(all) - e
        /\ \A i \in 1 .. Len(all) - e : SubSeq(all, e + 1, Len(all))[i] = all[i + e]
    BY <1>1
  <2>3. e = 0 => SubSeq(all, e + 1, Len(all)) = all
    BY <1>1, SubSeqFull
  <2>4. QED
    BY <1>1, <1>2, <2>1, <2>2, <2>3 DEF e
<1>3. CASE c \notin DropOldest
  <2>1. Kept(c, all) = SubSeq(all, 1, Len(all) - e)
    BY <1>3 DEF Kept
  <2> HIDE DEF e
  <2>2. /\ SubSeq(all, 1, Len(all) - e) \in Seq(Frames)
        /\ Len(SubSeq(all, 1, Len(all) - e)) = Len(all) - e
        /\ \A i \in 1 .. Len(all) - e : SubSeq(all, 1, Len(all) - e)[i] = all[i]
    BY <1>1
  <2>3. e = 0 => SubSeq(all, 1, Len(all) - e) = all
    BY <1>1, SubSeqFull
  <2>4. QED
    BY <1>1, <1>3, <2>1, <2>2, <2>3 DEF e
<1>4. QED
  BY <1>2, <1>3

\* The queue of class c after a push.
After(o, c, frames) == Kept(c, o.queue[c] \o frames)
Lost(o, c, frames) == Excess(c, o.queue[c] \o frames)

\* push_class(), field by field.
LEMMA PushFields ==
  ASSUME NEW o \in OutType, NEW c \in Classes, NEW frames
  PROVE  /\ PushAll(o, c, frames).queue = [o.queue EXCEPT ![c] = After(o, c, frames)]
         /\ PushAll(o, c, frames).seq = o.seq
         /\ PushAll(o, c, frames).version = o.version
         /\ PushAll(o, c, frames).pending = o.pending
         /\ PushAll(o, c, frames).flag = o.flag
         /\ PushAll(o, c, frames).high = NoteHighWater(o.high, c, Len(After(o, c, frames)))
         /\ PushAll(o, c, frames).tail =
              AppendTail(o.tail, c, Len(After(o, c, frames)) - Len(o.queue[c]))
         /\ PushAll(o, c, frames).dropped =
              IF Lost(o, c, frames) = 0 THEN o.dropped
              ELSE BumpCounter(o.dropped, c, Lost(o, c, frames))
         /\ PushAll(o, c, frames).pendingDrop =
              IF Lost(o, c, frames) = 0 THEN o.pendingDrop ELSE c
         /\ DOMAIN PushAll(o, c, frames) = DOMAIN o
<1> DEFINE q == After(o, c, frames)
           x == Lost(o, c, frames)
           h == NoteHighWater(o.high, c, Len(q))
           t == AppendTail(o.tail, c, Len(q) - Len(o.queue[c]))
           p == [o EXCEPT !.queue[c] = q, !.high = NoteHighWater(@, c, Len(q)),
                          !.tail = AppendTail(@, c, Len(q) - Len(o.queue[c]))]
<1>1. PushAll(o, c, frames) = NoteClassDrop(p, c, x)
  BY DEF PushAll, After, Lost
<1> HIDE DEF q, x
<1>2. /\ p.queue = [o.queue EXCEPT ![c] = q] /\ p.seq = o.seq /\ p.version = o.version
      /\ p.pending = o.pending /\ p.flag = o.flag /\ p.high = h /\ p.tail = t
      /\ p.dropped = o.dropped /\ p.pendingDrop = o.pendingDrop
      /\ DOMAIN p = DOMAIN o
  BY DEF OutType
<1>3. DOMAIN o = {"queue", "seq", "dropped", "high", "tail", "pendingDrop", "version",
                  "pending", "flag"}
  BY DEF OutType
<1> HIDE DEF p, h, t
<1>4. CASE x = 0
  BY <1>1, <1>2, <1>4 DEF NoteClassDrop, q, x, h, t
<1>5. CASE x # 0
  <2>1. NoteClassDrop(p, c, x) =
          [p EXCEPT !.dropped = BumpCounter(@, c, x), !.pendingDrop = c]
    BY <1>5 DEF NoteClassDrop
  <2> DEFINE d == BumpCounter(p.dropped, c, x)
  <2> HIDE DEF d
  <2>2. NoteClassDrop(p, c, x) = [p EXCEPT !.dropped = d, !.pendingDrop = c]
    BY <2>1 DEF d
  <2>3. /\ NoteClassDrop(p, c, x).queue = p.queue /\ NoteClassDrop(p, c, x).seq = p.seq
        /\ NoteClassDrop(p, c, x).version = p.version
        /\ NoteClassDrop(p, c, x).pending = p.pending
        /\ NoteClassDrop(p, c, x).flag = p.flag /\ NoteClassDrop(p, c, x).high = p.high
        /\ NoteClassDrop(p, c, x).tail = p.tail
        /\ NoteClassDrop(p, c, x).dropped = d /\ NoteClassDrop(p, c, x).pendingDrop = c
        /\ DOMAIN NoteClassDrop(p, c, x) = DOMAIN p
    BY <1>2, <1>3, <2>2
  <2>4. QED
    BY <1>1, <1>2, <1>5, <2>3 DEF q, x, h, t, d
<1>6. QED
  BY <1>4, <1>5

LEMMA BumpType ==
  ASSUME NEW d \in [Numbered -> 0 .. DropModulus - 1], NEW c, NEW x \in Nat
  PROVE  BumpCounter(d, c, x) \in [Numbered -> 0 .. DropModulus - 1]
<1>1. DropModulus \in Nat \ {0}
  BY CounterAssumption
<1>2. ASSUME NEW k \in Numbered PROVE (d[k] + x) % DropModulus \in 0 .. DropModulus - 1
  <2>1. d[k] + x \in Nat
    OBVIOUS
  <2>2. QED
    BY <1>1, <2>1, DivMod
<1>3. QED
  BY <1>2 DEF BumpCounter

\* What may be pushed: frames that belong on the queue.
Pushable(c, frames) ==
    frames \in Seq(Frames) /\ \A i \in 1 .. Len(frames) : Belongs(c, frames[i])

LEMMA AllIs ==
  ASSUME NEW o, OutInv(o), NEW c \in Classes, NEW frames, Pushable(c, frames)
  PROVE  LET all == o.queue[c] \o frames
         IN  /\ all \in Seq(Frames)
             /\ o.queue[c] \in Seq(Frames) /\ Len(o.queue[c]) \in Nat
             /\ Len(all) = Len(o.queue[c]) + Len(frames) /\ Len(frames) \in Nat
             /\ \A i \in 1 .. Len(o.queue[c]) : all[i] = o.queue[c][i]
             /\ \A i \in 1 .. Len(frames) : all[i + Len(o.queue[c])] = frames[i]
             /\ \A i \in 1 .. Len(all) : Belongs(c, all[i])
<1> DEFINE q == o.queue[c]
           all == q \o frames
<1>1. q \in Seq(Frames) /\ frames \in Seq(Frames)
  BY DEF OutInv, OutType, Pushable
<1>2. /\ \A i \in 1 .. Len(q) : Belongs(c, q[i])
      /\ \A i \in 1 .. Len(frames) : Belongs(c, frames[i])
  BY DEF OutInv, Pushable
<1> HIDE DEF q
<1>3. /\ all \in Seq(Frames) /\ Len(all) = Len(q) + Len(frames)
      /\ Len(q) \in Nat /\ Len(frames) \in Nat
  BY <1>1, ConcatProperties, LenProperties
<1>4. \A i \in 1 .. Len(all) : all[i] = IF i <= Len(q) THEN q[i] ELSE frames[i - Len(q)]
  BY <1>1, ConcatProperties
<1>5. \A i \in 1 .. Len(q) : all[i] = q[i]
  BY <1>3, <1>4
<1>6. ASSUME NEW i \in 1 .. Len(frames) PROVE all[i + Len(q)] = frames[i]
  <2>1. i + Len(q) \in 1 .. Len(all) /\ ~ (i + Len(q) <= Len(q)) /\ i + Len(q) - Len(q) = i
    BY <1>3
  <2>2. QED
    BY <1>4, <2>1
<1>7. ASSUME NEW i \in 1 .. Len(all) PROVE Belongs(c, all[i])
  <2>1. CASE i <= Len(q)
    <3>1. i \in 1 .. Len(q) /\ all[i] = q[i]
      BY <1>3, <1>4, <2>1
    <3>2. QED
      BY <1>2, <3>1
  <2>2. CASE ~ (i <= Len(q))
    <3>1. i - Len(q) \in 1 .. Len(frames) /\ all[i] = frames[i - Len(q)]
      BY <1>3, <1>4, <2>2
    <3>2. QED
      BY <1>2, <3>1
  <2>3. QED
    BY <2>1, <2>2
<1>8. QED
  BY <1>1, <1>3, <1>5, <1>6, <1>7 DEF q

\* The queue a push leaves.
LEMMA AfterIs ==
  ASSUME NEW o, OutInv(o), NEW c \in Classes, NEW frames, Pushable(c, frames)
  PROVE  /\ After(o, c, frames) \in Seq(Frames)
         /\ Len(After(o, c, frames)) \in Nat
         /\ Len(After(o, c, frames)) <= Capacity[c]
         /\ Lost(o, c, frames) \in Nat
         /\ Len(After(o, c, frames)) + Lost(o, c, frames) = Len(o.queue[c]) + Len(frames)
         /\ c \notin DropOldest => Len(After(o, c, frames)) >= Len(o.queue[c])
         /\ \A i \in 1 .. Len(After(o, c, frames)) : Belongs(c, After(o, c, frames)[i])
<1> DEFINE all == o.queue[c] \o frames
           kept == Kept(c, all)
           e == Excess(c, all)
<1>1. /\ all \in Seq(Frames) /\ Len(all) = Len(o.queue[c]) + Len(frames)
      /\ Len(o.queue[c]) \in Nat /\ Len(frames) \in Nat
      /\ \A i \in 1 .. Len(all) : Belongs(c, all[i])
  BY AllIs
<1>2. Len(o.queue[c]) <= Capacity[c] /\ Capacity[c] \in Nat
  BY CapacityNat DEF OutInv
<1>3. After(o, c, frames) = kept /\ Lost(o, c, frames) = e
  BY DEF After, Lost
<1> HIDE DEF all
<1>4. e \in 0 .. Len(all) /\ (e = 0 <=> Len(all) <= Capacity[c])
  BY <1>1, ExcessIs
<1>5. e # 0 => e = Len(all) - Capacity[c]
  BY DEF Excess
<1>6. /\ kept \in Seq(Frames) /\ Len(kept) = Len(all) - e /\ Len(kept) <= Capacity[c]
      /\ c \in DropOldest => \A i \in 1 .. Len(all) - e : kept[i] = all[i + e]
      /\ c \notin DropOldest => \A i \in 1 .. Len(all) - e : kept[i] = all[i]
  BY <1>1, KeptIs
<1> HIDE DEF kept, e
<1>7. ASSUME NEW i \in 1 .. Len(kept) PROVE Belongs(c, kept[i])
  <2>1. i \in 1 .. Len(all) /\ i + e \in 1 .. Len(all) /\ i \in 1 .. Len(all) - e
    BY <1>1, <1>4, <1>6
  <2>2. kept[i] = all[i + e] \/ kept[i] = all[i]
    BY <1>6, <2>1
  <2>3. QED
    BY <1>1, <2>1, <2>2
<1>8. Len(kept) >= Len(o.queue[c]) /\ Len(kept) \in Nat
  BY <1>1, <1>2, <1>4, <1>5, <1>6
<1>9. QED
  BY <1>1, <1>3, <1>4, <1>6, <1>7, <1>8

LEMMA PushOk ==
  ASSUME NEW o, OutInv(o), NEW c \in Classes, NEW frames, Pushable(c, frames)
  PROVE  OutInv(PushAll(o, c, frames))
<1> DEFINE q == After(o, c, frames)
           x == Lost(o, c, frames)
           h == NoteHighWater(o.high, c, Len(q))
           t == AppendTail(o.tail, c, Len(q) - Len(o.queue[c]))
           p1 == [o EXCEPT !.queue[c] = q]
           p2 == [p1 EXCEPT !.high = h]
           p3 == [p2 EXCEPT !.tail = t]
           p == PushAll(o, c, frames)
<1>0. o \in OutType
  BY DEF OutInv
<1>1. /\ q \in Seq(Frames) /\ Len(q) \in Nat /\ Len(q) <= Capacity[c] /\ x \in Nat
      /\ c \notin DropOldest => Len(q) >= Len(o.queue[c])
      /\ \A i \in 1 .. Len(q) : Belongs(c, q[i])
      /\ Len(o.queue[c]) \in Nat
  BY AfterIs, AllIs
<1>2. h \in [Numbered -> Nat]
  BY <1>0, <1>1 DEF NoteHighWater, OutType
<1>3. t \in [Tails -> 0 .. TailDepth]
  <2>1. TailDepth \in Nat /\ o.tail \in [Tails -> 0 .. TailDepth]
    BY <1>0, RecordAssumption DEF OutType
  <2>2. c \in Tails => Len(q) - Len(o.queue[c]) >= 0
    BY <1>1, ClassNames
  <2>3. ASSUME NEW k \in Tails, k = c
        PROVE  Least(TailDepth, o.tail[k] + (Len(q) - Len(o.queue[c]))) \in 0 .. TailDepth
    BY <1>1, <2>1, <2>2, <2>3 DEF Least
  <2>4. QED
    BY <2>1, <2>3 DEF AppendTail, Tails
<1>4. DEFINE d == BumpCounter(o.dropped, c, x)
<1>5. d \in [Numbered -> 0 .. DropModulus - 1]
  BY <1>0, <1>1, BumpType DEF OutType
<1>6. PushAll(o, c, frames) =
        NoteClassDrop([o EXCEPT !.queue[c] = q, !.high = NoteHighWater(@, c, Len(q)),
                                !.tail = AppendTail(@, c, Len(q) - Len(o.queue[c]))], c, x)
  BY DEF PushAll, After, Lost
<1> HIDE DEF q, x
<1>7. [o EXCEPT !.queue[c] = q, !.high = NoteHighWater(@, c, Len(q)),
                !.tail = AppendTail(@, c, Len(q) - Len(o.queue[c]))] = p3
  BY <1>0 DEF OutType
<1> HIDE DEF h, t, d
<1>8. p3 \in OutType /\ p3.dropped = o.dropped
  BY <1>0, <1>1, <1>2, <1>3 DEF OutType
<1> HIDE DEF p3
<1>9. p = IF x = 0 THEN p3 ELSE [p3 EXCEPT !.dropped = d, !.pendingDrop = c]
  BY <1>6, <1>7, <1>8 DEF NoteClassDrop, d
<1>10. p \in OutType
  BY <1>5, <1>8, <1>9 DEF OutType
<1>11. p.queue = [o.queue EXCEPT ![c] = q] /\ p.high = h
  BY <1>0, PushFields DEF h, q
<1> HIDE DEF p
<1>12. o.queue \in [Classes -> Seq(Frames)] /\ o.high \in [Numbered -> Nat]
  BY <1>0 DEF OutType
<1>13. \A k \in Classes : Len(p.queue[k]) <= Capacity[k]
  BY <1>1, <1>11, <1>12 DEF OutInv
<1>14. ASSUME NEW k \in Numbered
       PROVE  Len(p.queue[k]) <= p.high[k] /\ p.high[k] <= Capacity[k]
  <2>1. /\ Len(o.queue[k]) <= o.high[k] /\ o.high[k] <= Capacity[k] /\ o.high[k] \in Nat
        /\ Capacity[k] \in Nat /\ k \in Classes
    BY <1>12, CapacityNat, ClassNames DEF OutInv
  <2>2. p.high[k] = IF k = c /\ o.high[k] < Len(q) THEN Len(q) ELSE o.high[k]
    BY <1>11 DEF h, NoteHighWater
  <2>3. p.queue[k] = IF k = c THEN q ELSE o.queue[k]
    BY <1>11, <1>12, <2>1
  <2>4. QED
    BY <1>1, <2>1, <2>2, <2>3
<1>15. ASSUME NEW k \in Classes, NEW i \in 1 .. Len(p.queue[k])
       PROVE  Belongs(k, p.queue[k][i])
  <2>1. p.queue[k] = IF k = c THEN q ELSE o.queue[k]
    BY <1>11, <1>12
  <2>2. QED
    BY <1>1, <2>1 DEF OutInv
<1>16. QED
  BY <1>10, <1>13, <1>14, <1>15 DEF OutInv, p

----------------------------------------------------------------------------
\* Numbers, queues and drop counters.

\* Remainders of drop counters wrap where sequence numbers wrap.
LEMMA DropsWrap ==
  ASSUME NEW x \in Nat, NEW y \in Nat
  PROVE  (x + (y % DropModulus)) % SeqModulus = (x + y) % SeqModulus
<1>1. SeqModulus \in Nat \ {0} /\ DropModulus \in Nat \ {0} /\ DropModulus % SeqModulus = 0
  BY CounterAssumption
<1> DEFINE k == DropModulus \div SeqModulus
           r == y % DropModulus
           t == y \div DropModulus
<1>2. k \in Nat /\ DropModulus = SeqModulus * k
  BY <1>1, DivMod
<1>3. r \in 0 .. DropModulus - 1 /\ t \in Nat /\ y = DropModulus * t + r
  BY <1>1, DivMod
<1> HIDE DEF k, r, t
<1>4. k * t \in Int /\ (SeqModulus * k) * t = SeqModulus * (k * t)
  BY <1>1, <1>2, <1>3
<1> DEFINE j == k * t
           u == x + r
           v == x + y
<1>5. v = u + SeqModulus * j /\ u \in Nat /\ v \in Nat /\ j \in Int
  BY <1>1, <1>2, <1>3, <1>4
<1> HIDE DEF j, u, v
<1>6. v % SeqModulus = u % SeqModulus
  BY <1>1, <1>5, ModShift, Zenon
<1>7. QED
  BY <1>6 DEF u, v, r

\* The numbers of class k: given out, sent, queued and dropped.
Balanced(o, sent, k) ==
    o.seq[k] = (sent[k] + Len(o.queue[k]) + o.dropped[k]) % SeqModulus

Total(o, k, w) == w + Len(o.queue[k]) + o.dropped[k]

\* What a push does to the queue and the drop counter of a class.
LEMMA PushBalance ==
  ASSUME NEW o, OutInv(o), NEW c \in Classes, NEW frames, Pushable(c, frames),
         NEW k \in Numbered, NEW w \in Nat, NEW n, n = IF k = c THEN Len(frames) ELSE 0
  PROVE  Total(PushAll(o, c, frames), k, w) % SeqModulus = (Total(o, k, w) + n) % SeqModulus
<1> DEFINE p == PushAll(o, c, frames)
           q == After(o, c, frames)
           x == Lost(o, c, frames)
<1>0. o \in OutType /\ k \in Classes /\ SeqModulus \in Nat \ {0}
  BY ClassNames, CounterAssumption DEF OutInv
<1>1. /\ p.queue = [o.queue EXCEPT ![c] = q]
      /\ p.dropped = IF x = 0 THEN o.dropped ELSE BumpCounter(o.dropped, c, x)
  BY <1>0, PushFields
<1>2. /\ Len(q) \in Nat /\ x \in Nat /\ Len(q) + x = Len(o.queue[c]) + Len(frames)
      /\ Len(o.queue[c]) \in Nat /\ Len(frames) \in Nat
  BY AfterIs, AllIs
<1>3. o.dropped[k] \in Nat /\ o.queue \in [Classes -> Seq(Frames)]
  BY <1>0, CounterAssumption DEF OutType
<1> HIDE DEF p, q, x
<1>4. CASE k # c
  <2>1. p.queue[k] = o.queue[k] /\ p.dropped[k] = o.dropped[k]
    BY <1>0, <1>1, <1>3, <1>4 DEF BumpCounter
  <2>2. Len(o.queue[k]) \in Nat
    BY <1>0, <1>3, LenProperties
  <2>3. w + Len(o.queue[k]) + o.dropped[k] + 0 = w + Len(o.queue[k]) + o.dropped[k]
    BY <1>3, <2>2
  <2>4. QED
    BY <1>4, <2>1, <2>3 DEF p, Total
<1>5. CASE k = c /\ x = 0
  <2>1. p.queue[k] = q /\ p.dropped[k] = o.dropped[k]
    BY <1>0, <1>1, <1>3, <1>5
  <2>2. Len(q) = Len(o.queue[k]) + Len(frames) /\ Len(o.queue[k]) \in Nat
    <3>1. o.queue[k] = o.queue[c]
      BY <1>5
    <3>2. QED
      BY <1>2, <1>5, <3>1
  <2>2a. w + Len(q) + o.dropped[k] = w + Len(o.queue[k]) + o.dropped[k] + Len(frames)
    BY <1>2, <1>3, <2>2, SMTT(20)
  <2>3. QED
    BY <1>5, <2>1, <2>2a DEF p, Total
<1>6. CASE k = c /\ x # 0
  <2>1. p.queue[k] = q /\ p.dropped[k] = (o.dropped[k] + x) % DropModulus
    BY <1>0, <1>1, <1>3, <1>6 DEF BumpCounter
  <2>2. ((w + Len(q)) + ((o.dropped[k] + x) % DropModulus)) % SeqModulus
           = ((w + Len(q)) + (o.dropped[k] + x)) % SeqModulus
    <3>1. w + Len(q) \in Nat /\ o.dropped[k] + x \in Nat
      BY <1>2, <1>3
    <3>2. QED
      BY <3>1, DropsWrap
  <2>3. (w + Len(q)) + (o.dropped[k] + x) = w + Len(o.queue[k]) + o.dropped[k] + Len(frames)
    <3>1. o.queue[k] = o.queue[c]
      BY <1>6
    <3>2. Len(q) + x = Len(o.queue[k]) + Len(frames) /\ Len(o.queue[k]) \in Nat
      BY <1>2, <3>1
    <3> DEFINE a == Len(q)
               b == Len(o.queue[k])
               d == o.dropped[k]
               l == Len(frames)
    <3>3. a + x = b + l /\ a \in Nat /\ b \in Nat /\ d \in Nat /\ l \in Nat /\ x \in Nat
      BY <1>2, <1>3, <3>2
    <3> HIDE DEF a, b, d, l
    <3>4. (w + a) + (d + x) = w + b + d + l
      BY <3>3
    <3>5. QED
      BY <3>4 DEF a, b, d, l
  <2>4. QED
    BY <1>6, <2>1, <2>2, <2>3 DEF p, Total
<1>7. QED
  BY <1>4, <1>5, <1>6 DEF Total

\* The classes whose records have a number each.
Numbering == Numbered \ {"Traces"}

----------------------------------------------------------------------------
\* Records.

LEMMA NextNumber ==
  ASSUME NEW n \in Nat
  PROVE  (n + 1) % SeqModulus \in 0 .. SeqModulus - 1
<1>1. SeqModulus \in Nat \ {0} /\ n + 1 \in Nat
  BY CounterAssumption
<1>2. QED
  BY <1>1, DivMod

LEMMA WholeIs ==
  ASSUME NEW kind \in {"Event", "Log", "Telemetry", "Ack", "Query"}, NEW of \in Nat
  PROVE  /\ Whole(kind, of) \in Frames
         /\ Whole(kind, of).kind = kind /\ Whole(kind, of).index = 0
<1>1. Bytes[kind] \in 1 .. PerClassCap
  BY RecordAssumption
<1>2. QED
  BY <1>1 DEF Whole, Frame, Frames

LEMMA OnePushable ==
  ASSUME NEW c, NEW f \in Frames, Belongs(c, f)
  PROVE  Pushable(c, <<f>>) /\ Len(<<f>>) = 1 /\ <<f>>[1] = f
<1>1. <<f>> \in Seq(Frames) /\ Len(<<f>>) = 1 /\ <<f>>[1] = f
  OBVIOUS
<1>2. QED
  BY <1>1 DEF Pushable

\* A step of the Producer that makes records only: the numbers stay in
\* balance, and texts and their state are left alone.
Recorded(o, p) ==
    /\ OutInv(p)
    /\ p.queue["Traces"] = o.queue["Traces"] /\ p.queue["Control"] = o.queue["Control"]
    /\ p.seq["Traces"] = o.seq["Traces"] /\ p.version = o.version
    /\ p.pending = o.pending /\ p.flag = o.flag
    /\ \A k \in Numbering : \A sent \in [Numbered -> Nat] :
          Balanced(o, sent, k) => Balanced(p, sent, k)

LEMMA RecordedTwice ==
  ASSUME NEW o, NEW p, NEW q, Recorded(o, p), Recorded(p, q)
  PROVE  Recorded(o, q)
BY DEF Recorded

LEMMA EmitOk ==
  ASSUME NEW o, OutInv(o), NEW c \in Numbering, NEW kind \in {"Event", "Log", "Telemetry"}
  PROVE  Recorded(o, Emit(o, c, kind))
<1>0. c \in Numbered /\ c \in Classes /\ o \in OutType /\ c # "Traces" /\ c # "Control"
  BY ClassNames DEF OutInv, Numbering, Numbered
<1>1. CASE ~ Interest(c)
  BY <1>1 DEF Emit, Recorded
<1>2. CASE Interest(c)
  <2> DEFINE s == [o.seq EXCEPT ![c] = (@ + 1) % SeqModulus]
             o1 == [o EXCEPT !.seq[c] = (@ + 1) % SeqModulus]
             fs == <<Whole(kind, o.seq[c])>>
             p == PushAll(o1, c, fs)
  <2>0. o.seq[c] \in Nat /\ o.seq \in [Numbered -> 0 .. SeqModulus - 1]
    BY <1>0, CounterAssumption DEF OutType
  <2>1. s \in [Numbered -> 0 .. SeqModulus - 1]
    BY <1>0, <2>0, NextNumber
  <2>2. o1 = [o EXCEPT !.seq = s]
    BY <1>0 DEF OutType
  <2>2a. s[c] = (o.seq[c] + 1) % SeqModulus /\ \A k \in Numbered : k # c => s[k] = o.seq[k]
    BY <1>0, <2>0
  <2> HIDE DEF s
  <2>3. /\ o1 \in OutType /\ o1.queue = o.queue /\ o1.high = o.high /\ o1.seq = s
        /\ o1.version = o.version /\ o1.pending = o.pending /\ o1.flag = o.flag
        /\ o1.dropped = o.dropped
    BY <1>0, <2>1, <2>2 DEF OutType
  <2> HIDE DEF o1
  <2>4. OutInv(o1)
    BY <2>3 DEF OutInv
  <2>5. Pushable(c, fs) /\ Len(fs) = 1
    <3>1. Whole(kind, o.seq[c]) \in Frames /\ Belongs(c, Whole(kind, o.seq[c]))
      BY <1>0, <2>0, WholeIs DEF Belongs, TextKinds
    <3>2. QED
      BY <3>1, OnePushable
  <2>6. Emit(o, c, kind) = p
    BY <1>2 DEF Emit, o1
  <2> HIDE DEF fs
  <2>7. OutInv(p)
    BY <1>0, <2>4, <2>5, PushOk
  <2>8. /\ p.queue = [o.queue EXCEPT ![c] = After(o1, c, fs)] /\ p.seq = s
        /\ p.version = o.version /\ p.pending = o.pending /\ p.flag = o.flag
    BY <1>0, <2>3, PushFields
  <2>9. o.queue \in [Classes -> Seq(Frames)]
    BY <1>0 DEF OutType
  <2>10. /\ p.queue["Traces"] = o.queue["Traces"] /\ p.queue["Control"] = o.queue["Control"]
         /\ p.seq["Traces"] = o.seq["Traces"]
    BY <1>0, <2>2a, <2>8, <2>9, ClassNames DEF Numbered
  <2>11. ASSUME NEW k \in Numbering, NEW sent \in [Numbered -> Nat], Balanced(o, sent, k)
         PROVE  Balanced(p, sent, k)
    <3> DEFINE w == sent[k]
               n == IF k = c THEN Len(fs) ELSE 0
    <3>1. w \in Nat /\ k \in Numbered /\ k \in Classes
      BY ClassNames DEF Numbering
    <3> HIDE DEF w
    <3>2. Total(p, k, w) % SeqModulus = (Total(o1, k, w) + n) % SeqModulus
      <4>1. /\ OutInv(o1) /\ c \in Classes /\ Pushable(c, fs) /\ k \in Numbered /\ w \in Nat
            /\ n = IF k = c THEN Len(fs) ELSE 0
        BY <1>0, <2>4, <2>5, <3>1
      <4> HIDE DEF n, p
      <4>2. Total(PushAll(o1, c, fs), k, w) % SeqModulus = (Total(o1, k, w) + n) % SeqModulus
        BY <4>1, PushBalance
      <4>3. QED
        BY <4>2 DEF p
    <3> DEFINE u == w + Len(o.queue[k]) + o.dropped[k]
    <3>3. u \in Nat /\ n \in {0, 1} /\ (n = 1 <=> k = c) /\ SeqModulus \in Nat \ {0}
      <4>1. Len(o.queue[k]) \in Nat /\ o.dropped[k] \in Nat
        BY <1>0, <2>9, <3>1, LenProperties, CounterAssumption DEF OutType
      <4>2. QED
        BY <2>5, <3>1, <4>1, CounterAssumption, SMTT(20)
    <3>4. o.seq[k] = u % SeqModulus /\ w = sent[k]
      BY <2>11 DEF Balanced, w
    <3>5. (w + Len(p.queue[k]) + p.dropped[k]) % SeqModulus = (u + n) % SeqModulus
      BY <2>3, <3>2 DEF Total
    <3> HIDE DEF u, n
    <3>6. CASE k = c
      <4>1. p.seq[k] = ((u % SeqModulus) + 1) % SeqModulus
        BY <2>2a, <2>8, <3>4, <3>6
      <4>2. ((u % SeqModulus) + 1) % SeqModulus = (u + 1) % SeqModulus
        BY <3>3, ModPlus
      <4>3. QED
        BY <3>3, <3>4, <3>5, <3>6, <4>1, <4>2 DEF Balanced
    <3>7. CASE k # c
      <4>1. p.seq[k] = u % SeqModulus /\ u + n = u
        BY <2>2a, <2>8, <3>1, <3>3, <3>4, <3>7
      <4>2. QED
        BY <3>4, <3>5, <4>1 DEF Balanced
    <3>8. QED
      BY <3>6, <3>7
  <2> HIDE DEF p
  <2>12. QED
    BY <2>6, <2>7, <2>8, <2>10, <2>11 DEF Recorded
<1>3. QED
  BY <1>1, <1>2

LEMMA FlushOk ==
  ASSUME NEW o, OutInv(o)
  PROVE  Recorded(o, FlushPendingDrop(o))
<1> DEFINE o1 == [o EXCEPT !.pendingDrop = "None"]
<1>1. o \in OutType
  BY DEF OutInv
<1>2. /\ o1 \in OutType /\ o1.queue = o.queue /\ o1.high = o.high /\ o1.seq = o.seq
      /\ o1.version = o.version /\ o1.pending = o.pending /\ o1.flag = o.flag
      /\ o1.dropped = o.dropped
  BY <1>1 DEF OutType
<1>3. FlushPendingDrop(o) = o \/ FlushPendingDrop(o) = Emit(o1, "Events", "Event")
  BY DEF FlushPendingDrop, EmitEvent
<1> HIDE DEF o1
<1>4. OutInv(o1)
  BY <1>2 DEF OutInv
<1>5. Recorded(o, o) /\ Recorded(o, o1)
  BY <1>2, <1>4 DEF Recorded, Balanced
<1>6. Recorded(o1, Emit(o1, "Events", "Event"))
  BY <1>4, EmitOk DEF Numbering, Numbered
<1>7. QED
  BY <1>3, <1>5, <1>6, RecordedTwice

LEMMA EventOk ==
  ASSUME NEW o, OutInv(o)
  PROVE  Recorded(o, EmitEvent(o))
BY EmitOk DEF EmitEvent, Numbering, Numbered

----------------------------------------------------------------------------
\* Documents and answers, on the Control queue.

\* Fragment g of a document comes right after frame f.
Follows(g, f) == f.kind = "Document" /\ g.of = f.of /\ g.index = f.index + 1

\* Of the frames queued and the last fragment that went out, every fragment
\* but the first of its document comes right after its predecessor.
Chained(q, last) ==
    \A i \in 1 .. Len(q) : q[i].index > 0 =>
        IF i = 1 THEN q[1].of = last.of /\ q[1].index = last.index + 1
        ELSE Follows(q[i], q[i - 1])

Headed(frames) ==
    \A i \in 1 .. Len(frames) : frames[i].index > 0 => i > 1 /\ Follows(frames[i], frames[i - 1])

\* A step of the Producer that pushes whole texts on the Control queue.
Answered(o, p) ==
    /\ OutInv(p)
    /\ p.queue["Traces"] = o.queue["Traces"] /\ p.seq["Traces"] = o.seq["Traces"]
    /\ p.pending = o.pending /\ p.flag = o.flag
    /\ \A k \in Numbering : \A sent \in [Numbered -> Nat] :
          Balanced(o, sent, k) => Balanced(p, sent, k)
    /\ \A last : Chained(o.queue["Control"], last) => Chained(p.queue["Control"], last)

LEMMA ControlPush ==
  ASSUME NEW o, OutInv(o), NEW frames, Pushable("Control", frames), Headed(frames)
  PROVE  Answered(o, PushAll(o, "Control", frames))
<1> DEFINE p == PushAll(o, "Control", frames)
           q == o.queue["Control"]
           all == q \o frames
           kept == After(o, "Control", frames)
<1>1. /\ "Control" \in Classes /\ "Traces" \in Classes /\ "Control" \notin Numbered
      /\ "Traces" \in Numbered /\ o \in OutType /\ "Control" \notin DropOldest
  BY ClassNames DEF OutInv, Numbered, DropOldest
<1>2. OutInv(p)
  BY <1>1, PushOk
<1>3. /\ p.queue = [o.queue EXCEPT !["Control"] = kept] /\ p.seq = o.seq
      /\ p.pending = o.pending /\ p.flag = o.flag
      /\ p.dropped = IF Lost(o, "Control", frames) = 0 THEN o.dropped
                     ELSE BumpCounter(o.dropped, "Control", Lost(o, "Control", frames))
  BY <1>1, PushFields
<1>4. o.queue \in [Classes -> Seq(Frames)] /\ o.dropped \in [Numbered -> 0 .. DropModulus - 1]
  BY <1>1 DEF OutType
<1> HIDE DEF p, kept
<1>5. p.dropped = o.dropped
  BY <1>1, <1>3, <1>4 DEF BumpCounter
<1>6. p.queue["Control"] = kept /\ \A k \in Numbered : p.queue[k] = o.queue[k]
  BY <1>1, <1>3, <1>4, ClassNames
<1>7. /\ all \in Seq(Frames) /\ Len(q) \in Nat /\ Len(frames) \in Nat
      /\ Len(all) = Len(q) + Len(frames)
      /\ \A i \in 1 .. Len(q) : all[i] = q[i]
      /\ \A i \in 1 .. Len(frames) : all[i + Len(q)] = frames[i]
  BY <1>1, AllIs
<1> HIDE DEF q, all
<1>8. /\ Len(kept) \in 0 .. Len(all)
      /\ \A i \in 1 .. Len(kept) : kept[i] = all[i]
  <2>1. kept = Kept("Control", all)
    BY DEF kept, all, After, q
  <2>2. Excess("Control", all) \in 0 .. Len(all)
    BY <1>1, <1>7, ExcessIs
  <2>3. /\ Len(Kept("Control", all)) = Len(all) - Excess("Control", all)
        /\ \A i \in 1 .. Len(all) - Excess("Control", all) : Kept("Control", all)[i] = all[i]
    BY <1>1, <1>7, KeptIs
  <2> DEFINE e == Excess("Control", all)
  <2>4. Len(all) \in Nat
    BY <1>7
  <2>5. e \in 0 .. Len(all)
    BY <2>2
  <2>6. Len(kept) = Len(all) - e /\ \A i \in 1 .. Len(all) - e : kept[i] = all[i]
    BY <2>1, <2>3
  <2> HIDE DEF e
  <2>7. Len(kept) \in 0 .. Len(all)
    BY <2>4, <2>5, <2>6
  <2>8. QED
    BY <2>6, <2>7
<1>9. ASSUME NEW last, Chained(q, last)
      PROVE  Chained(kept, last)
  <2> SUFFICES ASSUME NEW i \in 1 .. Len(kept), kept[i].index > 0
               PROVE  IF i = 1 THEN kept[1].of = last.of /\ kept[1].index = last.index + 1
                      ELSE Follows(kept[i], kept[i - 1])
    BY DEF Chained
  <2>1. kept[i] = all[i] /\ (i > 1 => kept[i - 1] = all[i - 1]) /\ i \in 1 .. Len(all)
    <3>1. i > 1 => i - 1 \in 1 .. Len(kept)
      BY <1>7, <1>8
    <3>2. QED
      BY <1>7, <1>8, <3>1
  <2>2. CASE i <= Len(q)
    <3>1. i \in 1 .. Len(q) /\ all[i] = q[i] /\ (i > 1 => all[i - 1] = q[i - 1])
      BY <1>7, <2>2
    <3>2. QED
      BY <1>9, <2>1, <3>1 DEF Chained
  <2>3. CASE i > Len(q)
    <3> DEFINE j == i - Len(q)
    <3>1. j \in 1 .. Len(frames) /\ j + Len(q) = i
      BY <1>7, <2>1, <2>3
    <3> HIDE DEF j
    <3>2. all[i] = frames[j]
      BY <1>7, <3>1
    <3>3. j > 1 /\ Follows(frames[j], frames[j - 1])
      BY <2>1, <3>1, <3>2 DEF Headed
    <3>4. all[i - 1] = frames[j - 1] /\ i # 1
      <4>1. j - 1 \in 1 .. Len(frames) /\ (j - 1) + Len(q) = i - 1 /\ i # 1
        BY <1>7, <3>1, <3>3
      <4>2. QED
        BY <1>7, <4>1
    <3>5. i > 1
      BY <3>4
    <3>6. QED
      BY <2>1, <3>2, <3>3, <3>4, <3>5
  <2>4. QED
    BY <1>7, <2>2, <2>3
<1>10. \A k \in Numbering : \A sent \in [Numbered -> Nat] :
          Balanced(o, sent, k) => Balanced(p, sent, k)
  BY <1>3, <1>5, <1>6 DEF Balanced, Numbering
<1>11. QED
  BY <1>1, <1>2, <1>3, <1>6, <1>9, <1>10 DEF Answered, p, q

LEMMA AnswerOk ==
  ASSUME NEW o, OutInv(o)
  PROVE  Answered(o, Answer(o))
<1>1. Whole("Ack", 0) \in Frames /\ Belongs("Control", Whole("Ack", 0))
  BY WholeIs DEF Belongs, TextKinds
<1>2. Pushable("Control", <<Whole("Ack", 0)>>) /\ Headed(<<Whole("Ack", 0)>>)
  BY <1>1, OnePushable, WholeIs DEF Headed
<1>3. QED
  BY <1>2, ControlPush DEF Answer

LEMMA QueryOk ==
  ASSUME NEW o, OutInv(o), NEW mask \in QueryMasks
  PROVE  Answered(o, PushAll(o, "Control", <<[Whole("Query", 0) EXCEPT !.mask = mask]>>))
<1> DEFINE f == [Whole("Query", 0) EXCEPT !.mask = mask]
<1>1. /\ Whole("Query", 0) \in Frames /\ Whole("Query", 0).kind = "Query"
      /\ Whole("Query", 0).index = 0 /\ mask \in SUBSET Sections
  BY WholeIs, DocumentAssumption
<1>2. f \in Frames /\ f.kind = "Query" /\ f.index = 0 /\ f.mask = mask
  BY <1>1 DEF Frames
<1> HIDE DEF f
<1>3. Belongs("Control", f)
  BY <1>2 DEF Belongs, TextKinds
<1>4. Pushable("Control", <<f>>) /\ Headed(<<f>>)
  BY <1>2, <1>3, OnePushable DEF Headed
<1>5. QED
  BY <1>4, ControlPush DEF f

\* The fragments of a whole document may be pushed.
LEMMA DocumentFrames ==
  ASSUME NEW of \in Nat, NEW n \in Nat \ {0}
  PROVE  /\ Pushable("Control", Fragments("Document", of, n))
         /\ Headed(Fragments("Document", of, n))
<1> DEFINE fs == Fragments("Document", of, n)
<1>1. /\ fs \in Seq(Frames) /\ Len(fs) = Count(n)
      /\ \A i \in 1 .. Count(n) : /\ fs[i].kind = "Document" /\ fs[i].of = of
                                  /\ fs[i].index = i - 1 /\ fs[i].count = Count(n)
  BY FragmentsAre DEF TextKinds
<1>2. Count(n) \in Nat
  BY CountIs
<1> HIDE DEF fs
<1>3. Pushable("Control", fs)
  BY <1>1 DEF Pushable, Belongs, TextKinds
<1>4. ASSUME NEW i \in 1 .. Len(fs), fs[i].index > 0
      PROVE  i > 1 /\ Follows(fs[i], fs[i - 1])
  <2>1. i > 1 /\ i - 1 \in 1 .. Count(n) /\ fs[i].index = i - 1
    BY <1>1, <1>2, <1>4
  <2>2. fs[i - 1].kind = "Document" /\ fs[i - 1].of = of /\ fs[i - 1].index = (i - 1) - 1
    BY <1>1, <2>1
  <2>3. QED
    BY <1>1, <2>1, <2>2 DEF Follows
<1>5. QED
  BY <1>3, <1>4 DEF Headed, fs

LEMMA DocumentOk ==
  ASSUME NEW o, OutInv(o), NEW mask \in QueryMasks \cup {Sections}
  PROVE  Answered(o, SendDocument(o, mask))
<1> DEFINE v == (o.version + 1) % SeqModulus
           o1 == [o EXCEPT !.version = v]
           fs == Fragments("Document", v, DocumentBytes(mask))
<1>1. o \in OutType /\ o.version \in Nat
  BY CounterAssumption DEF OutInv, OutType
<1>2. v \in 0 .. SeqModulus - 1 /\ v \in Nat
  BY <1>1, NextNumber, CounterAssumption
<1>3. DocumentBytes(mask) \in Nat \ {0}
  BY DocumentAssumption
<1> HIDE DEF v
<1>4. /\ o1 \in OutType /\ o1.queue = o.queue /\ o1.high = o.high /\ o1.seq = o.seq
      /\ o1.pending = o.pending /\ o1.flag = o.flag /\ o1.dropped = o.dropped
  BY <1>1, <1>2 DEF OutType
<1>5. SendDocument(o, mask) = PushAll(o1, "Control", fs)
  BY DEF SendDocument, v
<1> HIDE DEF o1
<1>6. OutInv(o1)
  BY <1>4 DEF OutInv
<1>7. Pushable("Control", fs) /\ Headed(fs)
  BY <1>2, <1>3, DocumentFrames
<1> HIDE DEF fs
<1>8. Answered(o1, PushAll(o1, "Control", fs))
  BY <1>6, <1>7, ControlPush
<1>9. QED
  BY <1>4, <1>5, <1>8 DEF Answered, Balanced

----------------------------------------------------------------------------
\* Fault captures.

\* What is queued is the rest of text number n, behind the fragment last that
\* went out.
RestOf(rest, n, last) ==
    /\ rest # <<>> => rest[Len(rest)].index + 1 = rest[Len(rest)].count
    /\ rest = <<>> => last.index + 1 = last.count
    /\ \A i \in 1 .. Len(rest) :
          rest[i].of = n /\ (i > 1 => rest[i].index = rest[i - 1].index + 1)
    /\ rest # <<>> /\ Head(rest).index > 0 =>
          last.of = Head(rest).of /\ last.index + 1 = Head(rest).index

\* CaptureWhole, of Producer and queues o and the last fragment that went out.
Captured(o, last) ==
    /\ o.pending = o.flag
    /\ o.queue["Traces"] # <<>> => o.pending
    /\ RestOf(o.queue["Traces"], (o.seq["Traces"] + SeqModulus - 1) % SeqModulus, last)

\* The size of a capture is bounded by that of one with full tails.
LEMMA CaptureSize ==
  ASSUME NEW e \in 0 .. TailDepth, NEW l \in 0 .. TailDepth
  PROVE  LET n == CaptureFixed + EventRecord * e + LogRecord * l
         IN  n \in Nat \ {0} /\ n <= Chunk * Capacity["Traces"]
<1>1. /\ CaptureFixed \in Nat \ {0} /\ EventRecord \in Nat /\ LogRecord \in Nat
      /\ TailDepth \in Nat /\ Chunk \in Nat /\ Capacity["Traces"] \in Nat
  BY RecordAssumption, CapacityNat, ClassNames DEF Numbered
<1>2. EventRecord * e \in Nat /\ EventRecord * e <= EventRecord * TailDepth
  <2>1. EventRecord * (TailDepth - e) >= 0 /\ EventRecord * e >= 0
    BY <1>1
  <2>2. EventRecord * (TailDepth - e) = EventRecord * TailDepth - EventRecord * e
    BY <1>1
  <2>3. QED
    BY <1>1, <2>1, <2>2
<1>3. LogRecord * l \in Nat /\ LogRecord * l <= LogRecord * TailDepth
  <2>1. LogRecord * (TailDepth - l) >= 0 /\ LogRecord * l >= 0
    BY <1>1
  <2>2. LogRecord * (TailDepth - l) = LogRecord * TailDepth - LogRecord * l
    BY <1>1
  <2>3. QED
    BY <1>1, <2>1, <2>2
<1>4. TailDepth * (EventRecord + LogRecord) = EventRecord * TailDepth + LogRecord * TailDepth
  BY <1>1
<1>5. CaptureFixed + TailDepth * (EventRecord + LogRecord) <= Chunk * Capacity["Traces"]
  BY CaptureAssumption
<1> DEFINE x == EventRecord * e
           y == LogRecord * l
           xm == EventRecord * TailDepth
           ym == LogRecord * TailDepth
           m == Chunk * Capacity["Traces"]
<1>6. /\ x \in Nat /\ y \in Nat /\ x <= xm /\ y <= ym /\ xm \in Nat /\ ym \in Nat /\ m \in Nat
      /\ CaptureFixed + (xm + ym) <= m
  BY <1>1, <1>2, <1>3, <1>4, <1>5
<1> HIDE DEF x, y, xm, ym, m
<1>7. CaptureFixed + x + y \in Nat \ {0} /\ CaptureFixed + x + y <= m
  BY <1>1, <1>6
<1>8. QED
  BY <1>7 DEF x, y, m

\* The number before the next one.
LEMMA NumberBefore ==
  ASSUME NEW s \in 0 .. SeqModulus - 1
  PROVE  (((s + 1) % SeqModulus) + SeqModulus - 1) % SeqModulus = s
<1>1. SeqModulus \in Nat \ {0} /\ s \in Nat /\ s < SeqModulus /\ s + 1 \in Nat
  BY CounterAssumption
<1> DEFINE r == (s + 1) % SeqModulus
           b == SeqModulus - 1
<1>2. b \in Nat /\ r \in Nat
  BY <1>1, DivMod
<1>3. (r + b) % SeqModulus = ((s + 1) + b) % SeqModulus
  BY <1>1, <1>2, ModPlus
<1>4. r + SeqModulus - 1 = r + b
  BY <1>1, <1>2
<1> DEFINE v == (s + 1) + b
<1>5. v = s + SeqModulus * 1 /\ v \in Nat
  BY <1>1
<1> HIDE DEF r, v
<1>6. v % SeqModulus = s % SeqModulus
  BY <1>1, <1>5, ModShift
<1>7. s % SeqModulus = s
  BY <1>1
<1>8. QED
  BY <1>3, <1>4, <1>6, <1>7 DEF r, v

LEMMA SendCaptureOk ==
  ASSUME NEW o, OutInv(o), o.queue["Traces"] = <<>>, o.pending, o.flag,
         NEW last
  PROVE  /\ OutInv(SendTraceCapture(o)) /\ Captured(SendTraceCapture(o), last)
         /\ SendTraceCapture(o).queue["Control"] = o.queue["Control"]
         /\ \A k \in Numbering : \A sent \in [Numbered -> Nat] :
               Balanced(o, sent, k) => Balanced(SendTraceCapture(o), sent, k)
<1> DEFINE s == [o.seq EXCEPT !["Traces"] = (@ + 1) % SeqModulus]
           o1 == [o EXCEPT !.seq["Traces"] = (@ + 1) % SeqModulus]
           n == CaptureFixed + EventRecord * o.tail["Events"] + LogRecord * o.tail["Logs"]
           fs == Fragments("Trace", o.seq["Traces"], n)
           p == PushAll(o1, "Traces", fs)
           x == Lost(o1, "Traces", fs)
<1>1. /\ o \in OutType /\ "Traces" \in Numbered /\ "Traces" \in Classes
      /\ "Control" \in Classes /\ o.queue \in [Classes -> Seq(Frames)]
      /\ o.tail["Events"] \in 0 .. TailDepth /\ o.tail["Logs"] \in 0 .. TailDepth
      /\ o.seq["Traces"] \in 0 .. SeqModulus - 1 /\ SeqModulus \in Nat \ {0}
      /\ o.seq \in [Numbered -> 0 .. SeqModulus - 1]
  BY ClassNames, CounterAssumption DEF OutInv, OutType, Numbered, Tails
<1>2. s \in [Numbered -> 0 .. SeqModulus - 1]
  BY <1>1, NextNumber
<1>3. s["Traces"] = (o.seq["Traces"] + 1) % SeqModulus /\ \A k \in Numbering : s[k] = o.seq[k]
  BY <1>1 DEF Numbering
<1>4. o1 = [o EXCEPT !.seq = s]
  BY <1>1 DEF OutType
<1>5. SendTraceCapture(o) = p
  BY DEF SendTraceCapture
<1> HIDE DEF s, o1
<1>6. /\ o1 \in OutType /\ o1.queue = o.queue /\ o1.high = o.high /\ o1.seq = s
      /\ o1.pending = o.pending /\ o1.flag = o.flag /\ o1.dropped = o.dropped
  BY <1>1, <1>2, <1>4 DEF OutType
<1>7. OutInv(o1)
  BY <1>6 DEF OutInv
<1>8. n \in Nat \ {0} /\ n <= Chunk * Capacity["Traces"]
  BY <1>1, CaptureSize
<1> HIDE DEF n
<1> DEFINE nr == o.seq["Traces"]
<1>8a. nr \in Nat /\ "Trace" \in TextKinds /\ fs = Fragments("Trace", nr, n)
  BY <1>1 DEF TextKinds
<1> HIDE DEF nr, fs
<1>9. /\ fs \in Seq(Frames) /\ Len(fs) = Count(n)
      /\ \A i \in 1 .. Count(n) : /\ fs[i].kind = "Trace" /\ fs[i].of = nr
                                  /\ fs[i].index = i - 1 /\ fs[i].count = Count(n)
  BY <1>8, <1>8a, FragmentsAre
<1>10. Count(n) \in Nat \ {0} /\ Count(n) <= Capacity["Traces"]
  BY <1>1, <1>8, CountIs, CapacityNat
<1>11. Pushable("Traces", fs)
  BY <1>9 DEF Pushable, Belongs, TextKinds
<1>12. OutInv(p)
  BY <1>1, <1>7, <1>11, PushOk
<1>13. After(o1, "Traces", fs) = fs /\ x = 0
  <2>1. o1.queue["Traces"] \o fs = fs
    <3>1. o1.queue["Traces"] = <<>>
      BY <1>6
    <3>2. <<>> \o fs = fs
      BY <1>9, ConcatEmptySeq
    <3>3. QED
      BY <3>1, <3>2
  <2>2. Excess("Traces", fs) = 0
    BY <1>1, <1>9, <1>10, ExcessIs
  <2>3. Kept("Traces", fs) = fs
    BY <1>1, <1>9, <2>2, KeptIs
  <2>4. QED
    BY <2>1, <2>2, <2>3 DEF After, Lost
<1>14. /\ p.queue = [o.queue EXCEPT !["Traces"] = fs] /\ p.seq = s
       /\ p.pending = o.pending /\ p.flag = o.flag /\ p.dropped = o.dropped
  <2>1. /\ p.queue = [o1.queue EXCEPT !["Traces"] = After(o1, "Traces", fs)]
        /\ p.seq = o1.seq /\ p.pending = o1.pending /\ p.flag = o1.flag
        /\ p.dropped = IF x = 0 THEN o1.dropped ELSE BumpCounter(o1.dropped, "Traces", x)
    <3>1. o1 \in OutType /\ "Traces" \in Classes
      BY <1>1, <1>6
    <3>2. QED
      BY <3>1, PushFields
  <2>2. QED
    BY <1>6, <1>13, <2>1
<1> HIDE DEF p, x
<1>15. /\ p.queue["Traces"] = fs
       /\ \A k \in Classes : k # "Traces" => p.queue[k] = o.queue[k]
  BY <1>1, <1>14
<1>16. (p.seq["Traces"] + SeqModulus - 1) % SeqModulus = o.seq["Traces"]
  BY <1>1, <1>3, <1>14, NumberBefore
<1>17. Captured(p, last)
  <2> DEFINE c == Count(n)
  <2>1. Len(fs) = c /\ c \in Nat \ {0} /\ fs # <<>>
    BY <1>9, <1>10
  <2>2. fs[c].index + 1 = fs[c].count
    BY <1>9, <1>10
  <2>3. ASSUME NEW i \in 1 .. c, i > 1 PROVE fs[i].index = fs[i - 1].index + 1
    <3>1. i - 1 \in 1 .. c
      BY <2>1, <2>3
    <3>2. fs[i].index = i - 1 /\ fs[i - 1].index = (i - 1) - 1
      BY <1>9, <3>1
    <3>3. QED
      BY <3>2
  <2>4. Head(fs).index = 0
    <3>1. 1 \in 1 .. c /\ Head(fs) = fs[1]
      BY <1>9, <2>1
    <3>2. fs[1].index = 1 - 1
      BY <1>9, <3>1
    <3>3. QED
      BY <3>1, <3>2
  <2>5. \A i \in 1 .. c : fs[i].of = o.seq["Traces"]
    BY <1>9 DEF nr
  <2> HIDE DEF c
  <2>6. p.pending = p.flag /\ p.pending
    BY <1>14
  <2>7. /\ fs # <<>> => fs[Len(fs)].index + 1 = fs[Len(fs)].count
        /\ fs = <<>> => last.index + 1 = last.count
        /\ fs # <<>> /\ Head(fs).index > 0 =>
              last.of = Head(fs).of /\ last.index + 1 = Head(fs).index
    BY <2>1, <2>2, <2>4
  <2>8. \A i \in 1 .. Len(fs) :
           /\ fs[i].of = o.seq["Traces"]
           /\ i > 1 => fs[i].index = fs[i - 1].index + 1
    BY <2>1, <2>3, <2>5
  <2>9. RestOf(fs, o.seq["Traces"], last)
    BY <2>7, <2>8 DEF RestOf
  <2>10. QED
    BY <1>15, <1>16, <2>6, <2>9 DEF Captured
<1>18. \A k \in Numbering : \A sent \in [Numbered -> Nat] :
          Balanced(o, sent, k) => Balanced(p, sent, k)
  <2>1. \A k \in Numbering : k \in Classes /\ k # "Traces"
    BY ClassNames DEF Numbering
  <2>2. QED
    BY <1>3, <1>14, <1>15, <2>1 DEF Balanced
<1>19. QED
  BY <1>1, <1>5, <1>12, <1>15, <1>17, <1>18

----------------------------------------------------------------------------
\* Everything that is said of Producer and queues, given the numbers that went
\* out and the last fragment of each kind.

Good(o, sent, last) ==
    /\ OutInv(o)
    /\ \A k \in Numbering : Balanced(o, sent, k)
    /\ Captured(o, last["Trace"])
    /\ Chained(o.queue["Control"], last["Document"])

WireType == [sent : [Numbered -> 0 .. SeqModulus - 1], last : [TextKinds -> Frames \cup {NoFrame}]]

LEMMA SentNat == \A w \in WireType : w.sent \in [Numbered -> Nat]
BY CounterAssumption DEF WireType

LEMMA RecordedGood ==
  ASSUME NEW o, NEW p, NEW w \in WireType, Good(o, w.sent, w.last), Recorded(o, p)
  PROVE  Good(p, w.sent, w.last)
<1>1. \A k \in Numbering : Balanced(p, w.sent, k)
  BY SentNat DEF Good, Recorded
<1>2. Captured(p, w.last["Trace"])
  BY DEF Good, Recorded, Captured
<1>3. QED
  BY <1>1, <1>2 DEF Good, Recorded

LEMMA AnsweredGood ==
  ASSUME NEW o, NEW p, NEW w \in WireType, Good(o, w.sent, w.last), Answered(o, p)
  PROVE  Good(p, w.sent, w.last)
<1>1. \A k \in Numbering : Balanced(p, w.sent, k)
  BY SentNat DEF Good, Answered
<1>2. Captured(p, w.last["Trace"])
  BY DEF Good, Answered, Captured
<1>3. QED
  BY <1>1, <1>2 DEF Good, Answered

\* The old capture thrown away, the new one announced.
LEMMA ClearOk ==
  ASSUME NEW o, OutInv(o)
  PROVE  LET c == [o EXCEPT !.queue["Traces"] = <<>>]
         IN  /\ OutInv(c) /\ c.queue["Traces"] = <<>>
             /\ c.queue["Control"] = o.queue["Control"]
             /\ \A k \in Numbering : \A sent : Balanced(o, sent, k) => Balanced(c, sent, k)
<1> DEFINE qs == [o.queue EXCEPT !["Traces"] = <<>>]
           c == [o EXCEPT !.queue["Traces"] = <<>>]
<1>1. /\ o \in OutType /\ "Traces" \in Classes /\ "Control" \in Classes
      /\ o.queue \in [Classes -> Seq(Frames)] /\ o.high \in [Numbered -> Nat]
  BY ClassNames DEF OutInv, OutType, Numbered
<1>2. <<>> \in Seq(Frames) /\ Len(<<>>) = 0
  OBVIOUS
<1>3. /\ qs \in [Classes -> Seq(Frames)] /\ qs["Traces"] = <<>>
      /\ \A k \in Classes : k # "Traces" => qs[k] = o.queue[k]
  BY <1>1, <1>2
<1>4. c = [o EXCEPT !.queue = qs]
  BY <1>1 DEF OutType
<1> HIDE DEF qs, c
<1>5. /\ c \in OutType /\ c.queue = qs /\ c.seq = o.seq /\ c.dropped = o.dropped
      /\ c.high = o.high
  BY <1>1, <1>3, <1>4 DEF OutType
<1>6. \A k \in Classes : Len(qs[k]) <= Capacity[k] /\ (k # "Traces" => Len(qs[k]) = Len(o.queue[k]))
  <2>1. \A k \in Classes : Len(o.queue[k]) <= Capacity[k] /\ Capacity[k] \in Nat
    BY CapacityNat DEF OutInv
  <2>2. QED
    BY <1>2, <1>3, <2>1
<1>7. \A k \in Numbered : Len(qs[k]) <= o.high[k] /\ o.high[k] <= Capacity[k]
  <2>1. \A k \in Numbered : /\ Len(o.queue[k]) <= o.high[k] /\ o.high[k] <= Capacity[k]
                            /\ o.high[k] \in Nat /\ k \in Classes
    BY <1>1, ClassNames DEF OutInv
  <2>2. ASSUME NEW k \in Numbered PROVE Len(qs[k]) <= o.high[k]
    <3>1. CASE k = "Traces"
      BY <1>2, <1>3, <2>1, <3>1
    <3>2. CASE k # "Traces"
      BY <1>6, <2>1, <3>2
    <3>3. QED
      BY <3>1, <3>2
  <2>3. QED
    BY <2>1, <2>2
<1>8. ASSUME NEW k \in Classes, NEW i \in 1 .. Len(qs[k]) PROVE Belongs(k, qs[k][i])
  <2>1. CASE k = "Traces"
    BY <1>2, <1>3, <2>1
  <2>2. CASE k # "Traces"
    BY <1>3, <2>2 DEF OutInv
  <2>3. QED
    BY <2>1, <2>2
<1>9. OutInv(c)
  BY <1>5, <1>6, <1>7, <1>8 DEF OutInv
<1>10. \A k \in Numbering : k \in Classes /\ k # "Traces"
  BY ClassNames DEF Numbering
<1>11. \A k \in Numbering : \A sent : Balanced(o, sent, k) => Balanced(c, sent, k)
  BY <1>3, <1>5, <1>10 DEF Balanced
<1>12. QED
  BY <1>1, <1>3, <1>5, <1>9, <1>11 DEF c

LEMMA AnnounceOk ==
  ASSUME NEW o, OutInv(o)
  PROVE  LET a == [o EXCEPT !.pending = TRUE, !.flag = TRUE]
         IN  /\ OutInv(a) /\ a.queue = o.queue /\ a.pending /\ a.flag
             /\ \A k \in Numbering : \A sent : Balanced(o, sent, k) => Balanced(a, sent, k)
<1> DEFINE a == [o EXCEPT !.pending = TRUE, !.flag = TRUE]
<1>1. o \in OutType
  BY DEF OutInv
<1>2. /\ a \in OutType /\ a.queue = o.queue /\ a.high = o.high /\ a.seq = o.seq
      /\ a.dropped = o.dropped /\ a.pending /\ a.flag
  BY <1>1 DEF OutType
<1> HIDE DEF a
<1>3. OutInv(a)
  BY <1>2 DEF OutInv
<1>4. \A k \in Numbering : \A sent : Balanced(o, sent, k) => Balanced(a, sent, k)
  BY <1>2 DEF Balanced
<1>5. QED
  BY <1>2, <1>3, <1>4 DEF a

\* start_fault_capture().
LEMMA CaptureGood ==
  ASSUME NEW o, NEW w \in WireType, Good(o, w.sent, w.last)
  PROVE  Good(StartFaultCapture(o), w.sent, w.last)
<1> DEFINE e == EmitEvent(o)
           c == [e EXCEPT !.queue["Traces"] = <<>>]
           b == IF o.pending THEN c ELSE o
           a == [b EXCEPT !.pending = TRUE, !.flag = TRUE]
           p == SendTraceCapture(a)
<1>1. StartFaultCapture(o) = p
  BY DEF StartFaultCapture
<1>2. Good(e, w.sent, w.last) /\ e.queue["Control"] = o.queue["Control"]
  BY EventOk, RecordedGood DEF Good, Recorded
<1> HIDE DEF e, p
<1>3. /\ OutInv(c) /\ c.queue["Traces"] = <<>> /\ c.queue["Control"] = e.queue["Control"]
      /\ \A k \in Numbering : Balanced(c, w.sent, k)
  BY <1>2, ClearOk DEF Good
<1> HIDE DEF c
<1>4. /\ OutInv(b) /\ b.queue["Traces"] = <<>> /\ b.queue["Control"] = o.queue["Control"]
      /\ \A k \in Numbering : Balanced(b, w.sent, k)
  <2>1. CASE o.pending
    BY <1>2, <1>3, <2>1
  <2>2. CASE ~ o.pending
    BY <2>2 DEF Good, Captured
  <2>3. QED
    BY <2>1, <2>2
<1> HIDE DEF b
<1>5. /\ OutInv(a) /\ a.queue = b.queue /\ a.pending /\ a.flag
      /\ \A k \in Numbering : Balanced(a, w.sent, k)
  BY <1>4, AnnounceOk
<1> HIDE DEF a
<1>6. /\ OutInv(p) /\ Captured(p, w.last["Trace"])
      /\ p.queue["Control"] = a.queue["Control"]
      /\ \A k \in Numbering : Balanced(p, w.sent, k)
  <2>1. a.queue["Traces"] = <<>> /\ w.sent \in [Numbered -> Nat]
    BY <1>4, <1>5, SentNat
  <2>2. QED
    BY <1>5, <2>1, SendCaptureOk DEF p
<1>7. QED
  BY <1>1, <1>4, <1>5, <1>6 DEF Good

\* The Sink past an empty Traces queue.
LEMMA DeliveredGood ==
  ASSUME NEW o, NEW w \in WireType, Good(o, w.sent, w.last)
  PROVE  Good(Delivered(o), w.sent, w.last)
<1> DEFINE d == [o EXCEPT !.flag = FALSE, !.pending = FALSE]
<1>1. o \in OutType
  BY DEF Good, OutInv
<1>2. Delivered(o) = o \/ (Delivered(o) = d /\ o.queue["Traces"] = <<>>)
  BY DEF Delivered
<1>3. /\ d \in OutType /\ d.queue = o.queue /\ d.high = o.high /\ d.seq = o.seq
      /\ d.dropped = o.dropped /\ d.pending = FALSE /\ d.flag = FALSE
  BY <1>1 DEF OutType
<1> HIDE DEF d
<1>4. OutInv(d)
  BY <1>3 DEF Good, OutInv
<1>5. \A k \in Numbering : Balanced(d, w.sent, k)
  BY <1>3 DEF Good, Balanced
<1>6. ASSUME o.queue["Traces"] = <<>> PROVE Captured(d, w.last["Trace"])
  BY <1>3, <1>6 DEF Good, Captured
<1>7. QED
  BY <1>2, <1>3, <1>4, <1>5, <1>6 DEF Good

----------------------------------------------------------------------------
\* What the Sink takes off a queue.

LEMMA TailIs ==
  ASSUME NEW q \in Seq(Frames), q # <<>>
  PROVE  /\ Head(q) = q[1] /\ Head(q) \in Frames /\ Tail(q) \in Seq(Frames)
         /\ Len(q) \in Nat \ {0} /\ Len(Tail(q)) = Len(q) - 1
         /\ \A i \in 1 .. Len(Tail(q)) : i + 1 \in 1 .. Len(q) /\ Tail(q)[i] = q[i + 1]
<1>1. Len(q) \in Nat \ {0} /\ Head(q) = q[1] /\ Head(q) \in Frames
  BY EmptySeq, LenProperties
<1>2. Tail(q) \in Seq(Frames) /\ Len(Tail(q)) = Len(q) - 1
  BY HeadTailProperties
<1>3. ASSUME NEW i \in 1 .. Len(Tail(q)) PROVE i + 1 \in 1 .. Len(q) /\ Tail(q)[i] = q[i + 1]
  BY <1>1, <1>2, <1>3, HeadTailProperties
<1>4. QED
  BY <1>1, <1>2, <1>3

Pop(o, c) == [o EXCEPT !.queue[c] = Tail(@)]

LEMMA PopOk ==
  ASSUME NEW o, OutInv(o), NEW c \in Classes, o.queue[c] # <<>>
  PROVE  /\ OutInv(Pop(o, c))
         /\ Pop(o, c).queue = [o.queue EXCEPT ![c] = Tail(@)]
         /\ Pop(o, c).seq = o.seq /\ Pop(o, c).dropped = o.dropped
         /\ Pop(o, c).pending = o.pending /\ Pop(o, c).flag = o.flag
<1> DEFINE q == o.queue[c]
           qs == [o.queue EXCEPT ![c] = Tail(@)]
           p == Pop(o, c)
<1>1. /\ o \in OutType /\ o.queue \in [Classes -> Seq(Frames)]
      /\ o.high \in [Numbered -> Nat]
  BY DEF OutInv, OutType
<1>2. /\ Tail(q) \in Seq(Frames) /\ Len(q) \in Nat \ {0} /\ Len(Tail(q)) = Len(q) - 1
      /\ \A i \in 1 .. Len(Tail(q)) : i + 1 \in 1 .. Len(q) /\ Tail(q)[i] = q[i + 1]
  BY <1>1, TailIs
<1>3. /\ qs \in [Classes -> Seq(Frames)]
      /\ \A k \in Classes : qs[k] = IF k = c THEN Tail(q) ELSE o.queue[k]
  BY <1>1, <1>2
<1>4. p = [o EXCEPT !.queue = qs]
  BY <1>1 DEF OutType, Pop
<1> HIDE DEF p, qs
<1>5. /\ p \in OutType /\ p.queue = qs /\ p.seq = o.seq /\ p.dropped = o.dropped
      /\ p.high = o.high /\ p.pending = o.pending /\ p.flag = o.flag
  BY <1>1, <1>3, <1>4 DEF OutType
<1>6. \A k \in Classes : Len(qs[k]) \in Nat /\ Len(qs[k]) <= Len(o.queue[k])
                         /\ Len(o.queue[k]) \in Nat /\ Len(o.queue[k]) <= Capacity[k]
                         /\ Capacity[k] \in Nat
  <2>1. \A k \in Classes : Len(o.queue[k]) \in Nat /\ Len(o.queue[k]) <= Capacity[k]
                           /\ Capacity[k] \in Nat
    BY <1>1, LenProperties, CapacityNat DEF OutInv
  <2> SUFFICES ASSUME NEW k \in Classes
               PROVE  Len(qs[k]) \in Nat /\ Len(qs[k]) <= Len(o.queue[k])
    BY <2>1
  <2>2. CASE k = c
    <3>1. Len(qs[k]) = Len(q) - 1 /\ Len(o.queue[k]) = Len(q)
      BY <1>2, <1>3, <2>2
    <3>2. QED
      BY <1>2, <3>1
  <2>3. CASE k # c
    <3>1. qs[k] = o.queue[k]
      BY <1>3, <2>3
    <3>2. QED
      BY <2>1, <3>1
  <2>4. QED
    BY <2>2, <2>3
<1>7. \A k \in Classes : Len(qs[k]) <= Capacity[k]
  BY <1>6
<1>8. \A k \in Numbered : Len(qs[k]) <= o.high[k] /\ o.high[k] <= Capacity[k]
  <2>1. \A k \in Numbered : /\ Len(o.queue[k]) <= o.high[k] /\ o.high[k] <= Capacity[k]
                            /\ o.high[k] \in Nat /\ k \in Classes
    BY <1>1, ClassNames DEF OutInv
  <2>2. QED
    BY <1>6, <2>1
<1>9. ASSUME NEW k \in Classes, NEW i \in 1 .. Len(qs[k]) PROVE Belongs(k, qs[k][i])
  <2>0. \A j \in 1 .. Len(o.queue[k]) : Belongs(k, o.queue[k][j])
    BY DEF OutInv
  <2>1. CASE k = c
    <3>1. i \in 1 .. Len(Tail(q)) /\ qs[k] = Tail(q) /\ o.queue[k] = q
      BY <1>3, <2>1
    <3>2. i + 1 \in 1 .. Len(q) /\ qs[k][i] = q[i + 1]
      BY <1>2, <3>1
    <3>3. QED
      BY <2>0, <3>1, <3>2
  <2>2. CASE k # c
    BY <1>3, <2>0, <2>2
  <2>3. QED
    BY <2>1, <2>2
<1>10. QED
  BY <1>5, <1>7, <1>8, <1>9 DEF OutInv, p, qs

LEMMA PopChained ==
  ASSUME NEW q \in Seq(Frames), q # <<>>, NEW last, Chained(q, last),
         \A i \in 1 .. Len(q) : q[i].kind # "Document" => q[i].index = 0
  PROVE  /\ Chained(Tail(q), Head(q))
         /\ Head(q).kind # "Document" => Chained(Tail(q), last)
         /\ Head(q).index > 0 => Head(q).of = last.of /\ Head(q).index = last.index + 1
<1>1. /\ Head(q) = q[1] /\ Len(q) \in Nat \ {0}
      /\ Len(Tail(q)) = Len(q) - 1
      /\ \A i \in 1 .. Len(Tail(q)) : i + 1 \in 1 .. Len(q) /\ Tail(q)[i] = q[i + 1]
  BY TailIs
<1>2. Head(q).index > 0 => Head(q).of = last.of /\ Head(q).index = last.index + 1
  <2>1. 1 \in 1 .. Len(q)
    BY <1>1
  <2>2. QED
    BY <1>1, <2>1 DEF Chained
<1>3. ASSUME NEW i \in 1 .. Len(Tail(q)), Tail(q)[i].index > 0
      PROVE  /\ i = 1 => Follows(Tail(q)[1], Head(q))
             /\ i # 1 => Follows(Tail(q)[i], Tail(q)[i - 1])
  <2>1. i + 1 \in 1 .. Len(q) /\ Tail(q)[i] = q[i + 1] /\ i + 1 # 1 /\ i + 1 - 1 = i
    BY <1>1
  <2>2. Follows(q[i + 1], q[i + 1 - 1])
    BY <1>3, <2>1 DEF Chained
  <2>3. CASE i = 1
    BY <1>1, <2>1, <2>2, <2>3
  <2>4. CASE i # 1
    <3>1. i - 1 \in 1 .. Len(Tail(q)) /\ i - 1 + 1 = i
      BY <1>1, <2>4
    <3>2. Tail(q)[i - 1] = q[i]
      BY <1>1, <3>1
    <3>3. QED
      BY <2>1, <2>2, <2>4, <3>2
  <2>5. QED
    BY <2>3, <2>4
<1>4. Chained(Tail(q), Head(q))
  BY <1>3 DEF Chained, Follows
<1>5. ASSUME Head(q).kind # "Document" PROVE Chained(Tail(q), last)
  <2>1. \A i \in 1 .. Len(Tail(q)) : Tail(q)[i].index > 0 => i # 1
    BY <1>3, <1>5 DEF Follows
  <2>2. QED
    BY <1>3, <2>1 DEF Chained
<1>6. QED
  BY <1>2, <1>4, <1>5

LEMMA PopRest ==
  ASSUME NEW q \in Seq(Frames), q # <<>>, NEW n, NEW last, RestOf(q, n, last)
  PROVE  /\ RestOf(Tail(q), n, Head(q))
         /\ Head(q).index > 0 => last.of = Head(q).of /\ last.index + 1 = Head(q).index
<1>1. /\ Head(q) = q[1] /\ Len(q) \in Nat \ {0} /\ Tail(q) \in Seq(Frames)
      /\ Len(Tail(q)) = Len(q) - 1
      /\ \A i \in 1 .. Len(Tail(q)) : i + 1 \in 1 .. Len(q) /\ Tail(q)[i] = q[i + 1]
  BY TailIs
<1>2. /\ q[Len(q)].index + 1 = q[Len(q)].count
      /\ \A i \in 1 .. Len(q) : q[i].of = n /\ (i > 1 => q[i].index = q[i - 1].index + 1)
      /\ Head(q).index > 0 => last.of = Head(q).of /\ last.index + 1 = Head(q).index
  BY DEF RestOf
<1> DEFINE t == Tail(q)
<1> HIDE DEF t
<1>3. /\ t = Tail(q) /\ Len(t) = Len(q) - 1 /\ t \in Seq(Frames)
      /\ \A i \in 1 .. Len(t) : i + 1 \in 1 .. Len(q) /\ t[i] = q[i + 1]
  BY <1>1 DEF t
<1>4. t = <<>> => Len(q) = 1
  <2>1. t = <<>> => Len(t) = 0
    OBVIOUS
  <2> DEFINE a == Len(q)
             b == Len(t)
  <2>2. a \in Nat \ {0} /\ b = a - 1 /\ (t = <<>> => b = 0)
    BY <1>1, <1>3, <2>1
  <2> HIDE DEF a, b
  <2>3. t = <<>> => a = 1
    BY <2>2
  <2>4. QED
    BY <2>3 DEF a
<1>5. t # <<>> => Len(t) \in 1 .. Len(t) /\ 1 \in 1 .. Len(t) /\ Head(t) = t[1]
  BY <1>3, TailIs, EmptySeq, LenProperties
<1>6. t # <<>> => t[Len(t)].index + 1 = t[Len(t)].count
  <2>1. t # <<>> => t[Len(t)] = q[Len(q)]
    BY <1>1, <1>3, <1>5
  <2>2. QED
    BY <1>2, <2>1
<1>7. t = <<>> => Head(q).index + 1 = Head(q).count
  BY <1>1, <1>2, <1>4
<1>8. ASSUME NEW i \in 1 .. Len(t)
      PROVE  t[i].of = n /\ (i > 1 => t[i].index = t[i - 1].index + 1)
  <2>1. i + 1 \in 1 .. Len(q) /\ t[i] = q[i + 1] /\ i + 1 > 1 /\ i + 1 - 1 = i
    BY <1>3
  <2>2. q[i + 1].of = n /\ q[i + 1].index = q[i].index + 1
    BY <1>2, <2>1
  <2>3. i > 1 => t[i - 1] = q[i]
    <3>1. i > 1 => i - 1 \in 1 .. Len(t) /\ i - 1 + 1 = i
      BY <1>1, <1>3
    <3>2. QED
      BY <1>3, <3>1
  <2>4. QED
    BY <2>1, <2>2, <2>3
<1>9. t # <<>> => Head(q).of = Head(t).of /\ Head(q).index + 1 = Head(t).index
  <2>1. ASSUME t # <<>> PROVE t[1] = q[2] /\ 2 \in 1 .. Len(q) /\ 1 \in 1 .. Len(q)
    BY <1>1, <1>3, <1>5, <2>1
  <2>2. ASSUME t # <<>> PROVE q[2].of = n /\ q[1].of = n /\ q[2].index = q[2 - 1].index + 1
    BY <1>2, <2>1, <2>2
  <2>3. QED
    BY <1>1, <1>5, <2>1, <2>2
<1>10. RestOf(t, n, Head(q))
  BY <1>6, <1>7, <1>8, <1>9 DEF RestOf
<1>11. QED
  BY <1>2, <1>10 DEF t

\* A frame at an index above 0 is a fragment of a text, see Belongs.
LEMMA PlainFrames ==
  ASSUME NEW o, OutInv(o)
  PROVE  \A i \in 1 .. Len(o.queue["Control"]) :
            o.queue["Control"][i].kind # "Document" => o.queue["Control"][i].index = 0
BY ClassNames DEF OutInv, Belongs, TextKinds

\* The numbers stay in balance when one goes out.
LEMMA SentBalance ==
  ASSUME NEW o, OutInv(o), NEW p, NEW c \in Classes, o.queue[c] # <<>>,
         p.queue = [o.queue EXCEPT ![c] = Tail(@)], p.seq = o.seq, p.dropped = o.dropped,
         NEW sent \in [Numbered -> 0 .. SeqModulus - 1], NEW k \in Numbering,
         Balanced(o, sent, k)
  PROVE  k = c => Balanced(p, [sent EXCEPT ![c] = (@ + 1) % SeqModulus], k)
<1> SUFFICES ASSUME k = c
             PROVE  Balanced(p, [sent EXCEPT ![c] = (@ + 1) % SeqModulus], c)
  OBVIOUS
<1> DEFINE q == o.queue[c]
           s == sent[c]
           d == o.dropped[c]
           l == Len(q)
           l1 == Len(Tail(q))
<1>1. /\ c \in Numbered /\ o.queue \in [Classes -> Seq(Frames)] /\ q \in Seq(Frames)
      /\ s \in Nat /\ d \in Nat /\ SeqModulus \in Nat \ {0}
  BY CounterAssumption DEF Numbering, OutInv, OutType
<1>2. l \in Nat \ {0} /\ l1 = l - 1
  BY <1>1, TailIs
<1>3. p.queue[c] = Tail(q)
  BY <1>1
<1>4. o.seq[c] = (s + l + d) % SeqModulus
  BY DEF Balanced
<1> HIDE DEF q, s, d, l, l1
<1> DEFINE r == (s + 1) % SeqModulus
           x == l1 + d
<1>5. r \in Nat /\ x \in Nat /\ s + 1 \in Nat
  BY <1>1, <1>2, DivMod
<1>6. (r + x) % SeqModulus = ((s + 1) + x) % SeqModulus
  BY <1>1, <1>5, ModPlus
<1>7. (s + 1) + x = s + l + d /\ (r \in Nat => r + l1 + d = r + x)
  BY <1>1, <1>2
<1> HIDE DEF r, x
<1>8. o.seq[c] = (r + l1 + d) % SeqModulus
  BY <1>4, <1>5, <1>6, <1>7
<1>9. [sent EXCEPT ![c] = (@ + 1) % SeqModulus][c] = r
  BY <1>1 DEF r, s
<1>10. QED
  BY <1>3, <1>8, <1>9 DEF Balanced, l1, d

LEMMA SendGood ==
  ASSUME NEW o, NEW w \in WireType, Good(o, w.sent, w.last),
         NEW c \in Classes, o.queue[c] # <<>>,
         NEW v,
         v = [sent |-> IF c \in Numbered
                       THEN [w.sent EXCEPT ![c] = (@ + 1) % SeqModulus] ELSE w.sent,
              last |-> IF Head(o.queue[c]).kind \in {"Document", "Trace"}
                       THEN [w.last EXCEPT ![Head(o.queue[c]).kind] = Head(o.queue[c])]
                       ELSE w.last]
  PROVE  /\ v \in WireType /\ Good(Pop(o, c), v.sent, v.last)
         /\ \A k \in TextKinds : v.last[k] # w.last[k] =>
               \/ v.last[k].index = 0
               \/ v.last[k].of = w.last[k].of /\ v.last[k].index = w.last[k].index + 1
<1> DEFINE q == o.queue[c]
           f == Head(q)
           p == Pop(o, c)
           sent == IF c \in Numbered THEN [w.sent EXCEPT ![c] = (@ + 1) % SeqModulus]
                   ELSE w.sent
           last == IF f.kind \in TextKinds THEN [w.last EXCEPT ![f.kind] = f] ELSE w.last
<1>0. /\ OutInv(o) /\ o \in OutType /\ q \in Seq(Frames)
      /\ o.queue \in [Classes -> Seq(Frames)]
      /\ "Traces" \in Classes /\ "Control" \in Classes /\ \A k \in Numbering : k \in Classes
  BY ClassNames DEF Good, OutInv, OutType, Numbered, Numbering
<1>1. /\ f \in Frames /\ f = q[1] /\ Len(q) \in Nat \ {0}
  BY <1>0, TailIs
<1>2. Belongs(c, f)
  <2>1. 1 \in 1 .. Len(q)
    BY <1>1
  <2>2. QED
    BY <1>0, <1>1, <2>1 DEF OutInv
<1>3. /\ OutInv(p) /\ p.queue = [o.queue EXCEPT ![c] = Tail(@)]
      /\ p.seq = o.seq /\ p.dropped = o.dropped /\ p.pending = o.pending /\ p.flag = o.flag
  BY <1>0, PopOk
<1>4. /\ w.sent \in [Numbered -> 0 .. SeqModulus - 1]
      /\ w.last \in [TextKinds -> Frames \cup {NoFrame}]
  BY DEF WireType
<1>5. sent \in [Numbered -> 0 .. SeqModulus - 1]
  <2>1. \A k \in Numbered : w.sent[k] \in Nat
    BY <1>4, CounterAssumption
  <2>2. \A k \in Numbered : (w.sent[k] + 1) % SeqModulus \in 0 .. SeqModulus - 1
    BY <2>1, NextNumber
  <2>3. QED
    BY <1>4, <2>2
<1>6. last \in [TextKinds -> Frames \cup {NoFrame}]
  BY <1>1, <1>4
<1>7. v.sent = sent /\ v.last = last /\ v \in WireType
  <2>1. v = [sent |-> sent, last |-> last]
    BY DEF TextKinds
  <2> HIDE DEF sent, last
  <2> DEFINE u == [sent |-> sent, last |-> last]
  <2>2. u.sent = sent /\ u.last = last
    BY Zenon
  <2>3. u \in WireType
    BY Zenon, <1>5, <1>6 DEF WireType
  <2> HIDE DEF u
  <2>4. v = u
    BY Zenon, <2>1 DEF u
  <2>5. QED
    BY Zenon, <2>2, <2>3, <2>4
<1>8. ASSUME NEW k \in Numbering PROVE Balanced(p, sent, k)
  <2>0. Balanced(o, w.sent, k) /\ k \in Numbered
    BY DEF Good, Numbering
  <2>1. CASE k = c
    BY <1>0, <1>3, <1>4, <2>0, <2>1, SentBalance
  <2>2. CASE k # c
    <3>1. p.queue[k] = o.queue[k] /\ sent[k] = w.sent[k]
      BY <1>0, <1>3, <1>4, <2>0, <2>2
    <3>2. QED
      BY <1>3, <2>0, <3>1 DEF Balanced
  <2>3. QED
    BY <2>1, <2>2
<1> DEFINE n == (o.seq["Traces"] + SeqModulus - 1) % SeqModulus
<1> HIDE DEF n
<1>9. /\ o.pending = o.flag /\ (o.queue["Traces"] # <<>> => o.pending)
      /\ RestOf(o.queue["Traces"], n, w.last["Trace"])
  BY DEF Good, Captured, n
<1>10. c = "Traces" => /\ RestOf(Tail(q), n, f) /\ q # <<>> /\ last["Trace"] = f
                       /\ f.kind = "Trace" /\ p.queue["Traces"] = Tail(q)
                       /\ f.index > 0 => f.of = w.last["Trace"].of
                                         /\ f.index = w.last["Trace"].index + 1
  <2> SUFFICES ASSUME c = "Traces"
               PROVE  /\ RestOf(Tail(q), n, f) /\ q # <<>> /\ last["Trace"] = f
                      /\ f.kind = "Trace" /\ p.queue["Traces"] = Tail(q)
                      /\ f.index > 0 => f.of = w.last["Trace"].of
                                        /\ f.index = w.last["Trace"].index + 1
    OBVIOUS
  <2>1. f.kind = "Trace" /\ p.queue["Traces"] = Tail(q)
    BY <1>0, <1>2, <1>3 DEF Belongs
  <2>2. last["Trace"] = f
    BY <1>4, <2>1 DEF TextKinds
  <2>3. /\ RestOf(Tail(q), n, f)
        /\ f.index > 0 => w.last["Trace"].of = f.of /\ w.last["Trace"].index + 1 = f.index
    BY <1>0, <1>9, PopRest
  <2>4. QED
    BY <2>1, <2>2, <2>3
<1>11. c # "Traces" => /\ p.queue["Traces"] = o.queue["Traces"]
                       /\ last["Trace"] = w.last["Trace"]
  BY <1>0, <1>2, <1>3, <1>4 DEF Belongs, TextKinds
<1>12. RestOf(p.queue["Traces"], n, last["Trace"])
  BY <1>9, <1>10, <1>11
<1>13. p.queue["Traces"] # <<>> => o.pending
  BY <1>9, <1>10, <1>11
<1>14. Captured(p, last["Trace"])
  BY <1>3, <1>9, <1>12, <1>13 DEF Captured, n
<1>15. c = "Control" =>
          /\ Chained(Tail(q), last["Document"]) /\ p.queue["Control"] = Tail(q)
          /\ f.kind = "Document" =>
                /\ last["Document"] = f
                /\ f.index > 0 => f.of = w.last["Document"].of
                                  /\ f.index = w.last["Document"].index + 1
  <2> SUFFICES ASSUME c = "Control"
               PROVE  /\ Chained(Tail(q), last["Document"]) /\ p.queue["Control"] = Tail(q)
                      /\ f.kind = "Document" =>
                            /\ last["Document"] = f
                            /\ f.index > 0 => f.of = w.last["Document"].of
                                              /\ f.index = w.last["Document"].index + 1
    OBVIOUS
  <2>1. \A i \in 1 .. Len(q) : q[i].kind # "Document" => q[i].index = 0
    BY <1>0, PlainFrames
  <2>2. Chained(q, w.last["Document"])
    BY DEF Good
  <2>3. /\ Chained(Tail(q), f)
        /\ f.kind # "Document" => Chained(Tail(q), w.last["Document"])
        /\ f.index > 0 => f.of = w.last["Document"].of /\ f.index = w.last["Document"].index + 1
    BY <1>0, <2>1, <2>2, PopChained
  <2>4. /\ f.kind = "Document" => last["Document"] = f
        /\ f.kind # "Document" => last["Document"] = w.last["Document"]
    BY <1>4 DEF TextKinds
  <2>5. p.queue["Control"] = Tail(q)
    BY <1>0, <1>3
  <2>6. QED
    BY <2>3, <2>4, <2>5
<1>16. c # "Control" => /\ p.queue["Control"] = o.queue["Control"] /\ f.kind # "Document"
                        /\ last["Document"] = w.last["Document"]
  BY <1>0, <1>2, <1>3, <1>4 DEF Belongs, TextKinds
<1>17. Chained(p.queue["Control"], last["Document"])
  BY <1>15, <1>16 DEF Good
<1>18. Good(p, sent, last)
  BY <1>3, <1>8, <1>14, <1>17 DEF Good
<1>19. ASSUME NEW k \in TextKinds, last[k] # w.last[k]
       PROVE  \/ last[k].index = 0
              \/ last[k].of = w.last[k].of /\ last[k].index = w.last[k].index + 1
  <2>0. f.kind = k /\ last[k] = f /\ (f.index > 0 \/ f.index = 0)
    BY <1>1, <1>4, <1>19, SMTT(20) DEF Frames
  <2>1. CASE k = "Document"
    BY <1>15, <1>16, <2>0, <2>1
  <2>2. CASE k = "Trace"
    BY <1>10, <1>11, <1>19, <2>0, <2>2
  <2>3. QED
    BY <2>1, <2>2 DEF TextKinds
<1>20. QED
  BY <1>7, <1>18, <1>19 DEF p

----------------------------------------------------------------------------
\* The registry of subscriptions.

SlotType == [active : BOOLEAN, id : 0 .. SubIdModulus - 1, mask : SUBSET Numbered,
             birth : BOOLEAN]

Registered ==
    /\ subs \in [Slots -> SlotType]
    /\ \A s \in Active : subs[s].id # 0
    /\ nextSubId \in 1 .. SubIdModulus - 1

LEMMA LeastExists ==
  ASSUME NEW S \in SUBSET Nat, S # {}
  PROVE  \E x \in S : \A y \in S : x <= y
<1> DEFINE R == {ss \in Nat \X Nat : ss[1] < ss[2]}
<1>1. IsWellFoundedOn(R, Nat)
  BY NatLessThanWellFounded DEF OpToRel
<1>2. PICK x \in S : \A y \in S : ~ (<<y, x>> \in R)
  BY <1>1, WFMin
<1>3. ASSUME NEW y \in S PROVE x <= y
  <2>1. <<y, x>> \in Nat \X Nat /\ <<y, x>>[1] = y /\ <<y, x>>[2] = x
    OBVIOUS
  <2>2. ~ (y < x)
    BY <1>2, <2>1
  <2>3. QED
    BY <2>2
<1>4. QED
  BY <1>3

LEMMA LowestIn ==
  ASSUME NEW S, S \subseteq Slots, S # {}
  PROVE  Lowest(S) \in S
<1>1. S \in SUBSET Nat
  BY SubscriptionsAssumption DEF Slots
<1>2. \E x \in S : \A y \in S : x <= y
  BY <1>1, LeastExists
<1>3. QED
  BY <1>2 DEF Lowest

\* The slot a subscription goes to, and that one is left.
LEMMA FreeSlot ==
  ASSUME NEW mask, Registered, Duplicates(mask) = {}, ~ CapsExceeded(mask)
  PROVE  Lowest(Slots \ Active) \in Slots \ Active
<1>1. BridgeCap \in Nat /\ SubCap \in Nat /\ SubCap <= BridgeCap
  BY SubscriptionsAssumption
<1>2. Cardinality(Active) < SubCap
  <2>1. ~ (Cardinality(Active) >= SubCap)
    BY DEF CapsExceeded
  <2>2. Cardinality(Active) \in Nat
    <3>1. IsFiniteSet(1 .. BridgeCap)
      BY <1>1, FS_Interval
    <3>2. Active \subseteq 1 .. BridgeCap
      BY DEF Active, Slots
    <3>3. IsFiniteSet(Active)
      BY <3>1, <3>2, FS_Subset
    <3>4. QED
      BY <3>3, FS_CardinalityType
  <2>3. QED
    BY <1>1, <2>1, <2>2
<1>3. Slots \ Active # {}
  <2> SUFFICES ASSUME Slots \ Active = {} PROVE FALSE
    OBVIOUS
  <2>1. Active = 1 .. BridgeCap
    BY DEF Active, Slots
  <2>2. Cardinality(1 .. BridgeCap) = IF 1 > BridgeCap THEN 0 ELSE BridgeCap - 1 + 1
    BY <1>1, FS_Interval
  <2>3. Cardinality(Active) = BridgeCap
    BY <1>1, <2>1, <2>2
  <2>4. QED
    BY <1>1, <1>2, <2>3
<1>4. QED
  BY <1>3, LowestIn

LEMMA RegistryInitOk == RegistryInit => Registered
BY SubscriptionsAssumption DEF RegistryInit, Registered, SlotType, Active

LEMMA SubscribeOk ==
  ASSUME Registered, NEW mask \in SUBSET Numbered, Subscribe(mask)
  PROVE  Registered'
<1>0. SubIdModulus \in Nat /\ SubIdModulus > 1
  BY SubscriptionsAssumption
<1>1. CASE Duplicates(mask) # {}
  <2> DEFINE l == Lowest(Duplicates(mask))
  <2>1. l \in Slots
    BY <1>1, LowestIn DEF Duplicates, Active
  <2>2. subs' = [subs EXCEPT ![l].birth = TRUE] /\ nextSubId' = nextSubId
    BY <1>1 DEF Subscribe
  <2> HIDE DEF l
  <2>3. subs' \in [Slots -> SlotType]
    BY <2>1, <2>2 DEF Registered, SlotType
  <2>4. \A s \in Slots : subs'[s].active = subs[s].active /\ subs'[s].id = subs[s].id
    BY <2>1, <2>2 DEF Registered, SlotType
  <2>5. QED
    BY <2>2, <2>3, <2>4 DEF Registered, Active
<1>2. CASE Duplicates(mask) = {} /\ ~ CapsExceeded(mask)
  <2> DEFINE l == Lowest(Slots \ Active)
             new == [active |-> TRUE, id |-> nextSubId, mask |-> mask, birth |-> TRUE]
  <2>1. l \in Slots
    BY <1>2, FreeSlot
  <2>2. /\ subs' = [subs EXCEPT ![l] = new]
        /\ nextSubId' = IF nextSubId + 1 < SubIdModulus THEN nextSubId + 1 ELSE 1
    BY <1>2 DEF Subscribe
  <2>3. new \in SlotType /\ new.id # 0
    BY DEF Registered, SlotType
  <2> HIDE DEF l, new
  <2>4. /\ subs' \in [Slots -> SlotType]
        /\ \A s \in Slots : subs'[s] = IF s = l THEN new ELSE subs[s]
    BY <2>1, <2>2, <2>3 DEF Registered
  <2>5. \A s \in Active' : subs'[s].id # 0
    BY <2>3, <2>4 DEF Registered, Active
  <2>6. nextSubId' \in 1 .. SubIdModulus - 1
    BY <1>0, <2>2 DEF Registered
  <2>7. QED
    BY <2>4, <2>5, <2>6 DEF Registered
<1>3. QED
  BY <1>1, <1>2 DEF Subscribe

LEMMA UnsubscribeOk ==
  ASSUME Registered, NEW id, Unsubscribe(id)
  PROVE  Registered'
<1> DEFINE l == Lowest(Holders(id))
<1>1. l \in Slots
  BY LowestIn DEF Holders, Active, Unsubscribe
<1>2. subs' = [subs EXCEPT ![l].active = FALSE, ![l].birth = FALSE] /\ nextSubId' = nextSubId
  BY DEF Unsubscribe
<1> HIDE DEF l
<1>3. subs' \in [Slots -> SlotType]
  BY <1>1, <1>2 DEF Registered, SlotType
<1>4. \A s \in Slots : subs'[s].id = subs[s].id /\ (subs'[s].active => subs[s].active)
  BY <1>1, <1>2 DEF Registered, SlotType
<1>5. QED
  BY <1>2, <1>3, <1>4 DEF Registered, Active

LEMMA BirthSentOk ==
  ASSUME Registered, BirthSent
  PROVE  Registered'
<1>1. /\ subs' = [s \in Slots |-> [subs[s] EXCEPT !.birth = @ /\ ~ subs[s].active]]
      /\ nextSubId' = nextSubId
  BY DEF BirthSent
<1>2. ASSUME NEW s \in Slots
      PROVE  /\ subs'[s] \in SlotType /\ subs'[s].id = subs[s].id
             /\ subs'[s].active = subs[s].active
  <2> DEFINE r == subs[s]
             b == r.birth /\ ~ r.active
  <2>1. r \in SlotType /\ b \in BOOLEAN
    BY DEF Registered
  <2>2. subs'[s] = [r EXCEPT !.birth = b]
    BY <1>1
  <2> HIDE DEF r, b
  <2>3. /\ [r EXCEPT !.birth = b] \in SlotType /\ [r EXCEPT !.birth = b].id = r.id
        /\ [r EXCEPT !.birth = b].active = r.active
    BY <2>1 DEF SlotType
  <2>4. QED
    BY <2>2, <2>3 DEF r
<1>3. subs' \in [Slots -> SlotType]
  BY <1>1, <1>2
<1>4. QED
  BY <1>1, <1>2, <1>3 DEF Registered, Active

----------------------------------------------------------------------------
\* The invariant.

SinkType == [due : BOOLEAN, at : 0 .. 6, spent : 0 .. PerClassCap, budget : 0 .. LinkBudget]

\* The Sink's step keeps to cap, budget and ring.
Paced ==
    /\ sink \in SinkType
    /\ ring \in 0 .. RingSize - 1
    /\ age \in [{"telemetry", "birth"} -> 0 .. Period]

\* Queues, numbers and texts.
Queued == wire \in WireType /\ Good(out, wire.sent, wire.last)

IInv == Registered /\ Paced /\ Queued

LEMMA InitOk == Init => IInv
<1> SUFFICES ASSUME Init PROVE IInv
  OBVIOUS
<1>1. /\ SeqModulus \in Nat \ {0} /\ DropModulus \in Nat \ {0} /\ TailDepth \in Nat
      /\ RingSize \in Nat /\ RingSize > 0 /\ Period \in Nat /\ PerClassCap \in Nat
      /\ LinkBudget \in Nat
  BY CounterAssumption, RecordAssumption, SinkAssumption
<1>2. Registered
  BY RegistryInitOk DEF Init
<1>3. Paced
  BY <1>1 DEF Init, Paced, SinkType
<1>4. /\ out.queue = [c \in Classes |-> <<>>] /\ out.seq = [c \in Numbered |-> 0]
      /\ out.dropped = [c \in Numbered |-> 0] /\ out.high = [c \in Numbered |-> 0]
      /\ out.pending = FALSE /\ out.flag = FALSE
  BY DEF Init
<1>5. out \in OutType
  <2>1. <<>> \in Seq(Frames)
    OBVIOUS
  <2>2. [c \in Classes |-> <<>>] \in [Classes -> Seq(Frames)]
    BY <2>1
  <2>3. 0 \in 0 .. SeqModulus - 1 /\ 0 \in 0 .. DropModulus - 1 /\ 0 \in 0 .. TailDepth
    BY <1>1
  <2>4. QED
    BY <2>2, <2>3 DEF Init, OutType, Tails
<1>6. wire.sent = [c \in Numbered |-> 0] /\ wire.last = [k \in TextKinds |-> NoFrame]
  BY DEF Init, TextKinds
<1>7. wire \in WireType
  <2>1. 0 \in 0 .. SeqModulus - 1
    BY <1>1
  <2>2. QED
    BY <2>1 DEF Init, WireType, TextKinds
<1>8. \A c \in Classes : out.queue[c] = <<>> /\ Len(out.queue[c]) = 0
  BY <1>4
<1>9. OutInv(out)
  BY <1>4, <1>5, <1>8, CapacityNat, ClassNames DEF OutInv
<1>10. \A k \in Numbering : Balanced(out, wire.sent, k)
  <2>1. 0 % SeqModulus = 0
    BY <1>1
  <2>2. \A k \in Numbering : k \in Numbered /\ k \in Classes
    BY ClassNames DEF Numbering
  <2>3. QED
    BY <1>4, <1>6, <1>8, <2>1, <2>2 DEF Balanced
<1>11. Captured(out, wire.last["Trace"])
  <2>1. out.queue["Traces"] = <<>> /\ Len(<<>>) = 0
    BY <1>8, ClassNames DEF Numbered
  <2>2. wire.last["Trace"].index = 0 /\ wire.last["Trace"].count = 1
    <3>1. wire.last["Trace"] = NoFrame
      BY <1>6 DEF TextKinds
    <3>2. NoFrame.index = 0 /\ NoFrame.count = 1
      BY DEF NoFrame, Frame
    <3>3. QED
      BY <3>1, <3>2
  <2> DEFINE n == (out.seq["Traces"] + SeqModulus - 1) % SeqModulus
  <2> HIDE DEF n
  <2>3. wire.last["Trace"].index + 1 = wire.last["Trace"].count
    BY <2>2
  <2>4. RestOf(<<>>, n, wire.last["Trace"])
    BY <2>1, <2>3 DEF RestOf
  <2>5. QED
    BY <1>4, <2>1, <2>4 DEF Captured, n
<1>12. Chained(out.queue["Control"], wire.last["Document"])
  <2>1. Len(out.queue["Control"]) = 0
    BY <1>8, ClassNames
  <2>2. QED
    BY <2>1 DEF Chained
<1>13. QED
  BY <1>2, <1>3, <1>7, <1>9, <1>10, <1>11, <1>12 DEF IInv, Queued, Good

----------------------------------------------------------------------------
\* Steps of others: Producer and queues change, nothing is sent.

LEMMA QueuedBy ==
  ASSUME Queued, wire' = wire, Good(out', wire.sent, wire.last)
  PROVE  Queued'
BY DEF Queued

LEMMA EventQueued ==
  ASSUME Queued, wire' = wire, NEW c \in Numbering, NEW kind \in {"Event", "Log", "Telemetry"},
         out' = Emit(out, c, kind)
  PROVE  Queued'
<1>1. Good(Emit(out, c, kind), wire.sent, wire.last)
  BY EmitOk, RecordedGood DEF Queued, Good
<1>2. QED
  BY <1>1, QueuedBy

LEMMA EventAnswerQueued ==
  ASSUME Queued, wire' = wire, out' = Answer(EmitEvent(out)) \/ out' = Answer(out)
  PROVE  Queued'
<1>1. Good(EmitEvent(out), wire.sent, wire.last) /\ Good(out, wire.sent, wire.last)
  BY EventOk, RecordedGood DEF Queued, Good
<1>2. ASSUME NEW o, Good(o, wire.sent, wire.last)
      PROVE  Good(Answer(o), wire.sent, wire.last)
  BY <1>2, AnswerOk, AnsweredGood DEF Queued, Good
<1>3. Good(out', wire.sent, wire.last)
  BY <1>1, <1>2
<1>4. QED
  BY <1>3, QueuedBy

----------------------------------------------------------------------------
\* The Sink's step.

LEMMA ServedIs ==
  ASSUME Paced, Queued, sink.at # 0
  PROVE  /\ sink.at \in 1 .. 6 /\ Served \in Classes /\ Queue \in Seq(Frames)
         /\ OutInv(out)
<1>1. sink.at \in 1 .. 6
  BY DEF Paced, SinkType
<1>2. Served \in Classes
  BY <1>1 DEF Served, Classes
<1>3. OutInv(out)
  BY DEF Queued, Good
<1>4. QED
  BY <1>1, <1>2, <1>3 DEF Queue, OutInv, OutType

LEMMA SendStep ==
  ASSUME Paced, Queued, SinkSend
  PROVE  /\ Paced' /\ Queued'
         /\ \A k \in TextKinds : wire'.last[k] # wire.last[k] =>
               \/ wire'.last[k].index = 0
               \/ wire'.last[k].of = wire.last[k].of
                  /\ wire'.last[k].index = wire.last[k].index + 1
<1> DEFINE f == Head(Queue)
<1>1. /\ Served \in Classes /\ Queue \in Seq(Frames) /\ Queue # <<>> /\ Queue = out.queue[Served]
  BY ServedIs DEF SinkSend, Queue
<1>2. /\ Fits(f) /\ ring' = ring + f.bytes /\ age' = age
      /\ sink' = [sink EXCEPT !.spent = @ + f.bytes, !.budget = @ - f.bytes]
      /\ out' = Pop(out, Served)
      /\ wire' = [sent |-> IF Served \in Numbered
                           THEN [wire.sent EXCEPT ![Served] = (@ + 1) % SeqModulus]
                           ELSE wire.sent,
                  last |-> IF f.kind \in {"Document", "Trace"}
                           THEN [wire.last EXCEPT ![f.kind] = f] ELSE wire.last]
  BY DEF SinkSend, Pop
<1>3. f \in Frames
  BY <1>1, TailIs
<1>4. Paced'
  <2>1. f.bytes \in Nat /\ f.bytes >= 1
    BY <1>3 DEF Frames
  <2> DEFINE b == f.bytes
             s == sink.spent + b
             g == sink.budget - b
  <2>2. /\ sink \in SinkType /\ ring \in 0 .. RingSize - 1
        /\ PerClassCap \in Nat /\ LinkBudget \in Nat /\ RingSize \in Nat
    BY SinkAssumption DEF Paced
  <2>3. /\ sink.spent \in Nat /\ sink.budget \in Nat /\ sink.budget <= LinkBudget
        /\ ring \in Nat /\ b \in Nat
    BY <2>1, <2>2 DEF SinkType
  <2>4. s <= PerClassCap /\ b <= sink.budget /\ b <= RingSize - ring - 1
    BY <1>2 DEF Fits, TxBytesAvailable
  <2>5. sink' = [sink EXCEPT !.spent = s, !.budget = g] /\ ring' = ring + b
    BY <1>2, <2>2 DEF SinkType
  <2> HIDE DEF b
  <2>6. s \in 0 .. PerClassCap /\ g \in 0 .. LinkBudget /\ ring + b \in 0 .. RingSize - 1
    BY <2>2, <2>3, <2>4
  <2> HIDE DEF s, g
  <2>7. sink' \in SinkType
    BY <2>2, <2>5, <2>6 DEF SinkType
  <2>8. QED
    BY <1>2, <2>5, <2>6, <2>7 DEF Paced
<1>5. /\ wire' \in WireType /\ Good(Pop(out, Served), wire'.sent, wire'.last)
      /\ \A k \in TextKinds : wire'.last[k] # wire.last[k] =>
            \/ wire'.last[k].index = 0
            \/ wire'.last[k].of = wire.last[k].of
               /\ wire'.last[k].index = wire.last[k].index + 1
  <2> DEFINE v == [sent |-> IF Served \in Numbered
                            THEN [wire.sent EXCEPT ![Served] = (@ + 1) % SeqModulus]
                            ELSE wire.sent,
                   last |-> IF Head(out.queue[Served]).kind \in {"Document", "Trace"}
                            THEN [wire.last EXCEPT ![Head(out.queue[Served]).kind] =
                                                      Head(out.queue[Served])]
                            ELSE wire.last]
  <2>1. wire' = v
    BY <1>1, <1>2
  <2>2. wire \in WireType /\ Good(out, wire.sent, wire.last) /\ out.queue[Served] # <<>>
    BY <1>1 DEF Queued
  <2>3. /\ v \in WireType /\ Good(Pop(out, Served), v.sent, v.last)
        /\ \A k \in TextKinds : v.last[k] # wire.last[k] =>
              \/ v.last[k].index = 0
              \/ v.last[k].of = wire.last[k].of /\ v.last[k].index = wire.last[k].index + 1
    <3> DEFINE c == Served
    <3>1. v = [sent |-> IF c \in Numbered
                        THEN [wire.sent EXCEPT ![c] = (@ + 1) % SeqModulus] ELSE wire.sent,
               last |-> IF Head(out.queue[c]).kind \in {"Document", "Trace"}
                        THEN [wire.last EXCEPT ![Head(out.queue[c]).kind] = Head(out.queue[c])]
                        ELSE wire.last]
      OBVIOUS
    <3>2. c \in Classes /\ out.queue[c] # <<>>
      BY <1>1, <2>2
    <3> HIDE DEF v, c
    <3>3. /\ v \in WireType /\ Good(Pop(out, c), v.sent, v.last)
          /\ \A k \in TextKinds : v.last[k] # wire.last[k] =>
                \/ v.last[k].index = 0
                \/ v.last[k].of = wire.last[k].of /\ v.last[k].index = wire.last[k].index + 1
      BY <2>2, <3>1, <3>2, SendGood
    <3>4. QED
      BY <3>3 DEF c
  <2> HIDE DEF v
  <2>4. QED
    BY <2>1, <2>3
<1>6. Queued'
  BY <1>2, <1>5 DEF Queued
<1>7. QED
  BY <1>4, <1>5, <1>6

LEMMA AnswerStep ==
  ASSUME Paced, Queued, SinkAnswer
  PROVE  Paced' /\ Queued'
<1> DEFINE f == Head(Queue)
           p == Pop(out, "Control")
<1>1. /\ Served = "Control" /\ Queue # <<>> /\ Queue \in Seq(Frames) /\ f.kind = "Query"
      /\ OutInv(out) /\ Queue = out.queue["Control"] /\ out \in OutType
  BY ServedIs DEF SinkAnswer, Queue, IsQuery, OutInv
<1>2. "Control" \in Classes /\ "Traces" \in Classes /\ "Control" \notin Numbered
  BY ClassNames DEF Numbered
<1>3. f.mask \in QueryMasks
  <2>1. 1 \in 1 .. Len(Queue) /\ f = Queue[1]
    BY <1>1, TailIs
  <2>2. Belongs("Control", f)
    BY <1>1, <1>2, <2>1 DEF OutInv
  <2>3. QED
    BY <1>1, <2>2 DEF Belongs
<1>4. /\ OutInv(p) /\ p.queue = [out.queue EXCEPT !["Control"] = Tail(@)]
      /\ p.seq = out.seq /\ p.dropped = out.dropped
      /\ p.pending = out.pending /\ p.flag = out.flag
  BY <1>1, <1>2, PopOk
<1>5. out.queue \in [Classes -> Seq(Frames)]
  BY <1>1 DEF OutType
<1> HIDE DEF p
<1>6. /\ p.queue["Control"] = Tail(Queue) /\ p.queue["Traces"] = out.queue["Traces"]
      /\ \A k \in Numbering : p.queue[k] = out.queue[k]
  BY <1>1, <1>2, <1>4, <1>5, ClassNames DEF Numbering
<1>7. Chained(p.queue["Control"], wire.last["Document"])
  <2>1. \A i \in 1 .. Len(Queue) : Queue[i].kind # "Document" => Queue[i].index = 0
    BY <1>1, PlainFrames
  <2>2. Chained(Queue, wire.last["Document"])
    BY <1>1 DEF Queued, Good
  <2>3. f.kind # "Document"
    BY <1>1
  <2>4. Chained(Tail(Queue), wire.last["Document"])
    BY <1>1, <2>1, <2>2, <2>3, PopChained
  <2>5. QED
    BY <1>6, <2>4
<1>8. Good(p, wire.sent, wire.last)
  <2>1. \A k \in Numbering : Balanced(p, wire.sent, k)
    BY <1>4, <1>6 DEF Queued, Good, Balanced
  <2>2. Captured(p, wire.last["Trace"])
    BY <1>4, <1>6 DEF Queued, Good, Captured
  <2>3. QED
    BY <1>4, <1>7, <2>1, <2>2 DEF Good
<1>9. Good(SendDocument(p, f.mask), wire.sent, wire.last)
  <2>1. Answered(p, SendDocument(p, f.mask))
    BY <1>3, <1>4, DocumentOk
  <2>2. QED
    BY <1>8, <2>1, AnsweredGood DEF Queued
<1>10. out' = SendDocument(p, f.mask) /\ wire' = wire /\ sink' = sink /\ ring' = ring /\ age' = age
  BY DEF SinkAnswer, p, Pop
<1>11. Queued'
  BY <1>9, <1>10, QueuedBy
<1>12. QED
  BY <1>10, <1>11 DEF Paced

LEMMA NextStopIs ==
  ASSUME Paced, sink.at # 0
  PROVE  NextStop \in sink.at + 1 .. 7
<1> DEFINE S == {i \in sink.at + 1 .. 7 : i < 7 => out.queue[Order[i]] # <<>>}
<1>1. sink.at \in 1 .. 6
  BY DEF Paced, SinkType
<1>2. 7 \in S /\ S \in SUBSET Nat
  BY <1>1
<1>3. PICK x \in S : \A y \in S : x <= y
  BY <1>2, LeastExists
<1>4. \A j \in sink.at + 1 .. x - 1 : out.queue[Order[j]] = <<>>
  BY <1>1, <1>3
<1>5. QED
  BY <1>3, <1>4 DEF NextStop

LEMMA LeaveStep ==
  ASSUME Paced, Queued, SinkLeave
  PROVE  Paced' /\ Queued'
<1> DEFINE d == Delivered(out)
<1>1. Good(d, wire.sent, wire.last) /\ Good(out, wire.sent, wire.last)
  BY DeliveredGood DEF Queued
<1>2. Good(FlushPendingDrop(d), wire.sent, wire.last)
  <2>1. Recorded(d, FlushPendingDrop(d))
    BY <1>1, FlushOk DEF Good
  <2>2. QED
    BY <1>1, <2>1, RecordedGood DEF Queued
<1>3. wire' = wire /\ ring' = ring /\ age' = age
  BY DEF SinkLeave
<1>4. out' = d \/ out' = out \/ out' = FlushPendingDrop(d)
  BY DEF SinkLeave
<1> HIDE DEF d
<1>5. Queued'
  <2>1. Good(out', wire.sent, wire.last)
    BY <1>1, <1>2, <1>4
  <2>2. QED
    BY <1>3, <2>1, QueuedBy
<1>6. sink' \in SinkType
  <2>1. NextStop \in sink.at + 1 .. 7 /\ sink.at \in 0 .. 6 /\ sink \in SinkType
    BY NextStopIs DEF SinkLeave, Paced, SinkType
  <2>2. PerClassCap \in Nat /\ LinkBudget \in Nat
    BY SinkAssumption
  <2> DEFINE n == NextStop
  <2>3. CASE n < 7
    <3>1. sink' = [sink EXCEPT !.at = n, !.spent = IF n = 2 THEN @ ELSE 0]
      BY <2>3 DEF SinkLeave
    <3>2. n \in 0 .. 6 /\ 0 \in 0 .. PerClassCap
      BY <2>1, <2>2, <2>3
    <3> HIDE DEF n
    <3>3. QED
      BY <2>1, <3>1, <3>2 DEF SinkType
  <2>4. CASE ~ (n < 7)
    <3>1. sink' = [due |-> FALSE, at |-> 0, spent |-> 0, budget |-> 0]
      BY <2>4 DEF SinkLeave
    <3>2. QED
      BY <2>2, <3>1 DEF SinkType
  <2>5. QED
    BY <2>3, <2>4
<1>7. QED
  BY <1>3, <1>5, <1>6 DEF Paced

LEMMA StartStep ==
  ASSUME Paced, Queued, SinkStart
  PROVE  Paced' /\ Queued'
<1>1. /\ sink' = [sink EXCEPT !.at = 1, !.spent = 0, !.budget = LinkBudget]
      /\ out' = out /\ ring' = ring /\ age' = age /\ wire' = wire
  BY DEF SinkStart
<1>2. PerClassCap \in Nat /\ LinkBudget \in Nat
  BY SinkAssumption
<1>3. sink' \in SinkType
  <2>1. sink \in SinkType /\ 0 \in 0 .. PerClassCap /\ LinkBudget \in 0 .. LinkBudget
    BY <1>2 DEF Paced
  <2> DEFINE b == LinkBudget
             B == 0 .. LinkBudget
             P == 0 .. PerClassCap
  <2>2. /\ sink \in [due : BOOLEAN, at : 0 .. 6, spent : P, budget : B] /\ b \in B /\ 0 \in P
        /\ sink' = [sink EXCEPT !.at = 1, !.spent = 0, !.budget = b]
    BY <1>1, <2>1 DEF SinkType
  <2> HIDE DEF b, B, P
  <2>3. /\ sink'.due \in BOOLEAN /\ sink'.at = 1 /\ sink'.spent = 0 /\ sink'.budget = b
        /\ sink' = [due |-> sink'.due, at |-> sink'.at, spent |-> sink'.spent,
                    budget |-> sink'.budget]
    BY <2>2
  <2>3a. sink' \in [due : BOOLEAN, at : 0 .. 6, spent : P, budget : B]
    BY <2>2, <2>3
  <2>4. QED
    BY <2>3a DEF SinkType, B, P
<1>4. QED
  BY <1>1, <1>3 DEF Paced, Queued

LEMMA ClockStep ==
  ASSUME Paced, Queued, Clock
  PROVE  Paced' /\ Queued'
<1>1. /\ ring' = IF ring > BytesPerTick THEN ring - BytesPerTick ELSE 0
      /\ age' = [k \in DOMAIN age |-> Least(Period, age[k] + 1)]
      /\ sink' = [sink EXCEPT !.due = TRUE] /\ out' = out /\ wire' = wire
  BY DEF Clock
<1>2. RingSize \in Nat /\ BytesPerTick \in Nat /\ Period \in Nat
  BY SinkAssumption, CounterAssumption
<1>3. ring' \in 0 .. RingSize - 1
  BY <1>1, <1>2 DEF Paced
<1>4. age' \in [{"telemetry", "birth"} -> 0 .. Period]
  <2>1. \A k \in {"telemetry", "birth"} : Least(Period, age[k] + 1) \in 0 .. Period
    BY <1>2 DEF Paced, Least
  <2>2. DOMAIN age = {"telemetry", "birth"}
    BY DEF Paced
  <2>3. QED
    BY <1>1, <2>1, <2>2
<1>5. sink' \in SinkType
  BY <1>1 DEF Paced, SinkType
<1>6. QED
  BY <1>1, <1>3, <1>4, <1>5 DEF Paced, Queued

----------------------------------------------------------------------------
\* The slow steps.

LEMMA TelemetryStep ==
  ASSUME Paced, Queued, TelemetryTick
  PROVE  Paced' /\ Queued'
<1>1. /\ age' = [age EXCEPT !.telemetry = 0] /\ out' = Emit(out, "Telemetry", "Telemetry")
      /\ sink' = sink /\ ring' = ring /\ wire' = wire
  BY DEF TelemetryTick, EmitTelemetry
<1>2. Period \in Nat
  BY CounterAssumption
<1>3. Paced'
  BY <1>1, <1>2 DEF Paced
<1>4. Queued'
  BY <1>1, EventQueued DEF Numbering, Numbered
<1>5. QED
  BY <1>3, <1>4

LEMMA BirthStep ==
  ASSUME Paced, Queued, Registered, BirthCheck
  PROVE  Paced' /\ Queued' /\ Registered'
<1>1. /\ age' = [age EXCEPT !.birth = 0] /\ sink' = sink /\ ring' = ring /\ wire' = wire
      /\ \/ out' = SendDocument(out, Sections) /\ BirthSent
         \/ out' = out /\ subs' = subs /\ nextSubId' = nextSubId
  BY DEF BirthCheck, registry
<1>2. Period \in Nat
  BY CounterAssumption
<1>3. Paced'
  BY <1>1, <1>2 DEF Paced
<1>4. Good(SendDocument(out, Sections), wire.sent, wire.last)
  <2>1. Answered(out, SendDocument(out, Sections))
    BY DocumentOk DEF Queued, Good
  <2>2. QED
    BY <2>1, AnsweredGood DEF Queued
<1>5. Queued'
  <2>1. Good(out', wire.sent, wire.last)
    BY <1>1, <1>4 DEF Queued
  <2>2. QED
    BY <1>1, <2>1, QueuedBy
<1>6. Registered'
  BY <1>1, BirthSentOk DEF Registered, Active
<1>7. QED
  BY <1>3, <1>5, <1>6

----------------------------------------------------------------------------
\* Every step keeps the invariant.

\* A step that sends nothing: what went out stays what it is.
Silent == wire' = wire

LEMMA RestPaced ==
  ASSUME Paced, Rest
  PROVE  Paced' /\ Silent
BY DEF Paced, Rest, Silent

LEMMA RegistrySame ==
  ASSUME Registered, UNCHANGED registry
  PROVE  Registered'
BY DEF Registered, registry, Active

LEMMA OtherStep ==
  ASSUME IInv,
         \/ RecordEvent \/ RecordCrash \/ RecordLog \/ SendAck
         \/ \E m \in QueryMasks : HandleQuery(m)
         \/ \E m \in Masks : HandleSubscribe(m)
         \/ \E id \in 1 .. SubIdModulus - 1 : HandleUnsubscribe(id)
  PROVE  IInv' /\ Silent
<1>1. Registered /\ Paced /\ Queued
  BY DEF IInv
<1>2. Rest
  BY DEF RecordEvent, RecordCrash, RecordLog, SendAck, HandleQuery, HandleSubscribe,
         HandleUnsubscribe
<1>3. Paced' /\ wire' = wire /\ Silent
  BY <1>1, <1>2, RestPaced DEF Silent
<1>4. ASSUME out' = EmitEvent(out) PROVE Queued'
  BY <1>1, <1>3, <1>4, EventQueued DEF EmitEvent, Numbering, Numbered
<1>5. CASE RecordEvent
  BY <1>1, <1>3, <1>4, <1>5, RegistrySame DEF IInv, RecordEvent
<1>6. CASE RecordLog
  <2>1. Queued'
    BY <1>1, <1>3, <1>6, EventQueued DEF RecordLog, LogEmit, Numbering, Numbered
  <2>2. QED
    BY <1>1, <1>3, <1>6, <2>1, RegistrySame DEF IInv, RecordLog
<1>7. CASE RecordCrash
  <2>1. Good(EmitEvent(out), wire.sent, wire.last)
    BY <1>1, EventOk, RecordedGood DEF Queued, Good
  <2>2. Good(StartFaultCapture(EmitEvent(out)), wire.sent, wire.last)
    BY <1>1, <2>1, CaptureGood DEF Queued
  <2>3. Queued'
    BY <1>1, <1>3, <1>7, <2>2, QueuedBy DEF RecordCrash
  <2>4. QED
    BY <1>1, <1>3, <1>7, <2>3, RegistrySame DEF IInv, RecordCrash
<1>8. CASE SendAck
  <2>1. Queued'
    BY <1>1, <1>3, <1>8, EventAnswerQueued DEF SendAck
  <2>2. QED
    BY <1>1, <1>3, <1>8, <2>1, RegistrySame DEF IInv, SendAck
<1>9. ASSUME NEW m \in QueryMasks, HandleQuery(m) PROVE IInv' /\ Silent
  <2>1. CASE Refused
    BY <1>1, <1>3, <1>4, <2>1, RegistrySame DEF IInv, Refused
  <2>2. CASE /\ out' = PushAll(out, "Control", <<[Whole("Query", 0) EXCEPT !.mask = m]>>)
             /\ UNCHANGED registry
    <3>1. Good(PushAll(out, "Control", <<[Whole("Query", 0) EXCEPT !.mask = m]>>),
               wire.sent, wire.last)
      BY <1>1, QueryOk, AnsweredGood DEF Queued, Good
    <3>2. Queued'
      BY <1>1, <1>3, <2>2, <3>1, QueuedBy
    <3>3. QED
      BY <1>1, <1>3, <2>2, <3>2, RegistrySame DEF IInv
  <2>3. QED
    BY <1>9, <2>1, <2>2 DEF HandleQuery
<1>10. ASSUME NEW m \in Masks, HandleSubscribe(m) PROVE IInv' /\ Silent
  <2>0. m \in SUBSET Numbered
    BY CounterAssumption
  <2>1. CASE Refused
    BY <1>1, <1>3, <1>4, <2>1, RegistrySame DEF IInv, Refused
  <2>2. CASE Subscribe(m) /\ out' = Answer(EmitEvent(out))
    <3>1. Queued'
      BY <1>1, <1>3, <2>2, EventAnswerQueued
    <3>2. Registered'
      BY <1>1, <2>0, <2>2, SubscribeOk
    <3>3. QED
      BY <1>3, <3>1, <3>2 DEF IInv
  <2>3. CASE out' = Answer(out) /\ UNCHANGED registry
    <3>1. Queued'
      BY <1>1, <1>3, <2>3, EventAnswerQueued
    <3>2. QED
      BY <1>1, <1>3, <2>3, <3>1, RegistrySame DEF IInv
  <2>4. QED
    BY <1>10, <2>1, <2>2, <2>3 DEF HandleSubscribe
<1>11. ASSUME NEW id \in 1 .. SubIdModulus - 1, HandleUnsubscribe(id) PROVE IInv' /\ Silent
  <2>1. CASE Refused
    BY <1>1, <1>3, <1>4, <2>1, RegistrySame DEF IInv, Refused
  <2>2. CASE Unsubscribe(id) /\ out' = Answer(EmitEvent(out))
    <3>1. Queued'
      BY <1>1, <1>3, <2>2, EventAnswerQueued
    <3>2. Registered'
      BY <1>1, <2>2, UnsubscribeOk
    <3>3. QED
      BY <1>3, <3>1, <3>2 DEF IInv
  <2>3. CASE out' = Answer(out) /\ UNCHANGED registry
    <3>1. Queued'
      BY <1>1, <1>3, <2>3, EventAnswerQueued
    <3>2. QED
      BY <1>1, <1>3, <2>3, <3>1, RegistrySame DEF IInv
  <2>4. QED
    BY <1>11, <2>1, <2>2, <2>3 DEF HandleUnsubscribe
<1>12. QED
  BY <1>5, <1>6, <1>7, <1>8, <1>9, <1>10, <1>11

\* FragmentsInOrder of one step.
InOrder ==
    \A k \in TextKinds : wire'.last[k] # wire.last[k] =>
        \/ wire'.last[k].index = 0
        \/ wire'.last[k].of = wire.last[k].of /\ wire'.last[k].index = wire.last[k].index + 1

LEMMA StepOk ==
  ASSUME IInv, [Next]_vars
  PROVE  IInv' /\ InOrder
<1>1. Registered /\ Paced /\ Queued
  BY DEF IInv
<1>2. Silent => InOrder
  BY DEF Silent, InOrder
<1>3. CASE \/ RecordEvent \/ RecordCrash \/ RecordLog \/ SendAck
           \/ \E m \in QueryMasks : HandleQuery(m)
           \/ \E m \in Masks : HandleSubscribe(m)
           \/ \E id \in 1 .. SubIdModulus - 1 : HandleUnsubscribe(id)
  BY <1>2, <1>3, OtherStep
<1>4. CASE TelemetryTick
  <2>1. Silent /\ UNCHANGED registry
    BY <1>4 DEF TelemetryTick, Silent
  <2>2. QED
    BY <1>1, <1>2, <1>4, <2>1, TelemetryStep, RegistrySame DEF IInv
<1>5. CASE BirthCheck
  <2>1. Silent
    BY <1>5 DEF BirthCheck, Silent
  <2>2. QED
    BY <1>1, <1>2, <1>5, <2>1, BirthStep DEF IInv
<1>6. CASE SinkStart
  <2>1. Silent /\ UNCHANGED registry
    BY <1>6 DEF SinkStart, Silent
  <2>2. QED
    BY <1>1, <1>2, <1>6, <2>1, StartStep, RegistrySame DEF IInv
<1>7. CASE SinkAnswer
  <2>1. Silent /\ UNCHANGED registry
    BY <1>7 DEF SinkAnswer, Silent
  <2>2. QED
    BY <1>1, <1>2, <1>7, <2>1, AnswerStep, RegistrySame DEF IInv
<1>8. CASE SinkSend
  <2>1. UNCHANGED registry
    BY <1>8 DEF SinkSend
  <2>2. QED
    BY <1>1, <1>8, <2>1, SendStep, RegistrySame DEF IInv, InOrder
<1>9. CASE SinkLeave
  <2>1. Silent /\ UNCHANGED registry
    BY <1>9 DEF SinkLeave, Silent
  <2>2. QED
    BY <1>1, <1>2, <1>9, <2>1, LeaveStep, RegistrySame DEF IInv
<1>10. CASE Clock
  <2>1. Silent /\ UNCHANGED registry
    BY <1>10 DEF Clock, Silent
  <2>2. QED
    BY <1>1, <1>2, <1>10, <2>1, ClockStep, RegistrySame DEF IInv
<1>11. CASE UNCHANGED vars
  <2>1. /\ Silent /\ UNCHANGED registry /\ out' = out /\ sink' = sink /\ ring' = ring
        /\ age' = age
    BY <1>11 DEF vars, Silent
  <2>2. Paced' /\ Queued'
    BY <1>1, <2>1 DEF Paced, Queued, Silent
  <2>3. QED
    BY <1>1, <1>2, <2>1, <2>2, RegistrySame DEF IInv
<1>12. QED
  BY <1>3, <1>4, <1>5, <1>6, <1>7, <1>8, <1>9, <1>10, <1>11 DEF Next, SinkStep

----------------------------------------------------------------------------
\* Theorems.

LEMMA Invariant == Spec => []IInv
<1>1. IInv /\ [Next]_vars => IInv'
  BY StepOk
<1>2. QED
  BY <1>1, InitOk, PTL DEF Spec

\* The queues keep to the capacities of the class, the Sink to its cap and
\* budget, no frame is larger than what may ever go out, the ring of the UART
\* never overruns, and no subscription has the invalid id 0: push_class(),
\* Sink::tick() and SubscriptionRegistry::subscribe().
THEOREM TypeCorrect == Spec => []TypeOK
<1>1. IInv => TypeOK
  <2> SUFFICES ASSUME IInv PROVE TypeOK
    OBVIOUS
  <2>1. Registered /\ Paced /\ OutInv(out) /\ out \in OutType
    BY DEF IInv, Queued, Good, OutInv
  <2>2. \A c \in Classes : out.queue[c] \in Seq(Frames) /\ Len(out.queue[c]) <= Capacity[c]
    BY <2>1 DEF OutInv, OutType
  <2>3. /\ out.seq \in [Numbered -> 0 .. SeqModulus - 1]
        /\ out.dropped \in [Numbered -> 0 .. DropModulus - 1]
        /\ out.tail \in [{"Events", "Logs"} -> 0 .. TailDepth]
        /\ out.pendingDrop \in Classes \cup {"None"}
    BY <2>1 DEF OutType, Tails
  <2>4. \A c \in Numbered : Len(out.queue[c]) <= out.high[c] /\ out.high[c] <= Capacity[c]
    BY <2>1 DEF OutInv
  <2>5. sink.at \in 0 .. Len(Order) /\ sink.spent \in 0 .. PerClassCap
        /\ sink.budget \in 0 .. LinkBudget
    BY <2>1 DEF Paced, SinkType, Order
  <2>6. ring \in 0 .. RingSize - 1 /\ age \in [{"telemetry", "birth"} -> 0 .. Period]
    BY <2>1 DEF Paced
  <2>7. \A s \in Active : subs[s].id \in 1 .. SubIdModulus - 1
    BY <2>1, SubscriptionsAssumption DEF Registered, SlotType, Active
  <2>8. nextSubId \in 1 .. SubIdModulus - 1
    BY <2>1 DEF Registered
  <2>9. QED
    BY <2>2, <2>3, <2>4, <2>5, <2>6, <2>7, <2>8 DEF TypeOK
<1>2. QED
  BY <1>1, Invariant, PTL

\* The numbers emit_class() gives to events, logs and telemetry are all
\* accounted for by what tick() sent, what is queued and what note_class_drop()
\* counted, for every capacity and whatever the widths of number and counter.
THEOREM AllAccounted == Spec => []RecordsAccounted
<1>1. IInv => RecordsAccounted
  BY DEF IInv, Queued, Good, Balanced, RecordsAccounted, Numbering
<1>2. QED
  BY <1>1, Invariant, PTL

\* start_fault_capture() and tick(): fragments of two captures are never queued
\* together, a capture is queued and sent to its last fragment, and Producer
\* and Sink agree whether one is under way.
THEOREM CapturesWhole == Spec => []CaptureWhole
<1>1. IInv => CaptureWhole
  <2> SUFFICES ASSUME IInv PROVE CaptureWhole
    OBVIOUS
  <2> DEFINE rest == out.queue["Traces"]
             last == wire.last["Trace"]
             n == (out.seq["Traces"] + SeqModulus - 1) % SeqModulus
  <2>1. Captured(out, last)
    BY DEF IInv, Queued, Good
  <2>2. out.pending = out.flag /\ (rest # <<>> => out.pending) /\ RestOf(rest, n, last)
    BY <2>1 DEF Captured
  <2> HIDE DEF n
  <2>3. /\ rest # <<>> => rest[Len(rest)].index + 1 = rest[Len(rest)].count
        /\ rest = <<>> => last.index + 1 = last.count
        /\ \A i \in 1 .. Len(rest) :
              rest[i].of = n /\ (i > 1 => rest[i].index = rest[i - 1].index + 1)
        /\ rest # <<>> /\ Head(rest).index > 0 =>
              last.of = Head(rest).of /\ last.index + 1 = Head(rest).index
    BY <2>2 DEF RestOf
  <2>4. QED
    BY <2>2, <2>3 DEF CaptureWhole, n
<1>2. QED
  BY <1>1, Invariant, PTL

\* Of a document or a capture, tick() never sends a fragment after another one
\* than its predecessor, whatever push_class() dropped.
THEOREM InOrderAlways == Spec => FragmentsInOrder
<1>1. IInv /\ [Next]_vars => [InOrder]_vars
  BY StepOk
<1>2. InOrder <=>
        \A k \in {"Document", "Trace"} :
          wire'.last[k] # wire.last[k] =>
             \/ wire'.last[k].index = 0
             \/ /\ wire'.last[k].of = wire.last[k].of
                /\ wire'.last[k].index = wire.last[k].index + 1
  BY DEF InOrder, TextKinds
<1>3. QED
  BY <1>1, <1>2, Invariant, PTL DEF Spec, FragmentsInOrder

=============================================================================
