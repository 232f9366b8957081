---------------------------- MODULE KernelProofs ----------------------------
(***************************************************************************)
(* Proofs about Kernel, for every set of periodic steps that leaves room   *)
(* in the ring, every window, gate and duration of steps.                  *)
(***************************************************************************)
EXTENDS Kernel, TLAPS

Entries == [fn : Step, wait : Nat]

In(r, f) == \E i \in 1 .. Len(r) : r[i].fn = f

\* What is true of the ring between any two of the kernel's operations: no
\* step twice, no periodic step missing, and hence no more entries than the
\* periodic steps and, when it is there, the emission step.
Sound(r) ==
    /\ r \in Seq(Entries)
    /\ \A i, j \in 1 .. Len(r) : r[i].fn = r[j].fn => i = j
    /\ \A f \in Periodic : In(r, f)
    /\ Len(r) = Len(Startup) + IF In(r, Actuation) THEN 1 ELSE 0

Within(r, bound) == \A i \in 1 .. Len(r) : r[i].wait <= bound

\* The inductive invariant.  An emission step in the ring counts as armed, so
\* the safety boundary never schedules a second one.
IInv ==
    /\ TypeOK
    /\ Sound(ring)
    /\ Within(ring, StepBudget)
    /\ In(ring, Actuation) => armed

----------------------------------------------------------------------------
\* Operations on the ring.

LEMMA StartupLength == Len(Startup) \in Nat
BY StartupAssumption

LEMMA LaterSound ==
  ASSUME NEW r, Sound(r), NEW d \in Nat, NEW b \in Nat, Within(r, b + d)
  PROVE  /\ Sound(Later(r, d))
         /\ Within(Later(r, d), b)
         /\ \A f : In(Later(r, d), f) <=> In(r, f)
<1> DEFINE l == Later(r, d)
<1>1. r \in Seq(Entries) /\ Len(r) \in Nat
  BY DEF Sound
<1>2. \A i \in 1 .. Len(r) : r[i] \in Entries
  BY <1>1
<1>3. \A i \in 1 .. Len(r) :
        /\ l[i].fn = r[i].fn
        /\ l[i] \in Entries
        /\ l[i].wait <= b
  <2> SUFFICES ASSUME NEW i \in 1 .. Len(r)
               PROVE  /\ l[i].fn = r[i].fn
                      /\ l[i] \in Entries
                      /\ l[i].wait <= b
    OBVIOUS
  <2>1. l[i] = [fn |-> r[i].fn, wait |-> Left(r[i].wait, d)]
    BY DEF Later, Entry
  <2>2. r[i].fn \in Step /\ r[i].wait \in Nat /\ r[i].wait <= b + d
    BY <1>2 DEF Entries, Within
  <2>3. Left(r[i].wait, d) \in Nat /\ Left(r[i].wait, d) <= b
    BY <2>2 DEF Left
  <2> QED
    BY <2>1, <2>2, <2>3 DEF Entries
<1>4. Len(l) = Len(r) /\ l \in Seq(Entries)
  <2>1. l = [i \in 1 .. Len(r) |-> l[i]]
    BY DEF Later
  <2> QED
    BY <1>1, <1>3, <2>1
<1>5. \A f : In(l, f) <=> In(r, f)
  BY <1>3, <1>4 DEF In
<1> QED
  BY <1>3, <1>4, <1>5 DEF Sound, Within

LEMMA AppendEntries ==
  ASSUME NEW r \in Seq(Entries), NEW e \in Entries
  PROVE  /\ Append(r, e) \in Seq(Entries)
         /\ Len(Append(r, e)) = Len(r) + 1
         /\ \A i \in 1 .. Len(r) : Append(r, e)[i] = r[i]
         /\ Append(r, e)[Len(r) + 1] = e
OBVIOUS

LEMMA TailEntries ==
  ASSUME NEW r \in Seq(Entries), r # <<>>
  PROVE  /\ Tail(r) \in Seq(Entries)
         /\ Len(Tail(r)) = Len(r) - 1
         /\ \A i \in 1 .. Len(r) - 1 : Tail(r)[i] = r[i + 1]
         /\ Head(r) = r[1]
         /\ Len(r) \in Nat /\ Len(r) >= 1
OBVIOUS

\* actuation_arm() of a step that is not in the ring.
LEMMA ArmSound ==
  ASSUME NEW r, Sound(r), ~In(r, Actuation), NEW w \in Nat
  PROVE  LET s == Append(r, Entry(Actuation, w))
         IN  Sound(s) /\ In(s, Actuation)
<1> DEFINE e == Entry(Actuation, w)
           s == Append(r, e)
<1>1. r \in Seq(Entries) /\ Len(r) \in Nat /\ e \in Entries /\ e.fn = Actuation
  BY DEF Sound, Entry, Entries, Step
<1>2. /\ s \in Seq(Entries)
      /\ Len(s) = Len(r) + 1
      /\ \A i \in 1 .. Len(r) : s[i] = r[i]
      /\ s[Len(r) + 1] = e
  BY <1>1, AppendEntries
<1> HIDE DEF s, e
<1>3. In(s, Actuation)
  BY <1>1, <1>2 DEF In
<1>4. \A f \in Periodic : In(s, f)
  BY <1>1, <1>2 DEF Sound, In
<1>5. \A i, j \in 1 .. Len(s) : s[i].fn = s[j].fn => i = j
  BY <1>1, <1>2 DEF Sound, In
<1>6. Len(s) = Len(Startup) + 1
  BY <1>2, StartupLength DEF Sound
<1>7. Sound(s) /\ In(s, Actuation)
  BY <1>2, <1>3, <1>4, <1>5, <1>6 DEF Sound
<1> QED
  BY <1>7 DEF s, e

\* A step that re-arms itself moves from the head of the ring to its end.
LEMMA RotateSound ==
  ASSUME NEW r, Sound(r), r # <<>>, NEW w \in Nat
  PROVE  LET s == Tail(Append(r, Entry(Head(r).fn, w)))
         IN  Sound(s) /\ \A f : In(s, f) <=> In(r, f)
<1> DEFINE e == Entry(Head(r).fn, w)
           a == Append(r, e)
           s == Tail(a)
           n == Len(r)
<1>1. r \in Seq(Entries) /\ n \in Nat /\ n >= 1 /\ Head(r) = r[1]
  BY TailEntries DEF Sound
<1>2. r[1] \in Entries
  BY <1>1
<1>3. e \in Entries /\ e.fn = r[1].fn
  BY <1>1, <1>2 DEF Entry, Entries
<1>4. /\ a \in Seq(Entries)
      /\ Len(a) = n + 1
      /\ \A i \in 1 .. n : a[i] = r[i]
      /\ a[n + 1] = e
  BY <1>1, <1>3, AppendEntries
<1>5. a # <<>>
  BY <1>1, <1>4
<1>6. /\ s \in Seq(Entries)
      /\ Len(s) = n
      /\ \A i \in 1 .. n : s[i] = a[i + 1]
  BY <1>1, <1>4, <1>5, TailEntries
<1> HIDE DEF s, a, e
<1>7. /\ \A i \in 1 .. n - 1 : s[i] = r[i + 1]
      /\ s[n] = e
  BY <1>1, <1>4, <1>6, SMTT(20)
<1>8. \A f : In(s, f) <=> In(r, f)
  <2> SUFFICES ASSUME NEW f PROVE In(s, f) <=> In(r, f)
    OBVIOUS
  <2>1. ASSUME NEW i \in 1 .. n, s[i].fn = f PROVE \E j \in 1 .. n : r[j].fn = f
    <3>1. CASE i = n
      BY <1>1, <1>3, <1>7, <2>1, <3>1
    <3>2. CASE i # n
      <4>1. i \in 1 .. n - 1 /\ i + 1 \in 1 .. n
        BY <1>1, <3>2
      <4> QED
        BY <1>7, <2>1, <4>1
    <3> QED
      BY <3>1, <3>2
  <2>2. ASSUME NEW i \in 1 .. n, r[i].fn = f PROVE \E j \in 1 .. n : s[j].fn = f
    <3>1. CASE i = 1
      BY <1>1, <1>3, <1>7, <2>2, <3>1
    <3>2. CASE i # 1
      <4>1. i - 1 \in 1 .. n - 1 /\ i - 1 \in 1 .. n /\ (i - 1) + 1 = i
        BY <1>1, <3>2
      <4> QED
        BY <1>7, <2>2, <4>1
    <3> QED
      BY <3>1, <3>2
  <2> QED
    BY <1>6, <2>1, <2>2 DEF In
<1>9. \A i, j \in 1 .. Len(s) : s[i].fn = s[j].fn => i = j
  <2> SUFFICES ASSUME NEW i \in 1 .. n, NEW j \in 1 .. n, s[i].fn = s[j].fn
               PROVE  i = j
    BY <1>6
  <2> DEFINE Was(k) == IF k = n THEN 1 ELSE k + 1
  <2>1. \A k \in 1 .. n : Was(k) \in 1 .. n /\ s[k].fn = r[Was(k)].fn
    BY <1>1, <1>3, <1>7
  <2>2. Was(i) = Was(j)
    BY <2>1 DEF Sound
  <2> QED
    BY <1>1, <2>2
<1>10. Sound(s)
  BY <1>6, <1>8, <1>9 DEF Sound
<1> QED
  BY <1>8, <1>10 DEF s, a, e

\* The emission step leaves the ring when no intent is active.
LEMMA DisarmSound ==
  ASSUME NEW r, Sound(r), r # <<>>, Head(r).fn = Actuation
  PROVE  Sound(Tail(r)) /\ ~In(Tail(r), Actuation)
<1> DEFINE s == Tail(r)
           n == Len(r)
<1>1. /\ r \in Seq(Entries) /\ n \in Nat /\ n >= 1
      /\ r[1].fn = Actuation
      /\ s \in Seq(Entries)
      /\ Len(s) = n - 1
      /\ \A i \in 1 .. n - 1 : s[i] = r[i + 1]
  BY TailEntries DEF Sound
<1> HIDE DEF s
<1>2. \A i \in 1 .. n - 1 : i + 1 \in 1 .. n /\ i + 1 # 1
  BY <1>1
<1>3. \A i, j \in 1 .. n : r[i].fn = r[j].fn => i = j
  BY DEF Sound
<1>4. ~In(s, Actuation)
  <2> SUFFICES ASSUME NEW i \in 1 .. n - 1, s[i].fn = Actuation PROVE FALSE
    BY <1>1 DEF In
  <2>1. r[i + 1].fn = r[1].fn
    BY <1>1
  <2> QED
    BY <1>1, <1>2, <1>3, <2>1
<1>5. \A i, j \in 1 .. Len(s) : s[i].fn = s[j].fn => i = j
  <2> SUFFICES ASSUME NEW i \in 1 .. n - 1, NEW j \in 1 .. n - 1, s[i].fn = s[j].fn
               PROVE  i = j
    BY <1>1
  <2>1. r[i + 1].fn = r[j + 1].fn
    BY <1>1
  <2>2. i + 1 = j + 1
    BY <1>2, <1>3, <2>1
  <2> QED
    BY <2>2
<1>6. \A f \in Periodic : In(s, f)
  <2> SUFFICES ASSUME NEW f \in Periodic PROVE In(s, f)
    OBVIOUS
  <2>1. PICK i \in 1 .. n : r[i].fn = f
    BY DEF Sound, In
  <2>2. i # 1
    BY <1>1, <2>1, StartupAssumption
  <2>3. i - 1 \in 1 .. n - 1 /\ (i - 1) + 1 = i
    BY <1>1, <2>2
  <2>4. s[i - 1].fn = f
    BY <1>1, <2>1, <2>3
  <2> QED
    BY <1>1, <2>3, <2>4 DEF In
<1>7. In(r, Actuation)
  BY <1>1 DEF In
<1>8. Len(s) = Len(Startup)
  BY <1>1, <1>7, StartupLength DEF Sound
<1>9. Sound(s)
  BY <1>1, <1>4, <1>5, <1>6, <1>8, StartupLength DEF Sound
<1> QED
  BY <1>4, <1>9 DEF s

----------------------------------------------------------------------------
\* The parts of a tick.

LEMMA RingHasRoom ==
  ASSUME NEW r, Sound(r)
  PROVE  Len(r) \in Nat /\ Len(r) < MaxSteps
BY StartupLength, RingAssumption DEF Sound

\* A step's attempt to re-arm itself succeeds, within the window.
LEMMA RearmSucceeds ==
  ASSUME Sound(ring), NEW f \in Step, NEW run \in Nat, NEW late \in 0 .. MaxLate
  PROVE  \E w \in Nat : /\ Rearmed(f, run, late) = Append(ring, Entry(f, w))
                       /\ w <= run + late + StepBudget
<1>1. Len(ring) < MaxSteps
  BY RingHasRoom
<1>2. late \in {0, 1} /\ StepBudget \in Nat /\ StepBudget >= 1
  BY TimeAssumption, DelayAssumption
<1>3. /\ Delay[f] \in Nat /\ Delay[f] >= 1
      /\ Retry[f] \in RetryKind
      /\ Delay[f] > StepBudget => Retry[f] # "none"
  BY DelayAssumption
<1>4. CASE Delay[f] - late <= StepBudget
  <2>1. Accepts(ring, Delay[f] - late)
    BY <1>1, <1>2, <1>3, <1>4 DEF Accepts
  <2>2. Rearmed(f, run, late) = Append(ring, Entry(f, run + Delay[f]))
    BY <2>1 DEF Rearmed
  <2>3. run + Delay[f] \in Nat /\ run + Delay[f] <= run + late + StepBudget
    BY <1>2, <1>3, <1>4
  <2> QED
    BY <2>2, <2>3
<1>5. CASE ~(Delay[f] - late <= StepBudget)
  <2>1. ~Accepts(ring, Delay[f] - late)
    BY <1>2, <1>3, <1>5 DEF Accepts
  <2>2. Accepts(ring, 1) /\ Accepts(ring, 1 - late)
    BY <1>1, <1>2 DEF Accepts
  <2>3. Retry[f] \in {"fresh", "stale"}
    BY <1>2, <1>3, <1>5 DEF RetryKind
  <2>4. CASE Retry[f] = "fresh"
    <3>1. Rearmed(f, run, late) = Append(ring, Entry(f, run + late + 1))
      BY <2>1, <2>2, <2>4 DEF Rearmed
    <3>2. run + late + 1 \in Nat /\ run + late + 1 <= run + late + StepBudget
      BY <1>2
    <3> QED
      BY <3>1, <3>2
  <2>5. CASE Retry[f] = "stale"
    <3>1. Rearmed(f, run, late) = Append(ring, Entry(f, run + 1))
      BY <2>1, <2>2, <2>5 DEF Rearmed
    <3>2. run + 1 \in Nat /\ run + 1 <= run + late + StepBudget
      BY <1>2
    <3> QED
      BY <3>1, <3>2
  <2> QED
    BY <2>3, <2>4, <2>5
<1> QED
  BY <1>4, <1>5

\* The ring after a step that re-armed itself.
LEMMA RearmedSound ==
  ASSUME Sound(ring), Within(ring, StepBudget), ring # <<>>,
         NEW f \in Step, Head(ring).fn = f,
         NEW run \in Nat, NEW late \in 0 .. MaxLate,
         NEW next \in Nat, next >= run + late
  PROVE  LET r == Tail(Rearmed(f, run, late))
         IN  /\ Sound(r)
             /\ Within(r, StepBudget + next)
             /\ \A g : In(r, g) <=> In(ring, g)
<1>1. PICK w \in Nat : /\ Rearmed(f, run, late) = Append(ring, Entry(f, w))
                       /\ w <= run + late + StepBudget
  BY RearmSucceeds
<1> DEFINE e == Entry(f, w)
           a == Append(ring, e)
           r == Tail(a)
           n == Len(ring)
<1>2. Sound(r) /\ \A g : In(r, g) <=> In(ring, g)
  BY RotateSound
<1>3. ring \in Seq(Entries) /\ n \in Nat /\ e \in Entries /\ e.wait = w
  BY DEF Sound, Entry, Entries
<1>4. /\ a \in Seq(Entries) /\ Len(a) = n + 1
      /\ \A i \in 1 .. n : a[i] = ring[i]
      /\ a[n + 1] = e
  BY <1>3, AppendEntries
<1>5. a # <<>>
  BY <1>3, <1>4
<1>6. Len(r) = n /\ \A i \in 1 .. n : r[i] = a[i + 1]
  BY <1>3, <1>4, <1>5, TailEntries
<1>7. StepBudget \in Nat /\ late \in Nat
  BY DelayAssumption, TimeAssumption
<1>8. \A i \in 1 .. n : ring[i].wait \in Nat /\ ring[i].wait <= StepBudget
  <2>1. \A i \in 1 .. n : ring[i] \in Entries
    BY <1>3
  <2> QED
    BY <2>1 DEF Within, Entries
<1> HIDE DEF r, a, e
<1>9. Within(r, StepBudget + next)
  <2> SUFFICES ASSUME NEW i \in 1 .. n PROVE r[i].wait <= StepBudget + next
    BY <1>6 DEF Within
  <2>1. CASE i = n
    <3>1. r[i].wait = w
      BY <1>3, <1>4, <1>6, <2>1
    <3> QED
      BY <1>1, <1>7, <3>1
  <2>2. CASE i # n
    <3>1. i + 1 \in 1 .. n
      BY <1>3, <2>2
    <3>2. r[i] = ring[i + 1]
      BY <1>4, <1>6, <3>1
    <3> QED
      BY <1>7, <1>8, <3>1, <3>2
  <2> QED
    BY <2>1, <2>2
<1> QED
  BY <1>1, <1>2, <1>9 DEF r, a, e

\* The safety boundary keeps the ring sound and takes no step out of it.
LEMMA BoundaryKeeps ==
  ASSUME NEW r, Sound(r),
         NEW arm \in BOOLEAN, In(r, Actuation) => arm,
         NEW spent \in Nat, NEW next \in Nat, Within(r, StepBudget + next),
         SafetyBoundary(r, arm, spent, next)
  PROVE  /\ Sound(ring')
         /\ Within(ring', StepBudget)
         /\ armed' \in BOOLEAN /\ active' \in BOOLEAN
         /\ In(ring', Actuation) => armed'
         /\ In(r, Actuation) => In(ring', Actuation)
<1>1. /\ active' \in BOOLEAN
      /\ armed' = (arm \/ active')
      /\ ring' = Later(IF active' /\ ~arm /\ Accepts(r, 1 - spent)
                       THEN Append(r, Entry(Actuation, 1)) ELSE r, next)
  BY DEF SafetyBoundary
<1>2. armed' \in BOOLEAN
  BY <1>1
<1>3. StepBudget \in Nat /\ StepBudget >= 1
  BY DelayAssumption
<1>4. Len(r) \in Nat /\ Len(r) < MaxSteps
  BY RingHasRoom
<1>5. CASE active' /\ ~arm /\ Accepts(r, 1 - spent)
  <2> DEFINE e == Entry(Actuation, 1)
             s == Append(r, e)
  <2>1. ~In(r, Actuation)
    BY <1>5
  <2>2. Sound(s) /\ In(s, Actuation)
    BY <2>1, ArmSound
  <2>3. r \in Seq(Entries) /\ e \in Entries /\ e.wait = 1
    BY DEF Sound, Entry, Entries, Step
  <2>4. /\ Len(s) = Len(r) + 1
        /\ \A i \in 1 .. Len(r) : s[i] = r[i]
        /\ s[Len(r) + 1] = e
    BY <2>3, AppendEntries
  <2> HIDE DEF s, e
  <2>5. Within(s, StepBudget + next)
    BY <1>3, <1>4, <2>3, <2>4 DEF Within
  <2>6. ring' = Later(s, next)
    BY <1>1, <1>5 DEF s, e
  <2>7. Sound(ring') /\ Within(ring', StepBudget) /\ In(ring', Actuation)
    BY <1>3, <2>2, <2>5, <2>6, LaterSound
  <2> QED
    BY <1>1, <1>2, <1>5, <2>7
<1>6. CASE ~(active' /\ ~arm /\ Accepts(r, 1 - spent))
  <2>1. ring' = Later(r, next)
    BY <1>1, <1>6
  <2>2. /\ Sound(ring') /\ Within(ring', StepBudget)
        /\ In(ring', Actuation) <=> In(r, Actuation)
    BY <1>3, <2>1, LaterSound
  <2> QED
    BY <1>1, <1>2, <2>2
<1> QED
  BY <1>5, <1>6

----------------------------------------------------------------------------
\* The invariant.

LEMMA InitSound ==
  Init => IInv
<1> SUFFICES ASSUME Init PROVE IInv
  OBVIOUS
<1> USE DEF Init
<1> DEFINE n == Len(Startup)
<1>1. n \in Nat /\ \A i \in 1 .. n : Startup[i] \in Periodic
  BY StartupAssumption
<1>2. \A i \in 1 .. n : ring[i] \in Entries /\ ring[i].wait <= 1
  BY DEF Entries, Step
<1>3. ring = [i \in 1 .. n |-> ring[i]]
  OBVIOUS
<1>4. ring \in Seq(Entries) /\ Len(ring) = n
  BY <1>1, <1>2, <1>3
<1>5. \A i, j \in 1 .. n : ring[i].fn = ring[j].fn => i = j
  BY StartupAssumption
<1>6. \A f \in Periodic : In(ring, f)
  BY <1>4 DEF In, Periodic
<1>7. ~In(ring, Actuation)
  BY <1>1, <1>4, StartupAssumption DEF In
<1>8. Sound(ring)
  BY <1>1, <1>4, <1>5, <1>6, <1>7 DEF Sound
<1>9. Within(ring, StepBudget)
  BY <1>2, <1>4, DelayAssumption DEF Within
<1>10. TypeOK
  <2>1. Len(ring) <= MaxSteps
    BY <1>8, RingHasRoom, RingAssumption
  <2> QED
    BY <1>4, <2>1 DEF TypeOK, Entries
<1> QED
  BY <1>7, <1>8, <1>9, <1>10 DEF IInv

\* What a tick's step leaves to the safety boundary.
HandedOver(r, arm, next) ==
    /\ Sound(r)
    /\ Within(r, StepBudget + next)
    /\ arm \in BOOLEAN
    /\ In(r, Actuation) => arm

LEMMA IdleKeeps ==
  ASSUME IInv, NEW next \in Nat
  PROVE  HandedOver(ring, armed, next)
<1>1. ring \in Seq(Entries) /\ StepBudget \in Nat
  BY DelayAssumption DEF IInv, Sound
<1>2. \A i \in 1 .. Len(ring) : ring[i] \in Entries
  BY <1>1
<1>3. Within(ring, StepBudget + next)
  BY <1>1, <1>2 DEF IInv, Within, Entries
<1> QED
  BY <1>3 DEF IInv, TypeOK, HandedOver

LEMMA PeriodicKeeps ==
  ASSUME IInv, Due, NEW f \in Step, Head(ring).fn = f,
         NEW run \in Nat, NEW late \in 0 .. MaxLate,
         NEW next \in Nat, next >= run + late
  PROVE  /\ HandedOver(Tail(Rearmed(f, run, late)), armed, next)
         /\ In(Tail(Rearmed(f, run, late)), Actuation) <=> In(ring, Actuation)
<1>1. /\ Sound(Tail(Rearmed(f, run, late)))
      /\ Within(Tail(Rearmed(f, run, late)), StepBudget + next)
      /\ \A g : In(Tail(Rearmed(f, run, late)), g) <=> In(ring, g)
  BY RearmedSound DEF IInv, Due
<1> QED
  BY <1>1 DEF IInv, TypeOK, HandedOver

LEMMA DisarmKeeps ==
  ASSUME IInv, Due, Head(ring).fn = Actuation, NEW next \in Nat
  PROVE  HandedOver(Tail(ring), FALSE, next)
<1>1. Sound(Tail(ring)) /\ ~In(Tail(ring), Actuation)
  BY DisarmSound DEF IInv, Due
<1>2. /\ ring \in Seq(Entries) /\ Len(ring) \in Nat /\ StepBudget \in Nat
      /\ Len(Tail(ring)) = Len(ring) - 1
      /\ \A i \in 1 .. Len(ring) - 1 : Tail(ring)[i] = ring[i + 1]
  BY TailEntries, DelayAssumption DEF IInv, Sound, Due
<1>3. \A i \in 1 .. Len(ring) : ring[i].wait \in Nat /\ ring[i].wait <= StepBudget
  <2>1. \A i \in 1 .. Len(ring) : ring[i] \in Entries
    BY <1>2
  <2> QED
    BY <2>1 DEF IInv, Within, Entries
<1>4. Within(Tail(ring), StepBudget + next)
  <2> SUFFICES ASSUME NEW i \in 1 .. Len(ring) - 1
               PROVE  Tail(ring)[i].wait <= StepBudget + next
    BY <1>2 DEF Within
  <2>1. i + 1 \in 1 .. Len(ring) /\ Tail(ring)[i] = ring[i + 1]
    BY <1>2
  <2> QED
    BY <1>2, <1>3, <2>1
<1> QED
  BY <1>1, <1>4 DEF HandedOver

\* Every tick is a safety boundary over what its step handed over; while an
\* intent is active none of it removes the emission step.
LEMMA TickKeeps ==
  ASSUME IInv, Next
  PROVE  /\ IInv'
         /\ active /\ In(ring, Actuation) => In(ring', Actuation)
<1>1. PICK run \in 0 .. MaxRun, late \in 0 .. MaxLate, next \in 1 .. MaxNext :
        \/ IdleTick(late, next)
        \/ \E f \in Periodic : PeriodicTick(f, run, late, next)
        \/ EmissionTick(run, late, next)
  BY DEF Next
<1>2. run \in Nat /\ late \in Nat /\ next \in Nat
  BY TimeAssumption
<1> DEFINE Kept ==
      /\ Sound(ring')
      /\ Within(ring', StepBudget)
      /\ armed' \in BOOLEAN /\ active' \in BOOLEAN
      /\ In(ring', Actuation) => armed'
      /\ active /\ In(ring, Actuation) => In(ring', Actuation)
      /\ gate' \in Nat /\ last' \in Step \cup {Nothing} /\ sent' \in BOOLEAN
<1>3. \A t \in Nat : Left(t, next) \in Nat
  BY <1>2 DEF Left
<1>4. gate \in Nat /\ TxGate \in Nat /\ active \in BOOLEAN /\ armed \in BOOLEAN
  BY TimeAssumption DEF IInv, TypeOK
<1>5. ASSUME IdleTick(late, next) PROVE Kept
  <2>1. HandedOver(ring, armed, next)
    BY <1>2, IdleKeeps
  <2>2. SafetyBoundary(ring, armed, late, next)
    BY <1>5 DEF IdleTick
  <2>3. /\ Sound(ring') /\ Within(ring', StepBudget)
        /\ armed' \in BOOLEAN /\ active' \in BOOLEAN
        /\ In(ring', Actuation) => armed'
        /\ In(ring, Actuation) => In(ring', Actuation)
    BY <1>2, <2>1, <2>2, BoundaryKeeps DEF HandedOver
  <2>4. gate' \in Nat /\ last' \in Step \cup {Nothing} /\ sent' \in BOOLEAN
    BY <1>3, <1>4, <1>5 DEF IdleTick
  <2> QED
    BY <1>2, <2>3, <2>4
<1>6. ASSUME \E f \in Periodic : PeriodicTick(f, run, late, next) PROVE Kept
  <2>1. PICK f \in Periodic : PeriodicTick(f, run, late, next)
    BY <1>6
  <2> DEFINE r == Tail(Rearmed(f, run, late))
  <2>2. /\ f \in Step /\ Due /\ Head(ring).fn = f /\ next >= run + late
        /\ SafetyBoundary(r, armed, run + late, next)
    BY <2>1 DEF PeriodicTick, Times, Step
  <2>3. HandedOver(r, armed, next) /\ (In(r, Actuation) <=> In(ring, Actuation))
    BY <1>2, <2>2, PeriodicKeeps
  <2> HIDE DEF r
  <2>4. /\ Sound(ring') /\ Within(ring', StepBudget)
        /\ armed' \in BOOLEAN /\ active' \in BOOLEAN
        /\ In(ring', Actuation) => armed'
        /\ In(r, Actuation) => In(ring', Actuation)
    BY <1>2, <2>2, <2>3, BoundaryKeeps DEF HandedOver
  <2>5. gate' \in Nat /\ last' \in Step \cup {Nothing} /\ sent' \in BOOLEAN
    BY <1>3, <1>4, <2>1, <2>2 DEF PeriodicTick
  <2> QED
    BY <1>2, <2>3, <2>4, <2>5
<1>7. ASSUME EmissionTick(run, late, next) PROVE Kept
  <2> DEFINE r == Tail(IF active THEN Rearmed(Actuation, run, late) ELSE ring)
             arm == active /\ armed
  <2>1. /\ Actuation \in Step /\ Due /\ Head(ring).fn = Actuation
        /\ next >= run + late
        /\ SafetyBoundary(r, arm, run + late, next)
    BY <1>7 DEF EmissionTick, Times, Step
  <2>2. HandedOver(r, arm, next)
        /\ (active /\ In(ring, Actuation) => In(r, Actuation))
    <3>1. CASE active
      <4>1. r = Tail(Rearmed(Actuation, run, late)) /\ arm = armed
        BY <1>4, <3>1
      <4>2. /\ HandedOver(Tail(Rearmed(Actuation, run, late)), armed, next)
            /\ In(Tail(Rearmed(Actuation, run, late)), Actuation)
                 <=> In(ring, Actuation)
        BY <1>2, <2>1, PeriodicKeeps
      <4> QED
        BY <4>1, <4>2
    <3>2. CASE ~active
      <4>1. r = Tail(ring) /\ arm = FALSE
        BY <1>4, <3>2
      <4>2. HandedOver(Tail(ring), FALSE, next)
        BY <1>2, <2>1, DisarmKeeps
      <4> QED
        BY <3>2, <4>1, <4>2
    <3> QED
      BY <3>1, <3>2
  <2> HIDE DEF r, arm
  <2>3. /\ Sound(ring') /\ Within(ring', StepBudget)
        /\ armed' \in BOOLEAN /\ active' \in BOOLEAN
        /\ In(ring', Actuation) => armed'
        /\ In(r, Actuation) => In(ring', Actuation)
    BY <1>2, <2>1, <2>2, BoundaryKeeps DEF HandedOver
  <2>4. (IF active /\ gate = 0 THEN TxGate ELSE gate) \in Nat
    BY <1>4
  <2>5. gate' \in Nat /\ last' \in Step \cup {Nothing} /\ sent' \in BOOLEAN
    BY <1>3, <1>4, <1>7, <2>1, <2>4 DEF EmissionTick
  <2> QED
    BY <1>2, <2>2, <2>3, <2>5
<1>8. Kept
  BY <1>1, <1>5, <1>6, <1>7
<1> HIDE DEF Kept
<1>9. TypeOK'
  <2>1. ring' \in Seq([fn : Step, wait : Nat]) /\ Len(ring') <= MaxSteps
    BY <1>8, RingHasRoom, RingAssumption DEF Kept, Sound, Entries
  <2> QED
    BY <1>8, <2>1 DEF Kept, TypeOK
<1> QED
  BY <1>8, <1>9 DEF Kept, IInv

LEMMA StutterKeeps ==
  ASSUME UNCHANGED vars
  PROVE  (IInv => IInv') /\ (In(ring, Actuation) => In(ring', Actuation))
BY DEF vars, IInv, TypeOK, Sound, Within, In

\* The inductive invariant holds of every tick: the ring keeps every periodic
\* step once, within the window, and an emission step in it counts as armed.
THEOREM Invariance == Spec => []IInv
<1>1. Init => IInv
  BY InitSound
<1>2. IInv /\ [Next]_vars => IInv'
  BY TickKeeps, StutterKeeps
<1> QED
  BY <1>1, <1>2, PTL DEF Spec

\* Every variable has its type and the ring never exceeds its capacity.
THEOREM TypeCorrect == Spec => []TypeOK
<1>1. IInv => TypeOK
  BY DEF IInv
<1> QED
  BY <1>1, Invariance, PTL

\* No periodic step dies: each is in the ring between any two ticks, for any
\* duration of steps.
THEOREM StepsNeverDie == Spec => []StepsAlive
<1>1. IInv => StepsAlive
  BY DEF IInv, Sound, In, StepsAlive, Scheduled
<1> QED
  BY <1>1, Invariance, PTL

\* No step is scheduled twice.
THEOREM NoDoubleSchedule == Spec => []ScheduledOnce
<1>1. IInv => ScheduledOnce
  BY DEF IInv, Sound, ScheduledOnce
<1> QED
  BY <1>1, Invariance, PTL

\* A blocking head delays the ring by no more than the step budget.
THEOREM BlockIsBounded == Spec => []BlockBounded
<1>1. IInv => BlockBounded
  BY DEF IInv, Within, BlockBounded
<1> QED
  BY <1>1, Invariance, PTL

\* However long steps take and however late the clock is read: while an
\* intent is active actuation_step() never ends the emission, nor does any
\* other step; what is scheduled stays scheduled.
THEOREM EmissionKept == Spec => EmissionStays
<1>1. IInv /\ [Next]_vars =>
         [active /\ Scheduled(Actuation) => Scheduled(Actuation)']_vars
  <2> SUFFICES ASSUME IInv, [Next]_vars, active, In(ring, Actuation)
               PROVE  In(ring', Actuation)
    BY DEF In, Scheduled
  <2> QED
    BY TickKeeps, StutterKeeps
<1> QED
  BY <1>1, Invariance, PTL DEF Spec, EmissionStays
=============================================================================
