--------------------------- MODULE AdmissionProofs ---------------------------
(***************************************************************************)
(* Proofs about Admission, for every ledger, queue and set of frames.      *)
(***************************************************************************)
EXTENDS Admission, SequenceTheorems, FiniteSetTheorems, TLAPS

----------------------------------------------------------------------------
\* The inductive invariant.

Entries == [key : Keys, payload : Payloads, result : Outcomes]

\* The ledger has a ring for every authority that may be granted.
Ringed == \A a \in Authority : a < MaxPrincipals

QueueInv ==
    /\ working \in Seq(Frames) /\ Len(working) <= ControlCapacity
    /\ reserve \in Seq(Frames) /\ Len(reserve) <= ControlReserve

RuntimeInv ==
    /\ live \subseteq OpIds /\ Cardinality(live) <= MaxActiveInstances
    /\ ops \in [live -> Operation]
    /\ \A o \in live : ops[o].ancestors \subseteq live
    /\ lastId \in OpIds \cup {0} /\ given \in 0 .. IdModulus

\* An entry's request was acceptable as such.
Sound(e) ==
    /\ e.key.epoch = epoch /\ e.key.authority = grant /\ grant # 0
    /\ RoleAllowed(e.payload.role)
    /\ e.payload.type \in DOMAIN Types
    /\ e.payload.parent = 0 => Types[e.payload.type].root_allowed
    /\ ~(e.payload.params > Types[e.payload.type].params_max)
    /\ e.payload.parent # 0 => Types[e.payload.type].child_allowed

Indices == 1 .. Len(ring)

LedgerInv ==
    /\ ring \in Seq(Entries) /\ Len(ring) <= DepthPerPrincipal
    /\ forgotten \subseteq Keys
    /\ \A i \in Indices : Sound(ring[i])
    /\ \A i, j \in Indices : ring[i].key = ring[j].key => i = j

BootInv == epoch \in 1 .. MaxEpoch /\ grant \in Authority \cup {0}

TypeInv == BootInv /\ QueueInv /\ RuntimeInv /\ LedgerInv

\* A live operation of a request is named by the decision that started it, or
\* that decision has been pushed out of the ring.
Remembered ==
    \A o \in live : ops[o].key # NoRequest =>
        \/ ops[o].key \in forgotten
        \/ \E i \in Indices : ring[i].key = ops[o].key /\ ring[i].result.op = o

NamesTrue ==
    given < IdModulus =>
        \A i \in Indices :
            ring[i].result.op \in live => ops[ring[i].result.op].key = ring[i].key

\* Until the ids have been given out once, they are in turn, and no operation
\* and no decision knows one that is still to come.
FirstLap ==
    given < IdModulus =>
        /\ lastId = given
        /\ \A o \in live : o <= lastId
        /\ \A i \in Indices : ring[i].result.op <= lastId

MemoryInv == Remembered /\ NamesTrue /\ FirstLap

----------------------------------------------------------------------------
\* Requests, outcomes and entries.

LEMMA StaticRejectCodes == \A r : StaticReject(r) \in StaticCodes \cup {"None"}
BY DEF StaticReject, StaticCodes

LEMMA DynamicRejectCodes == \A r, g : DynamicReject(r, g) \in DynamicCodes \cup {"None"}
<1> SUFFICES ASSUME NEW r, NEW g PROVE DynamicReject(r, g) \in DynamicCodes \cup {"None"}
  OBVIOUS
<1>1. ExclusiveReject(g) \in DynamicCodes \cup {"None"}
  BY DEF ExclusiveReject, DynamicCodes
<1>2. \A t : RootReject(t, g) \in DynamicCodes \cup {"None"}
  BY <1>1 DEF RootReject, DynamicCodes
<1>3. \A t, p : ChildReject(t, p) \in DynamicCodes \cup {"None"}
  BY DEF ChildReject, DynamicCodes
<1>4. QED
  BY <1>2, <1>3 DEF DynamicReject

\* What steps 1 to 4 of admit() establish.
LEMMA StaticNone ==
  ASSUME NEW r, StaticReject(r) = "None"
  PROVE  /\ r.epoch = epoch /\ grant # 0 /\ r.authority = grant
         /\ RoleAllowed(r.role) /\ r.type \in DOMAIN Types
         /\ r.parent = 0 => Types[r.type].root_allowed
         /\ ~(r.params > Types[r.type].params_max)
         /\ r.parent # 0 => Types[r.type].child_allowed
BY DEF StaticReject

\* And nothing else: a request with these properties passes them.
LEMMA StaticPass ==
  ASSUME NEW r, r.epoch = epoch, grant # 0, r.authority = grant,
         RoleAllowed(r.role), r.type \in DOMAIN Types,
         r.parent = 0 => Types[r.type].root_allowed,
         ~(r.params > Types[r.type].params_max),
         r.parent # 0 => Types[r.type].child_allowed
  PROVE  StaticReject(r) = "None"
BY DEF StaticReject

LEMMA OutcomeTypes ==
  /\ \A c \in DynamicCodes : Rejected(c) \in Outcomes
  /\ \A o \in OpIds : Accepted(o) \in Outcomes
BY DEF Outcomes

LEMMA OutcomeOp == \A u \in Outcomes : u.op \in OpIds \cup {0}
BY DEF Outcomes, Accepted, Rejected

LEMMA ResultOps ==
  /\ \A o : Accepted(o).op = o
  /\ \A c : Rejected(c).op = 0
BY DEF Accepted, Rejected

\* The key of a request that was authorized is the key its entry has.
LEMMA EntryIs ==
  ASSUME NEW r \in Requests, NEW u, StaticReject(r) = "None"
  PROVE  Entry(r, u) = [key |-> KeyOf(r), payload |-> Fingerprint(r), result |-> u]
BY StaticNone DEF Entry, KeyOf

LEMMA EntryType ==
  ASSUME NEW r \in Requests, NEW u \in Outcomes, StaticReject(r) = "None"
  PROVE  /\ Entry(r, u) \in Entries
         /\ Entry(r, u).key = KeyOf(r) /\ Entry(r, u).result = u
         /\ Sound(Entry(r, u))
<1>1. Entry(r, u) = [key |-> KeyOf(r), payload |-> Fingerprint(r), result |-> u]
  BY EntryIs
<1>2. KeyOf(r) \in Keys /\ Fingerprint(r) \in Payloads
  BY DEF Keys, Payloads
<1>3. Entry(r, u) \in Entries
  BY <1>1, <1>2 DEF Entries
<1>4. /\ Entry(r, u).key.epoch = epoch /\ Entry(r, u).key.authority = grant
  BY DEF Entry
<1>5. /\ Entry(r, u).payload.role = r.role /\ Entry(r, u).payload.type = r.type
      /\ Entry(r, u).payload.parent = r.parent /\ Entry(r, u).payload.params = r.params
  BY DEF Entry, Fingerprint
<1>6. Sound(Entry(r, u))
  BY <1>4, <1>5, StaticNone DEF Sound
<1>7. QED
  BY <1>1, <1>3, <1>6

LEMMA LookupEmpty ==
  ASSUME NEW r, StaticReject(r) = "None", Lookup(r) = {}
  PROVE  \A i \in Indices : ring[i].key # KeyOf(r)
BY StaticNone DEF Lookup, HasEntry, KeyOf, Indices

----------------------------------------------------------------------------
\* The ring after store(): k = 1 if the oldest entry made room.

Stored(e, k) ==
    /\ k \in {0, 1} /\ k <= Len(ring)
    /\ ring' \in Seq(Entries) /\ Len(ring') = Len(ring) + 1 - k
    /\ Len(ring') <= DepthPerPrincipal
    /\ \A i \in 1 .. Len(ring) - k : ring'[i] = ring[i + k]
    /\ ring'[Len(ring')] = e
    /\ k = 0 => forgotten' = forgotten
    /\ k = 1 => forgotten' = forgotten \cup {ring[1].key}

LEMMA StoreIs ==
  ASSUME LedgerInv, NEW e \in Entries, Store(e), ~(grant >= MaxPrincipals)
  PROVE  \E k \in {0, 1} : Stored(e, k)
<1> USE DEF LedgerInv
<1>0. Len(ring) \in Nat /\ DepthPerPrincipal \in Nat /\ DepthPerPrincipal > 0
  BY LenProperties, LedgerAssumption
<1>1. CASE Len(ring) < DepthPerPrincipal
  <2>1. ring' = Append(ring, e) /\ forgotten' = forgotten
    BY <1>1 DEF Store, ledger
  <2>2. Stored(e, 0)
    <3>1. /\ ring' \in Seq(Entries) /\ Len(ring') = Len(ring) + 1
          /\ \A i \in 1 .. Len(ring) : ring'[i] = ring[i]
          /\ ring'[Len(ring) + 1] = e
      BY <2>1, AppendProperties
    <3>2. QED
      BY <1>0, <1>1, <2>1, <3>1 DEF Stored
  <2>3. QED
    BY <2>2
<1>2. CASE ~(Len(ring) < DepthPerPrincipal)
  <2>1. ring' = Append(Tail(ring), e) /\ forgotten' = forgotten \cup {Head(ring).key}
    BY <1>2 DEF Store
  <2>2. ring # <<>> /\ Len(ring) > 0
    BY <1>0, <1>2, EmptySeq
  <2>3. /\ Tail(ring) \in Seq(Entries) /\ Len(Tail(ring)) = Len(ring) - 1
        /\ \A i \in 1 .. Len(ring) - 1 : Tail(ring)[i] = ring[i + 1]
    BY <2>2, HeadTailProperties
  <2>4. Head(ring) = ring[1]
    BY <2>2
  <2>5. /\ ring' \in Seq(Entries) /\ Len(ring') = Len(ring)
        /\ \A i \in 1 .. Len(ring) - 1 : ring'[i] = ring[i + 1]
        /\ ring'[Len(ring)] = e
    <3>1. /\ ring' \in Seq(Entries) /\ Len(ring') = Len(Tail(ring)) + 1
          /\ \A i \in 1 .. Len(Tail(ring)) : ring'[i] = Tail(ring)[i]
          /\ ring'[Len(Tail(ring)) + 1] = e
      BY <2>1, <2>3, AppendProperties
    <3>2. QED
      BY <1>0, <2>3, <3>1
  <2>6. Stored(e, 1)
    BY <1>0, <1>2, <2>1, <2>2, <2>4, <2>5 DEF Stored
  <2>7. QED
    BY <2>6
<1>3. QED
  BY <1>1, <1>2

\* Entries that are no longer the last ones keep their places in the order.
LEMMA StoredLedger ==
  ASSUME LedgerInv, NEW e \in Entries, NEW k \in {0, 1}, Stored(e, k), Sound(e),
         \A i \in Indices : ring[i].key # e.key, UNCHANGED <<epoch, grant>>
  PROVE  LedgerInv'
<1> USE DEF LedgerInv, Indices
<1>0. Len(ring) \in Nat /\ Len(ring') \in Nat /\ Len(ring') = Len(ring) + 1 - k /\ k <= Len(ring)
  BY LenProperties DEF Stored
<1>1. \A i \in Indices' : \/ i = Len(ring') /\ ring'[i] = e
                          \/ i \in 1 .. Len(ring) - k /\ i + k \in Indices /\ ring'[i] = ring[i + k]
  BY <1>0 DEF Stored
<1>2. \A x : Sound(x) => Sound(x)'
  BY DEF Sound
<1>3. \A i \in Indices' : Sound(ring[i])'
  <2> SUFFICES ASSUME NEW i \in Indices' PROVE Sound(ring[i])'
    OBVIOUS
  <2>1. Sound(ring'[i])
    BY <1>1
  <2>2. QED
    BY <2>1 DEF Sound
<1>4. ASSUME NEW i \in Indices', NEW j \in Indices', ring'[i].key = ring'[j].key
      PROVE  i = j
  BY <1>0, <1>1, <1>4, SMTT(20)
<1>5. forgotten' \subseteq Keys
  <2>1. k = 1 => ring[1] \in Entries
    BY <1>0, ElementOfSeq
  <2>2. k = 1 => ring[1].key \in Keys
    BY <2>1 DEF Entries
  <2>3. QED
    BY <2>2 DEF Stored
<1>6. ring' \in Seq(Entries) /\ Len(ring') <= DepthPerPrincipal
  BY DEF Stored
<1>7. QED
  BY <1>3, <1>4, <1>5, <1>6

LEMMA StoreLedger ==
  ASSUME LedgerInv, NEW e \in Entries, Store(e), Sound(e),
         \A i \in Indices : ring[i].key # e.key, UNCHANGED <<epoch, grant>>
  PROVE  LedgerInv'
<1>1. CASE grant >= MaxPrincipals
  <2>1. UNCHANGED ledger
    BY <1>1 DEF Store
  <2>2. QED
    BY <2>1 DEF ledger, LedgerInv, Indices, Sound
<1>2. CASE ~(grant >= MaxPrincipals)
  BY <1>2, StoreIs, StoredLedger
<1>3. QED
  BY <1>1, <1>2

----------------------------------------------------------------------------
\* The runtime.

LEMMA OpIdsFinite == IsFiniteSet(OpIds) /\ Cardinality(OpIds) = IdModulus - 1
<1>1. IdModulus \in Nat /\ IdModulus > 1
  BY RuntimeAssumption, LedgerAssumption
<1>2. IsFiniteSet(1 .. IdModulus - 1) /\ Cardinality(1 .. IdModulus - 1) = IdModulus - 1
  BY <1>1, FS_Interval
<1>3. QED
  BY <1>2 DEF OpIds

LEMMA LiveFinite == RuntimeInv => IsFiniteSet(live) /\ Cardinality(live) \in Nat
BY OpIdsFinite, FS_Subset, FS_CardinalityType DEF RuntimeInv

LEMMA NotFull ==
  ASSUME NEW r, NEW g, RuntimeInv, DynamicReject(r, g) = "None"
  PROVE  Cardinality(live) < MaxActiveInstances
<1>1. ~Full
  BY DEF DynamicReject, RootReject, ChildReject
<1>2. QED
  BY <1>1, LiveFinite, RuntimeAssumption DEF Full

\* What a new operation does, whoever asked for it.
Adds(id) ==
    /\ live' = live \cup {id} /\ \A o \in live : ops'[o] = ops[o]
    /\ lastId' = id
    /\ given' = IF given < IdModulus THEN given + 1 ELSE given

LEMMA AddRuntime ==
  ASSUME RuntimeInv, NEW id \in OpIds, id \notin live, NEW new \in Operation,
         new.ancestors \subseteq live, Cardinality(live) < MaxActiveInstances,
         Add(id, new)
  PROVE  RuntimeInv' /\ Adds(id) /\ ops'[id] = new
<1> USE DEF RuntimeInv
<1>1. ops' = [o \in live \cup {id} |-> IF o = id THEN new ELSE ops[o]] /\ lastId' = id
  BY DEF Add
<1>2. live' = live \cup {id} /\ ops'[id] = new /\ \A o \in live : ops'[o] = ops[o]
  BY <1>1 DEF live
<1>3. Cardinality(live') <= MaxActiveInstances
  <2>1. Cardinality(live \cup {id}) = Cardinality(live) + 1
    BY LiveFinite, FS_AddElement
  <2>2. QED
    BY <1>2, <2>1, LiveFinite, RuntimeAssumption
<1>4. ops' \in [live' -> Operation]
  BY <1>1, <1>2
<1>5. \A o \in live' : ops'[o].ancestors \subseteq live'
  BY <1>2
<1>6. given' \in 0 .. IdModulus
  BY RuntimeAssumption DEF Add
<1>7. Adds(id)
  BY <1>1, <1>2 DEF Adds, Add
<1>8. QED
  BY <1>1, <1>2, <1>3, <1>4, <1>5, <1>6, <1>7

LEMMA CreateRuntime ==
  ASSUME NEW r \in Requests, NEW g, NEW id \in OpIds, RuntimeInv, BootInv,
         StaticReject(r) = "None", DynamicReject(r, g) = "None",
         id \notin live, Create(r, id), UNCHANGED <<epoch, grant>>
  PROVE  RuntimeInv' /\ Adds(id) /\ ops'[id].key = KeyOf(r)
<1> DEFINE new == [key |-> KeyOf(r), owner |-> grant,
                   exclusive |-> r.parent = 0 /\ Types[r.type].exclusive,
                   ancestors |-> IF r.parent = 0 THEN {}
                                 ELSE ops[r.parent].ancestors \cup {r.parent},
                   stopping |-> FALSE]
<1>1. Add(id, new)
  BY DEF Create
<1>2. r.parent # 0 => r.parent \in live /\ ops[r.parent].ancestors \subseteq live
  BY DEF DynamicReject, ChildReject, RuntimeInv
<1>3. new.ancestors \subseteq live
  <2>1. CASE r.parent = 0
    BY <2>1
  <2>2. CASE r.parent # 0
    BY <1>2, <2>2
  <2>3. QED
    BY <2>1, <2>2
<1>4. new \in Operation
  <2>1. KeyOf(r) \in Keys \cup {NoRequest} /\ grant \in Authority
    BY StaticNone DEF Keys, BootInv
  <2>2. (r.parent = 0 /\ Types[r.type].exclusive) \in BOOLEAN
    OBVIOUS
  <2>3. (IF r.parent = 0 THEN {} ELSE ops[r.parent].ancestors \cup {r.parent}) \in SUBSET OpIds
    BY <1>3 DEF RuntimeInv
  <2>4. QED
    BY <2>1, <2>2, <2>3 DEF Operation
<1>5. new.key = KeyOf(r)
  OBVIOUS
<1> HIDE DEF new
<1>6. Cardinality(live) < MaxActiveInstances
  BY NotFull
<1>7. RuntimeInv' /\ Adds(id) /\ ops'[id] = new
  BY <1>1, <1>3, <1>4, <1>6, AddRuntime
<1>8. QED
  BY <1>5, <1>7

\* A driver's spawn is bounded by the same instances and ids.
LEMMA SpawnRuntime ==
  ASSUME NEW p \in live, RuntimeInv, RuntimeSpawns(p)
  PROVE  /\ RuntimeInv'
         /\ \E id \in OpIds : NextOpId(id) /\ Adds(id) /\ ops'[id].key = NoRequest
<1> DEFINE new == [key |-> NoRequest, owner |-> ops[p].owner, exclusive |-> FALSE,
                   ancestors |-> ops[p].ancestors \cup {p}, stopping |-> FALSE]
<1>1. PICK id \in OpIds : NextOpId(id) /\ Add(id, new)
  BY DEF RuntimeSpawns
<1>2. ops[p] \in Operation /\ ops[p].ancestors \subseteq live /\ live \subseteq OpIds
  BY DEF RuntimeInv
<1>3. new.ancestors \subseteq live
  BY <1>2
<1>4. new \in Operation
  <2>1. ops[p].owner \in Authority
    BY <1>2 DEF Operation
  <2>2. ops[p].ancestors \cup {p} \in SUBSET OpIds
    BY <1>2
  <2>3. QED
    BY <2>1, <2>2 DEF Operation
<1>5. Cardinality(live) < MaxActiveInstances
  BY LiveFinite, RuntimeAssumption DEF RuntimeSpawns, Full
<1>6. new.key = NoRequest
  OBVIOUS
<1>7. id \notin live
  BY <1>1 DEF NextOpId
<1> HIDE DEF new
<1>8. RuntimeInv' /\ Adds(id) /\ ops'[id] = new
  BY <1>1, <1>3, <1>4, <1>5, <1>7, AddRuntime
<1>9. QED
  BY <1>1, <1>6, <1>8

\* Stopping an operation touches nothing but its flag.
Kept == /\ live' \subseteq live /\ \A o \in live' : ops'[o].key = ops[o].key
        /\ lastId' = lastId /\ given' = given

LEMMA StopRuntime ==
  ASSUME NEW o, RuntimeInv, HandleStopIntent(o)
  PROVE  RuntimeInv' /\ Kept
<1> USE DEF RuntimeInv
<1>0. lastId' = lastId /\ given' = given
  BY DEF HandleStopIntent
<1>1. CASE ops' = ops
  BY <1>0, <1>1 DEF live, Kept
<1>2. CASE ops' # ops
  <2>1. ops' = [p \in live |-> IF p = o \/ o \in ops[p].ancestors
                               THEN [ops[p] EXCEPT !.stopping = TRUE] ELSE ops[p]]
    BY <1>2 DEF HandleStopIntent, Stopped
  <2>2. live' = live
    BY <2>1 DEF live
  <2>3. ASSUME NEW p \in live
        PROVE  /\ ops'[p] \in Operation /\ ops'[p].key = ops[p].key
               /\ ops'[p].ancestors = ops[p].ancestors
    <3>1. ops[p] \in Operation
      OBVIOUS
    <3>2. /\ [ops[p] EXCEPT !.stopping = TRUE] \in Operation
          /\ [ops[p] EXCEPT !.stopping = TRUE].key = ops[p].key
          /\ [ops[p] EXCEPT !.stopping = TRUE].ancestors = ops[p].ancestors
      BY <3>1 DEF Operation
    <3>3. ops'[p] = ops[p] \/ ops'[p] = [ops[p] EXCEPT !.stopping = TRUE]
      BY <2>1
    <3>4. QED
      BY <3>1, <3>2, <3>3
  <2>4. ops' \in [live' -> Operation]
    BY <2>1, <2>2, <2>3
  <2>5. QED
    BY <1>0, <2>2, <2>3, <2>4 DEF Kept
<1>3. QED
  BY <1>1, <1>2

LEMMA EndRuntime ==
  ASSUME NEW o \in live, RuntimeInv, RuntimeEnds(o)
  PROVE  RuntimeInv' /\ Kept
<1> USE DEF RuntimeInv
<1>0. lastId' = lastId /\ given' = given
  BY DEF RuntimeEnds
<1>1. CASE \E p \in live : o \in ops[p].ancestors
  <2>1. ops' = [ops EXCEPT ![o].stopping = TRUE]
    BY <1>1 DEF RuntimeEnds
  <2>2. live' = live
    BY <2>1 DEF live
  <2>3. /\ ops'[o] = [ops[o] EXCEPT !.stopping = TRUE] /\ ops[o] \in Operation
        /\ \A p \in live \ {o} : ops'[p] = ops[p]
    BY <2>1
  <2>4. /\ ops'[o] \in Operation /\ ops'[o].key = ops[o].key
        /\ ops'[o].ancestors = ops[o].ancestors
    BY <2>3 DEF Operation
  <2>5. ops' \in [live' -> Operation]
    BY <2>1, <2>2, <2>3, <2>4
  <2>6. QED
    BY <1>0, <2>2, <2>3, <2>4, <2>5 DEF Kept
<1>2. CASE ~ \E p \in live : o \in ops[p].ancestors
  <2>1. ops' = [p \in live \ {o} |-> ops[p]]
    BY <1>2 DEF RuntimeEnds
  <2>2. live' = live \ {o} /\ \A p \in live' : ops'[p] = ops[p]
    BY <2>1 DEF live
  <2>3. ops' \in [live' -> Operation]
    BY <2>1, <2>2
  <2>4. Cardinality(live') <= MaxActiveInstances
    <3>1. Cardinality(live') <= Cardinality(live) /\ IsFiniteSet(live')
      BY <2>2, LiveFinite, FS_Subset
    <3>2. QED
      BY <3>1, LiveFinite, FS_CardinalityType, RuntimeAssumption
  <2>5. QED
    BY <1>0, <1>2, <2>2, <2>3, <2>4 DEF Kept
<1>3. QED
  BY <1>1, <1>2

----------------------------------------------------------------------------
\* The queue.

LEMMA ArriveQueue == ASSUME NEW f \in Frames, QueueInv, Arrive(f) PROVE QueueInv'
<1> USE DEF QueueInv
<1>0. Len(working) \in Nat /\ Len(reserve) \in Nat /\ ControlCapacity \in Nat /\ ControlReserve \in Nat
  BY LenProperties, QueueAssumption
<1>1. CASE Len(working) < ControlCapacity
  <2>1. working' = Append(working, f) /\ reserve' = reserve
    BY <1>1 DEF Arrive
  <2>2. QED
    BY <1>0, <1>1, <2>1, AppendProperties
<1>2. CASE ~(Len(working) < ControlCapacity)
  <2>1. reserve' = Append(reserve, f) /\ working' = working /\ Len(reserve) < ControlReserve
    BY <1>2 DEF Arrive
  <2>2. QED
    BY <1>0, <2>1, AppendProperties
<1>3. QED
  BY <1>1, <1>2

LEMMA PopQueue == ASSUME NEW f, QueueInv, Pop(f) PROVE QueueInv'
<1> USE DEF QueueInv
<1>0. Len(working) \in Nat /\ Len(reserve) \in Nat /\ ControlCapacity \in Nat /\ ControlReserve \in Nat
  BY LenProperties, QueueAssumption
<1>1. CASE reserve # <<>> /\ reserve' = Tail(reserve) /\ working' = working
  <2>1. reserve' \in Seq(Frames) /\ Len(reserve') = Len(reserve) - 1
    BY <1>1, HeadTailProperties
  <2>2. QED
    BY <1>0, <1>1, <2>1
<1>2. CASE working # <<>> /\ working' = Tail(working) /\ reserve' = reserve
  <2>1. working' \in Seq(Frames) /\ Len(working') = Len(working) - 1
    BY <1>2, HeadTailProperties
  <2>2. QED
    BY <1>0, <1>2, <2>1
<1>3. QED
  BY <1>1, <1>2 DEF Pop

----------------------------------------------------------------------------
\* The steps, by what they do to the ledger and the runtime.

Quiet == UNCHANGED <<epoch, grant, ledger, runtime>>

\* A decision about r in the state of the gates g.
Decided(r, g) == (RefuseDynamic(r, g) \/ Accept(r, g)) /\ UNCHANGED <<epoch, grant>>

LEMMA StepCases ==
  ASSUME [Next]_vars
  PROVE  \/ Quiet
         \/ \E o : HandleStopIntent(o) /\ UNCHANGED <<epoch, grant>>
         \/ \E r \in Requests, g \in Gates : Decided(r, g)
         \/ \E o \in live : RuntimeEnds(o) \/ RuntimeSpawns(o)
         \/ \E a \in Authority \cup {0} : Reboot(a)
<1>1. CASE UNCHANGED vars
  BY <1>1 DEF vars, ledger, runtime, Quiet
<1>2. CASE \E f \in Frames : Arrive(f)
  BY <1>2 DEF Arrive, Quiet
<1>3. CASE InboundTick
  <2>1. PICK f \in Frames : Process(f)
    BY <1>3 DEF InboundTick
  <2>2. UNCHANGED <<epoch, grant>>
    BY <1>3 DEF InboundTick
  <2>3. CASE ~Intact(f)
    BY <2>1, <2>2, <2>3 DEF Process, Quiet
  <2>4. CASE Intact(f) /\ f.message.kind # "OperationRequest"
    BY <2>1, <2>2, <2>4 DEF Process
  <2>5. CASE Intact(f) /\ f.message.kind = "OperationRequest"
    <3> DEFINE r == f.message.request
    <3>1. r \in Requests
      BY <2>5 DEF Requests
    <3>2. HandleOperationRequest(r)
      BY <2>1, <2>5 DEF Process
    <3>3. CASE RefuseStatic(r) \/ Replay(r)
      BY <2>2, <3>3 DEF RefuseStatic, Replay, Quiet
    <3>4. CASE \E g \in Gates : RefuseDynamic(r, g) \/ Accept(r, g)
      BY <2>2, <3>1, <3>4 DEF Decided
    <3>5. QED
      BY <3>2, <3>3, <3>4 DEF HandleOperationRequest
  <2>6. QED
    BY <2>3, <2>4, <2>5
<1>4. QED
  BY <1>1, <1>2, <1>3 DEF Next

LEMMA QueueStep == QueueInv /\ [Next]_vars => QueueInv'
<1> SUFFICES ASSUME QueueInv, [Next]_vars PROVE QueueInv'
  OBVIOUS
<1>1. CASE UNCHANGED queue
  BY <1>1 DEF queue, QueueInv
<1>2. CASE \E f \in Frames : Arrive(f)
  BY <1>2, ArriveQueue
<1>3. CASE InboundTick
  BY <1>3, PopQueue DEF InboundTick
<1>4. CASE working' = <<>> /\ reserve' = <<>>
  BY <1>4, EmptySeq, QueueAssumption DEF QueueInv
<1>5. QED
  BY <1>1, <1>2, <1>3, <1>4 DEF Next, RuntimeEnds, RuntimeSpawns, Reboot, vars

LEMMA QuietTypes == BootInv /\ RuntimeInv /\ LedgerInv /\ Quiet => (BootInv /\ RuntimeInv /\ LedgerInv)'
<1> SUFFICES ASSUME BootInv, RuntimeInv, LedgerInv, Quiet
             PROVE  BootInv' /\ RuntimeInv' /\ LedgerInv'
  OBVIOUS
<1>1. UNCHANGED <<epoch, grant, ring, forgotten, ops, lastId, given>>
  BY DEF Quiet, ledger, runtime
<1>2. BootInv' /\ RuntimeInv'
  BY <1>1 DEF BootInv, RuntimeInv, live
<1>3. LedgerInv'
  BY <1>1 DEF LedgerInv, Indices, Sound
<1>4. QED
  BY <1>2, <1>3

LEMMA LedgerUnchanged == LedgerInv /\ UNCHANGED <<epoch, grant, ledger>> => LedgerInv'
BY DEF LedgerInv, Indices, Sound, ledger

\* What a decision does to the ledger and the runtime.
LEMMA DecidedIs ==
  ASSUME NEW r \in Requests, NEW g, Decided(r, g), BootInv, RuntimeInv
  PROVE  \E u \in Outcomes :
           /\ StaticReject(r) = "None" /\ Lookup(r) = {}
           /\ Answer(r, u) /\ Store(Entry(r, u))
           /\ \/ u.op = 0 /\ UNCHANGED runtime /\ started' = {}
              \/ /\ u.op \in OpIds /\ NextOpId(u.op) /\ Create(r, u.op)
                 /\ DynamicReject(r, g) = "None" /\ started' = {u.op}
<1>1. CASE RefuseDynamic(r, g)
  <2>1. DynamicReject(r, g) \in DynamicCodes
    BY <1>1, DynamicRejectCodes DEF RefuseDynamic
  <2>2. Rejected(DynamicReject(r, g)) \in Outcomes /\ Rejected(DynamicReject(r, g)).op = 0
    BY <2>1, OutcomeTypes, ResultOps
  <2>3. QED
    BY <1>1, <2>2 DEF RefuseDynamic
<1>2. CASE Accept(r, g)
  <2>1. PICK id \in OpIds : /\ NextOpId(id) /\ Create(r, id) /\ Answer(r, Accepted(id))
                            /\ Store(Entry(r, Accepted(id))) /\ started' = {id}
    BY <1>2 DEF Accept
  <2>2. Accepted(id) \in Outcomes /\ Accepted(id).op = id
    BY OutcomeTypes, ResultOps
  <2>3. QED
    BY <1>2, <2>1, <2>2 DEF Accept
<1>3. QED
  BY <1>1, <1>2 DEF Decided

LEMMA DecidedTypes ==
  ASSUME NEW r \in Requests, NEW g, Decided(r, g), BootInv, RuntimeInv, LedgerInv
  PROVE  BootInv' /\ RuntimeInv' /\ LedgerInv'
<1>0. UNCHANGED <<epoch, grant>>
  BY DEF Decided
<1>1. PICK u \in Outcomes :
           /\ StaticReject(r) = "None" /\ Lookup(r) = {}
           /\ Answer(r, u) /\ Store(Entry(r, u))
           /\ \/ u.op = 0 /\ UNCHANGED runtime /\ started' = {}
              \/ /\ u.op \in OpIds /\ NextOpId(u.op) /\ Create(r, u.op)
                 /\ DynamicReject(r, g) = "None" /\ started' = {u.op}
  BY DecidedIs
<1>2. /\ Entry(r, u) \in Entries /\ Entry(r, u).key = KeyOf(r) /\ Sound(Entry(r, u))
  BY <1>1, EntryType
<1>3. \A i \in Indices : ring[i].key # Entry(r, u).key
  BY <1>1, <1>2, LookupEmpty
<1>4. LedgerInv'
  BY <1>0, <1>1, <1>2, <1>3, StoreLedger
<1>5. RuntimeInv'
  <2>1. CASE UNCHANGED runtime
    BY <2>1 DEF runtime, RuntimeInv, live
  <2>2. CASE /\ u.op \in OpIds /\ NextOpId(u.op) /\ Create(r, u.op)
             /\ DynamicReject(r, g) = "None"
    BY <1>0, <1>1, <2>2, CreateRuntime DEF NextOpId
  <2>3. QED
    BY <1>1, <2>1, <2>2
<1>6. QED
  BY <1>0, <1>4, <1>5 DEF BootInv

Empty == ring = <<>> /\ forgotten = {} /\ ops = <<>> /\ lastId = 0 /\ given = 0

LEMMA EmptyTypes == Empty => RuntimeInv /\ LedgerInv
<1> SUFFICES ASSUME Empty PROVE RuntimeInv /\ LedgerInv
  OBVIOUS
<1> USE DEF Empty
<1>1. live = {}
  BY DEF live
<1>2. RuntimeInv
  BY <1>1, FS_EmptySet, RuntimeAssumption DEF RuntimeInv
<1>3. Len(ring) = 0 /\ ring \in Seq(Entries)
  BY EmptySeq
<1>4. LedgerInv
  BY <1>3, LedgerAssumption DEF LedgerInv, Indices
<1>5. QED
  BY <1>2, <1>4

LEMMA RebootTypes ==
  ASSUME NEW a \in Authority \cup {0}, BootInv, Reboot(a)
  PROVE  BootInv' /\ RuntimeInv' /\ LedgerInv'
<1>1. epoch' \in 1 .. MaxEpoch /\ grant' \in Authority \cup {0}
  BY DEF Reboot
<1>2. Empty'
  BY DEF Reboot, Empty
<1>3. RuntimeInv' /\ LedgerInv'
  BY <1>2, EmptyTypes, PTL
<1>4. QED
  BY <1>1, <1>3 DEF BootInv

LEMMA TypeInit == Init => TypeInv
<1> SUFFICES ASSUME NEW a \in Authority \cup {0}, Booted(1, a) PROVE TypeInv
  BY DEF Init
<1>1. BootInv
  BY EpochAssumption DEF Booted, BootInv
<1>2. QueueInv
  BY EmptySeq, QueueAssumption DEF Booted, QueueInv
<1>3. RuntimeInv /\ LedgerInv
  BY EmptyTypes DEF Booted, Empty
<1>4. QED
  BY <1>1, <1>2, <1>3 DEF TypeInv

LEMMA TypeStep == TypeInv /\ [Next]_vars => TypeInv'
<1> SUFFICES ASSUME TypeInv, [Next]_vars PROVE TypeInv'
  OBVIOUS
<1> USE DEF TypeInv
<1>1. QueueInv'
  BY QueueStep
<1>2. CASE Quiet
  BY <1>1, <1>2, QuietTypes
<1>3. ASSUME NEW o, HandleStopIntent(o), UNCHANGED <<epoch, grant>> PROVE TypeInv'
  <2>1. RuntimeInv' /\ UNCHANGED ledger
    BY <1>3, StopRuntime DEF HandleStopIntent
  <2>2. QED
    BY <1>1, <1>3, <2>1, LedgerUnchanged DEF BootInv
<1>4. ASSUME NEW r \in Requests, NEW g \in Gates, Decided(r, g) PROVE TypeInv'
  BY <1>1, <1>4, DecidedTypes
<1>5. ASSUME NEW o \in live, RuntimeEnds(o) PROVE TypeInv'
  <2>1. RuntimeInv' /\ UNCHANGED <<epoch, grant, ledger>>
    BY <1>5, EndRuntime DEF RuntimeEnds
  <2>2. QED
    BY <1>1, <2>1, LedgerUnchanged DEF BootInv
<1>6. ASSUME NEW o \in live, RuntimeSpawns(o) PROVE TypeInv'
  <2>1. RuntimeInv' /\ UNCHANGED <<epoch, grant, ledger>>
    BY <1>6, SpawnRuntime DEF RuntimeSpawns
  <2>2. QED
    BY <1>1, <2>1, LedgerUnchanged DEF BootInv
<1>7. ASSUME NEW a \in Authority \cup {0}, Reboot(a) PROVE TypeInv'
  BY <1>1, <1>7, RebootTypes
<1>8. QED
  BY <1>2, <1>3, <1>4, <1>5, <1>6, <1>7, StepCases

LEMMA TypeInductive == Spec => []TypeInv
BY TypeInit, TypeStep, PTL DEF Spec

\* For every depth of the ledger, size of the queue and set of frames, a grant
\* beyond the ledger included: the inbound queue, the ring and the runtime stay
\* within their capacities, and the ancestors of a live operation are live.
THEOREM TypeCorrect == Spec => []TypeOK
<1>1. TypeInv => TypeOK
  BY DEF TypeInv, TypeOK, BootInv, QueueInv, RuntimeInv, LedgerInv, Entries
<1>2. QED
  BY <1>1, TypeInductive, PTL

----------------------------------------------------------------------------
\* Until they have all been given out once, ids are given out in turn.

LEMMA DistanceIs ==
  ASSUME lastId \in OpIds \cup {0}, NEW id \in OpIds
  PROVE  Distance(id) = IF id > lastId THEN id - lastId - 1 ELSE id + IdModulus - lastId - 1
<1>0. IdModulus \in Nat /\ lastId \in Nat /\ lastId < IdModulus /\ id \in Nat /\ id < IdModulus /\ id > 0
  BY RuntimeAssumption, LedgerAssumption DEF OpIds
<1> DEFINE x == id + IdModulus - lastId - 1
<1>1. CASE id > lastId
  <2>1. x \in Nat /\ IdModulus <= x /\ x < IdModulus + IdModulus
    BY <1>0, <1>1
  <2>2. x - IdModulus = id - lastId - 1
    BY <1>0
  <2> HIDE DEF x
  <2>3. x % IdModulus = x - IdModulus
    BY <1>0, <2>1
  <2>4. QED
    BY <1>1, <2>2, <2>3 DEF Distance, x
<1>2. CASE ~(id > lastId)
  <2>1. x \in Nat /\ x < IdModulus
    BY <1>0, <1>2
  <2> HIDE DEF x
  <2>2. x % IdModulus = x
    BY <1>0, <2>1
  <2>3. QED
    BY <1>2, <2>2 DEF Distance, x
<1>3. QED
  BY <1>1, <1>2

\* The id of a new operation in the first lap is the one after the last, which
\* no operation and no decision knows.
LEMMA NewId ==
  ASSUME RuntimeInv, LedgerInv, FirstLap, NEW id \in OpIds, NextOpId(id), Adds(id),
         given' < IdModulus
  PROVE  /\ given < IdModulus /\ id = lastId + 1 /\ given' = lastId'
         /\ \A o \in live' : o <= lastId'
         /\ \A i \in Indices : ring[i].result.op <= lastId' /\ ring[i].result.op # id
<1>0. /\ IdModulus \in Nat /\ given \in 0 .. IdModulus
      /\ lastId \in OpIds \cup {0} /\ OpIds = 1 .. IdModulus - 1
      /\ lastId' = id /\ live' = live \cup {id} /\ live \subseteq OpIds
  BY RuntimeAssumption DEF RuntimeInv, OpIds, Adds
<1>1. given < IdModulus /\ given' = given + 1
  BY <1>0 DEF Adds
<1>2. /\ lastId = given /\ \A o \in live : o <= lastId
      /\ \A i \in Indices : ring[i].result.op <= lastId
  BY <1>1 DEF FirstLap
<1>3. lastId + 1 \in OpIds \ live
  BY <1>0, <1>1, <1>2
<1>4. Distance(lastId + 1) = 0
  BY <1>0, <1>3, DistanceIs
<1>5. Distance(id) <= 0
  BY <1>3, <1>4 DEF NextOpId
<1>6. id = lastId + 1
  <2>1. Distance(id) = IF id > lastId THEN id - lastId - 1 ELSE id + IdModulus - lastId - 1
    BY <1>0, DistanceIs
  <2>2. QED
    BY <1>0, <1>5, <2>1
<1>7. \A i \in Indices : ring[i].result.op \in OpIds \cup {0}
  <2> SUFFICES ASSUME NEW i \in Indices PROVE ring[i].result.op \in OpIds \cup {0}
    OBVIOUS
  <2>1. ring[i] \in Entries
    BY ElementOfSeq DEF LedgerInv, Indices
  <2>2. QED
    BY <2>1, OutcomeOp DEF Entries
<1>8. \A i \in Indices : ring[i].result.op <= lastId' /\ ring[i].result.op # id
  BY <1>0, <1>2, <1>6, <1>7
<1>9. \A o \in live' : o <= lastId'
  BY <1>0, <1>2, <1>6
<1>10. QED
  BY <1>0, <1>1, <1>2, <1>6, <1>8, <1>9

----------------------------------------------------------------------------
\* The decisions.

LEMMA MemoryQuiet ==
  ASSUME RuntimeInv, MemoryInv, UNCHANGED ledger, Kept
  PROVE  MemoryInv'
<1> USE DEF MemoryInv
<1>1. UNCHANGED <<ring, forgotten, lastId, given>>
  BY DEF ledger, Kept
<1>2. Remembered'
  BY <1>1 DEF Remembered, Kept, Indices
<1>3. NamesTrue'
  BY <1>1 DEF NamesTrue, Kept, Indices
<1>4. FirstLap'
  BY <1>1 DEF FirstLap, Kept, Indices
<1>5. QED
  BY <1>2, <1>3, <1>4

\* A driver's spawn makes no decision true that is not, nor any false.
LEMMA MemorySpawned ==
  ASSUME RuntimeInv, LedgerInv, MemoryInv, UNCHANGED ledger, NEW id \in OpIds,
         NextOpId(id), Adds(id), ops'[id].key = NoRequest
  PROVE  MemoryInv'
<1> USE DEF MemoryInv
<1>1. UNCHANGED <<ring, forgotten>> /\ Indices' = Indices
  BY DEF ledger, Indices
<1>2. live' = live \cup {id} /\ \A o \in live : ops'[o] = ops[o]
  BY DEF Adds
<1>3. Remembered'
  BY <1>1, <1>2 DEF Remembered
<1>4. CASE given' < IdModulus
  <2>1. /\ given < IdModulus /\ given' = lastId'
        /\ \A o \in live' : o <= lastId'
        /\ \A i \in Indices : ring[i].result.op <= lastId' /\ ring[i].result.op # id
    BY <1>4, NewId
  <2>2. NamesTrue'
    BY <1>1, <1>2, <2>1 DEF NamesTrue
  <2>3. FirstLap'
    BY <1>1, <2>1 DEF FirstLap
  <2>4. QED
    BY <1>3, <2>2, <2>3
<1>5. CASE ~(given' < IdModulus)
  BY <1>3, <1>5 DEF NamesTrue, FirstLap
<1>6. QED
  BY <1>4, <1>5

\* Where the entries of the ring after store() come from.
LEMMA StoredPlaces ==
  ASSUME LedgerInv, NEW e, NEW k \in {0, 1}, Stored(e, k)
  PROVE  /\ Len(ring') \in Indices' /\ ring'[Len(ring')] = e
         /\ \A i \in Indices' : i = Len(ring') \/
              (i + k \in Indices /\ ring'[i] = ring[i + k] /\ i # Len(ring'))
         /\ \A i \in Indices : (k = 1 /\ i = 1) \/
              (i - k \in Indices' /\ ring'[i - k] = ring[i] /\ i - k # Len(ring'))
<1>0. Len(ring) \in Nat /\ Len(ring') \in Nat /\ Len(ring') = Len(ring) + 1 - k /\ k <= Len(ring)
  BY LenProperties DEF Stored, LedgerInv
<1>1. ASSUME NEW i \in Indices, ~(k = 1 /\ i = 1)
      PROVE  i - k \in 1 .. Len(ring) - k /\ i - k + k = i
  BY <1>0, <1>1 DEF Indices
<1>2. \A i \in 1 .. Len(ring) - k : ring'[i] = ring[i + k]
  BY DEF Stored
<1>3. \A i \in Indices : (k = 1 /\ i = 1) \/
              (i - k \in Indices' /\ ring'[i - k] = ring[i] /\ i - k # Len(ring'))
  <2> SUFFICES ASSUME NEW i \in Indices, ~(k = 1 /\ i = 1)
               PROVE  i - k \in Indices' /\ ring'[i - k] = ring[i] /\ i - k # Len(ring')
    OBVIOUS
  <2>1. i - k \in 1 .. Len(ring) - k /\ i - k + k = i
    BY <1>1
  <2>2. ring'[i - k] = ring[i]
    BY <1>2, <2>1
  <2>3. QED
    BY <1>0, <2>1, <2>2 DEF Indices
<1>4. \A i \in Indices' : i = Len(ring') \/
              (i + k \in Indices /\ ring'[i] = ring[i + k] /\ i # Len(ring'))
  BY <1>0, <1>2 DEF Indices
<1>5. QED
  BY <1>0, <1>3, <1>4 DEF Indices, Stored

\* The operation an entry has started, if it is one of acceptance.
Starts(e) ==
    \/ e.result.op = 0 /\ UNCHANGED <<ops, lastId, given>>
    \/ /\ e.result.op \in OpIds /\ NextOpId(e.result.op) /\ Adds(e.result.op)
       /\ ops'[e.result.op].key = e.key

LEMMA StartsLive ==
  ASSUME RuntimeInv, NEW e, Starts(e)
  PROVE  /\ live' \subseteq live \cup {e.result.op}
         /\ \A o \in live : o \in live' /\ ops'[o] = ops[o]
         /\ e.result.op \in live' => e.result.op \in OpIds /\ ops'[e.result.op].key = e.key
<1>1. 0 \notin live
  BY DEF RuntimeInv, OpIds
<1>2. QED
  BY <1>1 DEF Starts, live, Adds

\* In the first lap no entry names the operation of a later one.
LEMMA StartsNew ==
  ASSUME RuntimeInv, LedgerInv, FirstLap, NEW e, Starts(e), given' < IdModulus
  PROVE  /\ given < IdModulus /\ given' = lastId' /\ e.result.op <= lastId'
         /\ \A o \in live' : o <= lastId'
         /\ \A i \in Indices : ring[i].result.op <= lastId'
         /\ \A i \in Indices : ring[i].result.op \in live' => ring[i].result.op \in live
<1>1. CASE e.result.op = 0 /\ UNCHANGED <<ops, lastId, given>>
  BY <1>1 DEF FirstLap, live, RuntimeInv, OpIds
<1>2. CASE /\ e.result.op \in OpIds /\ NextOpId(e.result.op) /\ Adds(e.result.op)
  <2>1. lastId' = e.result.op /\ live' = live \cup {e.result.op} /\ e.result.op \in Int
    BY <1>2 DEF Adds, OpIds
  <2>2. /\ given < IdModulus /\ given' = lastId'
        /\ \A o \in live' : o <= lastId'
        /\ \A i \in Indices : /\ ring[i].result.op <= lastId'
                               /\ ring[i].result.op # e.result.op
    BY <1>2, NewId
  <2>3. QED
    BY <2>1, <2>2
<1>3. QED
  BY <1>1, <1>2 DEF Starts

LEMMA MemoryStored ==
  ASSUME LedgerInv, RuntimeInv, RuntimeInv', MemoryInv,
         NEW e, NEW k \in {0, 1}, Stored(e, k), Starts(e)
  PROVE  MemoryInv'
<1> USE DEF MemoryInv
<1>0. /\ Len(ring') \in Indices' /\ ring'[Len(ring')] = e
      /\ \A i \in Indices' : i = Len(ring') \/ (i + k \in Indices /\ ring'[i] = ring[i + k])
      /\ \A i \in Indices : (k = 1 /\ i = 1) \/ (i - k \in Indices' /\ ring'[i - k] = ring[i])
  BY StoredPlaces
<1>1. /\ live' \subseteq live \cup {e.result.op}
      /\ \A o \in live : o \in live' /\ ops'[o] = ops[o]
      /\ e.result.op \in live' => e.result.op \in OpIds /\ ops'[e.result.op].key = e.key
  BY StartsLive
<1>2. forgotten \subseteq forgotten' /\ (k = 1 => ring[1].key \in forgotten')
  BY DEF Stored
<1>3. ASSUME NEW o \in live', ops'[o].key # NoRequest
      PROVE  \/ ops'[o].key \in forgotten'
             \/ \E i \in Indices' : ring'[i].key = ops'[o].key /\ ring'[i].result.op = o
  <2>1. CASE o = e.result.op
    BY <1>0, <1>1, <2>1
  <2>2. CASE o \in live /\ ops[o].key \in forgotten
    BY <1>1, <1>2, <2>2
  <2>3. ASSUME o \in live, NEW i \in Indices, ring[i].key = ops[o].key, ring[i].result.op = o
        PROVE  \/ ops'[o].key \in forgotten'
               \/ \E j \in Indices' : ring'[j].key = ops'[o].key /\ ring'[j].result.op = o
    <3>1. CASE k = 1 /\ i = 1
      BY <1>1, <1>2, <2>3, <3>1
    <3>2. CASE i - k \in Indices' /\ ring'[i - k] = ring[i]
      BY <1>1, <2>3, <3>2
    <3>3. QED
      BY <1>0, <3>1, <3>2
  <2>4. QED
    BY <1>1, <1>3, <2>1, <2>2, <2>3 DEF Remembered
<1>4. CASE given' < IdModulus
  <2>1. /\ given < IdModulus /\ given' = lastId' /\ e.result.op <= lastId'
        /\ \A o \in live' : o <= lastId'
        /\ \A i \in Indices : ring[i].result.op <= lastId'
        /\ \A i \in Indices : ring[i].result.op \in live' => ring[i].result.op \in live
    BY <1>4, StartsNew
  <2>2. ASSUME NEW i \in Indices', ring'[i].result.op \in live'
        PROVE  ops'[ring'[i].result.op].key = ring'[i].key
    <3>1. CASE i = Len(ring')
      BY <1>0, <1>1, <2>2, <3>1
    <3>2. CASE i + k \in Indices /\ ring'[i] = ring[i + k]
      BY <1>1, <2>1, <2>2, <3>2 DEF NamesTrue
    <3>3. QED
      BY <1>0, <3>1, <3>2
  <2>3. ASSUME NEW i \in Indices' PROVE ring'[i].result.op <= lastId'
    <3>1. CASE i = Len(ring')
      BY <1>0, <2>1, <3>1
    <3>2. CASE \E j \in Indices : ring'[i] = ring[j]
      BY <2>1, <3>2
    <3>3. QED
      BY <1>0, <3>1, <3>2
  <2>4. QED
    BY <1>3, <2>1, <2>2, <2>3 DEF Remembered, NamesTrue, FirstLap
<1>5. CASE ~(given' < IdModulus)
  BY <1>3, <1>5 DEF Remembered, NamesTrue, FirstLap
<1>6. QED
  BY <1>4, <1>5

LEMMA GrantRinged == Ringed /\ BootInv /\ grant # 0 => ~(grant >= MaxPrincipals)
<1> SUFFICES ASSUME Ringed, BootInv, grant # 0 PROVE ~(grant >= MaxPrincipals)
  OBVIOUS
<1>1. grant \in Authority
  BY DEF BootInv
<1>2. grant < MaxPrincipals /\ grant \in Nat
  BY <1>1, AuthorityAssumption DEF Ringed
<1>3. QED
  BY <1>2, LedgerAssumption

\* A decision is remembered, and so is what it has started.
LEMMA DecidedStored ==
  ASSUME NEW r \in Requests, NEW g, Decided(r, g), Ringed, BootInv, RuntimeInv, LedgerInv
  PROVE  \E e \in Entries, k \in {0, 1} : Stored(e, k) /\ Starts(e)
<1>0. UNCHANGED <<epoch, grant>>
  BY DEF Decided
<1>1. PICK u \in Outcomes :
           /\ StaticReject(r) = "None" /\ Lookup(r) = {}
           /\ Answer(r, u) /\ Store(Entry(r, u))
           /\ \/ u.op = 0 /\ UNCHANGED runtime /\ started' = {}
              \/ /\ u.op \in OpIds /\ NextOpId(u.op) /\ Create(r, u.op)
                 /\ DynamicReject(r, g) = "None" /\ started' = {u.op}
  BY DecidedIs
<1>2. /\ Entry(r, u) \in Entries /\ Entry(r, u).key = KeyOf(r) /\ Entry(r, u).result = u
  BY <1>1, EntryType
<1>3. PICK k \in {0, 1} : Stored(Entry(r, u), k)
  <2>1. ~(grant >= MaxPrincipals)
    BY <1>1, StaticNone, GrantRinged
  <2>2. QED
    BY <1>1, <1>2, <2>1, StoreIs
<1>4. Starts(Entry(r, u))
  <2>1. CASE u.op = 0 /\ UNCHANGED runtime
    BY <1>2, <2>1 DEF Starts, runtime
  <2>2. CASE /\ u.op \in OpIds /\ NextOpId(u.op) /\ Create(r, u.op)
             /\ DynamicReject(r, g) = "None"
    <3>1. Adds(u.op) /\ ops'[u.op].key = KeyOf(r)
      BY <1>0, <1>1, <2>2, CreateRuntime DEF NextOpId
    <3>2. QED
      BY <1>2, <2>2, <3>1 DEF Starts
  <2>3. QED
    BY <1>1, <2>1, <2>2
<1>5. QED
  BY <1>2, <1>3, <1>4

LEMMA EmptyMemory == Empty => MemoryInv
<1> SUFFICES ASSUME Empty PROVE MemoryInv
  OBVIOUS
<1>1. live = {} /\ Indices = {}
  BY EmptySeq DEF Empty, live, Indices
<1>2. QED
  BY <1>1 DEF Empty, MemoryInv, Remembered, NamesTrue, FirstLap

LEMMA MemoryInit == Init => MemoryInv
BY EmptyMemory DEF Init, Booted, Empty

LEMMA MemoryStep == Ringed /\ TypeInv /\ TypeInv' /\ MemoryInv /\ [Next]_vars => MemoryInv'
<1> SUFFICES ASSUME Ringed, TypeInv, TypeInv', MemoryInv, [Next]_vars PROVE MemoryInv'
  OBVIOUS
<1> USE DEF TypeInv
<1>1. CASE Quiet
  BY <1>1, MemoryQuiet DEF Quiet, Kept, runtime, live
<1>2. ASSUME NEW o, HandleStopIntent(o), UNCHANGED <<epoch, grant>> PROVE MemoryInv'
  BY <1>2, StopRuntime, MemoryQuiet DEF HandleStopIntent
<1>3. ASSUME NEW r \in Requests, NEW g \in Gates, Decided(r, g) PROVE MemoryInv'
  BY <1>3, DecidedStored, MemoryStored
<1>4. ASSUME NEW o \in live, RuntimeEnds(o) PROVE MemoryInv'
  BY <1>4, EndRuntime, MemoryQuiet DEF RuntimeEnds
<1>5. ASSUME NEW o \in live, RuntimeSpawns(o) PROVE MemoryInv'
  BY <1>5, SpawnRuntime, MemorySpawned DEF RuntimeSpawns
<1>6. ASSUME NEW a \in Authority \cup {0}, Reboot(a) PROVE MemoryInv'
  <2>1. Empty'
    BY <1>6 DEF Reboot, Empty
  <2>2. QED
    BY <2>1, EmptyMemory, PTL
<1>7. QED
  BY <1>1, <1>2, <1>3, <1>4, <1>5, <1>6, StepCases

LEMMA Inductive == ASSUME Ringed PROVE Spec => [](TypeInv /\ MemoryInv)
<1>1. TypeInv /\ MemoryInv /\ [Next]_vars => (TypeInv /\ MemoryInv)'
  BY TypeStep, MemoryStep
<1>2. QED
  BY <1>1, TypeInit, MemoryInit, PTL DEF Spec

\* For every ledger with a ring for each authority that may be granted, however
\* deep, and any frames, lost, repeated and reordered: two operations that are
\* live at once were started by one request of semantic.cpp only if its first
\* decision has been pushed out of the ring since.
THEOREM OnceAtMost == ASSUME Ringed PROVE Spec => []AtMostOnce
<1>1. TypeInv /\ MemoryInv => AtMostOnce
  <2> SUFFICES ASSUME TypeInv, MemoryInv, NEW o \in live, NEW p \in live,
                      ops[o].key = ops[p].key, ops[o].key # NoRequest,
                      ops[o].key \notin forgotten
               PROVE  o = p
    BY DEF AtMostOnce
  <2>1. PICK i \in Indices : ring[i].key = ops[o].key /\ ring[i].result.op = o
    BY DEF MemoryInv, Remembered
  <2>2. PICK j \in Indices : ring[j].key = ops[p].key /\ ring[j].result.op = p
    BY DEF MemoryInv, Remembered
  <2>3. i = j
    BY <2>1, <2>2 DEF TypeInv, LedgerInv
  <2>4. QED
    BY <2>1, <2>2, <2>3
<1>2. QED
  BY <1>1, Inductive, PTL

\* For every such ledger: what store() has kept is true of the runtime.  An
\* operation that a remembered decision names, if live, is the one it started,
\* whatever requests and drivers' spawns have come since, until next_op_id()
\* has given out every id once; and for ever, one started by a remembered
\* request is the one the decision names.
THEOREM DecisionsTrue == ASSUME Ringed PROVE Spec => []DecisionTrue
<1>1. TypeInv /\ MemoryInv => DecisionTrue
  <2> SUFFICES ASSUME TypeInv, MemoryInv, NEW i \in Indices
               PROVE  /\ given < IdModulus /\ ring[i].result.op \in live
                           => ops[ring[i].result.op].key = ring[i].key
                      /\ \A o \in live : ops[o].key = ring[i].key =>
                           ring[i].result.op = o \/ ring[i].key \in forgotten
    BY DEF DecisionTrue, Indices
  <2>1. given < IdModulus /\ ring[i].result.op \in live
          => ops[ring[i].result.op].key = ring[i].key
    BY DEF MemoryInv, NamesTrue
  <2>2. ring[i].key # NoRequest
    <3>1. Sound(ring[i]) /\ epoch \in 1 .. MaxEpoch
      BY DEF TypeInv, LedgerInv, BootInv
    <3>2. ring[i].key.epoch # 0
      BY <3>1, EpochAssumption DEF Sound
    <3>3. QED
      BY <3>2 DEF NoRequest
  <2>3. ASSUME NEW o \in live, ops[o].key = ring[i].key, ring[i].key \notin forgotten
        PROVE  ring[i].result.op = o
    <3>1. PICK j \in Indices : ring[j].key = ops[o].key /\ ring[j].result.op = o
      BY <2>2, <2>3 DEF MemoryInv, Remembered
    <3>2. i = j
      BY <2>3, <3>1 DEF TypeInv, LedgerInv
    <3>3. QED
      BY <3>1, <3>2
  <2>4. QED
    BY <2>1, <2>3
<1>2. QED
  BY <1>1, Inductive, PTL

----------------------------------------------------------------------------
\* The contract's promise, step by step.

Refined == <<ring, answer, started>>

LEMMA SameTerms ==
  /\ Decisions!NoAnswer = NoAnswer
  /\ \A c : Decisions!Rejected(c) = Rejected(c)
  /\ Outcomes = Decisions!Result
<1>1. \A c : Decisions!Rejected(c) = Rejected(c)
  BY DEF Decisions!Rejected, Rejected
<1>2. \A o : Decisions!Accepted(o) = Accepted(o)
  BY DEF Decisions!Accepted, Accepted
<1>3. Decisions!NoAnswer = NoAnswer
  BY <1>1 DEF Decisions!NoAnswer, NoAnswer
<1>4. Outcomes = Decisions!Result
  BY <1>1, <1>2 DEF Decisions!Result, Outcomes
<1>5. QED
  BY <1>1, <1>3, <1>4

LEMMA SilentOther ==
  ASSUME Silent, ring' \in {ring, <<>>}
  PROVE  Decisions!Next
BY SameTerms DEF Silent, Decisions!Other, Decisions!Next

LEMMA AnswerIs ==
  ASSUME NEW r \in Requests, NEW U, NEW u \in U, Answer(r, u)
  PROVE  /\ answer' \in Decisions!Answers(U)
         /\ answer'.key = KeyOf(r) /\ answer'.payload = Fingerprint(r) /\ answer'.result = u
<1>1. KeyOf(r) \in Keys /\ Fingerprint(r) \in Payloads
  BY DEF Keys, Payloads
<1>2. QED
  BY <1>1 DEF Answer, Decisions!Answers

LEMMA RefuseStep ==
  ASSUME NEW r \in Requests, TypeInv, RefuseStatic(r)
  PROVE  Decisions!Refuse
<1>1. StaticReject(r) \in StaticCodes /\ StaticReject(r) # "None"
  BY StaticRejectCodes DEF RefuseStatic
<1>2. /\ answer' \in Decisions!Answers({Decisions!Rejected(c) : c \in StaticCodes})
      /\ answer'.key = KeyOf(r) /\ answer'.payload = Fingerprint(r)
  <2>1. Rejected(StaticReject(r)) \in {Decisions!Rejected(c) : c \in StaticCodes}
    BY <1>1, SameTerms
  <2>2. Answer(r, Rejected(StaticReject(r)))
    BY DEF RefuseStatic
  <2>3. QED
    BY <2>1, <2>2, AnswerIs
<1>3. ASSUME NEW i \in Indices, ring[i].key = KeyOf(r), ring[i].payload = Fingerprint(r)
      PROVE  FALSE
  <2>1. Sound(ring[i])
    BY DEF TypeInv, LedgerInv
  <2>2. /\ KeyOf(r).epoch = r.epoch /\ KeyOf(r).authority = r.authority
        /\ Fingerprint(r).role = r.role /\ Fingerprint(r).type = r.type
        /\ Fingerprint(r).parent = r.parent /\ Fingerprint(r).params = r.params
    BY DEF KeyOf, Fingerprint
  <2>3. StaticReject(r) = "None"
    BY <1>3, <2>1, <2>2, StaticPass DEF Sound
  <2>4. QED
    BY <1>1, <2>3
<1>4. started' = {} /\ ring' = ring
  BY DEF RefuseStatic, ledger
<1>5. QED
  BY <1>2, <1>3, <1>4 DEF Decisions!Refuse, Indices

LEMMA ReplayStep ==
  ASSUME NEW r \in Requests, TypeInv, Replay(r)
  PROVE  Decisions!Repeat
<1>1. PICK i \in Lookup(r) : Answer(r, IF ring[i].payload = Fingerprint(r)
                                       THEN ring[i].result ELSE Rejected("Conflict"))
  BY DEF Replay
<1> DEFINE u == IF ring[i].payload = Fingerprint(r) THEN ring[i].result ELSE Rejected("Conflict")
<1>2. i \in Indices /\ ring[i].key = KeyOf(r)
  BY StaticNone DEF Lookup, HasEntry, Indices, Replay, KeyOf
<1>3. ring[i] \in Entries
  BY <1>2, ElementOfSeq DEF TypeInv, LedgerInv, Indices
<1>4. u \in Outcomes \cup {Rejected("Conflict")}
  BY <1>3 DEF Entries
<1>5. Answer(r, u)
  BY <1>1
<1>6. /\ answer' \in Decisions!Answers(Outcomes \cup {Rejected("Conflict")})
      /\ answer'.key = KeyOf(r) /\ answer'.payload = Fingerprint(r) /\ answer'.result = u
  <2> HIDE DEF u
  <2>1. QED
    BY <1>4, <1>5, AnswerIs
<1>7. started' = {} /\ ring' = ring
  BY DEF Replay, ledger
<1>8. answer' \in Decisions!Answers(Decisions!Result \cup {Decisions!Rejected("Conflict")})
  BY <1>6, SameTerms
<1>9. \E j \in 1 .. Len(ring) :
        /\ ring[j].key = answer'.key
        /\ answer'.result = IF ring[j].payload = answer'.payload
                            THEN ring[j].result ELSE Decisions!Rejected("Conflict")
  BY <1>2, <1>6, SameTerms DEF Indices
<1>10. QED
  BY <1>7, <1>8, <1>9 DEF Decisions!Repeat

\* store() keeps the latest decisions.
LEMMA StoredLatest ==
  ASSUME LedgerInv, NEW e \in Entries, Store(e), ~(grant >= MaxPrincipals)
  PROVE  ring' = Decisions!Latest(Append(ring, e))
<1> USE DEF LedgerInv
<1>0. Len(ring) \in Nat /\ DepthPerPrincipal \in Nat /\ DepthPerPrincipal > 0
  BY LenProperties, LedgerAssumption
<1>1. Len(Append(ring, e)) = Len(ring) + 1
  BY AppendProperties
<1>2. CASE Len(ring) < DepthPerPrincipal
  BY <1>0, <1>1, <1>2 DEF Store, Decisions!Latest
<1>3. CASE ~(Len(ring) < DepthPerPrincipal)
  <2>1. ring' = Append(Tail(ring), e)
    BY <1>3 DEF Store
  <2>2. ring # <<>> /\ Len(ring) > 0
    BY <1>0, <1>3, EmptySeq
  <2>3. Tail(Append(ring, e)) = Append(Tail(ring), e)
    BY <2>2
  <2>4. QED
    BY <1>0, <1>1, <1>3, <2>1, <2>3 DEF Decisions!Latest
<1>4. QED
  BY <1>2, <1>3

LEMMA DecideStep ==
  ASSUME NEW r \in Requests, NEW g, Decided(r, g), Ringed, TypeInv
  PROVE  Decisions!Decide
<1> USE DEF TypeInv
<1>1. PICK u \in Outcomes :
           /\ StaticReject(r) = "None" /\ Lookup(r) = {}
           /\ Answer(r, u) /\ Store(Entry(r, u))
           /\ \/ u.op = 0 /\ UNCHANGED runtime /\ started' = {}
              \/ /\ u.op \in OpIds /\ NextOpId(u.op) /\ Create(r, u.op)
                 /\ DynamicReject(r, g) = "None" /\ started' = {u.op}
  BY DecidedIs
<1>2. Entry(r, u) \in Entries /\ ~(grant >= MaxPrincipals)
  BY <1>1, EntryType, StaticNone, GrantRinged
<1>3. ring' = Decisions!Latest(Append(ring, Entry(r, u)))
  BY <1>1, <1>2, StoredLatest
<1>4. answer' = Entry(r, u)
  BY <1>1, EntryIs DEF Answer
<1>5. /\ answer' \in Decisions!Answers(Outcomes)
      /\ answer'.key = KeyOf(r) /\ answer'.result = u
  BY <1>1, AnswerIs
<1>6. ~Decisions!Known(answer'.key)
  BY <1>1, <1>5, LookupEmpty DEF Decisions!Known, Indices
<1>7. started' = {answer'.result.op} \cap OpIds
  <2>1. CASE u.op = 0 /\ started' = {}
    BY <1>5, <2>1 DEF OpIds
  <2>2. CASE u.op \in OpIds /\ started' = {u.op}
    BY <1>5, <2>2
  <2>3. QED
    BY <1>1, <2>1, <2>2
<1>8. QED
  BY <1>3, <1>4, <1>5, <1>6, <1>7, SameTerms DEF Decisions!Decide

LEMMA DecisionsStep == Ringed /\ TypeInv /\ [Next]_vars => [Decisions!Next]_Refined
<1> SUFFICES ASSUME Ringed, TypeInv, [Next]_vars PROVE [Decisions!Next]_Refined
  OBVIOUS
<1>1. CASE UNCHANGED vars
  BY <1>1 DEF vars, ledger, outputs, Refined
<1>2. CASE Silent /\ ring' \in {ring, <<>>}
  BY <1>2, SilentOther
<1>3. CASE InboundTick
  <2>1. PICK f \in Frames : Process(f)
    BY <1>3 DEF InboundTick
  <2>2. UNCHANGED <<epoch, grant>>
    BY <1>3 DEF InboundTick
  <2>3. CASE ~Intact(f)
    BY <1>2, <2>1, <2>3 DEF Process, ledger
  <2>4. CASE Intact(f) /\ f.message.kind # "OperationRequest"
    BY <1>2, <2>1, <2>4 DEF Process, HandleStopIntent, ledger
  <2>5. CASE Intact(f) /\ f.message.kind = "OperationRequest"
    <3> DEFINE r == f.message.request
    <3>1. r \in Requests
      BY <2>5 DEF Requests
    <3>2. HandleOperationRequest(r)
      BY <2>1, <2>5 DEF Process
    <3> HIDE DEF r
    <3>3. CASE RefuseStatic(r)
      BY <3>1, <3>3, RefuseStep DEF Decisions!Next
    <3>4. CASE Replay(r)
      BY <3>1, <3>4, ReplayStep DEF Decisions!Next
    <3>5. ASSUME NEW g \in Gates, RefuseDynamic(r, g) \/ Accept(r, g)
          PROVE  [Decisions!Next]_Refined
      BY <2>2, <3>1, <3>5, DecideStep DEF Decisions!Next, Decided
    <3>6. QED
      BY <3>2, <3>3, <3>4, <3>5 DEF HandleOperationRequest
  <2>6. QED
    BY <2>3, <2>4, <2>5
<1>4. QED
  BY <1>1, <1>2, <1>3 DEF Next, Arrive, RuntimeEnds, RuntimeSpawns, Reboot, ledger

\* For every such ledger: each request gets one decision, which the ledger
\* repeats unchanged however often the request comes and whatever has become of
\* the gates in between; a key with another payload gets Conflict; and nothing
\* but the decision itself starts an operation.
THEOREM ContractDecides == ASSUME Ringed PROVE Spec => ImplementsDecisions
<1>1. Init => Decisions!Init
  BY SameTerms DEF Init, Booted, Decisions!Init
<1>2. TypeInv /\ [Next]_vars => [Decisions!Next]_Refined
  BY DecisionsStep
<1>3. QED
  BY <1>1, <1>2, TypeInductive, PTL DEF Spec, ImplementsDecisions, Decisions!Spec, Refined

=============================================================================
