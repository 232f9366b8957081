----------------------- MODULE OperationRuntimeProofs -----------------------
(***************************************************************************)
(* Proofs about OperationRuntime, for every capacity, depth bound, id      *)
(* modulus and set of activities.                                          *)
(***************************************************************************)
EXTENDS OperationRuntime, TLAPS

\* The cascade of finalize(o): it contains o, and every other member had its
\* terminal deferred and has all its active descendants in the cascade.
LEMMA FinalizedFacts ==
  ASSUME NEW o \in live
  PROVE  /\ o \in Finalized(o)
         /\ Finalized(o) \subseteq live
         /\ ResolvesUpward(Finalized(o))
         /\ \A c \in Finalized(o) \ {o} :
              inst[c].pending # None /\ ActiveDescendants(c) \subseteq Finalized(o)
<1> DEFINE F == Finalized(o)
<1>1. o \in F /\ F \subseteq live
  BY DEF Finalized
<1>2. \A S \in SUBSET live : o \in S /\ ResolvesUpward(S) => F \subseteq S
  BY DEF Finalized
<1>3. ResolvesUpward(F)
  <2> SUFFICES ASSUME NEW c \in F, inst[c].parent \in live,
                      inst[inst[c].parent].pending # None,
                      ActiveDescendants(inst[c].parent) \subseteq F
               PROVE  inst[c].parent \in F
    BY DEF ResolvesUpward
  <2> SUFFICES ASSUME NEW S \in SUBSET live, o \in S, ResolvesUpward(S)
               PROVE  inst[c].parent \in S
    BY DEF Finalized
  <2>1. F \subseteq S
    BY <1>2
  <2>2. QED
    BY <2>1 DEF ResolvesUpward
<1>4. ASSUME NEW c \in F \ {o},
             ~(inst[c].pending # None /\ ActiveDescendants(c) \subseteq F)
      PROVE  FALSE
  <2>1. F \ {c} \in SUBSET live /\ o \in F \ {c}
    BY <1>1, <1>4
  <2>2. ResolvesUpward(F \ {c})
    <3> SUFFICES ASSUME NEW d \in F \ {c}, inst[d].parent \in live,
                        inst[inst[d].parent].pending # None,
                        ActiveDescendants(inst[d].parent) \subseteq F \ {c}
                 PROVE  inst[d].parent \in F \ {c}
      BY DEF ResolvesUpward
    <3>1. inst[d].parent \in F
      BY <1>3 DEF ResolvesUpward
    <3>2. inst[d].parent # c
      BY <1>4
    <3>3. QED
      BY <3>1, <3>2
  <2>3. F \subseteq F \ {c}
    BY <1>2, <2>1, <2>2
  <2>4. QED
    BY <2>3, <1>4
<1>5. QED
  BY <1>1, <1>3, <1>4

\* Init has the types.
LEMMA TypeInit == Init => TypeOK
  BY DEF Init, TypeOK, live

\* Every disjunct of Next keeps the types.
LEMMA TypeNext == TypeOK /\ [Next]_vars => TypeOK'
<1> SUFFICES ASSUME TypeOK, [Next]_vars PROVE TypeOK'
  OBVIOUS
<1> USE IdAssumption, IdleAssumption DEF TypeOK, live, OpIds, NoParent, OpState, Outcome, None
<1>1. ASSUME NEW a \in Activity \cup {Idle}, CreateRoot(a) PROVE TypeOK'
  <2>1. PICK id \in OpIds : /\ inst' = With(inst, id, NewInstance(NoParent, a))
                            /\ before' = Appended(id)
                            /\ lastId' = id
    BY <1>1 DEF CreateRoot
  <2>2. NewInstance(NoParent, a) \in Instance
    BY DEF NewInstance, Instance
  <2>3. inst' \in [live' -> Instance] /\ live' = live \cup {id}
    BY <2>1, <2>2 DEF With
  <2>4. QED
    BY <2>1, <2>3, <1>1 DEF CreateRoot, Appended
<1>2. ASSUME NEW p \in OpIds, CreateChild(p) PROVE TypeOK'
  <2>1. PICK id \in OpIds : /\ inst' = With(inst, id, NewInstance(p, Idle))
                            /\ before' = Appended(id)
                            /\ lastId' = id
    BY <1>2 DEF CreateChild, InsertChild
  <2>2. NewInstance(p, Idle) \in Instance
    BY DEF NewInstance, Instance
  <2>3. inst' \in [live' -> Instance] /\ live' = live \cup {id}
    BY <2>1, <2>2 DEF With
  <2>4. QED
    BY <2>1, <2>3, <1>2 DEF CreateChild, Appended
<1>3. ASSUME NEW o \in OpIds, Stop(o) PROVE TypeOK'
  <2>1. \A p \in live : Stopped(inst[p]) \in Instance
    BY DEF Stopped, Instance
  <2>2. QED
    BY <1>3, <2>1 DEF Stop
<1>4. CASE FaultCascade
  <2>1. \A p \in live : Stopped(inst[p]) \in Instance
    BY DEF Stopped, Instance
  <2>2. QED
    BY <1>4, <2>1 DEF FaultCascade
<1>5. \A o \in live : Driven(o) \in Instance
  BY DEF Driven, Instance
<1>6. \A o \in live, rec \in Instance :
        inst' = [inst EXCEPT ![o] = rec] => inst' \in [live' -> Instance] /\ live' = live
  OBVIOUS
<1>7. ASSUME NEW o \in OpIds, DriverContinue(o) PROVE TypeOK'
  <2>1. [Driven(o) EXCEPT !.state = Started(@), !.parked = FALSE] \in Instance
    BY <1>5, <1>7 DEF DriverContinue, FirstDue, Instance, Started
  <2>2. QED
    BY <1>6, <1>7, <2>1 DEF DriverContinue, FirstDue
<1>8. ASSUME NEW o \in OpIds, DriverYield(o) PROVE TypeOK'
  <2>1. [Driven(o) EXCEPT !.state = Started(@), !.parked = inst[o].state # "Stopping"]
          \in Instance
    BY <1>5, <1>8 DEF DriverYield, FirstDue, Instance, Started
  <2>2. QED
    BY <1>6, <1>8, <2>1 DEF DriverYield, FirstDue
<1>9. ASSUME NEW o \in OpIds, DriverSpawn(o) PROVE TypeOK'
  <2> DEFINE spawning == [Driven(o) EXCEPT !.state = Started(@)]
  <2>1. o \in live /\ Driven(o) \in Instance
    BY <1>5, <1>9 DEF DriverSpawn, FirstDue
  <2>2. spawning \in Instance /\ [spawning EXCEPT !.child = "Failed"] \in Instance
    BY <2>1 DEF Instance, Started
  <2>3. CASE inst' = [inst EXCEPT ![o] = Driven(o)] /\ UNCHANGED <<before, lastId>>
    BY <1>6, <1>9, <2>1, <2>3 DEF DriverSpawn
  <2>4. CASE InsertChild(o, [inst EXCEPT ![o] = spawning])
    <3>1. PICK id \in OpIds :
            /\ inst' = With([inst EXCEPT ![o] = spawning], id, NewInstance(o, Idle))
            /\ before' = Appended(id)
            /\ lastId' = id
      BY <2>4 DEF InsertChild
    <3>2. NewInstance(o, Idle) \in Instance
      BY DEF NewInstance, Instance
    <3>3. inst' \in [live' -> Instance] /\ live' = live \cup {id}
      BY <2>1, <2>2, <3>1, <3>2 DEF With
    <3>4. slot' = slot /\ reported' = {}
      BY <1>9 DEF DriverSpawn
    <3>5. before' \subseteq live' \X live'
      <4>1. before' = before \cup {<<p, id>> : p \in live} /\ live' = live \cup {id}
        BY <3>1, <3>3 DEF Appended
      <4>2. QED
        BY <4>1 DEF live
    <3>6. QED
      BY <3>1, <3>3, <3>4, <3>5
  <2>5. CASE inst' = [inst EXCEPT ![o] = [spawning EXCEPT !.child = "Failed"]]
             /\ UNCHANGED <<before, lastId>>
    BY <1>6, <1>9, <2>1, <2>2, <2>5 DEF DriverSpawn
  <2>6. QED
    BY <1>9, <2>3, <2>4, <2>5 DEF DriverSpawn
<1>10. ASSUME NEW o \in live, NEW out \in Outcome, Terminate(o, out) PROVE TypeOK'
  <2>1. CASE Defer(o, out)
    <3>1. [Driven(o) EXCEPT !.state = "Stopping", !.parked = TRUE, !.pending = out]
            \in Instance
      BY <1>5 DEF Instance
    <3>2. QED
      BY <1>6, <2>1, <3>1 DEF Defer
  <2>2. CASE Finalize(o, out)
    <3> DEFINE gone == Finalized(o)
               OutcomeOf(c) == IF c = o THEN out ELSE inst[c].pending
               EndedChild(p) == {c \in gone : inst[c].parent = p}
               Notified(p) == [inst[p] EXCEPT
                                 !.child = OutcomeOf(CHOOSE c \in EndedChild(p) : TRUE),
                                 !.parked = @ /\ inst[p].pending # None]
    <3>1. \A c \in gone : OutcomeOf(c) \in Outcome
      BY FinalizedFacts DEF Instance
    <3>2. \A p \in live : EndedChild(p) # {} => Notified(p) \in Instance
      <4> SUFFICES ASSUME NEW p \in live, EndedChild(p) # {}
                   PROVE  Notified(p) \in Instance
        OBVIOUS
      <4>1. (CHOOSE c \in EndedChild(p) : TRUE) \in gone
        OBVIOUS
      <4>2. OutcomeOf(CHOOSE c \in EndedChild(p) : TRUE) \in Outcome
        BY <3>1, <4>1
      <4> HIDE DEF OutcomeOf, EndedChild
      <4>3. QED
        BY <4>2, ZenonT(30) DEF Instance
    <3>3. /\ inst' = [p \in live \ gone |->
                        IF EndedChild(p) = {} THEN inst[p] ELSE Notified(p)]
          /\ before' = Without(gone)
          /\ slot' = slot \/ slot' = Idle
          /\ reported' = {[op |-> c, outcome |-> OutcomeOf(c)] : c \in gone}
          /\ lastId' = lastId
      BY <2>2 DEF Finalize
    <3> HIDE DEF gone, OutcomeOf, EndedChild, Notified
    <3>4. inst' \in [live' -> Instance] /\ live' = live \ gone
      BY <3>2, <3>3
    <3>5. gone \subseteq live
      BY FinalizedFacts DEF gone
    <3>6. reported' \subseteq [op : OpIds, outcome : Outcome]
      BY <3>1, <3>3, <3>5
    <3>7. before' \subseteq live' \X live'
      BY <3>3, <3>4 DEF Without
    <3>8. QED
      BY <3>3, <3>4, <3>6, <3>7
  <2>3. QED
    BY <1>10, <2>1, <2>2 DEF Terminate
<1>11. ASSUME NEW o \in OpIds, DriverComplete(o) PROVE TypeOK'
  BY <1>10, <1>11 DEF DriverComplete, FirstDue
<1>12. ASSUME NEW o \in OpIds, DriverFail(o) PROVE TypeOK'
  BY <1>10, <1>12 DEF DriverFail, FirstDue
<1>13. ASSUME NEW o \in OpIds, DriverCancel(o) PROVE TypeOK'
  BY <1>5, <1>6, <1>10, <1>13 DEF DriverCancel, FirstDue
<1>14. CASE UNCHANGED vars
  BY <1>14 DEF vars
<1>15. QED
  BY <1>1, <1>2, <1>3, <1>4, <1>7, <1>8, <1>9, <1>11, <1>12, <1>13, <1>14
     DEF Next, Advance

\* TypeOK is an invariant: the records, the array order, the slot and the
\* reported events of runtime.cpp keep their types in every reachable state.
THEOREM TypeCorrect == Spec => []TypeOK
  BY TypeInit, TypeNext, PTL DEF Spec

-----------------------------------------------------------------------------
\* o has a live child.
HasChild(o) == \E d \in live : inst[d].parent = o

\* The invariants about the shape of the tree and the slot.
Shape == TypeOK /\ ArrayOrder /\ OwnershipTree /\ SlotOwned

\* A child is an active descendant of its parent.
LEMMA ChildIsDescendant ==
  ASSUME TypeOK, ArrayOrder, OwnershipTree, NEW o \in live,
         NEW d \in live, inst[d].parent = o
  PROVE  d \in ActiveDescendants(o)
<1> USE IdAssumption DEF TypeOK, OpIds, NoParent, live
<1>1. d # o
  <2>1. o # NoParent
    OBVIOUS
  <2>2. inst[d].parent \in live /\ <<inst[d].parent, d>> \in before
    BY <2>1 DEF OwnershipTree
  <2>3. <<d, d>> \notin before
    BY DEF ArrayOrder
  <2>4. QED
    BY <2>2, <2>3
<1>2. o \in ParentIds
  BY DEF ParentIds
<1>3. o \in Ancestors(d)
  BY <1>2 DEF Ancestors
<1>4. QED
  BY <1>1, <1>3 DEF ActiveDescendants

\* Where every parent is live, having an active descendant is having a child.
LEMMA DescendantsIffChild ==
  ASSUME TypeOK, ArrayOrder, OwnershipTree, NEW o \in live
  PROVE  HasActiveDescendants(o) <=> HasChild(o)
<1>1. ASSUME HasChild(o) PROVE HasActiveDescendants(o)
  BY <1>1, ChildIsDescendant DEF HasActiveDescendants, HasChild
<1>2. ASSUME HasActiveDescendants(o) PROVE HasChild(o)
  <2>1. PICK d \in live : o \in Ancestors(d)
    BY <1>2 DEF HasActiveDescendants, ActiveDescendants
  <2>2. o \in ParentIds
    BY <2>1 DEF Ancestors
  <2>3. QED
    BY <2>2 DEF HasChild, ParentIds
<1>3. QED
  BY <1>1, <1>2

\* The records keep their place in the tree and their activity.
SameShape ==
    /\ live' = live
    /\ before' = before
    /\ slot' = slot
    /\ \A p \in live : /\ inst'[p].parent = inst[p].parent
                       /\ inst'[p].activity = inst[p].activity

\* A step that only rewrites records keeps the shape invariants.
LEMMA SameShapeKeeps ==
  ASSUME Shape, TypeOK', SameShape
  PROVE  Shape' /\ \A o \in live : HasChild(o)' <=> HasChild(o)
  BY DEF Shape, SameShape, ArrayOrder, OwnershipTree, SlotOwned, Exclusive, HasChild

\* A new record is stored at the end of the array.
GrowShape(id, parent, activity) ==
    /\ id \in OpIds \ live
    /\ live' = live \cup {id}
    /\ before' = Appended(id)
    /\ inst'[id] = NewInstance(parent, activity)
    /\ \A p \in live : /\ inst'[p].parent = inst[p].parent
                       /\ inst'[p].activity = inst[p].activity

\* Creating an instance under a live parent, or an exclusive root when the
\* slot is free, keeps the shape invariants.
LEMMA GrowShapeKeeps ==
  ASSUME Shape, TypeOK', NEW id, NEW parent \in live \cup {NoParent},
         NEW activity \in Activity \cup {Idle},
         GrowShape(id, parent, activity),
         activity # Idle => slot = Idle,
         slot' = IF activity = Idle THEN slot ELSE activity
  PROVE  Shape' /\ \A o \in live : HasChild(o) => HasChild(o)'
<1> USE DEF Shape, GrowShape
<1>1. /\ inst'[id].parent = parent
      /\ inst'[id].activity = activity
  BY DEF NewInstance
<1>2. before' = before \cup {<<p, id>> : p \in live} /\ before \subseteq live \X live
  BY DEF Appended, TypeOK
<1>3. ArrayOrder'
  BY <1>2 DEF ArrayOrder
<1>4. OwnershipTree'
  BY <1>1, <1>2 DEF OwnershipTree
<1>5. SlotOwned'
  BY <1>1, IdleAssumption DEF SlotOwned, Exclusive
<1>6. \A o \in live : HasChild(o) => HasChild(o)'
  BY DEF HasChild
<1>7. QED
  BY <1>3, <1>4, <1>5, <1>6

\* The array loses the members of S, none of which has a child outside S.
ShrinkShape(S) ==
    /\ S \subseteq live
    /\ live' = live \ S
    /\ before' = Without(S)
    /\ slot' = IF \E c \in S : inst[c].activity # Idle /\ inst[c].activity = slot
               THEN Idle ELSE slot
    /\ \A p \in live' : /\ inst'[p].parent = inst[p].parent
                        /\ inst'[p].activity = inst[p].activity
    /\ \A d \in live \ S : inst[d].parent \notin S

\* Removing a set of instances closed under children keeps the shape
\* invariants: the slot is released with its exclusive root and not before.
LEMMA ShrinkShapeKeeps ==
  ASSUME Shape, TypeOK', NEW S, ShrinkShape(S)
  PROVE  Shape'
<1> USE DEF Shape, ShrinkShape
<1>1. \A p, q \in live' : <<p, q>> \in before' <=> <<p, q>> \in before
  BY DEF Without
<1>2. ArrayOrder'
  BY <1>1 DEF ArrayOrder
<1>3. OwnershipTree'
  BY <1>1 DEF OwnershipTree
<1>4. SlotOwned'
  <2>1. CASE \E c \in S : inst[c].activity # Idle /\ inst[c].activity = slot
    BY <2>1 DEF SlotOwned, Exclusive
  <2>2. CASE ~\E c \in S : inst[c].activity # Idle /\ inst[c].activity = slot
    BY <2>2 DEF SlotOwned, Exclusive
  <2>3. QED
    BY <2>1, <2>2
<1>5. QED
  BY <1>2, <1>3, <1>4

\* finalize removes a set of instances that is closed under children.
LEMMA FinalizeShrinks ==
  ASSUME Shape, TypeOK', NEW o \in live, NEW out, ~HasActiveDescendants(o), Finalize(o, out)
  PROVE  ShrinkShape(Finalized(o))
<1> DEFINE gone == Finalized(o)
           OutcomeOf(c) == IF c = o THEN out ELSE inst[c].pending
           EndedChild(p) == {c \in gone : inst[c].parent = p}
           Notified(p) == [inst[p] EXCEPT
                             !.child = OutcomeOf(CHOOSE c \in EndedChild(p) : TRUE),
                             !.parked = @ /\ inst[p].pending # None]
<1> USE DEF Shape
<1>1. /\ inst' = [p \in live \ gone |->
                    IF EndedChild(p) = {} THEN inst[p] ELSE Notified(p)]
      /\ before' = Without(gone)
      /\ slot' = IF \E c \in gone : inst[c].activity # Idle /\ inst[c].activity = slot
                 THEN Idle ELSE slot
  BY DEF Finalize
<1>2. gone \subseteq live
  BY FinalizedFacts
<1>3. \A d \in live \ gone : inst[d].parent \notin gone
  <2> SUFFICES ASSUME NEW d \in live \ gone, inst[d].parent \in gone PROVE FALSE
    OBVIOUS
  <2>1. d \in ActiveDescendants(inst[d].parent)
    BY <1>2, ChildIsDescendant
  <2>2. inst[d].parent # o
    BY <2>1 DEF HasActiveDescendants
  <2>3. QED
    BY <2>1, <2>2, FinalizedFacts
<1>4. live' = live \ gone
  BY <1>1 DEF live
<1>5. \A p \in live' : /\ inst'[p].parent = inst[p].parent
                       /\ inst'[p].activity = inst[p].activity
  <2> SUFFICES ASSUME NEW p \in live' PROVE /\ inst'[p].parent = inst[p].parent
                                            /\ inst'[p].activity = inst[p].activity
    OBVIOUS
  <2>1. inst[p] \in Instance
    BY <1>4 DEF TypeOK
  <2>2. inst'[p] = inst[p] \/ inst'[p] = Notified(p)
    BY <1>1, <1>4
  <2> HIDE DEF OutcomeOf, EndedChild
  <2>3. QED
    BY <2>1, <2>2 DEF Instance
<1>6. QED
  BY <1>1, <1>2, <1>3, <1>4, <1>5 DEF ShrinkShape

\* After finalize, a deferred terminal that stays still has a child.
LEMMA FinalizeKeepsDeferred ==
  ASSUME Shape, TypeOK', NEW o \in live, NEW out, ~HasActiveDescendants(o),
         Finalize(o, out), NEW p \in live', inst[p].pending # None, HasChild(p)
  PROVE  HasChild(p)'
<1> DEFINE gone == Finalized(o)
<1> USE DEF Shape
<1>1. ShrinkShape(gone)
  BY FinalizeShrinks
<1>2. p \in live \ gone
  BY <1>1 DEF ShrinkShape
<1> SUFFICES ASSUME \A d \in live \ gone : inst[d].parent # p PROVE FALSE
  BY <1>1 DEF ShrinkShape, HasChild
<1>3. PICK c \in gone : inst[c].parent = p
  BY DEF HasChild
<1>4. ~(ActiveDescendants(p) \subseteq gone)
  BY <1>2, <1>3, FinalizedFacts DEF ResolvesUpward
<1>5. PICK d \in live \ gone : p \in Ancestors(d)
  BY <1>4 DEF ActiveDescendants
<1> DEFINE S == {a \in ParentIds : a \notin gone /\ a # p}
<1>6. \A e \in live \ gone : inst[e].parent \in S \cup {NoParent}
  BY <1>1 DEF ShrinkShape, ParentIds
<1>7. UpwardClosed(S)
  BY <1>6 DEF UpwardClosed
<1>8. p \in S
  BY <1>5, <1>6, <1>7 DEF Ancestors
<1>9. QED
  BY <1>8

-----------------------------------------------------------------------------
\* DeferredHasDescendants in terms of children.
DeferredHasChild ==
    \A o \in live : inst[o].pending # None => inst[o].state = "Stopping" /\ HasChild(o)

\* IInv with the children in place of the descendants.
ChildInv == Shape /\ DeferredHasChild /\ NoLostWakeup

\* The two forms of the inductive invariant agree.
LEMMA ChildInvIsIInv == ChildInv <=> IInv
  BY DescendantsIffChild
     DEF ChildInv, IInv, Shape, DeferredHasChild, DeferredHasDescendants

\* The initial state satisfies the inductive invariant.
LEMMA ChildInvInit == Init => ChildInv
  BY TypeInit DEF Init, ChildInv, Shape, ArrayOrder, OwnershipTree, SlotOwned,
     Exclusive, DeferredHasChild, NoLostWakeup, live

\* One record is replaced by another in the same place of the tree.
LEMMA RewriteShape ==
  ASSUME TypeOK, NEW o \in live, NEW rec,
         rec.parent = inst[o].parent, rec.activity = inst[o].activity,
         inst' = [inst EXCEPT ![o] = rec], before' = before, slot' = slot
  PROVE  SameShape /\ inst'[o] = rec /\ \A p \in live : p # o => inst'[p] = inst[p]
  BY DEF TypeOK, SameShape, live

\* A step that rewrites one record keeps the invariant when the new record
\* is deferred only over a child and parked only as NoLostWakeup allows.
LEMMA RewriteKeeps ==
  ASSUME ChildInv, TypeOK', NEW o \in live, NEW rec,
         rec.parent = inst[o].parent, rec.activity = inst[o].activity,
         inst' = [inst EXCEPT ![o] = rec], before' = before, slot' = slot,
         rec.pending # None => rec.state = "Stopping" /\ HasChild(o),
         rec.pending = None /\ rec.parked => rec.state = "Running" /\ rec.child = None
  PROVE  ChildInv'
<1>1. TypeOK /\ Shape
  BY DEF ChildInv, Shape
<1>2. SameShape /\ inst'[o] = rec /\ \A p \in live : p # o => inst'[p] = inst[p]
  BY <1>1, RewriteShape
<1>3. Shape' /\ \A p \in live : HasChild(p)' <=> HasChild(p)
  BY <1>1, <1>2, SameShapeKeeps
<1>4. live' = live
  BY <1>2 DEF SameShape
<1>5. DeferredHasChild'
  BY <1>2, <1>3, <1>4 DEF ChildInv, DeferredHasChild
<1>6. NoLostWakeup'
  BY <1>2, <1>4 DEF ChildInv, NoLostWakeup
<1>7. QED
  BY <1>3, <1>5, <1>6 DEF ChildInv

\* A step that stops instances keeps the invariant.
LEMMA StopKeeps ==
  ASSUME ChildInv, TypeOK', before' = before, slot' = slot, NEW S \in SUBSET live,
         inst' = [p \in live |-> IF Stoppable(p) /\ p \in S
                                 THEN Stopped(inst[p]) ELSE inst[p]]
  PROVE  ChildInv'
<1>1. \A p \in live : inst[p] \in Instance
  BY DEF ChildInv, Shape, TypeOK
<1>2. live' = live
  BY DEF live
<1>3. \A p \in live : inst'[p] = inst[p] \/ inst'[p] = Stopped(inst[p])
  OBVIOUS
<1>4. \A p \in live : /\ Stopped(inst[p]).parent = inst[p].parent
                      /\ Stopped(inst[p]).activity = inst[p].activity
                      /\ Stopped(inst[p]).state = "Stopping"
                      /\ Stopped(inst[p]).parked = FALSE
                      /\ Stopped(inst[p]).pending = inst[p].pending
                      /\ Stopped(inst[p]).child = inst[p].child
  BY <1>1 DEF Stopped, Instance
<1>5. SameShape
  BY <1>2, <1>3, <1>4 DEF SameShape
<1>6. Shape' /\ \A p \in live : HasChild(p)' <=> HasChild(p)
  BY <1>5, SameShapeKeeps DEF ChildInv
<1>7. DeferredHasChild'
  BY <1>2, <1>3, <1>4, <1>6 DEF ChildInv, DeferredHasChild
<1>8. NoLostWakeup'
  BY <1>2, <1>3, <1>4 DEF ChildInv, NoLostWakeup
<1>9. QED
  BY <1>6, <1>7, <1>8 DEF ChildInv

\* Storing a new record, next to rewritten ones that keep their pending,
\* state and parking, keeps the invariant.
LEMMA GrowKeeps ==
  ASSUME ChildInv, TypeOK', NEW id, NEW parent \in live \cup {NoParent},
         NEW activity \in Activity \cup {Idle},
         GrowShape(id, parent, activity),
         activity # Idle => slot = Idle,
         slot' = IF activity = Idle THEN slot ELSE activity,
         \A p \in live : \/ inst'[p] = inst[p]
                         \/ inst'[p].pending = None /\ ~inst'[p].parked
  PROVE  ChildInv'
<1>1. Shape' /\ \A o \in live : HasChild(o) => HasChild(o)'
  BY GrowShapeKeeps DEF ChildInv
<1>2. /\ live' = live \cup {id}
      /\ inst'[id].pending = None
      /\ inst'[id].parked = FALSE
  BY DEF GrowShape, NewInstance
<1>3. DeferredHasChild'
  BY <1>1, <1>2 DEF ChildInv, DeferredHasChild
<1>4. NoLostWakeup'
  BY <1>2 DEF ChildInv, NoLostWakeup
<1>5. QED
  BY <1>1, <1>3, <1>4 DEF ChildInv

\* The end of an operation, deferred or not, keeps the invariant.
LEMMA TerminateKeeps ==
  ASSUME ChildInv, TypeOK', NEW o \in live, inst[o].pending = None,
         NEW out \in Outcome, Terminate(o, out)
  PROVE  ChildInv'
<1> USE DEF Shape
<1>1. inst[o] \in Instance
  BY DEF ChildInv, TypeOK
<1>2. CASE HasActiveDescendants(o) /\ Defer(o, out)
  <2> DEFINE rec == [Driven(o) EXCEPT !.state = "Stopping", !.parked = TRUE, !.pending = out]
  <2>1. /\ rec.parent = inst[o].parent
        /\ rec.activity = inst[o].activity
        /\ rec.pending = out
        /\ rec.state = "Stopping"
    BY <1>1 DEF Driven, Instance
  <2>2. out # None
    BY DEF Outcome, None
  <2>3. HasChild(o)
    BY <1>2, DescendantsIffChild DEF ChildInv
  <2>4. inst' = [inst EXCEPT ![o] = rec] /\ before' = before /\ slot' = slot
    BY <1>2 DEF Defer
  <2> HIDE DEF rec
  <2>5. QED
    BY <2>1, <2>2, <2>3, <2>4, RewriteKeeps
<1>3. CASE ~HasActiveDescendants(o) /\ Finalize(o, out)
  <2> DEFINE gone == Finalized(o)
             OutcomeOf(c) == IF c = o THEN out ELSE inst[c].pending
             EndedChild(p) == {c \in gone : inst[c].parent = p}
             Notified(p) == [inst[p] EXCEPT
                               !.child = OutcomeOf(CHOOSE c \in EndedChild(p) : TRUE),
                               !.parked = @ /\ inst[p].pending # None]
  <2>1. ShrinkShape(gone)
    BY <1>3, FinalizeShrinks DEF ChildInv
  <2>2. Shape'
    BY <2>1, ShrinkShapeKeeps DEF ChildInv
  <2>3. live' = live \ gone
    BY <2>1 DEF ShrinkShape
  <2>4. \A p \in live' : inst'[p] = inst[p] \/ inst'[p] = Notified(p)
    BY <1>3, <2>3 DEF Finalize
  <2>5. \A p \in live' : /\ Notified(p).pending = inst[p].pending
                         /\ Notified(p).state = inst[p].state
                         /\ Notified(p).parked = (inst[p].parked /\ inst[p].pending # None)
    <3> HIDE DEF OutcomeOf, EndedChild
    <3>1. \A p \in live' : inst[p] \in Instance
      BY <2>3 DEF ChildInv, TypeOK
    <3>2. QED
      BY <3>1 DEF Instance
  <2> HIDE DEF Notified
  <2>6. \A p \in live' : inst[p].pending # None => HasChild(p)'
    BY <1>3, <2>3, FinalizeKeepsDeferred DEF ChildInv, DeferredHasChild
  <2>7. DeferredHasChild'
    BY <2>3, <2>4, <2>5, <2>6 DEF ChildInv, DeferredHasChild
  <2>8. NoLostWakeup'
    BY <2>3, <2>4, <2>5, ZenonT(30) DEF ChildInv, NoLostWakeup
  <2>9. QED
    BY <2>2, <2>7, <2>8 DEF ChildInv
<1>4. QED
  BY <1>2, <1>3 DEF Terminate

\* A due instance is not parked: a child's end unparks it.
LEMMA DueIsUnparked ==
  ASSUME ChildInv, NEW o, FirstDue(o)
  PROVE  /\ o \in live
         /\ inst[o].pending = None
         /\ inst[o].parked = FALSE
         /\ inst[o] \in Instance
  BY DEF ChildInv, Shape, TypeOK, NoLostWakeup, FirstDue, Due, Instance

\* Every step keeps the invariant.
LEMMA ChildInvNext == ChildInv /\ [Next]_vars => ChildInv'
<1> SUFFICES ASSUME ChildInv, [Next]_vars PROVE ChildInv'
  OBVIOUS
<1>1. TypeOK'
  BY TypeNext DEF ChildInv, Shape
<1>2. ASSUME NEW a \in Activity \cup {Idle}, CreateRoot(a) PROVE ChildInv'
  <2>1. PICK id \in OpIds : /\ NextOpId(id)
                            /\ inst' = With(inst, id, NewInstance(NoParent, a))
                            /\ before' = Appended(id)
    BY <1>2 DEF CreateRoot
  <2>2. GrowShape(id, NoParent, a) /\ \A p \in live : inst'[p] = inst[p]
    BY <2>1 DEF GrowShape, NextOpId, With, live
  <2>3. (a # Idle => slot = Idle) /\ slot' = IF a = Idle THEN slot ELSE a
    BY <1>2 DEF CreateRoot, TryClaim
  <2>4. QED
    BY <1>1, <2>2, <2>3, GrowKeeps
<1>3. ASSUME NEW o \in OpIds, CreateChild(o) PROVE ChildInv'
  <2>1. PICK id \in OpIds : /\ NextOpId(id)
                            /\ inst' = With(inst, id, NewInstance(o, Idle))
                            /\ before' = Appended(id)
    BY <1>3 DEF CreateChild, InsertChild
  <2>2. GrowShape(id, o, Idle) /\ \A p \in live : inst'[p] = inst[p]
    BY <2>1 DEF GrowShape, NextOpId, With, live
  <2>3. o \in live /\ slot' = slot
    BY <1>3 DEF CreateChild
  <2>4. QED
    BY <1>1, <2>2, <2>3, GrowKeeps
<1>4. ASSUME NEW o \in OpIds, Stop(o) PROVE ChildInv'
  <2> DEFINE S == {p \in live : Stoppable(o) /\ (p = o \/ o \in Ancestors(p))}
  <2>1. /\ inst' = [p \in live |-> IF Stoppable(p) /\ p \in S
                                   THEN Stopped(inst[p]) ELSE inst[p]]
        /\ before' = before /\ slot' = slot
    BY <1>4 DEF Stop
  <2>2. S \in SUBSET live
    OBVIOUS
  <2> HIDE DEF S
  <2>3. QED
    BY <1>1, <2>1, <2>2, StopKeeps
<1>5. CASE FaultCascade
  <2>1. /\ inst' = [p \in live |-> IF Stoppable(p) /\ p \in live
                                   THEN Stopped(inst[p]) ELSE inst[p]]
        /\ before' = before /\ slot' = slot
    BY <1>5 DEF FaultCascade
  <2>2. QED
    BY <1>1, <2>1, StopKeeps
<1>6. ASSUME NEW o \in OpIds, DriverContinue(o) PROVE ChildInv'
  <2> DEFINE rec == [Driven(o) EXCEPT !.state = Started(@), !.parked = FALSE]
  <2>1. FirstDue(o) /\ inst' = [inst EXCEPT ![o] = rec] /\ before' = before /\ slot' = slot
    BY <1>6 DEF DriverContinue
  <2>2. /\ rec.parent = inst[o].parent /\ rec.activity = inst[o].activity
        /\ rec.pending = None /\ rec.parked = FALSE
    BY <2>1, DueIsUnparked DEF Driven, Instance
  <2> HIDE DEF rec
  <2>3. QED
    BY <1>1, <2>1, <2>2, DueIsUnparked, RewriteKeeps
<1>7. ASSUME NEW o \in OpIds, DriverYield(o) PROVE ChildInv'
  <2> DEFINE rec == [Driven(o) EXCEPT !.state = Started(@),
                                      !.parked = inst[o].state # "Stopping"]
  <2>1. FirstDue(o) /\ inst' = [inst EXCEPT ![o] = rec] /\ before' = before /\ slot' = slot
    BY <1>7 DEF DriverYield
  <2>2. /\ rec.parent = inst[o].parent /\ rec.activity = inst[o].activity
        /\ rec.pending = None /\ rec.child = None
        /\ rec.parked => rec.state = "Running"
    BY <2>1, DueIsUnparked DEF Driven, Instance, Started, OpState
  <2> HIDE DEF rec
  <2>3. QED
    BY <1>1, <2>1, <2>2, DueIsUnparked, RewriteKeeps
<1>8. ASSUME NEW o \in OpIds, FirstDue(o), inst' = [inst EXCEPT ![o] = Driven(o)],
             before' = before, slot' = slot
      PROVE  ChildInv'
  <2>1. /\ Driven(o).parent = inst[o].parent /\ Driven(o).activity = inst[o].activity
        /\ Driven(o).pending = None /\ Driven(o).parked = FALSE
    BY <1>8, DueIsUnparked DEF Driven, Instance
  <2>2. QED
    BY <1>1, <1>8, <2>1, DueIsUnparked, RewriteKeeps
<1>9. ASSUME NEW o \in OpIds, DriverSpawn(o) PROVE ChildInv'
  <2> DEFINE spawning == [Driven(o) EXCEPT !.state = Started(@)]
             failed == [spawning EXCEPT !.child = "Failed"]
  <2>1. FirstDue(o) /\ slot' = slot
    BY <1>9 DEF DriverSpawn
  <2>2. /\ spawning.parent = inst[o].parent /\ spawning.activity = inst[o].activity
        /\ spawning.pending = None /\ spawning.parked = FALSE
    BY <2>1, DueIsUnparked DEF Driven, Instance
  <2>3. /\ failed.parent = inst[o].parent /\ failed.activity = inst[o].activity
        /\ failed.pending = None /\ failed.parked = FALSE
    BY <2>1, DueIsUnparked DEF Driven, Instance
  <2>4. CASE inst' = [inst EXCEPT ![o] = Driven(o)] /\ before' = before
    BY <1>8, <2>1, <2>4
  <2>5. CASE InsertChild(o, [inst EXCEPT ![o] = spawning])
    <3> HIDE DEF spawning
    <3>1. PICK id \in OpIds :
            /\ NextOpId(id)
            /\ inst' = With([inst EXCEPT ![o] = spawning], id, NewInstance(o, Idle))
            /\ before' = Appended(id)
      BY <2>5 DEF InsertChild
    <3>2. /\ id \in OpIds \ live
          /\ live' = live \cup {id}
          /\ inst'[id] = NewInstance(o, Idle)
          /\ inst'[o] = spawning
          /\ \A p \in live : p # o => inst'[p] = inst[p]
      BY <2>1, <3>1, DueIsUnparked DEF NextOpId, With, live
    <3>3. GrowShape(id, o, Idle)
      BY <2>2, <3>1, <3>2 DEF GrowShape
    <3>4. \A p \in live : \/ inst'[p] = inst[p]
                          \/ inst'[p].pending = None /\ ~inst'[p].parked
      BY <2>2, <3>2
    <3>5. QED
      BY <1>1, <2>1, <3>3, <3>4, DueIsUnparked, GrowKeeps
  <2>6. CASE inst' = [inst EXCEPT ![o] = failed] /\ before' = before
    <3> HIDE DEF failed
    <3>1. QED
      BY <1>1, <2>1, <2>3, <2>6, DueIsUnparked, RewriteKeeps
  <2>7. QED
    BY <1>9, <2>4, <2>5, <2>6 DEF DriverSpawn
<1>10. ASSUME NEW o \in OpIds, NEW out \in Outcome, FirstDue(o), Terminate(o, out)
       PROVE  ChildInv'
  BY <1>1, <1>10, DueIsUnparked, TerminateKeeps
<1>11. ASSUME NEW o \in OpIds, DriverComplete(o) PROVE ChildInv'
  BY <1>10, <1>11 DEF DriverComplete, Outcome
<1>12. ASSUME NEW o \in OpIds, DriverFail(o) PROVE ChildInv'
  BY <1>10, <1>12 DEF DriverFail, Outcome
<1>13. ASSUME NEW o \in OpIds, DriverCancel(o) PROVE ChildInv'
  BY <1>8, <1>10, <1>13 DEF DriverCancel, Outcome
<1>14. CASE UNCHANGED vars
  BY <1>14 DEF vars, ChildInv, Shape, TypeOK, ArrayOrder, OwnershipTree, SlotOwned,
     Exclusive, DeferredHasChild, NoLostWakeup, HasChild, live
<1>15. QED
  BY <1>2, <1>3, <1>4, <1>5, <1>6, <1>7, <1>9, <1>11, <1>12, <1>13, <1>14
     DEF Next, Advance

\* The inductive invariant holds in every reachable state.
THEOREM Invariance == Spec => []IInv
<1>1. Spec => []ChildInv
  BY ChildInvInit, ChildInvNext, PTL DEF Spec
<1>2. QED
  BY <1>1, ChildInvIsIInv, PTL

\* I-LC-4 of the lifecycle design: the exclusive slot is held by exactly the
\* one live exclusive root, under its class, and is never leaked or shared.
THEOREM SlotOwnership == Spec => []SlotOwned
  BY Invariance, PTL DEF IInv

\* Creations, insertions of children and removals keep the array an array:
\* every pair of live instances stands in one order.
THEOREM ArrayStaysOrdered == Spec => []ArrayOrder
  BY Invariance, PTL DEF IInv

\* No removal leaves a child whose parent is gone, whatever ids are reused.
THEOREM NoOrphans == Spec => []OwnershipTree
  BY Invariance, PTL DEF IInv

\* No deferred terminal is stranded without a descendant to resolve it.
THEOREM NoStrandedTerminal == Spec => []DeferredHasDescendants
  BY Invariance, PTL DEF IInv

\* Neither a stop nor the end of a child leaves its target parked.
THEOREM WakeupsDelivered == Spec => []NoLostWakeup
  BY Invariance, PTL DEF IInv

-----------------------------------------------------------------------------
\* Every member of the cascade of finalize(o) stands before o in the array.
LEMMA FinalizedBefore ==
  ASSUME TypeOK, ArrayOrder, OwnershipTree, NEW o \in live
  PROVE  \A c \in Finalized(o) : c = o \/ <<c, o>> \in before
<1> DEFINE S == {c \in Finalized(o) : c = o \/ <<c, o>> \in before}
<1>1. S \in SUBSET live /\ o \in S /\ S \subseteq Finalized(o)
  BY FinalizedFacts
<1>2. ResolvesUpward(S)
  <2> SUFFICES ASSUME NEW c \in S, NEW p \in live, p = inst[c].parent,
                      inst[p].pending # None, ActiveDescendants(p) \subseteq S
               PROVE  p \in S
    BY DEF ResolvesUpward
  <2>1. p \in Finalized(o)
    BY <1>1, FinalizedFacts DEF ResolvesUpward
  <2>2. p # NoParent
    BY IdAssumption DEF TypeOK, OpIds, NoParent
  <2>3. c \in live /\ <<p, c>> \in before
    BY <1>1, <2>2 DEF OwnershipTree
  <2>4. c = o \/ <<c, o>> \in before
    OBVIOUS
  <2>5. <<p, o>> \in before
    BY <2>3, <2>4 DEF ArrayOrder
  <2>6. QED
    BY <2>1, <2>5
<1>3. QED
  BY <1>1, <1>2 DEF Finalized

\* What ChildOutcomeSeen allows a step to do.
OutcomeSeenStep ==
    \A o \in live : inst[o].pending = None /\ inst[o].child # None =>
      \A c \in live \ live' : inst[c].parent # o

\* A step that removes nobody is allowed.
LEMMA NobodyLeaves ==
  ASSUME live \subseteq live'
  PROVE  OutcomeSeenStep
  BY DEF OutcomeSeenStep

\* No end of the driven instance, with all that finalize resolves above it,
\* ends a child of a parent with an unseen outcome.
LEMMA TerminateSeen ==
  ASSUME ChildInv, NEW o \in live, FirstDue(o), NEW out \in Outcome, Terminate(o, out)
  PROVE  OutcomeSeenStep
<1> USE DEF ChildInv, Shape
<1>1. CASE Defer(o, out)
  BY <1>1, NobodyLeaves DEF Defer, live
<1>2. CASE Finalize(o, out)
  <2>1. live \ live' \subseteq Finalized(o)
    BY <1>2 DEF Finalize, live
  <2> SUFFICES ASSUME NEW p \in live, inst[p].pending = None, inst[p].child # None,
                      NEW c \in Finalized(o), inst[c].parent = p
               PROVE  FALSE
    BY <2>1 DEF OutcomeSeenStep
  <2>2. p # NoParent
    BY IdAssumption DEF TypeOK, OpIds, NoParent
  <2>3. c \in live /\ <<p, c>> \in before
    BY <2>2, FinalizedFacts DEF OwnershipTree
  <2>4. <<p, o>> \in before
    BY <2>3, FinalizedBefore DEF ArrayOrder
  <2>5. QED
    BY <2>4 DEF FirstDue, Due
<1>3. QED
  BY <1>1, <1>2 DEF Terminate

\* Every step leaves alone the child outcome an instance has not seen yet.
LEMMA OutcomeSeenNext == ChildInv /\ [Next]_vars => [OutcomeSeenStep]_vars
<1> SUFFICES ASSUME ChildInv, Next PROVE OutcomeSeenStep
  OBVIOUS
<1> USE DEF ChildInv, Shape
<1>1. ASSUME NEW a \in Activity \cup {Idle}, CreateRoot(a) PROVE OutcomeSeenStep
  BY <1>1, NobodyLeaves DEF CreateRoot, With, live
<1>2. ASSUME NEW o \in OpIds, CreateChild(o) PROVE OutcomeSeenStep
  BY <1>2, NobodyLeaves DEF CreateChild, InsertChild, With, live
<1>3. ASSUME NEW o \in OpIds, Stop(o) PROVE OutcomeSeenStep
  BY <1>3, NobodyLeaves DEF Stop, live
<1>4. CASE FaultCascade
  BY <1>4, NobodyLeaves DEF FaultCascade, live
<1>5. ASSUME NEW o \in OpIds, DriverContinue(o) \/ DriverYield(o) PROVE OutcomeSeenStep
  BY <1>5, NobodyLeaves DEF DriverContinue, DriverYield, live
<1>6. ASSUME NEW o \in OpIds, DriverSpawn(o) PROVE OutcomeSeenStep
  <2> DEFINE spawning == [Driven(o) EXCEPT !.state = Started(@)]
  <2>1. CASE InsertChild(o, [inst EXCEPT ![o] = spawning])
    BY <2>1, NobodyLeaves DEF InsertChild, With, live
  <2>2. CASE \E rec : inst' = [inst EXCEPT ![o] = rec]
    BY <2>2, NobodyLeaves DEF live
  <2>3. QED
    BY <1>6, <2>1, <2>2 DEF DriverSpawn
<1>7. ASSUME NEW o \in OpIds, NEW out \in Outcome, FirstDue(o), Terminate(o, out)
      PROVE  OutcomeSeenStep
  BY <1>7, DueIsUnparked, TerminateSeen
<1>8. ASSUME NEW o \in OpIds, DriverComplete(o) PROVE OutcomeSeenStep
  BY <1>7, <1>8 DEF DriverComplete, Outcome
<1>9. ASSUME NEW o \in OpIds, DriverFail(o) PROVE OutcomeSeenStep
  BY <1>7, <1>9 DEF DriverFail, Outcome
<1>10. ASSUME NEW o \in OpIds, DriverCancel(o) PROVE OutcomeSeenStep
  <2>1. CASE \E rec : inst' = [inst EXCEPT ![o] = rec]
    BY <2>1, NobodyLeaves DEF live
  <2>2. CASE FirstDue(o) /\ Terminate(o, "Cancelled")
    BY <1>7, <2>2 DEF Outcome
  <2>3. QED
    BY <1>10, <2>1, <2>2 DEF DriverCancel
<1>11. QED
  BY <1>1, <1>2, <1>3, <1>4, <1>5, <1>6, <1>8, <1>9, <1>10 DEF Next, Advance

\* No child outcome is overwritten before the parent's driver has seen it,
\* although an instance has room for a single one.
THEOREM OutcomesSeen == Spec => ChildOutcomeSeen
<1>1. Spec => []ChildInv
  BY ChildInvInit, ChildInvNext, PTL DEF Spec
<1>2. Spec => [][OutcomeSeenStep]_vars
  BY <1>1, OutcomeSeenNext, PTL DEF Spec
<1>3. QED
  BY <1>2 DEF ChildOutcomeSeen, OutcomeSeenStep

-----------------------------------------------------------------------------
\* The holder is the one exclusive instance, if there is one.
HolderFacts ==
    \/ /\ slot = Idle /\ Holder = NoParent
       /\ \A o \in live : ~Exclusive(o)
    \/ /\ slot # Idle /\ Holder # NoParent /\ Holder \in live
       /\ \A o \in live : Exclusive(o) <=> o = Holder

\* The invariant gives the facts about the holder.
LEMMA HolderCharacterised == ChildInv => HolderFacts
<1> SUFFICES ASSUME ChildInv PROVE HolderFacts
  OBVIOUS
<1> USE DEF ChildInv, Shape, SlotOwned
<1>1. CASE \E o \in live : Exclusive(o)
  <2>1. Holder \in live /\ Exclusive(Holder)
    BY <1>1 DEF Holder
  <2>2. Holder # NoParent
    BY <2>1, IdAssumption DEF TypeOK, OpIds, NoParent
  <2>3. slot # Idle
    BY <2>1 DEF Exclusive
  <2>4. QED
    BY <2>1, <2>2, <2>3 DEF HolderFacts
<1>2. CASE ~\E o \in live : Exclusive(o)
  BY <1>2 DEF Holder, HolderFacts
<1>3. QED
  BY <1>1, <1>2

\* A step that leaves the live set and the activities alone keeps the holder.
LEMMA SameHolder ==
  ASSUME HolderFacts, HolderFacts', SameShape
  PROVE  Holder' = Holder /\ slot' = slot
  BY DEF HolderFacts, SameShape, Exclusive

\* A step rewrites records in place, stores one record or removes a set.
StepShape ==
    \/ SameShape
    \/ \E id \in OpIds, parent \in live \cup {NoParent}, a \in Activity \cup {Idle} :
         /\ GrowShape(id, parent, a)
         /\ a # Idle => slot = Idle
         /\ slot' = IF a = Idle THEN slot ELSE a
    \/ \E S \in SUBSET live : ShrinkShape(S)

\* Every step has one of the three shapes.
LEMMA NextShape == ChildInv /\ ChildInv' /\ [Next]_vars => StepShape
<1> SUFFICES ASSUME ChildInv, ChildInv', [Next]_vars PROVE StepShape
  OBVIOUS
<1> USE DEF ChildInv, Shape
<1>1. ASSUME NEW a \in Activity \cup {Idle}, CreateRoot(a) PROVE StepShape
  <2>1. PICK id \in OpIds : /\ NextOpId(id)
                            /\ inst' = With(inst, id, NewInstance(NoParent, a))
                            /\ before' = Appended(id)
    BY <1>1 DEF CreateRoot
  <2>2. GrowShape(id, NoParent, a)
    BY <2>1 DEF GrowShape, NextOpId, With, live
  <2>3. QED
    BY <1>1, <2>2 DEF StepShape, CreateRoot, TryClaim
<1>2. ASSUME NEW o \in OpIds, CreateChild(o) PROVE StepShape
  <2>1. PICK id \in OpIds : /\ NextOpId(id)
                            /\ inst' = With(inst, id, NewInstance(o, Idle))
                            /\ before' = Appended(id)
    BY <1>2 DEF CreateChild, InsertChild
  <2>2. GrowShape(id, o, Idle)
    BY <2>1 DEF GrowShape, NextOpId, With, live
  <2>3. QED
    BY <1>2, <2>2 DEF StepShape, CreateChild
<1>3. \A p \in live : /\ Stopped(inst[p]).parent = inst[p].parent
                      /\ Stopped(inst[p]).activity = inst[p].activity
  BY DEF TypeOK, Instance, Stopped
<1>4. ASSUME NEW o \in OpIds, Stop(o) PROVE StepShape
  BY <1>3, <1>4 DEF Stop, StepShape, SameShape, live
<1>5. CASE FaultCascade
  BY <1>3, <1>5 DEF FaultCascade, StepShape, SameShape, live
<1>6. ASSUME NEW o \in live, NEW rec,
             rec.parent = inst[o].parent, rec.activity = inst[o].activity,
             inst' = [inst EXCEPT ![o] = rec], before' = before, slot' = slot
      PROVE  StepShape
  BY <1>6, RewriteShape DEF StepShape
<1>7. ASSUME NEW o \in OpIds, DriverContinue(o) PROVE StepShape
  <2> DEFINE rec == [Driven(o) EXCEPT !.state = Started(@), !.parked = FALSE]
  <2>1. o \in live /\ inst' = [inst EXCEPT ![o] = rec] /\ before' = before /\ slot' = slot
    BY <1>7, DueIsUnparked DEF DriverContinue
  <2>2. rec.parent = inst[o].parent /\ rec.activity = inst[o].activity
    BY <2>1 DEF TypeOK, Driven, Instance
  <2> HIDE DEF rec
  <2>3. QED
    BY <1>6, <2>1, <2>2
<1>8. ASSUME NEW o \in OpIds, DriverYield(o) PROVE StepShape
  <2> DEFINE rec == [Driven(o) EXCEPT !.state = Started(@),
                                      !.parked = inst[o].state # "Stopping"]
  <2>1. o \in live /\ inst' = [inst EXCEPT ![o] = rec] /\ before' = before /\ slot' = slot
    BY <1>8, DueIsUnparked DEF DriverYield
  <2>2. rec.parent = inst[o].parent /\ rec.activity = inst[o].activity
    BY <2>1 DEF TypeOK, Driven, Instance
  <2> HIDE DEF rec
  <2>3. QED
    BY <1>6, <2>1, <2>2
<1>9. ASSUME NEW o \in OpIds, DriverSpawn(o) PROVE StepShape
  <2> DEFINE spawning == [Driven(o) EXCEPT !.state = Started(@)]
             failed == [spawning EXCEPT !.child = "Failed"]
  <2>1. o \in live /\ slot' = slot
    BY <1>9, DueIsUnparked DEF DriverSpawn
  <2>2. /\ Driven(o).parent = inst[o].parent /\ Driven(o).activity = inst[o].activity
        /\ spawning.parent = inst[o].parent /\ spawning.activity = inst[o].activity
        /\ failed.parent = inst[o].parent /\ failed.activity = inst[o].activity
    BY <2>1 DEF TypeOK, Driven, Instance
  <2>3. CASE inst' = [inst EXCEPT ![o] = Driven(o)] /\ before' = before
    BY <1>6, <2>1, <2>2, <2>3
  <2>4. CASE InsertChild(o, [inst EXCEPT ![o] = spawning])
    <3> HIDE DEF spawning
    <3>1. PICK id \in OpIds :
            /\ NextOpId(id)
            /\ inst' = With([inst EXCEPT ![o] = spawning], id, NewInstance(o, Idle))
            /\ before' = Appended(id)
      BY <2>4 DEF InsertChild
    <3>2. /\ id \in OpIds \ live
          /\ live' = live \cup {id}
          /\ inst'[id] = NewInstance(o, Idle)
          /\ inst'[o] = spawning
          /\ \A p \in live : p # o => inst'[p] = inst[p]
      BY <2>1, <3>1 DEF NextOpId, With, live
    <3>3. GrowShape(id, o, Idle)
      BY <2>2, <3>1, <3>2 DEF GrowShape
    <3>4. QED
      BY <2>1, <3>3 DEF StepShape
  <2>5. CASE inst' = [inst EXCEPT ![o] = failed] /\ before' = before
    <3> HIDE DEF failed
    <3>1. QED
      BY <1>6, <2>1, <2>2, <2>5
  <2>6. QED
    BY <1>9, <2>3, <2>4, <2>5 DEF DriverSpawn
<1>10. ASSUME NEW o \in live, NEW out \in Outcome, Terminate(o, out) PROVE StepShape
  <2>1. CASE Defer(o, out)
    <3> DEFINE rec == [Driven(o) EXCEPT !.state = "Stopping", !.parked = TRUE, !.pending = out]
    <3>1. rec.parent = inst[o].parent /\ rec.activity = inst[o].activity
      BY DEF TypeOK, Driven, Instance
    <3>2. inst' = [inst EXCEPT ![o] = rec] /\ before' = before /\ slot' = slot
      BY <2>1 DEF Defer
    <3> HIDE DEF rec
    <3>3. QED
      BY <1>6, <3>1, <3>2
  <2>2. CASE ~HasActiveDescendants(o) /\ Finalize(o, out)
    BY <2>2, FinalizeShrinks, FinalizedFacts DEF StepShape
  <2>3. QED
    BY <1>10, <2>1, <2>2 DEF Terminate
<1>11. ASSUME NEW o \in OpIds, DriverComplete(o) PROVE StepShape
  BY <1>10, <1>11, DueIsUnparked DEF DriverComplete, Outcome
<1>12. ASSUME NEW o \in OpIds, DriverFail(o) PROVE StepShape
  BY <1>10, <1>12, DueIsUnparked DEF DriverFail, Outcome
<1>13. ASSUME NEW o \in OpIds, DriverCancel(o) PROVE StepShape
  <2>1. o \in live
    BY <1>13, DueIsUnparked DEF DriverCancel
  <2>2. Driven(o).parent = inst[o].parent /\ Driven(o).activity = inst[o].activity
    BY <2>1 DEF TypeOK, Driven, Instance
  <2>3. QED
    BY <1>6, <1>10, <1>13, <2>1, <2>2 DEF DriverCancel, Outcome
<1>14. CASE UNCHANGED vars
  BY <1>14 DEF vars, StepShape, SameShape, live
<1>15. QED
  BY <1>1, <1>2, <1>4, <1>5, <1>7, <1>8, <1>9, <1>11, <1>12, <1>13, <1>14
     DEF Next, Advance

\* Seen through Holder and slot, a step of any shape is a step of the slot.
LEMMA ShapeImplements ==
  ASSUME HolderFacts, HolderFacts', ChildInv', StepShape
  PROVE  [Slot!Next]_(Slot!slotVars)
<1>1. CASE SameShape
  BY <1>1, SameHolder DEF Slot!slotVars
<1>2. ASSUME NEW id \in OpIds, NEW parent \in live \cup {NoParent},
             NEW a \in Activity \cup {Idle}, GrowShape(id, parent, a),
             a # Idle => slot = Idle, slot' = IF a = Idle THEN slot ELSE a
      PROVE  [Slot!Next]_(Slot!slotVars)
  <2>1. inst'[id].activity = a /\ id \in live'
    BY <1>2 DEF GrowShape, NewInstance
  <2>2. CASE a = Idle
    <3>1. Holder' = Holder /\ slot' = slot
      BY <1>2, <2>1, <2>2 DEF HolderFacts, GrowShape, Exclusive
    <3>2. QED
      BY <3>1 DEF Slot!slotVars
  <2>3. CASE a # Idle
    <3>1. Holder = NoParent /\ Holder' = id /\ slot' = a
      BY <1>2, <2>1, <2>3 DEF HolderFacts, Exclusive
    <3>2. QED
      BY <2>3, <3>1 DEF Slot!Next, Slot!Claim
  <2>4. QED
    BY <2>2, <2>3
<1>3. ASSUME NEW S \in SUBSET live, ShrinkShape(S) PROVE [Slot!Next]_(Slot!slotVars)
  <2>1. CASE slot' = slot
    <3>1. Holder' = Holder
      BY <1>3, <2>1 DEF HolderFacts, ShrinkShape, Exclusive
    <3>2. QED
      BY <2>1, <3>1 DEF Slot!slotVars
  <2>2. CASE slot' # slot
    <3>1. slot' = Idle /\ slot # Idle
      BY <1>3, <2>2 DEF ShrinkShape
    <3>2. Holder # NoParent /\ Holder' = NoParent
      BY <3>1 DEF HolderFacts
    <3>3. QED
      BY <3>1, <3>2 DEF Slot!Next, Slot!Release
  <2>3. QED
    BY <2>1, <2>2
<1>4. QED
  BY <1>1, <1>2, <1>3 DEF StepShape

\* The runtime implements the abstract exclusive slot of ExclusiveActivity.
THEOREM SlotRefinement == Spec => ImplementsSlot
<1>1. Init => Slot!Init
  BY DEF Init, Slot!Init, Holder, live
<1>2. Spec => []ChildInv
  BY ChildInvInit, ChildInvNext, PTL DEF Spec
<1>3. ChildInv /\ ChildInv' /\ [Next]_vars => [Slot!Next]_(Slot!slotVars)
  <2> SUFFICES ASSUME ChildInv, ChildInv', [Next]_vars
               PROVE  [Slot!Next]_(Slot!slotVars)
    OBVIOUS
  <2>1. HolderFacts
    BY HolderCharacterised
  <2>2. HolderFacts'
    BY HolderCharacterised, PTL
  <2>3. QED
    BY <2>1, <2>2, NextShape, ShapeImplements
<1>4. QED
  BY <1>1, <1>2, <1>3, PTL DEF Spec, ImplementsSlot, Slot!Spec

-----------------------------------------------------------------------------
\* A step that reports nothing: nobody leaves, a deferred outcome stays as it
\* is and a stopping instance keeps stopping.
Keeps ==
    /\ live \subseteq live'
    /\ reported' = {}
    /\ \A p \in live : /\ inst[p].pending # None => inst'[p].pending = inst[p].pending
                       /\ inst[p].state = "Stopping" => inst'[p].state = "Stopping"

\* A step that ends o, whose driver was due, with what finalize resolves above.
Ends(o, out) ==
    /\ o \in live
    /\ inst[o].pending = None
    /\ out \in Outcome
    /\ ~HasActiveDescendants(o)
    /\ Finalize(o, out)

\* The record of a due instance has no deferred outcome to lose.
LEMMA RewriteDue ==
  ASSUME ChildInv, NEW o, FirstDue(o), NEW rec,
         inst' = [inst EXCEPT ![o] = rec], reported' = {},
         inst[o].state = "Stopping" => rec.state = "Stopping"
  PROVE  Keeps
<1>1. /\ live' = live
      /\ o \in live /\ inst[o].pending = None
      /\ inst'[o] = rec
      /\ \A p \in live : p # o => inst'[p] = inst[p]
  BY DueIsUnparked DEF ChildInv, Shape, TypeOK, live
<1>2. QED
  BY <1>1 DEF Keeps

\* The end of a driver's operation is deferred or ends the instance.
LEMMA TerminateKeepsOrEnds ==
  ASSUME ChildInv, NEW o, FirstDue(o), NEW out \in Outcome, Terminate(o, out)
  PROVE  Keeps \/ Ends(o, out)
<1>1. o \in live /\ inst[o].pending = None /\ inst[o] \in Instance
  BY DueIsUnparked
<1>2. CASE Defer(o, out)
  <2> DEFINE rec == [Driven(o) EXCEPT !.state = "Stopping", !.parked = TRUE, !.pending = out]
  <2>1. inst' = [inst EXCEPT ![o] = rec] /\ reported' = {}
    BY <1>2 DEF Defer
  <2>2. rec.state = "Stopping"
    BY <1>1 DEF Driven, Instance
  <2> HIDE DEF rec
  <2>3. QED
    BY <2>1, <2>2, RewriteDue
<1>3. CASE ~HasActiveDescendants(o) /\ Finalize(o, out)
  BY <1>1, <1>3 DEF Ends
<1>4. QED
  BY <1>2, <1>3 DEF Terminate

\* Every step either reports nothing or is the end of one due instance.
LEMMA NextKeepsOrEnds ==
  ASSUME ChildInv, Next
  PROVE  Keeps \/ \E o \in live, out \in Outcome : Ends(o, out)
<1> DEFINE Goal == Keeps \/ \E o \in live, out \in Outcome : Ends(o, out)
<1>1. ASSUME NEW base, NEW id, NEW rec, NEW o,
             base = inst \/ /\ FirstDue(o)
                            /\ \E r : /\ base = [inst EXCEPT ![o] = r]
                                      /\ r.state = "Stopping" \/ inst[o].state # "Stopping",
             id \notin live, inst' = With(base, id, rec), reported' = {}
      PROVE  Keeps
  <2>1. \A p \in live : /\ p \in DOMAIN base
                        /\ base[p] = inst[p]
                             \/ /\ inst[p].pending = None
                                /\ inst[p].state = "Stopping" => base[p].state = "Stopping"
    BY <1>1, DueIsUnparked DEF ChildInv, Shape, TypeOK, live
  <2>2. \A p \in live : inst'[p] = base[p] /\ p \in live'
    BY <1>1, <2>1 DEF With, live
  <2>3. QED
    BY <1>1, <2>1, <2>2 DEF Keeps
<1>2. ASSUME NEW a \in Activity \cup {Idle}, CreateRoot(a) PROVE Goal
  <2>1. PICK id \in OpIds : NextOpId(id) /\ inst' = With(inst, id, NewInstance(NoParent, a))
    BY <1>2 DEF CreateRoot
  <2>2. id \notin live /\ reported' = {}
    BY <1>2, <2>1 DEF NextOpId, CreateRoot
  <2>3. Keeps
    BY <1>1, <2>1, <2>2
  <2>4. QED
    BY <2>3
<1>3. ASSUME NEW p \in OpIds, CreateChild(p) PROVE Goal
  <2>1. PICK id \in OpIds : NextOpId(id) /\ inst' = With(inst, id, NewInstance(p, Idle))
    BY <1>3 DEF CreateChild, InsertChild
  <2>2. id \notin live /\ reported' = {}
    BY <1>3, <2>1 DEF NextOpId, CreateChild
  <2>3. Keeps
    BY <1>1, <2>1, <2>2
  <2>4. QED
    BY <2>3
<1>4. \A p \in live : Stopped(inst[p]).state = "Stopping" /\ Stopped(inst[p]).pending = inst[p].pending
  BY DEF ChildInv, Shape, TypeOK, Instance, Stopped
<1>5. ASSUME NEW o \in OpIds, Stop(o) PROVE Goal
  BY <1>4, <1>5 DEF Stop, Keeps, live
<1>6. CASE FaultCascade
  BY <1>4, <1>6 DEF FaultCascade, Keeps, live
<1>7. ASSUME NEW o, FirstDue(o)
      PROVE  /\ inst[o] \in Instance
             /\ Driven(o) \in Instance
             /\ Driven(o).state = inst[o].state
             /\ Started("Stopping") = "Stopping"
  BY <1>7, DueIsUnparked DEF Driven, Instance, Started, Outcome, None
<1>8. ASSUME NEW o \in OpIds, DriverContinue(o) PROVE Goal
  <2> DEFINE rec == [Driven(o) EXCEPT !.state = Started(@), !.parked = FALSE]
  <2>1. FirstDue(o) /\ inst' = [inst EXCEPT ![o] = rec] /\ reported' = {}
    BY <1>8 DEF DriverContinue
  <2>2. rec.state = Started(inst[o].state)
    BY <1>7, <2>1 DEF Instance
  <2> HIDE DEF rec
  <2>3. QED
    BY <1>7, <2>1, <2>2, RewriteDue
<1>9. ASSUME NEW o \in OpIds, DriverYield(o) PROVE Goal
  <2> DEFINE rec == [Driven(o) EXCEPT !.state = Started(@),
                                      !.parked = inst[o].state # "Stopping"]
  <2>1. FirstDue(o) /\ inst' = [inst EXCEPT ![o] = rec] /\ reported' = {}
    BY <1>9 DEF DriverYield
  <2>2. rec.state = Started(inst[o].state)
    BY <1>7, <2>1 DEF Instance
  <2> HIDE DEF rec
  <2>3. QED
    BY <1>7, <2>1, <2>2, RewriteDue
<1>10. ASSUME NEW o \in OpIds, DriverSpawn(o) PROVE Goal
  <2> DEFINE spawning == [Driven(o) EXCEPT !.state = Started(@)]
             failed == [spawning EXCEPT !.child = "Failed"]
  <2>1. FirstDue(o) /\ reported' = {}
    BY <1>10 DEF DriverSpawn
  <2>2. CASE inst' = [inst EXCEPT ![o] = Driven(o)]
    BY <1>7, <2>1, <2>2, RewriteDue
  <2>3. CASE inst[o].state # "Stopping" /\ InsertChild(o, [inst EXCEPT ![o] = spawning])
    <3> HIDE DEF spawning
    <3>1. PICK id \in OpIds : /\ NextOpId(id)
                              /\ inst' = With([inst EXCEPT ![o] = spawning], id, NewInstance(o, Idle))
      BY <2>3 DEF InsertChild
    <3>2. id \notin live
      BY <3>1 DEF NextOpId
    <3>3. Keeps
      BY <1>1, <2>1, <2>3, <3>1, <3>2
    <3>4. QED
      BY <3>3
  <2>4. CASE inst[o].state # "Stopping" /\ inst' = [inst EXCEPT ![o] = failed]
    <3> HIDE DEF failed
    <3>1. QED
      BY <2>1, <2>4, RewriteDue
  <2>5. QED
    BY <1>10, <2>2, <2>3, <2>4 DEF DriverSpawn
<1>11. ASSUME NEW o \in OpIds, NEW out \in Outcome, FirstDue(o), Terminate(o, out) PROVE Goal
  <2>1. Keeps \/ Ends(o, out)
    BY <1>11, TerminateKeepsOrEnds
  <2>2. o \in live
    BY <1>11, DueIsUnparked
  <2>3. QED
    BY <2>1, <2>2
<1>12. ASSUME NEW o \in OpIds, DriverComplete(o) PROVE Goal
  BY <1>11, <1>12 DEF DriverComplete, Outcome
<1>13. ASSUME NEW o \in OpIds, DriverFail(o) PROVE Goal
  BY <1>11, <1>13 DEF DriverFail, Outcome
<1>14. ASSUME NEW o \in OpIds, DriverCancel(o) PROVE Goal
  <2>1. FirstDue(o)
    BY <1>14 DEF DriverCancel
  <2>2. CASE inst' = [inst EXCEPT ![o] = Driven(o)] /\ reported' = {}
    BY <1>7, <2>1, <2>2, RewriteDue
  <2>3. CASE Terminate(o, "Cancelled")
    BY <1>11, <2>1, <2>3 DEF Outcome
  <2>4. QED
    BY <1>14, <2>2, <2>3 DEF DriverCancel
<1>15. QED
  BY <1>2, <1>3, <1>5, <1>6, <1>8, <1>9, <1>10, <1>12, <1>13, <1>14 DEF Next, Advance

\* What finalize(o) does to the array and what it reports: the cascade leaves
\* with one report each, that of a deferred terminal being its own outcome.
LEMMA EndsFacts ==
  ASSUME ChildInv, NEW o, NEW out, Ends(o, out)
  PROVE  /\ live \ live' = Finalized(o)
         /\ \A p \in live' : /\ inst'[p].pending = inst[p].pending
                             /\ inst'[p].state = inst[p].state
         /\ reported' = {[op |-> c, outcome |-> IF c = o THEN out ELSE inst[c].pending] :
                           c \in Finalized(o)}
<1> DEFINE gone == Finalized(o)
           OutcomeOf(c) == IF c = o THEN out ELSE inst[c].pending
           EndedChild(p) == {c \in gone : inst[c].parent = p}
           Notified(p) == [inst[p] EXCEPT
                             !.child = OutcomeOf(CHOOSE c \in EndedChild(p) : TRUE),
                             !.parked = @ /\ inst[p].pending # None]
<1>1. /\ inst' = [p \in live \ gone |->
                    IF EndedChild(p) = {} THEN inst[p] ELSE Notified(p)]
      /\ reported' = {[op |-> c, outcome |-> OutcomeOf(c)] : c \in gone}
  BY DEF Ends, Finalize
<1>2. gone \subseteq live
  BY FinalizedFacts DEF Ends
<1>3. live' = live \ gone
  BY <1>1 DEF live
<1>4. \A p \in live : /\ Notified(p).pending = inst[p].pending
                      /\ Notified(p).state = inst[p].state
  <2> SUFFICES ASSUME NEW p \in live
               PROVE  /\ Notified(p).pending = inst[p].pending
                      /\ Notified(p).state = inst[p].state
    OBVIOUS
  <2>1. inst[p] \in Instance
    BY DEF ChildInv, Shape, TypeOK
  <2> HIDE DEF OutcomeOf, EndedChild
  <2>2. QED
    BY <2>1 DEF Instance
<1> HIDE DEF EndedChild, Notified
<1>5. \A p \in live' : inst'[p] = inst[p] \/ inst'[p] = Notified(p)
  BY <1>1, <1>3
<1>6. \A p \in live' : /\ inst'[p].pending = inst[p].pending
                       /\ inst'[p].state = inst[p].state
  BY <1>3, <1>4, <1>5
<1>7. QED
  BY <1>1, <1>2, <1>3, <1>6

\* What DeferredOutcomeFixed allows a step to do.
DeferredStep ==
    \A o \in live : inst[o].pending # None =>
      \/ o \in live' /\ inst'[o].pending = inst[o].pending
      \/ [op |-> o, outcome |-> inst[o].pending] \in reported'

\* What ReportedOnce allows a step to do.
ReportedStep ==
    /\ {r.op : r \in reported'} = live \ live'
    /\ \A r, s \in reported' : r.op = s.op => r = s
    /\ \A o \in live \ live' : ActiveDescendants(o) \subseteq live \ live'

\* A step that ends an instance reports each member of the cascade once, a
\* deferred one with the outcome it was deferred with.
LEMMA EndsReports ==
  ASSUME ChildInv, NEW o, NEW out, Ends(o, out)
  PROVE  DeferredStep /\ ReportedStep
<1> DEFINE Report(c) == [op |-> c, outcome |-> IF c = o THEN out ELSE inst[c].pending]
<1>1. /\ live \ live' = Finalized(o)
      /\ \A p \in live' : inst'[p].pending = inst[p].pending
      /\ reported' = {Report(c) : c \in Finalized(o)}
  BY EndsFacts
<1>2. o \in live /\ inst[o].pending = None /\ ActiveDescendants(o) = {}
  BY DEF Ends, HasActiveDescendants
<1>3. \A c : Report(c).op = c
  OBVIOUS
<1>4. \A c : c # o => Report(c) = [op |-> c, outcome |-> inst[c].pending]
  OBVIOUS
<1>5. \A c \in Finalized(o) \ {o} : ActiveDescendants(c) \subseteq Finalized(o)
  BY <1>2, FinalizedFacts
<1> HIDE DEF Report
<1>6. DeferredStep
  BY <1>1, <1>2, <1>4 DEF DeferredStep
<1>7. ReportedStep
  <2>1. {r.op : r \in reported'} = Finalized(o)
    BY <1>1, <1>3
  <2>2. \A r, s \in reported' : r.op = s.op => r = s
    BY <1>1, <1>3
  <2>3. \A c \in Finalized(o) : ActiveDescendants(c) \subseteq Finalized(o)
    BY <1>2, <1>5
  <2>4. QED
    BY <1>1, <2>1, <2>2, <2>3 DEF ReportedStep
<1>8. QED
  BY <1>6, <1>7

\* Every step reports what leaves the array, and nothing else.
LEMMA ReportsNext ==
  ASSUME ChildInv, Next
  PROVE  (DeferredStep /\ ReportedStep) \/ Keeps
  BY NextKeepsOrEnds, EndsReports

\* A step that removes nobody and reports nothing is allowed.
LEMMA KeepsReports ==
  ASSUME Keeps
  PROVE  DeferredStep /\ ReportedStep
<1>1. live \ live' = {} /\ reported' = {}
  BY DEF Keeps
<1>2. QED
  BY <1>1 DEF Keeps, DeferredStep, ReportedStep

\* The outcome a driver returned while children were active is the one that
\* is reported, whatever ends or stops in between.
THEOREM DeferredOutcomesKept == Spec => DeferredOutcomeFixed
<1>1. Spec => []ChildInv
  BY ChildInvInit, ChildInvNext, PTL DEF Spec
<1>2. ChildInv /\ [Next]_vars => [DeferredStep]_vars
  BY ReportsNext, KeepsReports
<1>3. Spec => [][DeferredStep]_vars
  BY <1>1, <1>2, PTL DEF Spec
<1>4. QED
  BY <1>3 DEF DeferredOutcomeFixed, DeferredStep

\* operation_terminal is reported once for every instance that leaves the
\* array, and no instance leaves before its descendants.
THEOREM ReportsMatchRemovals == Spec => ReportedOnce
<1>1. Spec => []ChildInv
  BY ChildInvInit, ChildInvNext, PTL DEF Spec
<1>2. ChildInv /\ [Next]_vars => [ReportedStep]_vars
  BY ReportsNext, KeepsReports
<1>3. QED
  BY <1>1, <1>2, PTL DEF Spec, ReportedOnce, ReportedStep

-----------------------------------------------------------------------------
\* What StopCascades allows a step to do to o.
StopStep(o) ==
    /\ Stop(o) /\ Stoppable(o) =>
          \A d \in ActiveDescendants(o) : inst'[d].state = "Stopping"
    /\ inst[o].state = "Stopping" =>
          /\ o \in live' => inst'[o].state = "Stopping"
          /\ Advance(o) => live' \subseteq live

\* stop() reaches every descendant, at whatever depth.
LEMMA StopReaches ==
  ASSUME ChildInv, NEW o, Stop(o), Stoppable(o), NEW d \in ActiveDescendants(o)
  PROVE  inst'[d].state = "Stopping"
<1>1. d \in live /\ o \in Ancestors(d)
  BY DEF ActiveDescendants
<1>2. inst[d] \in Instance
  BY <1>1 DEF ChildInv, Shape, TypeOK
<1>3. Stopped(inst[d]).state = "Stopping"
  BY <1>2 DEF Stopped, Instance
<1>4. inst'[d] = IF Stoppable(d) THEN Stopped(inst[d]) ELSE inst[d]
  BY <1>1 DEF Stop
<1>5. QED
  BY <1>2, <1>3, <1>4 DEF Stoppable, Instance, OpState

\* The driver of a stopping instance gets no child.
LEMMA StoppingSpawnsNobody ==
  ASSUME ChildInv, NEW o, inst[o].state = "Stopping", Advance(o)
  PROVE  live' \subseteq live
<1>1. ASSUME NEW out, Terminate(o, out) PROVE live' \subseteq live
  BY <1>1 DEF Terminate, Defer, Finalize, live
<1>2. CASE \E rec : inst' = [inst EXCEPT ![o] = rec]
  BY <1>2 DEF live
<1>3. QED
  BY <1>1, <1>2 DEF Advance, DriverContinue, DriverYield, DriverSpawn,
                    DriverComplete, DriverFail, DriverCancel

\* No step takes an instance out of Stopping.
LEMMA StoppingStays ==
  ASSUME ChildInv, Next, NEW o \in live, inst[o].state = "Stopping", o \in live'
  PROVE  inst'[o].state = "Stopping"
<1>1. CASE Keeps
  BY <1>1 DEF Keeps
<1>2. ASSUME NEW e, NEW out, Ends(e, out) PROVE inst'[o].state = "Stopping"
  BY <1>2, EndsFacts
<1>3. QED
  BY <1>1, <1>2, NextKeepsOrEnds

\* stop() reaches the whole subtree, Stopping ends with the terminal only, and
\* a stopping operation is given no new child.
THEOREM StopsCascade == Spec => StopCascades
<1>1. Spec => []ChildInv
  BY ChildInvInit, ChildInvNext, PTL DEF Spec
<1>2. ChildInv /\ [Next]_vars => [\A o \in live : StopStep(o)]_vars
  <2> SUFFICES ASSUME ChildInv, Next, NEW o \in live PROVE StopStep(o)
    OBVIOUS
  <2>1. Stop(o) /\ Stoppable(o) =>
          \A d \in ActiveDescendants(o) : inst'[d].state = "Stopping"
    BY StopReaches
  <2>2. inst[o].state = "Stopping" /\ Advance(o) => live' \subseteq live
    BY StoppingSpawnsNobody
  <2>3. inst[o].state = "Stopping" /\ o \in live' => inst'[o].state = "Stopping"
    BY StoppingStays
  <2>4. QED
    BY <2>1, <2>2, <2>3 DEF StopStep
<1>3. Spec => [][\A o \in live : StopStep(o)]_vars
  BY <1>1, <1>2, PTL DEF Spec
<1>4. QED
  BY <1>3 DEF StopCascades, StopStep

=============================================================================
