-------------------------- MODULE OperationRuntime --------------------------
(***************************************************************************)
(* The Operation Runtime (src/domain/runtime.cpp) with the exclusive       *)
(* activity slot it claims for exclusive roots (src/domain/slot.cpp).      *)
(*                                                                         *)
(* The runtime keeps a bounded array of live operation instances in        *)
(* insertion order.  A foreground step, advance(), drives the first due    *)
(* instance: it calls the driver of the operation type and applies the     *)
(* event the driver returns.  The drivers are not part of the runtime and  *)
(* may return any event at any time.  Everything runs in the foreground,   *)
(* so each method is one atomic step.                                      *)
(*                                                                         *)
(* inst maps the id of every live instance to its record; <<a, b>> is in   *)
(* before when a's entry precedes b's in the array.  The code keeps a      *)
(* final state only until the record is removed in the same call, so a     *)
(* live instance is never in one.                                          *)
(*                                                                         *)
(* The operators named Bug... are faulty variants of the definition that   *)
(* follows them; no specification uses them.                               *)
(***************************************************************************)
EXTENDS Integers, Sequences, FiniteSets

CONSTANTS
    MaxActiveInstances, \* capacity of the instance array
    MaxTreeDepth,       \* bound on the number of ancestors of an instance
    IdModulus,          \* op ids are counted modulo this, 2^32 in the code
    Activity,           \* exclusive activity classes other than Idle
    Idle                \* the free slot; the class of a non-exclusive root

ASSUME CapacityAssumption == MaxActiveInstances \in Nat \ {0}
ASSUME DepthAssumption == MaxTreeDepth \in Nat \ {0}
ASSUME IdAssumption == IdModulus \in Nat /\ IdModulus > MaxActiveInstances
ASSUME IdleAssumption == Idle \notin Activity

VARIABLES
    inst,     \* live instances: op id -> record
    before,   \* order of the array's entries, as a set of pairs of op ids
    lastId,   \* m_next_op_id
    slot,     \* the exclusive slot
    reported  \* operation_terminal events emitted by the last step

vars == <<inst, before, lastId, slot, reported>>

OpIds == 1 .. IdModulus - 1
NoParent == 0

OpState == {"Accepted", "Running", "Stopping"}

\* An outcome stands for the final state and the outcome code together.
Outcome == {"Succeeded", "Failed", "Cancelled"}
None == "None"

Instance ==
    [parent : OpIds \cup {NoParent},
     state : OpState,
     activity : Activity \cup {Idle},
     parked : BOOLEAN,
     child : Outcome \cup {None},     \* child_outcome when child_terminal
     pending : Outcome \cup {None}]   \* pending_outcome when pending_terminal

live == DOMAIN inst

----------------------------------------------------------------------------
\* Walks up the ownership tree.

ParentIds == {inst[p].parent : p \in live} \ {NoParent}

\* S holds the parent of each of its live members.
UpwardClosed(S) == \A a \in S \cap live : inst[a].parent \in S \cup {NoParent}

\* The ids visited by the loop "a = parent; while (a != 0) a = parent of a":
\* the least upward closed set that holds the parent of o.
Ancestors(o) ==
    {a \in ParentIds : \A S \in SUBSET ParentIds :
        inst[o].parent \in S \cup {NoParent} /\ UpwardClosed(S) => a \in S}

DepthOf(o) == Cardinality(Ancestors(o))

ActiveDescendants(o) == {d \in live \ {o} : o \in Ancestors(d)}

\* A Stopping descendant is not counted.
BugRunningDescendants(o) ==
    \E d \in ActiveDescendants(o) : inst[d].state # "Stopping"

HasActiveDescendants(o) == ActiveDescendants(o) # {}

----------------------------------------------------------------------------
\* Creating instances.

\* How often next_op_id() increments its counter before it reaches id.
Distance(id) == (id + IdModulus - lastId - 1) % IdModulus

\* id is what next_op_id() returns: the first id after lastId not in use.
NextOpId(id) ==
    /\ id \in OpIds \ live
    /\ \A other \in OpIds \ live : Distance(id) <= Distance(other)

NewInstance(parent, activity) ==
    [parent |-> parent, state |-> "Accepted", activity |-> activity,
     parked |-> FALSE, child |-> None, pending |-> None]

\* instances with a new record under id.
With(instances, id, rec) ==
    [p \in DOMAIN instances \cup {id} |->
        IF p = id THEN rec ELSE instances[p]]

Full == Cardinality(live) >= MaxActiveInstances

\* The array's order with id stored after every live instance.
Appended(id) == before \cup {<<p, id>> : p \in live}

\* try_claim: an exclusive root takes the free slot, another root needs none.
TryClaim(activity) == activity = Idle \/ slot = Idle

CreateRoot(activity) ==
    /\ ~Full
    /\ TryClaim(activity)
    /\ \E id \in OpIds :
        /\ NextOpId(id)
        /\ inst' = With(inst, id, NewInstance(NoParent, activity))
        /\ before' = Appended(id)
        /\ lastId' = id
    /\ slot' = IF activity = Idle THEN slot ELSE activity
    /\ reported' = {}

\* create_child accepts: the parent is live, in whatever state.
ChildAllowed(parent) ==
    /\ ~Full
    /\ DepthOf(parent) + 1 <= MaxTreeDepth

\* create_child of the parent, in an array whose records are base.
InsertChild(parent, base) ==
    \E id \in OpIds :
        /\ NextOpId(id)
        /\ inst' = With(base, id, NewInstance(parent, Idle))
        /\ before' = Appended(id)
        /\ lastId' = id

\* A child request that passed admission, for a live parent.
CreateChild(parent) ==
    /\ parent \in live
    /\ ChildAllowed(parent)
    /\ InsertChild(parent, inst)
    /\ reported' = {}
    /\ UNCHANGED slot

----------------------------------------------------------------------------
\* Stop intent and fault cascade.

Stoppable(o) == inst[o].state \in {"Accepted", "Running"}

Stopped(rec) == [rec EXCEPT !.state = "Stopping", !.parked = FALSE]

\* A cascade that looks at the parent only, not at all ancestors.
BugStopChildren(o) ==
    /\ o \in live
    /\ inst' = [p \in live |->
                  IF Stoppable(o) /\ Stoppable(p) /\ (p = o \/ inst[p].parent = o)
                  THEN Stopped(inst[p]) ELSE inst[p]]
    /\ reported' = {}
    /\ UNCHANGED <<before, lastId, slot>>

\* stop() of a live operation; nothing happens when it is Stopping already.
Stop(o) ==
    /\ o \in live
    /\ inst' = [p \in live |->
                  IF Stoppable(o) /\ Stoppable(p) /\ (p = o \/ o \in Ancestors(p))
                  THEN Stopped(inst[p]) ELSE inst[p]]
    /\ reported' = {}
    /\ UNCHANGED <<before, lastId, slot>>

FaultCascade ==
    /\ inst' = [p \in live |-> IF Stoppable(p) THEN Stopped(inst[p]) ELSE inst[p]]
    /\ reported' = {}
    /\ UNCHANGED <<before, lastId, slot>>

----------------------------------------------------------------------------
\* advance(): one step of the driver of the first due instance.

\* A deferred terminal is due again when a child has ended.
BugDueDeferred(o) == inst[o].parked => inst[o].child # None

Due(o) ==
    /\ inst[o].pending = None
    /\ inst[o].parked => inst[o].child # None

\* advance() that drives any due instance, not the first.
BugAnyDue(o) == o \in live /\ Due(o)

FirstDue(o) ==
    /\ o \in live
    /\ Due(o)
    /\ \A p \in live : <<p, o>> \in before => ~Due(p)

\* The record while its driver runs: the child outcome is consumed.
Driven(o) == [inst[o] EXCEPT !.child = None]

\* Accepted becomes Running with the first step that does not end it.
Started(state) == IF state = "Accepted" THEN "Running" ELSE state

DriverContinue(o) ==
    /\ FirstDue(o)
    /\ inst' = [inst EXCEPT ![o] =
                  [Driven(o) EXCEPT !.state = Started(@), !.parked = FALSE]]
    /\ reported' = {}
    /\ UNCHANGED <<before, lastId, slot>>

\* Yield parks a Stopping instance too.
BugYieldParks(o) ==
    /\ FirstDue(o)
    /\ inst' = [inst EXCEPT ![o] =
                  [Driven(o) EXCEPT !.state = Started(@), !.parked = TRUE]]
    /\ reported' = {}
    /\ UNCHANGED <<before, lastId, slot>>

\* A Yield parks the instance unless it is Stopping.
DriverYield(o) ==
    /\ FirstDue(o)
    /\ inst' = [inst EXCEPT ![o] =
                  [Driven(o) EXCEPT !.state = Started(@),
                                    !.parked = inst[o].state # "Stopping"]]
    /\ reported' = {}
    /\ UNCHANGED <<before, lastId, slot>>

\* Spawn: ignored while Stopping; a child that cannot be created is shown to
\* the driver as a failed child.
DriverSpawn(o) ==
    /\ FirstDue(o)
    /\ LET spawning == [Driven(o) EXCEPT !.state = Started(@)]
       IN  \/ /\ inst[o].state = "Stopping"
              /\ inst' = [inst EXCEPT ![o] = Driven(o)]
              /\ UNCHANGED <<before, lastId>>
           \/ /\ inst[o].state # "Stopping"
              /\ ChildAllowed(o)
              /\ InsertChild(o, [inst EXCEPT ![o] = spawning])
           \/ /\ inst[o].state # "Stopping"
              /\ ~ChildAllowed(o)
              /\ inst' = [inst EXCEPT ![o] = [spawning EXCEPT !.child = "Failed"]]
              /\ UNCHANGED <<before, lastId>>
    /\ reported' = {}
    /\ UNCHANGED slot

\* The slot is released when the terminal is deferred, not when it resolves.
BugDeferReleases(o, outcome) ==
    /\ inst' = [inst EXCEPT ![o] =
                  [Driven(o) EXCEPT !.state = "Stopping", !.parked = TRUE,
                                    !.pending = outcome]]
    /\ slot' = IF inst[o].activity = Idle THEN slot ELSE Idle
    /\ reported' = {}
    /\ UNCHANGED <<before, lastId>>

\* The driver ends the operation while descendants are active: the terminal
\* is deferred and the driver is not called again.
Defer(o, outcome) ==
    /\ inst' = [inst EXCEPT ![o] =
                  [Driven(o) EXCEPT !.state = "Stopping", !.parked = TRUE,
                                    !.pending = outcome]]
    /\ reported' = {}
    /\ UNCHANGED <<before, lastId, slot>>

\* notify_parent that resolves a deferred parent at the first child's end.
BugResolvesEarly(S) ==
    \A c \in S : LET p == inst[c].parent
                 IN  p \in live /\ inst[p].pending # None => p \in S

\* notify_parent that resolves no deferred parent.
BugResolvesNobody(S) == S \subseteq live

\* finalize(o) calls notify_parent, which finalizes a parent whose terminal
\* was deferred once it has no active descendant left, and so on upwards.
ResolvesUpward(S) ==
    \A c \in S : LET p == inst[c].parent
                 IN  p \in live /\ inst[p].pending # None
                       /\ ActiveDescendants(p) \subseteq S => p \in S

Finalized(o) ==
    {c \in live : \A S \in SUBSET live : o \in S /\ ResolvesUpward(S) => c \in S}

\* The array without the members of S: shifting the entries down keeps the
\* order of those that stay.
Without(S) == {pair \in before : pair[1] \notin S /\ pair[2] \notin S}

Finalize(o, outcome) ==
    LET gone == Finalized(o)
        OutcomeOf(c) == IF c = o THEN outcome ELSE inst[c].pending
        EndedChild(p) == {c \in gone : inst[c].parent = p}
        Notified(p) == [inst[p] EXCEPT
                          !.child = OutcomeOf(CHOOSE c \in EndedChild(p) : TRUE),
                          !.parked = @ /\ inst[p].pending # None]
    IN  /\ inst' = [p \in live \ gone |->
                      IF EndedChild(p) = {} THEN inst[p] ELSE Notified(p)]
        /\ before' = Without(gone)
        /\ slot' = IF \E c \in gone : inst[c].activity # Idle /\ inst[c].activity = slot
                   THEN Idle ELSE slot
        /\ reported' = {[op |-> c, outcome |-> OutcomeOf(c)] : c \in gone}
        /\ UNCHANGED lastId

Terminate(o, outcome) ==
    \/ HasActiveDescendants(o) /\ Defer(o, outcome)
    \/ ~HasActiveDescendants(o) /\ Finalize(o, outcome)

DriverComplete(o) == FirstDue(o) /\ Terminate(o, "Succeeded")

DriverFail(o) == FirstDue(o) /\ Terminate(o, "Failed")

\* Cancel ends a Stopping instance and is ignored otherwise.
DriverCancel(o) ==
    /\ FirstDue(o)
    /\ \/ /\ inst[o].state = "Stopping"
          /\ Terminate(o, "Cancelled")
       \/ /\ inst[o].state # "Stopping"
          /\ inst' = [inst EXCEPT ![o] = Driven(o)]
          /\ reported' = {}
          /\ UNCHANGED <<before, lastId, slot>>

Advance(o) ==
    \/ DriverContinue(o) \/ DriverYield(o) \/ DriverSpawn(o)
    \/ DriverComplete(o) \/ DriverFail(o) \/ DriverCancel(o)

----------------------------------------------------------------------------

Init ==
    /\ inst = <<>>
    /\ before = {}
    /\ lastId = 0
    /\ slot = Idle
    /\ reported = {}

Next ==
    \/ \E a \in Activity \cup {Idle} : CreateRoot(a)
    \/ \E p \in OpIds : CreateChild(p)
    \/ \E o \in OpIds : Stop(o)
    \/ FaultCascade
    \/ \E o \in OpIds : Advance(o)

Spec == Init /\ [][Next]_vars

\* advance() is called from a step that re-arms itself every tick, and a
\* driver that keeps being called with stop_requested cancels or fails, as
\* its contract (OperationEnv) demands.
StopHonoured(o) ==
    /\ o \in live
    /\ inst[o].state = "Stopping"
    /\ DriverCancel(o) \/ DriverFail(o)

Fairness == \A o \in OpIds : SF_vars(StopHonoured(o))

FairSpec == Spec /\ Fairness

----------------------------------------------------------------------------
\* Properties.

\* Every variable has its type; each live record is well formed.
TypeOK ==
    /\ live \subseteq OpIds
    /\ inst \in [live -> Instance]
    /\ before \subseteq live \X live
    /\ lastId \in OpIds \cup {0}
    /\ slot \in Activity \cup {Idle}
    /\ reported \subseteq [op : OpIds, outcome : Outcome]

Exclusive(o) == inst[o].activity # Idle

\* The slot is taken exactly while one exclusive root is live, under that
\* root's class: whatever create_root, deferred terminals and cascaded
\* finalizations did, it is neither leaked nor shared.
SlotOwned ==
    /\ \A o \in live : Exclusive(o) => inst[o].activity = slot
    /\ \A o, p \in live : Exclusive(o) /\ Exclusive(p) => o = p
    /\ slot # Idle => \E o \in live : Exclusive(o)

\* The parent of a live instance is live and stands before it in the array:
\* removals and reused op ids never orphan a child or form a cycle.
OwnershipTree ==
    \A o \in live : inst[o].parent # NoParent =>
        inst[o].parent \in live /\ <<inst[o].parent, o>> \in before

\* The array is a sequence: its order is strict and total on the live ids.
ArrayOrder ==
    /\ \A o \in live : <<o, o>> \notin before
    /\ \A o, p \in live : o # p => <<o, p>> \in before \/ <<p, o>> \in before
    /\ \A o, p, q \in live :
         <<o, p>> \in before /\ <<p, q>> \in before => <<o, q>> \in before

\* A deferred terminal, which only a child's end can resolve, always has an
\* active descendant left: terminate() and notify_parent() strand none.
DeferredHasDescendants ==
    \A o \in live : inst[o].pending # None =>
        /\ inst[o].state = "Stopping"
        /\ HasActiveDescendants(o)

\* A stopping instance whose driver still has to answer is never parked, and
\* none is parked over a child outcome it has not seen: advance() skips
\* nobody it must drive.
NoLostWakeup ==
    \A o \in live : inst[o].pending = None /\ inst[o].parked =>
        inst[o].state = "Running" /\ inst[o].child = None

\* The inductive invariant: the safety invariants hold together, and only
\* together are they preserved by every step.
IInv ==
    /\ TypeOK
    /\ ArrayOrder
    /\ OwnershipTree
    /\ SlotOwned
    /\ DeferredHasDescendants
    /\ NoLostWakeup

\* The single child_outcome field of an instance is never overwritten by the
\* end of another child before the driver has seen it: while it holds an
\* unseen outcome no child ends, because a woken parent stands before its
\* children and advance() drives it first.
ChildOutcomeSeen ==
    [][\A o \in live : inst[o].pending = None /\ inst[o].child # None =>
         \A c \in live \ live' : inst[c].parent # o]_vars

\* The outcome of a deferred terminal is fixed when the driver returns it:
\* later steps leave it alone until finalize reports that very outcome.
DeferredOutcomeFixed ==
    [][\A o \in live : inst[o].pending # None =>
         \/ o \in live' /\ inst'[o].pending = inst[o].pending
         \/ [op |-> o, outcome |-> inst[o].pending] \in reported']_vars

\* operation_terminal is reported for exactly the instances that leave the
\* array, one outcome each, and for a child no later than for its parent.
ReportedOnce ==
    [][/\ {r.op : r \in reported'} = live \ live'
       /\ \A r, s \in reported' : r.op = s.op => r = s
       /\ \A o \in live \ live' : ActiveDescendants(o) \subseteq live \ live']_vars

\* A stop is complete and final: stop() of an operation that was not stopping
\* puts its descendants at every depth into Stopping, nothing ever leaves
\* Stopping but by its terminal, and the driver of a stopping operation gets
\* no new child from the runtime.
StopCascades ==
    [][\A o \in live :
         /\ Stop(o) /\ Stoppable(o) =>
               \A d \in ActiveDescendants(o) : inst'[d].state = "Stopping"
         /\ inst[o].state = "Stopping" =>
               /\ o \in live' => inst'[o].state = "Stopping"
               /\ Advance(o) => live' \subseteq live]_vars

\* The operation that holds the slot.
Holder ==
    IF \E o \in live : Exclusive(o) THEN CHOOSE o \in live : Exclusive(o) ELSE NoParent

Slot == INSTANCE ExclusiveActivity
          WITH Op <- OpIds, Nobody <- NoParent, holder <- Holder, activity <- slot

\* The runtime implements the exclusive slot: seen from outside, a root
\* claims it when free and holds it, unchanged, until its own terminal.
ImplementsSlot == Slot!Spec

AllStopping == \A o \in live : inst[o].state = "Stopping"

\* Once everything live is Stopping (a fault cascade, or a stop of every
\* root) and nothing new is created, all instances terminate, the deferred
\* ones included, and the slot is free.
StoppingDrains == <>[]AllStopping => <>[](live = {} /\ slot = Idle)
=============================================================================
