----------------------------- MODULE Admission -----------------------------
(***************************************************************************)
(* The way of a control frame into the controller: the inbound Control     *)
(* queue (src/domain/queues.h), the foreground step that takes one frame   *)
(* a tick out of it (src/platform/admission_glue.cpp), the Semantic        *)
(* Contract that decides requests and stops (src/domain/semantic.cpp) and  *)
(* its ledger of past decisions (src/domain/ledger.cpp).                   *)
(*                                                                         *)
(* Clients and the link are the environment: any frame may arrive at any   *)
(* time and any number of times, so loss, repetition, delay and            *)
(* reordering of frames, and answers the outbound queue has no room for,   *)
(* need no state of their own.  The gates (window, health, provisioning)   *)
(* are ports owned by others and read while a request is decided; they     *)
(* may have any value then.  Of the Operation Runtime there is what shares *)
(* the instances and the op ids with admission, children that drivers      *)
(* spawn among it; module OperationRuntime has the rest.  Queries and      *)
(* subscriptions change nothing here; see module Observability.            *)
(***************************************************************************)
EXTENDS Codec, Sequences, FiniteSets

CONSTANTS
    ControlCapacity, ControlReserve, \* slots of the inbound Control queue
    DepthPerPrincipal,               \* decisions remembered for an authority
    MaxPrincipals,                   \* rings in the ledger, numbered from 0
    MaxActiveInstances, MaxTreeDepth, IdModulus,
    Authority,                       \* authority ids a handshake may grant
    GrantedRoles,                    \* the roles a grant carries
    Types,                           \* operation type id -> its contract
    Frames,                          \* frames that may arrive
    Gates,                           \* values of the gates that may be met
    MaxEpoch                         \* bound on the epochs

ASSUME QueueAssumption ==
    ControlCapacity \in Nat \ {0} /\ ControlReserve \in Nat \ {0}
ASSUME LedgerAssumption ==
    DepthPerPrincipal \in Nat \ {0} /\ MaxPrincipals \in Nat
\* There is an id for every instance.
ASSUME RuntimeAssumption ==
    /\ MaxActiveInstances \in Nat \ {0}
    /\ MaxTreeDepth \in Nat
    /\ IdModulus \in Nat /\ IdModulus > MaxActiveInstances
ASSUME AuthorityAssumption == Authority \subseteq Nat \ {0}
ASSUME EpochAssumption == MaxEpoch \in Nat \ {0}

VARIABLES
    epoch,     \* the controller epoch
    grant,     \* m_grant.authority_id, 0 before a handshake
    ring,      \* the ledger ring of the granted authority, oldest first
    forgotten, \* auxiliary: keys evicted from the ring in this epoch
    ops,       \* live operations: op id -> record
    lastId,    \* the runtime's m_next_op_id
    given,     \* auxiliary: ids given out since the boot, counted to IdModulus
    working, reserve,  \* the inbound Control queue
    answer,    \* the answer given by the last step
    started    \* the operations a request has started in the last step

queue == <<working, reserve>>
runtime == <<ops, lastId, given>>
ledger == <<ring, forgotten>>
outputs == <<answer, started>>
vars == <<epoch, grant, ledger, runtime, queue, outputs>>

OpIds == 1 .. IdModulus - 1
live == DOMAIN ops

\* An outcome: the op id of an accepted request or the code of a refusal.
Accepted(o) == [code |-> "Accepted", op |-> o]
Rejected(code) == [code |-> code, op |-> 0]
NoAnswer == [key |-> <<>>, payload |-> <<>>, result |-> Rejected("None")]

----------------------------------------------------------------------------
\* The ledger.

KeyOf(r) == [epoch |-> r.epoch, authority |-> r.authority, id |-> r.id]

\* request_fingerprint: what makes two requests with one key the same.
Fingerprint(r) == [role |-> r.role, type |-> r.type, parent |-> r.parent,
                   params |-> r.params]

HasEntry(r, i) == ring[i].key = [epoch |-> epoch, authority |-> grant, id |-> r.id]

\* There is no ring for an authority outside the array: nothing is found.
Lookup(r) == {i \in 1 .. Len(ring) : HasEntry(r, i)}

\* A full ring that forgets the newest decision instead of the oldest.
BugStoreNewest(e) ==
    IF grant >= MaxPrincipals THEN UNCHANGED ledger
    ELSE IF Len(ring) < DepthPerPrincipal
         THEN ring' = Append(ring, e) /\ UNCHANGED forgotten
         ELSE /\ ring' = [ring EXCEPT ![Len(ring)] = e]
              /\ forgotten' = forgotten \cup {ring[1].key}

\* store(): nothing for an authority outside the array, else the oldest
\* entry of a full ring makes room.
Store(e) ==
    IF grant >= MaxPrincipals THEN UNCHANGED ledger
    ELSE IF Len(ring) < DepthPerPrincipal
         THEN ring' = Append(ring, e) /\ UNCHANGED forgotten
         ELSE /\ ring' = Append(Tail(ring), e)
              /\ forgotten' = forgotten \cup {Head(ring).key}

----------------------------------------------------------------------------
\* admit(): steps 1 to 4, which depend on the request alone.

RoleAllowed(role) == role # {} /\ role \subseteq GrantedRoles

StaticReject(r) ==
    IF r.epoch # epoch THEN "EpochMismatch"
    ELSE IF grant = 0 THEN "HandshakeRequired"
    ELSE IF r.authority # grant THEN "Unauthorized"
    ELSE IF ~RoleAllowed(r.role) THEN "RoleEscalation"
    ELSE IF r.type \notin DOMAIN Types THEN "UnknownOperationType"
    ELSE IF r.parent = 0 /\ ~Types[r.type].root_allowed THEN "CompositionInvalid"
    ELSE IF r.params > Types[r.type].params_max THEN "InvalidParameters"
    ELSE IF r.parent # 0 /\ ~Types[r.type].child_allowed THEN "CompositionInvalid"
    ELSE "None"

\* Step 6 and the refusals of step 7, under the gates g.

Gate == [window : {"Boot", "Serving", "Update", "Recovery"}, fault : BOOLEAN,
         provisioned : BOOLEAN]
ASSUME GatesAssumption == Gates \subseteq Gate

SlotHeld == \E o \in live : ops[o].exclusive
Full == Cardinality(live) >= MaxActiveInstances

\* The gates of an exclusive root.
ExclusiveReject(g) ==
    IF g.window # "Serving" THEN "WrongWindow"
    ELSE IF g.fault THEN "HealthGate"
    ELSE IF ~g.provisioned THEN "ProvisioningGate"
    ELSE IF SlotHeld THEN "ResourceConflict"
    ELSE "None"

RootReject(t, g) ==
    IF t.exclusive /\ ExclusiveReject(g) # "None" THEN ExclusiveReject(g)
    ELSE IF ~t.exclusive /\ g.window = "Boot" THEN "WrongWindow"
    ELSE IF ~t.driver THEN "CompositionInvalid"
    ELSE IF Full THEN "InstancesFull"
    ELSE "None"

ChildReject(t, parent) ==
    IF parent \notin live THEN "ResourceConflict"
    ELSE IF ~t.driver THEN "CompositionInvalid"
    ELSE IF Full THEN "InstancesFull"
    ELSE IF Cardinality(ops[parent].ancestors) + 1 > MaxTreeDepth
         THEN "CompositionInvalid"
    ELSE "None"

DynamicReject(r, g) ==
    IF r.parent = 0 THEN RootReject(Types[r.type], g)
    ELSE ChildReject(Types[r.type], r.parent)

----------------------------------------------------------------------------
\* Step 7: the instance.

Distance(id) == (id + IdModulus - lastId - 1) % IdModulus

\* The lowest id that is not in use.
BugNextOpId(id) ==
    /\ id \in OpIds \ live
    /\ \A other \in OpIds \ live : id <= other

\* id is what next_op_id() returns: the first id after lastId not in use.
NextOpId(id) ==
    /\ id \in OpIds \ live
    /\ \A other \in OpIds \ live : Distance(id) <= Distance(other)

Add(id, new) ==
    /\ ops' = [o \in live \cup {id} |-> IF o = id THEN new ELSE ops[o]]
    /\ lastId' = id
    /\ given' = IF given < IdModulus THEN given + 1 ELSE given

Create(r, id) ==
    Add(id, [key |-> KeyOf(r), owner |-> grant,
             exclusive |-> r.parent = 0 /\ Types[r.type].exclusive,
             ancestors |-> IF r.parent = 0 THEN {}
                           ELSE ops[r.parent].ancestors \cup {r.parent},
             stopping |-> FALSE])

----------------------------------------------------------------------------
\* handle_operation_request(), the alternatives of its outcome.

Answer(r, result) ==
    answer' = [key |-> KeyOf(r), payload |-> Fingerprint(r), result |-> result]

Entry(r, result) ==
    [key |-> [epoch |-> epoch, authority |-> grant, id |-> r.id],
     payload |-> Fingerprint(r), result |-> result]

RefuseStatic(r) ==
    /\ StaticReject(r) # "None"
    /\ Answer(r, Rejected(StaticReject(r)))
    /\ started' = {}
    /\ UNCHANGED <<ledger, runtime>>

\* The stored result is answered without asking the gates again; a known key
\* with another payload is a conflict, which is not stored.
Replay(r) ==
    /\ StaticReject(r) = "None"
    /\ \E i \in Lookup(r) :
        Answer(r, IF ring[i].payload = Fingerprint(r)
                  THEN ring[i].result ELSE Rejected("Conflict"))
    /\ started' = {}
    /\ UNCHANGED <<ledger, runtime>>

\* A refusal that is answered and not stored.
BugRefuseDynamicNoStore(r, g) ==
    /\ StaticReject(r) = "None"
    /\ Lookup(r) = {}
    /\ DynamicReject(r, g) # "None"
    /\ Answer(r, Rejected(DynamicReject(r, g)))
    /\ started' = {}
    /\ UNCHANGED <<ledger, runtime>>

RefuseDynamic(r, g) ==
    /\ StaticReject(r) = "None"
    /\ Lookup(r) = {}
    /\ DynamicReject(r, g) # "None"
    /\ Answer(r, Rejected(DynamicReject(r, g)))
    /\ Store(Entry(r, Rejected(DynamicReject(r, g))))
    /\ started' = {}
    /\ UNCHANGED runtime

Accept(r, g) ==
    /\ StaticReject(r) = "None"
    /\ Lookup(r) = {}
    /\ DynamicReject(r, g) = "None"
    /\ \E id \in OpIds :
        /\ NextOpId(id)
        /\ Create(r, id)
        /\ Answer(r, Accepted(id))
        /\ Store(Entry(r, Accepted(id)))
        /\ started' = {id}

HandleOperationRequest(r) ==
    \/ RefuseStatic(r)
    \/ Replay(r)
    \/ \E g \in Gates : RefuseDynamic(r, g) \/ Accept(r, g)

----------------------------------------------------------------------------
\* handle_stop_intent(): a principal stops its own operations, with all
\* their descendants; anything else is left alone.

Silent == answer' = NoAnswer /\ started' = {}

\* stop(): with all descendants, unless it is stopping already.
Stopped(o) ==
    IF ops[o].stopping THEN ops
    ELSE [p \in live |-> IF p = o \/ o \in ops[p].ancestors
                         THEN [ops[p] EXCEPT !.stopping = TRUE] ELSE ops[p]]

HandleStopIntent(o) ==
    /\ ops' = IF grant # 0 /\ o \in live /\ ops[o].owner = grant
              THEN Stopped(o) ELSE ops
    /\ Silent
    /\ UNCHANGED <<lastId, given, ledger>>

\* decode() and the decoder of the payload accept the frame, and it is of the
\* family the contract handles.
Intact(f) ==
    /\ DecodeError(f.wire) = "None" /\ f.wire.family = Control
    /\ PayloadFits(f.wire, f.message)

\* process_frame() of an intact frame; others are dropped.
Process(f) ==
    IF Intact(f)
    THEN IF f.message.kind = "OperationRequest"
         THEN HandleOperationRequest(f.message.request)
         ELSE HandleStopIntent(f.message.op)
    ELSE Silent /\ UNCHANGED <<ledger, runtime>>

----------------------------------------------------------------------------
\* The inbound queue.

Reserved(f) == f.message.kind = "StopIntent"

\* push() that takes one frame too many.
BugArriveOverfull(f) ==
    /\ IF Len(working) <= ControlCapacity
       THEN working' = Append(working, f) /\ UNCHANGED reserve
       ELSE /\ Reserved(f) /\ Len(reserve) < ControlReserve
            /\ reserve' = Append(reserve, f) /\ UNCHANGED working
    /\ Silent
    /\ UNCHANGED <<epoch, grant, ledger, runtime>>

\* push(): a full working queue leaves stops the reserve; otherwise the
\* frame is refused and nothing changes.
Arrive(f) ==
    /\ IF Len(working) < ControlCapacity
       THEN working' = Append(working, f) /\ UNCHANGED reserve
       ELSE /\ Reserved(f) /\ Len(reserve) < ControlReserve
            /\ reserve' = Append(reserve, f) /\ UNCHANGED working
    /\ Silent
    /\ UNCHANGED <<epoch, grant, ledger, runtime>>

\* pop() that prefers the working queue.
BugPopWorking(f) ==
    \/ /\ working # <<>> /\ f = Head(working)
       /\ working' = Tail(working) /\ UNCHANGED reserve
    \/ /\ working = <<>> /\ reserve # <<>> /\ f = Head(reserve)
       /\ reserve' = Tail(reserve) /\ UNCHANGED working

\* pop(): f is the frame taken out, from the reserve if it has one.
Pop(f) ==
    \/ /\ reserve # <<>> /\ f = Head(reserve)
       /\ reserve' = Tail(reserve) /\ UNCHANGED working
    \/ /\ reserve = <<>> /\ working # <<>> /\ f = Head(working)
       /\ working' = Tail(working) /\ UNCHANGED reserve

InboundTick ==
    /\ \E f \in Frames : Pop(f) /\ Process(f)
    /\ UNCHANGED <<epoch, grant>>

----------------------------------------------------------------------------
\* The rest of the controller.

\* The driver of o ends it: at once, or Stopping until its descendants end.
\* When a parent that waits for them ends is left open (see OperationRuntime).
RuntimeEnds(o) ==
    /\ ops' = IF \E p \in live : o \in ops[p].ancestors
              THEN [ops EXCEPT ![o].stopping = TRUE]
              ELSE [p \in live \ {o} |-> ops[p]]
    /\ Silent
    /\ UNCHANGED <<epoch, grant, ledger, lastId, given, queue>>

\* The key of an operation that no request asked for; epochs count from 1.
NoRequest == [epoch |-> 0, authority |-> 0, id |-> 0]

\* The driver of p spawns a child in its name: apply() of a Spawn event and
\* create_child(), past admission and the ledger.  A spawn that is refused
\* changes nothing here.
RuntimeSpawns(p) ==
    /\ ~ops[p].stopping
    /\ ~Full
    /\ Cardinality(ops[p].ancestors) + 1 <= MaxTreeDepth
    /\ \E id \in OpIds :
        /\ NextOpId(id)
        /\ Add(id, [key |-> NoRequest, owner |-> ops[p].owner, exclusive |-> FALSE,
                    ancestors |-> ops[p].ancestors \cup {p}, stopping |-> FALSE])
    /\ Silent
    /\ UNCHANGED <<epoch, grant, ledger, queue>>

\* RAM as it is after a boot in which the grant a is given.
Booted(e, a) ==
    /\ epoch = e
    /\ grant = a
    /\ ring = <<>> /\ forgotten = {}
    /\ ops = <<>> /\ lastId = 0 /\ given = 0
    /\ working = <<>> /\ reserve = <<>>
    /\ answer = NoAnswer /\ started = {}

\* A boot is to have a new epoch; the stub in main.cpp gives every boot the
\* same one.
Reboot(a) ==
    /\ epoch' \in {epoch, epoch + 1} \cap 1 .. MaxEpoch
    /\ grant' = a
    /\ ring' = <<>> /\ forgotten' = {}
    /\ ops' = <<>> /\ lastId' = 0 /\ given' = 0
    /\ working' = <<>> /\ reserve' = <<>>
    /\ Silent

Init == \E a \in Authority \cup {0} : Booted(1, a)

Next ==
    \/ \E f \in Frames : Arrive(f)
    \/ InboundTick
    \/ \E o \in live : RuntimeEnds(o) \/ RuntimeSpawns(o)
    \/ \E a \in Authority \cup {0} : Reboot(a)

\* The kernel keeps running the inbound step (module Kernel).
Spec == Init /\ [][Next]_vars /\ WF_vars(InboundTick)

----------------------------------------------------------------------------
\* Properties.

StaticCodes == {"EpochMismatch", "HandshakeRequired", "Unauthorized",
                "RoleEscalation", "UnknownOperationType", "InvalidParameters",
                "CompositionInvalid"}
DynamicCodes == {"WrongWindow", "HealthGate", "ProvisioningGate",
                 "ResourceConflict", "InstancesFull", "CompositionInvalid"}
Outcomes == {Rejected(c) : c \in DynamicCodes} \cup {Accepted(o) : o \in OpIds}
Requests == {f.message.request : f \in
               {g \in Frames : g.message.kind = "OperationRequest"}}
Keys == {KeyOf(r) : r \in Requests}
Payloads == {Fingerprint(r) : r \in Requests}

Operation == [key : Keys \cup {NoRequest}, owner : Authority, exclusive : BOOLEAN,
              ancestors : SUBSET OpIds, stopping : BOOLEAN]

\* Queues, ring and runtime stay within their capacities, an operation's
\* ancestors are live, and all of it belongs to the granted authority.
TypeOK ==
    /\ epoch \in 1 .. MaxEpoch /\ grant \in Authority \cup {0}
    /\ working \in Seq(Frames) /\ Len(working) <= ControlCapacity
    /\ reserve \in Seq(Frames) /\ Len(reserve) <= ControlReserve
    /\ ring \in Seq([key : Keys, payload : Payloads,
                      result : Outcomes])
    /\ Len(ring) <= DepthPerPrincipal
    /\ forgotten \subseteq Keys
    /\ live \subseteq OpIds /\ Cardinality(live) <= MaxActiveInstances
    /\ ops \in [live -> Operation]
    /\ \A o \in live : ops[o].ancestors \subseteq live
    /\ lastId \in OpIds \cup {0} /\ given \in 0 .. IdModulus

\* One request runs at most one operation, however often it is repeated:
\* two live operations have the same key only if the first decision has been
\* pushed out of the ledger since.
AtMostOnce ==
    \A o, p \in live :
        ops[o].key = ops[p].key /\ ops[o].key # NoRequest =>
            o = p \/ ops[o].key \in forgotten

\* What the ledger would answer to a repetition is true of the runtime.  The
\* operation a remembered decision names, if live, is the one that request
\* started, and none that came later by another request or by a driver's
\* spawn: runtime.cpp says ids are "monotonic within the epoch", with 2^32 of
\* them "per epoch without reboot".  The other way round, without that bound:
\* an operation started by a remembered request is the one it names.
DecisionTrue ==
    \A i \in 1 .. Len(ring) :
        /\ given < IdModulus /\ ring[i].result.op \in live =>
              ops[ring[i].result.op].key = ring[i].key
        /\ \A o \in live : ops[o].key = ring[i].key =>
              ring[i].result.op = o \/ ring[i].key \in forgotten

Decisions == INSTANCE RequestDecisions WITH
    Depth <- DepthPerPrincipal, Key <- Keys, Payload <- Payloads,
    Static <- StaticCodes, Dynamic <- DynamicCodes, OpId <- OpIds,
    recent <- ring

\* The contract keeps the promise of RequestDecisions: the last
\* DepthPerPrincipal decisions are each made once, repeated unchanged under
\* any change of the gates, and only they start operations.
ImplementsDecisions == Decisions!Spec

\* A stop that found the working queue full is carried out all the same: its
\* operation, if it is the principal's own, is soon stopping or gone.
StopServed ==
    \A f \in {g \in Frames : Intact(g) /\ Reserved(g)} :
        LET o == f.message.op
        IN  (/\ \E i \in 1 .. Len(reserve) : reserve[i] = f
             /\ o \in live /\ ops[o].owner = grant)
                ~> (o \notin live \/ ops[o].stopping)
=============================================================================
