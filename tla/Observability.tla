--------------------------- MODULE Observability ---------------------------
(***************************************************************************)
(* What the controller tells the outside: the Producer that makes records, *)
(* documents and fault captures, the Sink that queues and sends them       *)
(* (src/domain/observability.cpp), the registry of subscriptions, and the  *)
(* steps that drive them (src/platform/observability_schedule.cpp).        *)
(*                                                                         *)
(* All of it runs in the foreground, one kernel step after another; only   *)
(* time and the transmitter, which takes bytes out of the UART ring, go on *)
(* in between, also in the middle of the Sink's step, which is therefore   *)
(* split at every look at the ring.  Module Interrupts has the ring itself.*)
(* Records are their class, number and size; what they say is left out,    *)
(* and so are the counters that only a document prints.                    *)
(***************************************************************************)
EXTENDS Subscriptions, Integers, Sequences, Functions

CONSTANTS
    Capacity,         \* slots of the queue of each class
    RingSize,         \* bytes of the UART ring, one of them never used
    BytesPerTick,     \* bytes on the line in a millisecond
    PerClassCap,      \* PerClassCapBytes
    LinkBudget,       \* LinkBudgetBytes
    Bytes,            \* size of a whole frame, by kind
    Chunk, Overhead,  \* a fragment's share of a text, and the rest of it
    HeaderBytes, SectionBytes, \* a document's header and sections
    MaxDocument, MaxFragments, \* bounds of a document
    QueryMasks,       \* sections that are asked for
    CaptureFixed,     \* bytes of a capture with empty tails
    EventRecord, LogRecord,  \* bytes of a mirrored record
    TailDepth,        \* records mirrored of each of the two classes
    SeqModulus, DropModulus, \* 2^8 and 2^16
    Period,           \* milliseconds between telemetry records
    Masks,            \* class masks that are subscribed to
    MaxLoad           \* bound on the number of steps of others

\* The order in which the Sink serves its classes.
Order == <<"Control", "Service", "Events", "Logs", "Traces", "Telemetry">>
Classes == {Order[i] : i \in 1 .. 6}
Sections == {"base", "gates", "identity", "ops", "sensing", "actuator", "masks", "counters"}
Numbered == {"Events", "Logs", "Traces", "Telemetry"}
DropOldest == {"Traces", "Telemetry"}

ASSUME SinkAssumption ==
    /\ Capacity \in [Classes -> Nat \ {0}]
    /\ RingSize \in Nat /\ BytesPerTick \in Nat \ {0}
    /\ PerClassCap \in Nat /\ PerClassCap < RingSize
    /\ LinkBudget \in Nat /\ LinkBudget >= PerClassCap
ASSUME RecordAssumption ==
    /\ Bytes \in [{"Event", "Log", "Telemetry", "Ack", "Query"} -> 1 .. PerClassCap]
    /\ Chunk \in Nat \ {0} /\ Overhead \in Nat \ {0} /\ Chunk + Overhead <= PerClassCap
    /\ CaptureFixed \in Nat \ {0} /\ EventRecord \in Nat /\ LogRecord \in Nat
    /\ TailDepth \in Nat
ASSUME CounterAssumption ==
    /\ SeqModulus \in Nat \ {0} /\ DropModulus \in Nat \ {0}
    /\ DropModulus % SeqModulus = 0
    /\ Period \in Nat \ {0} /\ MaxLoad \in Nat
    /\ Masks \subseteq SUBSET Numbered

\* assemble_snapshot(): the size of the document with the given sections.
DocumentBytes(mask) == HeaderBytes + SumFunctionOnSet(SectionBytes, mask)

\* Every document that is made, also one of all sections, fits the buffer, and
\* the buffer the fragments an answer may have (188 of 456 bytes, and 4 of 114
\* bytes).
ASSUME DocumentAssumption ==
    /\ HeaderBytes \in Nat \ {0} /\ SectionBytes \in [Sections -> Nat]
    /\ MaxDocument \in Nat /\ MaxFragments \in Nat
    /\ \A mask \in QueryMasks \cup {Sections} : DocumentBytes(mask) \in 1 .. MaxDocument
    /\ MaxDocument <= MaxFragments * Chunk
    /\ QueryMasks \subseteq SUBSET Sections

\* A capture fits the Traces queue, which sheds its oldest record.
ASSUME CaptureAssumption ==
    CaptureFixed + TailDepth * (EventRecord + LogRecord) <= Chunk * Capacity["Traces"]

VARIABLES
    out,    \* Producer and queues, see OutType
    sink,   \* the Sink's step: [due, at, spent, budget], at = 0 between two
    ring,   \* bytes in the UART ring
    age,    \* milliseconds since the last telemetry and birth check, to Period
    wire,   \* auxiliary: what went out, see WireType
    load    \* steps of others so far

vars == <<registry, out, sink, ring, age, wire, load>>

----------------------------------------------------------------------------
\* Frames.

\* Of a text, fragment index of count; of a query, the sections asked for.
Frame(kind, of, index, count, bytes) ==
    [kind |-> kind, of |-> of, index |-> index, count |-> count, bytes |-> bytes,
     mask |-> {}]

Whole(kind, of) == Frame(kind, of, 0, 1, Bytes[kind])

\* A text of n bytes, cut up.
Fragments(kind, of, n) ==
    LET count == (n + Chunk - 1) \div Chunk
    IN  [i \in 1 .. count |->
           Frame(kind, of, i - 1, count,
                 Overhead + IF i < count THEN Chunk ELSE n - Chunk * (count - 1))]

Least(a, b) == IF a < b THEN a ELSE b

----------------------------------------------------------------------------
\* The Producer and push_class(); o is the state the Producer is called in.

Excess(c, all) == IF Len(all) > Capacity[c] THEN Len(all) - Capacity[c] ELSE 0

\* Every class sheds its oldest frames.
BugKept(c, all) == SubSeq(all, Excess(c, all) + 1, Len(all))

\* What the policy of the class keeps of too many frames.
Kept(c, all) ==
    IF c \in DropOldest THEN SubSeq(all, Excess(c, all) + 1, Len(all))
    ELSE SubSeq(all, 1, Len(all) - Excess(c, all))

BumpCounter(dropped, c, lost) ==
    [k \in Numbered |-> IF k = c THEN (dropped[k] + lost) % DropModulus ELSE dropped[k]]

\* note_class_drop(): counted at once; one class is left to report.
NoteClassDrop(o, c, lost) ==
    IF lost = 0 THEN o
    ELSE [o EXCEPT !.dropped = BumpCounter(@, c, lost), !.pendingDrop = c]

NoteHighWater(high, c, size) ==
    [k \in Numbered |-> IF k = c /\ high[k] < size THEN size ELSE high[k]]

\* append_tail_events(), append_tail_logs(): the last records, for a capture.
AppendTail(tail, c, news) ==
    [k \in {"Events", "Logs"} |-> IF k = c THEN Least(TailDepth, tail[k] + news) ELSE tail[k]]

\* Frames pushed one after the other on the queue of class c.
PushAll(o, c, frames) ==
    LET all == o.queue[c] \o frames
        kept == Kept(c, all)
    IN  NoteClassDrop([o EXCEPT !.queue[c] = kept,
                                !.high = NoteHighWater(@, c, Len(kept)),
                                !.tail = AppendTail(@, c, Len(kept) - Len(o.queue[c]))],
                      c, Excess(c, all))

\* A record that finds its queue full gets no number.
BugEmit(o, c, kind) ==
    IF Interest(c)
    THEN PushAll(IF Len(o.queue[c]) = Capacity[c] THEN o
                 ELSE [o EXCEPT !.seq[c] = (@ + 1) % SeqModulus], c, <<Whole(kind, o.seq[c])>>)
    ELSE o

\* emit_class(): records nobody wants are not made; a number is used up even
\* by a record that is dropped.
Emit(o, c, kind) ==
    IF Interest(c)
    THEN PushAll([o EXCEPT !.seq[c] = (@ + 1) % SeqModulus], c, <<Whole(kind, o.seq[c])>>)
    ELSE o

EmitEvent(o) == Emit(o, "Events", "Event")
EmitTelemetry(o) == Emit(o, "Telemetry", "Telemetry")
LogEmit(o) == Emit(o, "Logs", "Log")

\* send_trace_capture(): all fragments of a capture share one number; the
\* text grows with the tails.
SendTraceCapture(o) ==
    PushAll([o EXCEPT !.seq["Traces"] = (@ + 1) % SeqModulus], "Traces",
            Fragments("Trace", o.seq["Traces"],
                      CaptureFixed + EventRecord * o.tail["Events"] + LogRecord * o.tail["Logs"]))

\* start_fault_capture() that leaves the old fragments queued.
BugStartFaultCapture(o) ==
    SendTraceCapture([(IF o.pending THEN EmitEvent(o) ELSE o)
                        EXCEPT !.pending = TRUE, !.flag = TRUE])

\* start_fault_capture(): a capture still on its way is given up, with an
\* event; the new one is queued whole.
StartFaultCapture(o) ==
    SendTraceCapture([(IF o.pending THEN [EmitEvent(o) EXCEPT !.queue["Traces"] = <<>>] ELSE o)
                        EXCEPT !.pending = TRUE, !.flag = TRUE])

\* A document with the given sections, for a query or a birth.
SendDocument(o, mask) ==
    LET version == (o.version + 1) % SeqModulus
    IN  PushAll([o EXCEPT !.version = version], "Control",
                Fragments("Document", version, DocumentBytes(mask)))

\* flush_pending_drop() that forgets to clear the latch.
BugFlushPendingDrop(o) ==
    IF o.pendingDrop # "None" /\ Len(o.queue["Events"]) < Capacity["Events"]
    THEN EmitEvent(o) ELSE o

\* flush_pending_drop(): one event for all drops since the last one.
FlushPendingDrop(o) ==
    IF o.pendingDrop # "None" /\ Len(o.queue["Events"]) < Capacity["Events"]
    THEN EmitEvent([o EXCEPT !.pendingDrop = "None"]) ELSE o

----------------------------------------------------------------------------
\* Steps of others that end in the Producer or in the outbound queues.

\* A foreground step other than the Sink's that may queue something; load
\* bounds their number.
Other == sink.at = 0 /\ load < MaxLoad /\ load' = load + 1

Rest == UNCHANGED <<sink, ring, age, wire>>

\* The events of kernel, runtime, contract and Safety Authority.
RecordEvent == Other /\ out' = EmitEvent(out) /\ UNCHANGED registry /\ Rest

\* The events of crash class: reset_cause other than power-on,
\* crash_marker_pending, health_changed to a fault that does not clear itself.
RecordCrash ==
    Other /\ out' = StartFaultCapture(EmitEvent(out)) /\ UNCHANGED registry /\ Rest

RecordLog == Other /\ out' = LogEmit(out) /\ UNCHANGED registry /\ Rest

\* send_control(): the answer to a request.
Answer(o) == PushAll(o, "Control", <<Whole("Ack", 0)>>)
SendAck == Other /\ out' = Answer(out) /\ UNCHANGED registry /\ Rest

\* A payload that does not decode, a query while booting, a subscription
\* before the handshake: an event and no answer.
Refused == out' = EmitEvent(out) /\ UNCHANGED registry

\* handle_query(): the query itself is put in the outbound Control queue.
HandleQuery(mask) ==
    /\ Other
    /\ \/ /\ out' = PushAll(out, "Control", <<[Whole("Query", 0) EXCEPT !.mask = mask]>>)
          /\ UNCHANGED registry
       \/ Refused
    /\ Rest

\* handle_subscribe(), handle_unsubscribe(): an event if the registry
\* accepts, and an answer whether it does or not.
HandleSubscribe(mask) ==
    /\ Other
    /\ \/ Refused
       \/ Subscribe(mask) /\ out' = Answer(EmitEvent(out))
       \/ CapsExceeded(mask) /\ out' = Answer(out) /\ UNCHANGED registry
    /\ Rest

HandleUnsubscribe(id) ==
    /\ Other
    /\ \/ Refused
       \/ Unsubscribe(id) /\ out' = Answer(EmitEvent(out))
       \/ Holders(id) = {} /\ out' = Answer(out) /\ UNCHANGED registry
    /\ Rest

----------------------------------------------------------------------------
\* The slow steps of the glue: they run every millisecond and act when their
\* period is over.

\* telemetry_tick(); set_now() is called here, so age.telemetry is also the
\* age of the time that records are stamped with.
TelemetryTick ==
    /\ Other /\ age.telemetry >= Period
    /\ age' = [age EXCEPT !.telemetry = 0]
    /\ out' = EmitTelemetry(out)
    /\ UNCHANGED <<registry, sink, ring, wire>>

\* birth_check() and push_birth(): sent once for all slots.
BirthCheck ==
    /\ sink.at = 0 /\ age.birth >= Period
    /\ age' = [age EXCEPT !.birth = 0]
    /\ IF BirthPending
       THEN out' = SendDocument(out, Sections) /\ BirthSent
       ELSE UNCHANGED <<out, registry>>
    /\ UNCHANGED <<sink, ring, wire, load>>

----------------------------------------------------------------------------
\* Sink::tick().

Served == Order[sink.at]
Queue == out.queue[Served]

\* All of the ring is used.
BugTxBytesAvailable == RingSize - ring

TxBytesAvailable == RingSize - ring - 1

IsQuery(f) == Served = "Control" /\ f.kind = "Query"

\* A frame as large as the cap of its class is held back.
BugFits(f) == sink.spent + f.bytes < PerClassCap
                /\ f.bytes <= sink.budget /\ f.bytes <= TxBytesAvailable

\* The head may go: class cap, link budget and ring allow it.
Fits(f) == sink.spent + f.bytes <= PerClassCap
             /\ f.bytes <= sink.budget /\ f.bytes <= TxBytesAvailable

SinkStart ==
    /\ sink.at = 0 /\ sink.due
    /\ sink' = [sink EXCEPT !.at = 1, !.spent = 0, !.budget = LinkBudget]
    /\ UNCHANGED <<registry, out, ring, age, wire, load>>

\* A query is not sent but answered, at the end of the same queue.
SinkAnswer ==
    /\ sink.at # 0 /\ sink.budget > 0 /\ Queue # <<>> /\ IsQuery(Head(Queue))
    /\ out' = SendDocument([out EXCEPT !.queue["Control"] = Tail(@)], Head(Queue).mask)
    /\ UNCHANGED <<registry, sink, ring, age, wire, load>>

\* The head of the queue is copied into the ring.
SinkSend ==
    /\ sink.at # 0 /\ sink.budget > 0 /\ Queue # <<>>
    /\ LET f == Head(Queue)
       IN  /\ ~IsQuery(f) /\ Fits(f)
           /\ ring' = ring + f.bytes
           /\ sink' = [sink EXCEPT !.spent = @ + f.bytes, !.budget = @ - f.bytes]
           /\ wire' = [sent |-> IF Served \in Numbered
                                THEN [wire.sent EXCEPT ![Served] = (@ + 1) % SeqModulus]
                                ELSE wire.sent,
                        last |-> IF f.kind \in {"Document", "Trace"}
                                THEN [wire.last EXCEPT ![f.kind] = f] ELSE wire.last]
    /\ out' = [out EXCEPT !.queue[Served] = Tail(@)]
    /\ UNCHANGED <<registry, age, load>>

\* The next class with something queued; past the last one if there is none.
NextStop == CHOOSE i \in sink.at + 1 .. 7 :
    /\ i < 7 => out.queue[Order[i]] # <<>>
    /\ \A j \in sink.at + 1 .. i - 1 : out.queue[Order[j]] = <<>>

\* A capture is delivered when the Sink comes past an empty Traces queue.
Delivered(o) ==
    IF o.flag /\ o.queue["Traces"] = <<>> /\ sink.at <= 5
    THEN [o EXCEPT !.flag = FALSE, !.pending = FALSE] ELSE o

\* The end of a class, and of the empty ones behind it: Service goes on with
\* what Control has spent; after the last class the drops are reported and
\* the step is due again in the next millisecond.
SinkLeave ==
    /\ sink.at # 0
    /\ \/ sink.budget = 0
       \/ Queue = <<>>
       \/ Queue # <<>> /\ ~IsQuery(Head(Queue)) /\ ~Fits(Head(Queue))
    /\ IF NextStop < 7
       THEN /\ sink' = [sink EXCEPT !.at = NextStop, !.spent = IF NextStop = 2 THEN @ ELSE 0]
            /\ out' = IF NextStop > 5 THEN Delivered(out) ELSE out
       ELSE /\ sink' = [due |-> FALSE, at |-> 0, spent |-> 0, budget |-> 0]
            /\ out' = FlushPendingDrop(Delivered(out))
    /\ UNCHANGED <<registry, ring, age, wire, load>>

SinkStep == SinkStart \/ SinkAnswer \/ SinkSend \/ SinkLeave

\* A millisecond: the transmitter has taken bytes out of the ring, and the
\* Sink's step is due again unless it is under way.
Clock ==
    /\ ring' = IF ring > BytesPerTick THEN ring - BytesPerTick ELSE 0
    /\ age' = [k \in DOMAIN age |-> Least(Period, age[k] + 1)]
    /\ sink' = [sink EXCEPT !.due = TRUE]
    /\ UNCHANGED <<registry, out, wire, load>>

----------------------------------------------------------------------------
NoFrame == Frame("None", 0, 0, 1, 0)

Init ==
    /\ RegistryInit
    /\ out = [queue |-> [c \in Classes |-> <<>>],
              seq |-> [c \in Numbered |-> 0],
              dropped |-> [c \in Numbered |-> 0],
              high |-> [c \in Numbered |-> 0],
              tail |-> [c \in {"Events", "Logs"} |-> 0],
              pendingDrop |-> "None", version |-> 0,
              pending |-> FALSE, flag |-> FALSE]
    /\ sink = [due |-> FALSE, at |-> 0, spent |-> 0, budget |-> 0]
    /\ ring = 0
    /\ age = [telemetry |-> 0, birth |-> 0]
    /\ wire = [sent |-> [c \in Numbered |-> 0],
               last |-> [k \in {"Document", "Trace"} |-> NoFrame]]
    /\ load = 0

Next ==
    \/ RecordEvent \/ RecordCrash \/ RecordLog \/ SendAck
    \/ \E m \in QueryMasks : HandleQuery(m)
    \/ \E m \in Masks : HandleSubscribe(m)
    \/ \E id \in 1 .. SubIdModulus - 1 : HandleUnsubscribe(id)
    \/ TelemetryTick \/ BirthCheck \/ SinkStep \/ Clock

\* Time passes, the transmitter with it, and the kernel keeps running the
\* Sink's step (module Kernel).  Nothing is assumed of the others.
Fairness == WF_vars(Clock) /\ WF_vars(SinkStep)

Spec == Init /\ [][Next]_vars /\ Fairness

----------------------------------------------------------------------------
\* Properties.

Frames == [kind : {"Event", "Log", "Telemetry", "Ack", "Query", "Document", "Trace"},
           of : Nat, index : Nat, count : Nat \ {0}, bytes : 1 .. PerClassCap,
           mask : SUBSET Sections]

\* The queues keep to their capacities, no frame is larger than what may ever
\* be sent, the ring never overruns, and no subscription gets the invalid id.
TypeOK ==
    /\ \A c \in Classes : /\ out.queue[c] \in Seq(Frames)
                          /\ Len(out.queue[c]) <= Capacity[c]
    /\ out.seq \in [Numbered -> 0 .. SeqModulus - 1]
    /\ out.dropped \in [Numbered -> 0 .. DropModulus - 1]
    /\ \A c \in Numbered : Len(out.queue[c]) <= out.high[c] /\ out.high[c] <= Capacity[c]
    /\ out.tail \in [{"Events", "Logs"} -> 0 .. TailDepth]
    /\ out.pendingDrop \in Classes \cup {"None"}
    /\ sink.at \in 0 .. Len(Order) /\ sink.spent \in 0 .. PerClassCap
    /\ sink.budget \in 0 .. LinkBudget
    /\ ring \in 0 .. RingSize - 1
    /\ age \in [{"telemetry", "birth"} -> 0 .. Period]
    /\ \A s \in Active : subs[s].id \in 1 .. SubIdModulus - 1
    /\ nextSubId \in 1 .. SubIdModulus - 1

\* Every number that was given to a record is accounted for: it was sent, is
\* still queued, or is in the drop counter of its class, so that the gaps a
\* client sees and the counters a document shows agree, across the wrap of
\* both.  A capture counts as one number, whatever its fragments.
RecordsAccounted ==
    \A c \in Numbered \ {"Traces"} :
        out.seq[c] = (wire.sent[c] + Len(out.queue[c]) + out.dropped[c]) % SeqModulus

\* The fault capture under way is never mixed with another one, and is called
\* delivered when its last fragment has gone out: the Traces queue holds the
\* rest of the newest capture behind what was sent of it, and Producer and
\* Sink agree whether there is one.
CaptureWhole ==
    LET rest == out.queue["Traces"]
        last == wire.last["Trace"]
    IN  /\ out.pending = out.flag
        /\ rest # <<>> => out.pending /\ rest[Len(rest)].index + 1 = rest[Len(rest)].count
        /\ rest = <<>> => last.index + 1 = last.count
        /\ \A i \in 1 .. Len(rest) :
              /\ rest[i].of = (out.seq["Traces"] + SeqModulus - 1) % SeqModulus
              /\ i > 1 => rest[i].index = rest[i - 1].index + 1
        /\ rest # <<>> /\ Head(rest).index > 0 =>
              last.of = Head(rest).of /\ last.index + 1 = Head(rest).index

\* A client that puts fragments together in the order they come never mixes
\* two texts, although fragments do not name theirs and a full queue drops
\* some: a fragment that goes out is the first of its text or follows its
\* predecessor.
FragmentsInOrder ==
    [][\A k \in {"Document", "Trace"} :
         wire'.last[k] # wire.last[k] =>
            \/ wire'.last[k].index = 0
            \/ /\ wire'.last[k].of = wire.last[k].of
               /\ wire'.last[k].index = wire.last[k].index + 1]_vars

\* Once nothing new is recorded (load bounds what is), everything queued has
\* been sent and no drop waits to be reported, also none that the event which
\* reports a drop has caused.
Drains ==
    []<>(/\ \A c \in Classes : out.queue[c] = <<>>
         /\ out.pendingDrop = "None")

\* A fault capture that is pending is delivered, or superseded by one that is.
CaptureDelivered == out.pending ~> ~out.pending

\* observability.h on set_now(): "foreground, once per kernel tick ... the
\* glue must call this before emitting any record".  So no event is stamped
\* with a time older than the last tick.
StampCurrent ==
    [][out'.seq["Events"] # out.seq["Events"] => age.telemetry <= 1]_vars

\* push_class() on a full Control queue: "answer queue full: dropped + event",
\* as the design has it for every class, "every drop: counter + event".  The
\* class has no drop counter, so that event is all that tells of a lost answer
\* or birth document: until it goes out the drop stays the one to report.
AnswerDropReported ==
    [][out.pendingDrop = "Control" => out'.pendingDrop \in {"Control", "None"}]_vars
=============================================================================
