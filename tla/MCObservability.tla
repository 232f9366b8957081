-------------------------- MODULE MCObservability --------------------------
(***************************************************************************)
(* A small instance of Observability.  Sizes are in units of about 32      *)
(* bytes: a full fragment takes all of its class's cap of a tick, more     *)
(* than half of the ring, and four times the room of an event.             *)
(***************************************************************************)
EXTENDS Observability

MCCapacity == [Control |-> 2, Service |-> 1, Events |-> 1, Logs |-> 1,
               Traces |-> 2, Telemetry |-> 1]
MCBytes == [Event |-> 1, Log |-> 3, Telemetry |-> 1, Ack |-> 1, Query |-> 1]
MCSectionBytes == [s \in Sections |-> CASE s = "ops" -> 2
                                        [] s \in {"base", "counters"} -> 1
                                        [] OTHER -> 0]
MCQueryMasks == {{"base"}, Sections}
=============================================================================
