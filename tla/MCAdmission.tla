---------------------------- MODULE MCAdmission ----------------------------
(***************************************************************************)
(* A small instance of Admission: three request ids against a ledger of    *)
(* depth two, an exclusive root type, a type for roots and children, and   *)
(* frames of another epoch or damaged.                                     *)
(***************************************************************************)
EXTENDS Admission

MCTypes == [move |-> [root_allowed |-> TRUE, child_allowed |-> FALSE,
                      exclusive |-> TRUE, params_max |-> 1, driver |-> TRUE],
            scan |-> [root_allowed |-> TRUE, child_allowed |-> TRUE,
                      exclusive |-> FALSE, params_max |-> 0, driver |-> TRUE]]

MCGates == {[window |-> "Serving", fault |-> FALSE, provisioned |-> TRUE],
            [window |-> "Serving", fault |-> TRUE, provisioned |-> TRUE],
            [window |-> "Boot", fault |-> FALSE, provisioned |-> FALSE]}

Request(id, e, type, parent) ==
    [id |-> id, epoch |-> e, authority |-> 1, role |-> {"control"},
     type |-> type, parent |-> parent, params |-> 0]

RequestFrame(r) ==
    [wire |-> Encoded(Control, RequestFixed + r.params),
     message |-> [kind |-> "OperationRequest", request |-> r]]

StopFrame(o) == [wire |-> Encoded(Control, StopSize),
                 message |-> [kind |-> "StopIntent", op |-> o]]

Wanted ==
    {Request(1, 1, "move", 0), Request(1, 2, "move", 0), Request(2, 1, "move", 0),
     Request(2, 1, "scan", 0), Request(3, 1, "scan", 1)}

Damaged == {[RequestFrame(Request(1, 1, "move", 0)) EXCEPT !.wire.crc = FALSE]}

MCFrames == {RequestFrame(r) : r \in Wanted}
              \cup {StopFrame(1)} \cup Damaged

\* The same requests from a principal with the last authority id.
LastFrames == {RequestFrame([Request(i, 1, "scan", 0) EXCEPT !.authority = 2]) :
                 i \in 1 .. 2}
=============================================================================
