------------------------------- MODULE Codec -------------------------------
(***************************************************************************)
(* What the frame codec (src/domain/codec.cpp) lets through.  A received   *)
(* frame is described by what decode() looks at: the number of bytes, the  *)
(* sync word, the declared payload length, whether the CRC agrees, the     *)
(* protocol version and the family.  CRCs and fingerprints are abstracted  *)
(* to perfect ones: equal exactly when what they cover is equal.           *)
(***************************************************************************)
EXTENDS Integers

MinFrame == 12        \* sync 2 + header 8 + crc 2
MaxPayload == 116
MaxParams == 64
ProtocolMajor == 1
Families == 1 .. 7
Control == 2          \* the family of requests, stops and queries
RequestFixed == 18    \* fixed part of an OperationRequest
StopSize == 4

Wire == [len : 0 .. MinFrame + MaxPayload, sync : BOOLEAN, payload : Nat,
         crc : BOOLEAN, major : Nat, family : Nat]

\* The bytes encode() makes of a payload of n <= MaxPayload bytes.
Encoded(family, n) ==
    [len |-> MinFrame + n, sync |-> TRUE, payload |-> n, crc |-> TRUE,
     major |-> ProtocolMajor, family |-> family]

\* decode(): the first check that fails names the error.
DecodeError(w) ==
    IF w.len < MinFrame THEN "Truncated"
    ELSE IF ~w.sync THEN "BadSync"
    ELSE IF w.payload > MaxPayload THEN "PayloadTooLong"
    ELSE IF MinFrame + w.payload > w.len THEN "Truncated"
    ELSE IF ~w.crc THEN "BadCrc"
    ELSE IF w.major # ProtocolMajor THEN "UnsupportedMajor"
    ELSE IF w.family \notin Families THEN "UnknownFamily"
    ELSE "None"

\* decode_operation_request() and decode_stop_intent() accept the payload:
\* its length is exactly the one its contents call for.
PayloadFits(w, m) ==
    \/ /\ m.kind = "OperationRequest"
       /\ m.request.params <= MaxParams
       /\ w.payload = RequestFixed + m.request.params
    \/ /\ m.kind = "StopIntent"
       /\ w.payload = StopSize
=============================================================================
