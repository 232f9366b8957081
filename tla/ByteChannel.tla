---------------------------- MODULE ByteChannel ----------------------------
(***************************************************************************)
(* What the transmit ring promises: a bounded channel of bytes that go out *)
(* in the order they came in, none lost, none repeated, none made up.      *)
(***************************************************************************)
EXTENDS Naturals, Sequences

CONSTANTS Byte, Depth

VARIABLES
    channel,  \* bytes accepted and not yet sent
    line      \* the byte that was sent last

Init == channel = <<>> /\ line \in Byte

Put(b) ==
    /\ Len(channel) < Depth
    /\ channel' = Append(channel, b)
    /\ UNCHANGED line

Get ==
    /\ channel # <<>>
    /\ line' = Head(channel)
    /\ channel' = Tail(channel)

Next == Get \/ \E b \in Byte : Put(b)

Spec == Init /\ [][Next]_<<channel, line>>
=============================================================================
