------------------------- MODULE ExclusiveActivity -------------------------
(***************************************************************************)
(* What the exclusive activity slot promises (I-LC-4): at any moment at    *)
(* most one operation holds an exclusive activity; it holds the same one   *)
(* from the claim to the release, and the slot passes through Idle before  *)
(* another operation gets it.                                              *)
(***************************************************************************)
CONSTANTS Op, Activity, Idle, Nobody

VARIABLES holder, activity

slotVars == <<holder, activity>>

Init == holder = Nobody /\ activity = Idle

Claim(o, a) ==
    /\ holder = Nobody
    /\ holder' = o
    /\ activity' = a

Release ==
    /\ holder # Nobody
    /\ holder' = Nobody
    /\ activity' = Idle

Next == Release \/ \E o \in Op, a \in Activity : Claim(o, a)

Spec == Init /\ [][Next]_slotVars
=============================================================================
