--------------------------- MODULE Subscriptions ---------------------------
(***************************************************************************)
(* The registry of subscriptions, src/domain/subscriptions.cpp: a fixed    *)
(* array of slots, the class mask of each, the id it was given, and        *)
(* whether its birth document is still owed.  All slots belong to the one  *)
(* authority a boot grants, so the authority is left out; rate and filter  *)
(* parameters are stored by the code and read by nothing.                  *)
(***************************************************************************)
EXTENDS Naturals, FiniteSets

CONSTANTS
    BridgeCap,       \* slots
    SubCap,          \* cap(): subscriptions the profile allows
    SubIdModulus,    \* 2^8, the width of an id
    TelemetryAlways  \* m_profile is the network bridge

ASSUME SubscriptionsAssumption ==
    /\ BridgeCap \in Nat \ {0} /\ SubCap \in 1 .. BridgeCap
    /\ SubIdModulus \in Nat /\ SubIdModulus > 1
    /\ TelemetryAlways \in BOOLEAN

VARIABLES
    subs,      \* slot -> [active, id, mask, birth]
    nextSubId  \* m_next_sub_id

registry == <<subs, nextSubId>>

Slots == 1 .. BridgeCap
Active == {s \in Slots : subs[s].active}

RegistryInit ==
    /\ subs = [s \in Slots |-> [active |-> FALSE, id |-> 0, mask |-> {}, birth |-> FALSE]]
    /\ nextSubId = 1

Lowest(S) == CHOOSE s \in S : \A t \in S : s <= t

\* find_dup(), the free slots and find_slot(): the loops take the first match.
Duplicates(mask) == {s \in Active : subs[s].mask = mask}
Holders(id) == {s \in Active : subs[s].id = id}

CapsExceeded(mask) == Duplicates(mask) = {} /\ Cardinality(Active) >= SubCap

\* subscribe(), accepted: a duplicate owes a new birth document and keeps its
\* id; otherwise the first free slot gets the next id, which skips 0.
Subscribe(mask) ==
    \/ /\ Duplicates(mask) # {}
       /\ subs' = [subs EXCEPT ![Lowest(Duplicates(mask))].birth = TRUE]
       /\ UNCHANGED nextSubId
    \/ /\ Duplicates(mask) = {} /\ ~CapsExceeded(mask)
       /\ subs' = [subs EXCEPT ![Lowest(Slots \ Active)] =
                     [active |-> TRUE, id |-> nextSubId, mask |-> mask, birth |-> TRUE]]
       /\ nextSubId' = IF nextSubId + 1 < SubIdModulus THEN nextSubId + 1 ELSE 1

\* unsubscribe() of an id the principal holds.
Unsubscribe(id) ==
    /\ Holders(id) # {}
    /\ subs' = [subs EXCEPT ![Lowest(Holders(id))].active = FALSE,
                            ![Lowest(Holders(id))].birth = FALSE]
    /\ UNCHANGED nextSubId

BirthPending == \E s \in Active : subs[s].birth

BirthSent ==
    /\ subs' = [s \in Slots |-> [subs[s] EXCEPT !.birth = @ /\ ~subs[s].active]]
    /\ UNCHANGED nextSubId

AnySubClass(class) == \E s \in Active : class \in subs[s].mask

\* interest(): is there anybody to push records of the class to.
Interest(class) ==
    \/ class = "Events"
    \/ class = "Telemetry" /\ TelemetryAlways
    \/ AnySubClass(class)
=============================================================================
