-------------------------- MODULE RequestDecisions --------------------------
(***************************************************************************)
(* What the contract promises a client about its requests, whatever is     *)
(* lost, repeated or delayed on the way: among the last Depth decisions    *)
(* of a boot every request is decided once, its repetitions get the same   *)
(* result, the same id with another payload gets Conflict, and only the    *)
(* decision itself may start an operation.                                 *)
(***************************************************************************)
EXTENDS Integers, Sequences

CONSTANTS
    Depth,        \* how many decisions are remembered
    Key,          \* what identifies a request: epoch, authority, request id
    Payload,      \* what else it says
    Static,       \* refusals that follow from the request alone
    Dynamic,      \* refusals that depend on the state of the controller
    OpId

VARIABLES
    recent,   \* remembered decisions, oldest first
    answer,   \* the answer given by the last step, or NoAnswer
    started   \* the operations a request has started in the last step

Accepted(o) == [code |-> "Accepted", op |-> o]
Rejected(code) == [code |-> code, op |-> 0]
NoAnswer == [key |-> <<>>, payload |-> <<>>, result |-> Rejected("None")]

\* What may be decided about a request.
Result == {Accepted(o) : o \in OpId} \cup {Rejected(c) : c \in Dynamic}

Latest(s) == IF Len(s) > Depth THEN Tail(s) ELSE s
Known(key) == \E i \in 1 .. Len(recent) : recent[i].key = key

Init ==
    /\ recent = <<>>
    /\ answer = NoAnswer
    /\ started = {}

\* The answers with one of the given outcomes.
Answers(outcomes) == [key : Key, payload : Payload, result : outcomes]

\* The first time a request gets as far as being decided.
Decide ==
    /\ answer' \in Answers(Result)
    /\ ~Known(answer'.key)
    /\ recent' = Latest(Append(recent, answer'))
    /\ started' = {answer'.result.op} \cap OpId

\* A request with the key of a remembered decision.
Repeat ==
    /\ answer' \in Answers(Result \cup {Rejected("Conflict")})
    /\ \E i \in 1 .. Len(recent) :
        /\ recent[i].key = answer'.key
        /\ answer'.result = IF recent[i].payload = answer'.payload
                            THEN recent[i].result ELSE Rejected("Conflict")
    /\ started' = {}
    /\ UNCHANGED recent

\* A request that can never be accepted as it is, and so was not decided.
Refuse ==
    /\ answer' \in Answers({Rejected(c) : c \in Static})
    /\ \A i \in 1 .. Len(recent) : ~(/\ recent[i].key = answer'.key
                                    /\ recent[i].payload = answer'.payload)
    /\ started' = {}
    /\ UNCHANGED recent

Other ==
    /\ answer' = NoAnswer
    /\ started' = {}
    /\ recent' \in {recent, <<>>}   \* a reset forgets everything

Next == Decide \/ Repeat \/ Refuse \/ Other

Spec == Init /\ [][Next]_<<recent, answer, started>>
=============================================================================
