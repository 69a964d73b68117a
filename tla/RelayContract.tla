--------------------------- MODULE RelayContract ---------------------------
(***************************************************************************)
(* What the browser relay promises of the events it accepts, without its   *)
(* threads, files and chunks: a durable relay stores them before it says   *)
(* so, never loses what it stored, and marks as delivered only what was    *)
(* both stored and delivered.                                              *)
(***************************************************************************)
CONSTANT Requests

VARIABLES
    durable,    \* accepted events are stored
    stored,     \* requests whose accepted events are stored
    delivered,  \* requests whose accepted events the destination acknowledged
    marked,     \* requests marked as delivered
    answer      \* none, accepted, failed or refused

promise == <<durable, stored, delivered, marked, answer>>

Init ==
    /\ durable \in BOOLEAN
    /\ stored = {} /\ delivered = {} /\ marked = {}
    /\ answer = [r \in Requests |-> "none"]

Store(r) ==
    /\ durable /\ answer[r] = "none"
    /\ stored' = stored \cup {r}
    /\ UNCHANGED <<durable, delivered, marked, answer>>

Deliver(r) ==
    /\ answer[r] = "none" /\ (durable => r \in stored)
    /\ delivered' = delivered \cup {r}
    /\ UNCHANGED <<durable, stored, marked, answer>>

MarkDelivered(r) ==
    /\ r \in stored \cap delivered
    /\ marked' = marked \cup {r}
    /\ UNCHANGED <<durable, stored, delivered, answer>>

Answer(r, a) ==
    /\ answer[r] = "none"
    /\ a = "accepted" => (durable => r \in stored)
    /\ a = "refused" => r \notin stored \cup delivered
    /\ answer' = [answer EXCEPT ![r] = a]
    /\ UNCHANGED <<durable, stored, delivered, marked>>

Next ==
    \E r \in Requests :
        \/ Store(r) \/ Deliver(r) \/ MarkDelivered(r)
        \/ \E a \in {"accepted", "failed", "refused"} : Answer(r, a)

Spec == Init /\ [][Next]_promise
=============================================================================
