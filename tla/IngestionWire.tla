--------------------------- MODULE IngestionWire ---------------------------
(***************************************************************************)
(* Fitting events into HTTP request bodies (ingestion_wire.py). Sizes are  *)
(* scaled: MaxBodyBytes stands for the 256 KiB of a request, EnvelopeBytes *)
(* for the 13 bytes of the empty body {"events":[]}, and each optional     *)
(* part of an event costs one of the Bytes constants.                      *)
(***************************************************************************)
EXTENDS EvidenceWire, SequencesExt

CONSTANTS MaxBodyBytes, EnvelopeBytes, PartBytes, LimitsBytes, TokenBytes

ASSUME WireAssumption ==
    /\ EnvelopeBytes \in Nat \ {0} /\ MaxBodyBytes \in Nat
    /\ PartBytes \in Nat /\ LimitsBytes \in Nat /\ TokenBytes \in Nat
    /\ MaxBodyBytes > EnvelopeBytes

MAX_EVENT_BYTES == MaxBodyBytes - EnvelopeBytes

Cost(present, bytes) == IF present THEN bytes ELSE 0

event_bytes(e) ==
    e.base + Cost(e.graph, PartBytes) + Cost(e.execution, PartBytes)
           + Cost(e.resources, PartBytes) + Cost(e.reference, PartBytes)
           + Cost(e.limits, LimitsBytes) + Cost(e.token, TokenBytes)

(* Bytes of the events and the commas between them.                        *)
JoinedBytes(events) ==
    FoldFunction(+, 0, [i \in DOMAIN events |-> event_bytes(events[i]) + Cost(i > 1, 1)])

(* encode_body: the request that is really sent.                           *)
encode_body(events) == EnvelopeBytes + JoinedBytes(events)

(* Without its optional parts, with a note of the omission if there is     *)
(* room; failing that without its failure reference.                       *)
fit_event(e) ==
    LET reduced == IF without_optional(e) # <<>> THEN WithoutFields(e) ELSE e
        candidates ==
            <<e>> \o (IF without_optional(e) # <<>>
                      THEN <<[reduced EXCEPT !.limits = TRUE], reduced>> ELSE <<>>)
                  \o (IF e.reference THEN <<[reduced EXCEPT !.reference = FALSE]>> ELSE <<>>)
        fitting == {i \in DOMAIN candidates : event_bytes(candidates[i]) <= MAX_EVENT_BYTES}
    IN  IF fitting = {} THEN <<>> ELSE <<candidates[Min(fitting)]>>

(* prefix and chunks raise on an event that fits no request.               *)
Unfit(events) == \E i \in DOMAIN events : event_bytes(events[i]) > MAX_EVENT_BYTES

(* prefix starts to count from 12, one less than the empty body takes.     *)
CountedBytes == EnvelopeBytes - 1

(* How many of the events prefix selects: up to the first that overflows.  *)
PrefixLength(events) ==
    LET Over(n) == CountedBytes + JoinedBytes(SubSeq(events, 1, n)) > MaxBodyBytes
        over == {n \in 1 .. Len(events) : Over(n)}
    IN  IF over = {} THEN Len(events) ELSE Min(over) - 1

prefix(events) == SubSeq(events, 1, PrefixLength(events))

(* chunks cuts the events into prefixes, each of what this leaves.         *)
AfterPrefix(events) == SubSeq(events, PrefixLength(events) + 1, Len(events))
=============================================================================
