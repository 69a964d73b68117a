---------------------------- MODULE EvidenceWire ----------------------------
(***************************************************************************)
(* The optional evidence an event may carry and what a destination must    *)
(* support to receive it (evidence_wire.py). An event is abstracted to     *)
(* which of its optional parts are present and how many bytes it takes.    *)
(* An operator that may return None returns a sequence of at most one      *)
(* event.                                                                  *)
(***************************************************************************)
EXTENDS Integers, Sequences

FEATURES == {"exception_evidence_v1", "resource_observations_v1", "recovery_v1",
             "evidence_provenance_v1"}

ExceptionTypes == {"backend_exception", "frontend_exception"}

(* exception_evidence, execution, resource_observations of the payload,    *)
(* evidence_reference and evidence_limits of the context, and whether the  *)
(* project token is attached; kind is that of a diagnostic_context.        *)
Event ==
    [type: STRING, kind: STRING, graph: BOOLEAN, execution: BOOLEAN, resources: BOOLEAN,
     reference: BOOLEAN, limits: BOOLEAN, token: BOOLEAN, base: Nat]

HasOptional(e) == e.graph \/ e.execution \/ e.resources

WithoutFields(e) ==
    [e EXCEPT !.graph = FALSE, !.execution = FALSE, !.resources = FALSE]

without_optional(e) ==
    IF e.type \in ExceptionTypes /\ HasOptional(e) THEN <<WithoutFields(e)>> ELSE <<>>

(* A descriptor is well formed, or it proves nothing.                      *)
parse_capabilities(d) == IF d.wellformed /\ d.features \subseteq FEATURES THEN d.features ELSE {}

strip_unsupported(e, features) ==
    IF e.type = "diagnostic_context"
    THEN LET feature == IF e.kind = "recovery" THEN "recovery_v1" ELSE "resource_observations_v1"
         IN  IF feature \in features THEN <<e>> ELSE <<>>
    ELSE <<[e EXCEPT
              !.graph = @ /\ "exception_evidence_v1" \in features,
              !.execution = @ /\ "exception_evidence_v1" \in features,
              !.resources = @ /\ "resource_observations_v1" \in features,
              !.reference = @ /\ {"resource_observations_v1", "recovery_v1"} \cap features # {}]>>
=============================================================================
