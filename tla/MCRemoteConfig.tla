---------------------------- MODULE MCRemoteConfig ----------------------------
(***************************************************************************)
(* A small instance of RemoteConfig for TLC: the documents a server        *)
(* publishes one after the other and requests to admit.                    *)
(***************************************************************************)
EXTENDS RemoteConfig

PolicyDocument(preset, logs, requests) ==
    [preset |-> preset, capture_logs |-> logs, capture_request_events |-> requests,
     capture_breadcrumbs |-> "local_only", capture_probe_events |-> "buffer_only",
     statuses |-> <<>>, rules |-> <<>>, diagnostic |-> "absent"]

Orders == <<"/", "o", "*">>

Rules == [status_code |-> 404, path_pattern |-> Orders, methods |-> <<"GET">>]

Wide == [PolicyDocument("", "info", "filtered") EXCEPT !.statuses = <<(<<404>>)>>, !.rules = <<(<<Rules>>)>>]

Off == PolicyDocument("minimal", "off", "off")

(* A wildcard that is not the last character.                              *)
Malformed == [Wide EXCEPT !.rules = <<(<<[Rules EXCEPT !.path_pattern = <<"/", "*", "o">>]>>)>>]

Descriptor(allowed) == [wellformed |-> TRUE, features |-> allowed]

Document(policy, remote, allowed) ==
    [dict |-> TRUE, remote_probes_enabled |-> remote, capture_policy |-> policy,
     evidence_capabilities |-> Descriptor(allowed)]

MCPins == {[Descriptor({"recovery_v1"}) EXCEPT !.wellformed = FALSE],
           Descriptor({"resource_observations_v1"})}

MCDescriptors == {Descriptor({}), Descriptor({"resource_observations_v1"})}

MCDocuments ==
    <<Document(<<Wide>>, TRUE, {"recovery_v1"}),
      Document(<<Malformed>>, TRUE, {"recovery_v1"}),
      Document(<<Off>>, TRUE, {"exception_evidence_v1"}),
      Document(<<>>, FALSE, {"profiles_v2"})>>

Request(status, path, method) == [status |-> status, path |-> path, method |-> method]

MCRequests ==
    {Request(status, path, method) :
        status \in {<<>>, <<200>>, <<404>>, <<429>>, <<500>>},
        path \in {<<>>, <<(<<"/", "o", "?">>)>>, <<(<<"/">>)>>},
        method \in {<<>>, <<"GET">>, <<"PUT">>}}
=============================================================================
