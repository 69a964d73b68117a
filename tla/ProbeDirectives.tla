--------------------------- MODULE ProbeDirectives ---------------------------
(***************************************************************************)
(* Directives that activate probes: read from a configuration document     *)
(* (config.py) or from a signed token of a request (trigger_token.py), and *)
(* matched against the label of a probe. A text field is "" when it is     *)
(* absent or no non-empty string, an expiry is 0 when it does not parse.   *)
(* A label is the sequence of its parts between dots.                      *)
(***************************************************************************)
EXTENDS Integers, SequencesExt

Directive == [id: STRING, label_pattern: Seq(STRING), service: STRING, environment: STRING, expires_at: Nat]

parse_directive(d) ==
    /\ d.id # "" /\ d.label_pattern # <<>> /\ d.service # "" /\ d.environment # ""
    /\ d.expires_at # 0

(* Directives of a document that are well formed and not yet expired.      *)
parse_active_probes(probes, now) ==
    SelectSeq(probes, LAMBDA d : parse_directive(d) /\ d.expires_at > now)

matches_label_pattern(pattern, label) ==
    \/ pattern = <<"*">>
    \/ Len(pattern) > 1 /\ Last(pattern) = "*" /\ IsPrefix(Front(pattern), label)
    \/ pattern = label

(* The matching ones among a set of directives; their order is left out.   *)
find_matching_remote_probe_directives(directives, label, service, environment, now) ==
    {d \in directives :
        /\ d.expires_at > now
        /\ d.service \in {"*", service}
        /\ d.environment \in {"*", environment}
        /\ matches_label_pattern(d.label_pattern, label)}

-----------------------------------------------------------------------------
(* A token is <<>> or <<t>>: t.shape says it has the prefix and two        *)
(* non-empty segments, t.signed the key of its signature, t.payload what   *)
(* the payload segment decodes to, <<>> when it does not.                  *)
extract_trigger_token(request) ==
    IF request.header # <<>> THEN request.header ELSE request.query

has_valid_signature(token, key) == token.signed = key

decode_payload_segment(token) ==
    IF token.payload # <<>> /\ parse_directive(token.payload[1]) THEN token.payload ELSE <<>>

(* key is <<>> when the configuration has none.                            *)
resolve_request_trigger_directives(request, key, now) ==
    LET token == extract_trigger_token(request)
    IN  IF /\ key # <<>> /\ token # <<>>
           /\ token[1].shape /\ has_valid_signature(token[1], key[1])
           /\ decode_payload_segment(token[1]) # <<>>
           /\ token[1].payload[1].expires_at > now
        THEN token[1].payload ELSE <<>>
=============================================================================
