---------------------------- MODULE CapturePolicy ----------------------------
(***************************************************************************)
(* Capture policies: how a policy is read from a configuration document    *)
(* (config.py) and which requests and logs it admits                       *)
(* (request_capture_policy.py, event_support.py, core.py). A string field  *)
(* of a document is "" when it is absent or no non-empty string, a list    *)
(* field is <<>> when it is absent or null and <<list>> otherwise. A path  *)
(* is a sequence of characters; an element of the wrong type is modelled   *)
(* by a status or a method outside the accepted ones, which the same test  *)
(* refuses.                                                                *)
(***************************************************************************)
EXTENDS Integers, SequencesExt

CONSTANTS
    MaxStatuses,    \* immediate_client_error_statuses of one policy: 12
    MaxRules,       \* immediate_client_error_path_rules of one policy: 25
    MaxMethods,     \* methods of one rule: 7
    MaxPattern      \* characters of a path pattern: 256

LogLevels == {"off", "error", "warning", "info"}
RequestModes == {"off", "failures_only", "filtered", "all"}
BreadcrumbModes == {"local_only", "exception_only", "standalone"}
ProbeModes == {"buffer_only", "standalone_when_activated"}
Methods == {"GET", "POST", "PUT", "PATCH", "DELETE", "HEAD", "OPTIONS"}
ClientErrors == 400 .. 499

BALANCED_CAPTURE_POLICY ==
    [preset |-> "balanced", capture_logs |-> "warning", capture_request_events |-> "failures_only",
     capture_breadcrumbs |-> "exception_only", capture_probe_events |-> "buffer_only",
     statuses |-> {}, rules |-> <<>>, capture_diagnostic_context |-> TRUE]

MINIMAL_CAPTURE_POLICY ==
    [preset |-> "minimal", capture_logs |-> "error", capture_request_events |-> "failures_only",
     capture_breadcrumbs |-> "local_only", capture_probe_events |-> "buffer_only",
     statuses |-> {}, rules |-> <<>>, capture_diagnostic_context |-> FALSE]

is_valid_path_pattern(p) ==
    /\ Len(p) \in 1 .. MaxPattern /\ p[1] = "/"
    /\ \A i \in DOMAIN p : p[i] \notin {"?", "#"} /\ (p[i] = "*" => i = Len(p))

(* methods is <<>> when the key is missing: every method. The parsed rule  *)
(* keeps the first of equal methods, so they are a set.                    *)
ValidRule(r) ==
    /\ r.status_code \in ClientErrors /\ is_valid_path_pattern(r.path_pattern)
    /\ Len(r.methods) <= MaxMethods /\ ToSet(r.methods) \subseteq Methods

parse_immediate_client_error_statuses(value) ==
    IF value = <<>> THEN <<{}>>
    ELSE IF Len(value[1]) <= MaxStatuses /\ ToSet(value[1]) \subseteq ClientErrors
         THEN <<ToSet(value[1])>> ELSE <<>>

parse_immediate_client_error_path_rules(value) ==
    IF value = <<>> THEN <<(<<>>)>>
    ELSE IF Len(value[1]) <= MaxRules /\ \A i \in DOMAIN value[1] : ValidRule(value[1][i])
         THEN <<[i \in DOMAIN value[1] |-> [value[1][i] EXCEPT !.methods = ToSet(@)]]>>
         ELSE <<>>

(* The policy of a document: <<>> is None, the document is refused. A      *)
(* document without a policy (no key: <<>>) gets the balanced one.         *)
parse_capture_policy(payload) ==
    IF payload = <<>> THEN <<BALANCED_CAPTURE_POLICY>>
    ELSE LET p == payload[1]
             preset == IF p.preset = "" THEN BALANCED_CAPTURE_POLICY.preset ELSE p.preset
             statuses == parse_immediate_client_error_statuses(p.statuses)
             rules == parse_immediate_client_error_path_rules(p.rules)
         IN  IF /\ p.capture_logs \in LogLevels
                /\ p.capture_request_events \in RequestModes
                /\ p.capture_breadcrumbs \in BreadcrumbModes
                /\ p.capture_probe_events \in ProbeModes
                /\ statuses # <<>> /\ rules # <<>>
                /\ p.diagnostic \in {"absent", "true", "false"}
             THEN <<[preset |-> preset, capture_logs |-> p.capture_logs,
                     capture_request_events |-> p.capture_request_events,
                     capture_breadcrumbs |-> p.capture_breadcrumbs,
                     capture_probe_events |-> p.capture_probe_events,
                     statuses |-> statuses[1], rules |-> rules[1],
                     capture_diagnostic_context |-> preset # "minimal" /\ p.diagnostic # "false"]>>
             ELSE <<>>

-----------------------------------------------------------------------------
BALANCED_IMMEDIATE_REQUEST_STATUSES == {408, 423, 424, 425, 429}
INVESTIGATIVE_IMMEDIATE_REQUEST_STATUSES == BALANCED_IMMEDIATE_REQUEST_STATUSES \cup {409}

(* The path part of a relative URL; an absolute URL is taken to be reduced *)
(* to it already.                                                          *)
normalize_request_path(value) ==
    LET ends == {i \in DOMAIN value : value[i] \in {"?", "#"}}
        path == IF ends = {} THEN value
                ELSE SubSeq(value, 1, (CHOOSE i \in ends : \A j \in ends : i <= j) - 1)
    IN  IF path = <<>> THEN <<"/">> ELSE path

(* path and method are <<>> when the request does not have them.           *)
matches_immediate_client_error_path_rule(status, path, method, rules) ==
    /\ status \in ClientErrors /\ path # <<>>
    /\ \E i \in DOMAIN rules :
          LET r == rules[i]
              normalized == normalize_request_path(path[1])
          IN  /\ r.status_code = status
              /\ r.methods = {} \/ (method # <<>> /\ method[1] \in r.methods)
              /\ IF Last(r.path_pattern) = "*"
                 THEN IsPrefix(Front(r.path_pattern), normalized)
                 ELSE normalized = r.path_pattern

is_immediate_request_incident_status(policy, q) ==
    /\ q.status # <<>>
    /\ \/ q.status[1] >= 500
       \/ q.status[1] \in policy.statuses
       \/ matches_immediate_client_error_path_rule(q.status[1], q.path, q.method, policy.rules)
       \/ policy.preset = "investigative" /\ q.status[1] \in INVESTIGATIVE_IMMEDIATE_REQUEST_STATUSES
       \/ policy.preset = "balanced" /\ q.status[1] \in BALANCED_IMMEDIATE_REQUEST_STATUSES

should_capture_request_event(policy, q) ==
    \/ is_immediate_request_incident_status(policy, q)
    \/ policy.capture_request_events = "all"
    \/ policy.capture_request_events = "filtered" /\ q.status = <<>>
    \/ policy.capture_request_events = "failures_only" /\ q.status # <<>> /\ q.status[1] >= 500

LEVEL_RANKS == [debug |-> 10, info |-> 20, warning |-> 30, error |-> 40, critical |-> 50]

effective_log_threshold(policy, log_level) ==
    IF LEVEL_RANKS[log_level] >= LEVEL_RANKS[policy.capture_logs] THEN log_level ELSE policy.capture_logs

log_level_eligible(policy, log_level, level) ==
    /\ policy.capture_logs # "off"
    /\ LEVEL_RANKS[level] >= LEVEL_RANKS[effective_log_threshold(policy, log_level)]
=============================================================================
