----------------------------- MODULE RemoteConfig -----------------------------
(***************************************************************************)
(* How the SDK fetches its remote configuration (remote_config_client.py,  *)
(* config.py, core.py, process_support.py). Every refresh runs in the      *)
(* thread of a threading.Timer: it reads its inputs under sdk._lock,       *)
(* fetches without the lock, and applies the answer under the lock. init,  *)
(* dispose and fork come between any two of these steps; cancelling a      *)
(* timer stops it only while it has not fired.                             *)
(*                                                                         *)
(* Delays are abstract (an armed timer fires at any time), and so are the  *)
(* probe directives of a document (module Scopes has them). An optional    *)
(* value is a sequence of at most one element.                             *)
(*                                                                         *)
(* Optional evidence has three more writers: the pin given to init, the    *)
(* acknowledgements that flushes get (module DeliveryQueue has the rest of *)
(* a flush), and dispose.                                                  *)
(***************************************************************************)
EXTENDS CapturePolicy, EvidenceWire, FiniteSetsExt

CONSTANTS
    Pollers,        \* threads of configuration timers
    Documents,      \* the configurations the server publishes, in order
    Tagging,        \* whether a 200 answer has an ETag: {TRUE}, or both
    Pins,           \* descriptors given to init as evidence_capabilities
    Descriptors,    \* descriptors in acknowledgements of the ingestion service
    Requests,       \* requests whose admission the properties look at
    MaxFaults,      \* bound: fetches that fail
    MaxGeneration   \* bound: init calls and forks

ASSUME ConfigAssumption ==
    /\ Documents \in Seq(ToSet(Documents)) \ {<<>>} /\ Tagging \subseteq BOOLEAN
    /\ IsFiniteSet(Pollers) /\ MaxFaults \in Nat /\ MaxGeneration \in Nat

VARIABLES
    generation,             \* _generation
    enabled,                \* _enabled
    fetch_impl,             \* _fetch_impl is not None
    capture_policy,         \* _capture_policy
    remote_config_snapshot, \* _remote_config_snapshot
    remote_config_etag,     \* _remote_config_etag: the tagged document
    features,               \* _evidence.features
    initial_config_ready,   \* _initial_config_ready
    remote_config_timer,    \* _remote_config_timer
    poller,                 \* the timer threads and what they hold
    served,                 \* the server's current document
    faults,                 \* fetches that failed so far
    owner,                  \* what was done to the SDK last: init, dispose or fork
    granted,                \* documents sent since the last init to a fetch begun after it
    proofs                  \* the sets of features proved since the last init or fork: by the
                            \* pin, by a document sent to a fetch begun after it, by an
                            \* acknowledgement

vars == <<generation, enabled, fetch_impl, capture_policy, remote_config_snapshot,
          remote_config_etag, features, initial_config_ready, remote_config_timer, poller,
          served, faults, owner, granted, proofs>>

config == <<capture_policy, remote_config_snapshot, remote_config_etag, features>>
sdk == <<generation, enabled, fetch_impl, owner>>
history == <<granted, proofs>>
server == <<served, faults>>

Idle == [pc |-> "idle", initial |-> FALSE, generation |-> 0, etag |-> <<>>, reply |-> "none",
         version |-> 0, tagged |-> FALSE]

Init ==
    /\ generation = 0 /\ enabled = FALSE /\ fetch_impl = FALSE /\ owner = "none"
    /\ capture_policy = BALANCED_CAPTURE_POLICY
    /\ remote_config_snapshot = <<>> /\ remote_config_etag = <<>> /\ features = {}
    /\ initial_config_ready = FALSE /\ remote_config_timer = <<>>
    /\ poller = [p \in Pollers |-> Idle]
    /\ served = 1 /\ faults = 0 /\ granted = {} /\ proofs = {}

-----------------------------------------------------------------------------
(* Timer.cancel: a timer that has fired already runs on.                   *)
Cancel(threads) ==
    [p \in Pollers |-> IF <<p>> = remote_config_timer /\ threads[p].pc = "armed"
                       THEN Idle ELSE threads[p]]

FreeThread(threads) == CHOOSE p \in Pollers : threads[p].pc = "idle"

Arm(threads, initial) ==
    LET p == FreeThread(threads)
    IN  /\ poller' = [threads EXCEPT ![p] = [Idle EXCEPT !.pc = "armed", !.initial = initial]]
        /\ remote_config_timer' = <<p>>

\* Mutant: the previous timer is not cancelled.
schedule_uncancelled(threads, snapshot, use_fallback) ==
    IF fetch_impl /\ (use_fallback \/ snapshot = <<>> \/ snapshot[1].remote_probes_enabled)
    THEN Arm(threads, FALSE)
    ELSE poller' = threads /\ remote_config_timer' = <<>>

(* _schedule_next_remote_config_refresh: the server can end the polling,   *)
(* a failed refresh (use_fallback) never does.                             *)
schedule_next_remote_config_refresh(threads, snapshot, use_fallback) ==
    IF fetch_impl /\ (use_fallback \/ snapshot = <<>> \/ snapshot[1].remote_probes_enabled)
    THEN Arm(Cancel(threads), FALSE)
    ELSE poller' = Cancel(threads) /\ remote_config_timer' = <<>>

\* Mutant: the ETag of the previous configuration is kept.
init_keeping_etag(e, f, pin) ==
    /\ generation < MaxGeneration
    /\ \E p \in Pollers : Cancel(poller)[p].pc = "idle"
    /\ generation' = generation + 1 /\ enabled' = e /\ fetch_impl' = f /\ owner' = "init"
    /\ capture_policy' = IF f THEN MINIMAL_CAPTURE_POLICY ELSE BALANCED_CAPTURE_POLICY
    /\ remote_config_snapshot' = <<>> /\ features' = parse_capabilities(pin)
    /\ initial_config_ready' = ~(e /\ f)
    /\ IF e /\ f THEN Arm(Cancel(poller), TRUE)
       ELSE poller' = Cancel(poller) /\ remote_config_timer' = <<>>
    /\ granted' = {} /\ proofs' = {parse_capabilities(pin)}
    /\ UNCHANGED <<remote_config_etag, server>>

init(e, f, pin) ==
    /\ generation < MaxGeneration
    /\ \E p \in Pollers : Cancel(poller)[p].pc = "idle"
    /\ generation' = generation + 1 /\ enabled' = e /\ fetch_impl' = f /\ owner' = "init"
    /\ capture_policy' = IF f THEN MINIMAL_CAPTURE_POLICY ELSE BALANCED_CAPTURE_POLICY
    /\ remote_config_snapshot' = <<>> /\ remote_config_etag' = <<>>
    /\ features' = parse_capabilities(pin)
    /\ initial_config_ready' = ~(e /\ f)
    /\ IF e /\ f THEN Arm(Cancel(poller), TRUE)
       ELSE poller' = Cancel(poller) /\ remote_config_timer' = <<>>
    /\ granted' = {} /\ proofs' = {parse_capabilities(pin)}
    /\ UNCHANGED server

dispose ==
    /\ features' = {} /\ poller' = Cancel(poller) /\ remote_config_timer' = <<>>
    /\ owner' = "dispose"
    /\ UNCHANGED <<generation, enabled, fetch_impl, capture_policy, remote_config_snapshot,
                   remote_config_etag, initial_config_ready, history, server>>

(* The child has none of its parent's threads and starts without a         *)
(* configuration, but keeps the policy (ensure_current_process).           *)
fork ==
    /\ generation < MaxGeneration
    /\ generation' = generation + 1 /\ owner' = "fork"
    /\ poller' = [p \in Pollers |-> Idle] /\ remote_config_timer' = <<>>
    /\ initial_config_ready' = TRUE
    /\ features' = {} /\ remote_config_etag' = <<>> /\ remote_config_snapshot' = <<>>
    /\ proofs' = {}
    /\ UNCHANGED <<enabled, fetch_impl, capture_policy, granted, server>>

-----------------------------------------------------------------------------
(* parse_remote_config, without directives and intervals.                  *)
parse_remote_config(version) ==
    LET document == Documents[version]
        policy == parse_capture_policy(document.capture_policy)
    IN  IF document.dict /\ policy # <<>>
        THEN <<[version |-> version, remote_probes_enabled |-> document.remote_probes_enabled,
                capture_policy |-> policy[1]]>>
        ELSE <<>>

(* History: what a document that is sent proves; one that does not parse   *)
(* proves nothing.                                                         *)
Proof(version) == IF parse_remote_config(version) = <<>> THEN {}
                  ELSE parse_capabilities(Documents[version].evidence_capabilities)

Fire(p) ==
    /\ poller[p].pc = "armed"
    /\ poller' = [poller EXCEPT ![p].pc = "fired"]
    /\ UNCHANGED <<sdk, config, initial_config_ready, remote_config_timer, history, server>>

(* The end of a refresh; the first of an init also says it is over.        *)
Finish(p) == initial_config_ready' = (initial_config_ready \/ poller[p].initial)

(* The first locked section of refresh_remote_config.                      *)
Begin(p) ==
    /\ poller[p].pc = "fired"
    /\ IF enabled /\ fetch_impl
       THEN /\ poller' = [poller EXCEPT ![p].pc = "fetching", ![p].generation = generation,
                                        ![p].etag = remote_config_etag]
            /\ UNCHANGED initial_config_ready
       ELSE /\ poller' = [poller EXCEPT ![p] = Idle]
            /\ Finish(p)
    /\ UNCHANGED <<sdk, config, remote_config_timer, history, server>>

Answered(p, reply, version, tagged) ==
    poller' = [poller EXCEPT ![p].pc = "answered", ![p].reply = reply, ![p].version = version,
                             ![p].tagged = tagged, ![p].etag = <<>>]

(* The fetch: an error, an unexpected status or no JSON (all one failure); *)
(* not modified; or the current document.                                  *)
FetchFails(p) ==
    /\ poller[p].pc = "fetching" /\ faults < MaxFaults
    /\ faults' = faults + 1
    /\ Answered(p, "failure", 0, FALSE)
    /\ UNCHANGED <<sdk, config, initial_config_ready, remote_config_timer, history, served>>

NotModified(p) ==
    /\ poller[p].pc = "fetching" /\ poller[p].etag = <<served>>
    /\ Answered(p, "304", 0, FALSE)
    /\ UNCHANGED <<sdk, config, initial_config_ready, remote_config_timer, history, server>>

Modified(p) ==
    /\ poller[p].pc = "fetching" /\ poller[p].etag # <<served>>
    /\ \E tagged \in Tagging : Answered(p, "200", served, tagged)
    /\ granted' = IF poller[p].generation = generation THEN granted \cup {served} ELSE granted
    /\ proofs' = IF poller[p].generation = generation THEN proofs \cup {Proof(served)} ELSE proofs
    /\ UNCHANGED <<sdk, config, initial_config_ready, remote_config_timer, server>>

Publish ==
    /\ served < Len(Documents)
    /\ served' = served + 1
    /\ UNCHANGED <<sdk, config, initial_config_ready, remote_config_timer, poller, history, faults>>

-----------------------------------------------------------------------------
\* Mutant: the generation is not compared.
NeverOutdated(p) == ~enabled

(* The second locked section of refresh_remote_config.                     *)
Outdated(p) == poller[p].generation # generation \/ ~enabled

\* Mutant: a document that does not parse is observed like any other.
ObservedInvalid(p) == parse_capabilities(Documents[poller[p].version].evidence_capabilities)

\* Mutant: the descriptor is taken as it is.
ObservedUnparsed(p) == Documents[poller[p].version].evidence_capabilities.features

(* EvidenceDelivery.observe: a document that does not parse withdraws the  *)
(* proof of optional evidence.                                             *)
Observed(p) == IF parse_remote_config(poller[p].version) = <<>> THEN {}
               ELSE parse_capabilities(Documents[poller[p].version].evidence_capabilities)

Discard(p) ==
    /\ poller[p].pc = "answered" /\ Outdated(p)
    /\ poller' = [poller EXCEPT ![p] = Idle]
    /\ Finish(p)
    /\ UNCHANGED <<sdk, config, remote_config_timer, history, server>>

\* Mutant: a 304 does not schedule the next refresh.
Confirm_unscheduled(p) ==
    /\ poller[p].pc = "answered" /\ ~Outdated(p) /\ poller[p].reply = "304"
    /\ poller' = [poller EXCEPT ![p] = Idle]
    /\ Finish(p)
    /\ UNCHANGED <<sdk, config, remote_config_timer, history, server>>

Confirm(p) ==
    /\ poller[p].pc = "answered" /\ ~Outdated(p) /\ poller[p].reply = "304"
    /\ schedule_next_remote_config_refresh([poller EXCEPT ![p] = Idle], remote_config_snapshot, FALSE)
    /\ Finish(p)
    /\ UNCHANGED <<sdk, config, history, server>>

\* Mutant: the fallback of a failed first fetch is the balanced policy.
Fallback_balanced(p) ==
    LET invalid == poller[p].reply = "200" /\ parse_remote_config(poller[p].version) = <<>>
    IN  /\ poller[p].pc = "answered" /\ ~Outdated(p)
        /\ poller[p].reply = "failure" \/ invalid
        /\ features' = IF invalid THEN Observed(p) ELSE features
        /\ capture_policy' = IF poller[p].initial THEN BALANCED_CAPTURE_POLICY ELSE capture_policy
        /\ schedule_next_remote_config_refresh([poller EXCEPT ![p] = Idle], remote_config_snapshot, TRUE)
        /\ Finish(p)
        /\ UNCHANGED <<sdk, remote_config_snapshot, remote_config_etag, history, server>>

(* A failure, or a document that does not parse.                           *)
Fallback(p) ==
    LET invalid == poller[p].reply = "200" /\ parse_remote_config(poller[p].version) = <<>>
    IN  /\ poller[p].pc = "answered" /\ ~Outdated(p)
        /\ poller[p].reply = "failure" \/ invalid
        /\ features' = IF invalid THEN Observed(p) ELSE features
        /\ capture_policy' = IF poller[p].initial THEN MINIMAL_CAPTURE_POLICY ELSE capture_policy
        /\ schedule_next_remote_config_refresh([poller EXCEPT ![p] = Idle], remote_config_snapshot, TRUE)
        /\ Finish(p)
        /\ UNCHANGED <<sdk, remote_config_snapshot, remote_config_etag, history, server>>

Adopt(p) ==
    LET snapshot == parse_remote_config(poller[p].version)
    IN  /\ poller[p].pc = "answered" /\ ~Outdated(p)
        /\ poller[p].reply = "200" /\ snapshot # <<>>
        /\ features' = Observed(p)
        /\ remote_config_snapshot' = snapshot
        /\ capture_policy' = snapshot[1].capture_policy
        /\ remote_config_etag' = IF poller[p].tagged THEN <<poller[p].version>> ELSE remote_config_etag
        /\ schedule_next_remote_config_refresh([poller EXCEPT ![p] = Idle], snapshot, FALSE)
        /\ Finish(p)
        /\ UNCHANGED <<sdk, history, server>>

(* A flush has been acknowledged: the acknowledgement proves what its      *)
(* descriptor says, and nothing if it has none or does not add up. A flush *)
(* of an earlier generation finds that out and stops (flush_delivery.py).  *)
Acknowledge(descriptor) ==
    /\ enabled
    /\ features' = parse_capabilities(descriptor)
    /\ proofs' = proofs \cup {parse_capabilities(descriptor)}
    /\ UNCHANGED <<sdk, capture_policy, remote_config_snapshot, remote_config_etag,
                   initial_config_ready, remote_config_timer, poller, granted, server>>

Refresh(p) ==
    \/ Fire(p) \/ Begin(p) \/ FetchFails(p) \/ NotModified(p) \/ Modified(p)
    \/ Discard(p) \/ Confirm(p) \/ Fallback(p) \/ Adopt(p)

Next ==
    \/ \E e, f \in BOOLEAN, pin \in Pins : init(e, f, pin)
    \/ dispose
    \/ fork
    \/ Publish
    \/ \E descriptor \in Descriptors : Acknowledge(descriptor)
    \/ \E p \in Pollers : Refresh(p)

(* A timer fires, its thread runs, and fetch_impl returns or raises.       *)
Fairness == \A p \in Pollers : WF_vars(Refresh(p))

Spec == Init /\ [][Next]_vars /\ Fairness
-----------------------------------------------------------------------------
Stopped == remote_config_snapshot # <<>> /\ ~remote_config_snapshot[1].remote_probes_enabled

Polls == owner = "init" /\ enabled /\ fetch_impl

(* The type of every variable of the configuration client.                 *)
TypeOK ==
    /\ generation \in 0 .. MaxGeneration /\ enabled \in BOOLEAN /\ fetch_impl \in BOOLEAN
    /\ owner \in {"none", "init", "dispose", "fork"}
    /\ capture_policy.preset # "" /\ capture_policy.capture_logs \in LogLevels
    /\ Len(remote_config_snapshot) <= 1 /\ Len(remote_config_etag) <= 1
    /\ features \subseteq FEATURES /\ initial_config_ready \in BOOLEAN
    /\ remote_config_timer \in {<<>>} \cup {<<p>> : p \in Pollers}
    /\ \A p \in Pollers : /\ poller[p].pc \in {"idle", "armed", "fired", "fetching", "answered"}
                          /\ poller[p].reply \in {"none", "failure", "304", "200"}
                          /\ poller[p].generation <= generation
    /\ served \in DOMAIN Documents /\ faults \in 0 .. MaxFaults
    /\ granted \subseteq DOMAIN Documents /\ proofs \subseteq SUBSET FEATURES

(* Until a configuration arrives, whatever late answers, failures and      *)
(* re-initializations come in between, an SDK that fetches one captures    *)
(* only failed requests and error logs: init sets MINIMAL_CAPTURE_POLICY,  *)
(* and should_capture_request_event and _log_level_eligible apply it.      *)
RestrictedUntilArrival ==
    owner = "init" /\ fetch_impl /\ remote_config_snapshot = <<>> =>
        /\ \A q \in Requests : should_capture_request_event(capture_policy, q) =>
                                  q.status # <<>> /\ q.status[1] >= 500
        /\ \A log_level, level \in DOMAIN LEVEL_RANKS :
              log_level_eligible(capture_policy, log_level, level) => level \in {"error", "critical"}

(* The policy in force is the restrictive one or one the server sent to a  *)
(* fetch begun after the last init; a fork keeps it and does not widen it, *)
(* and next to a configuration it is that configuration's policy or the    *)
(* restrictive one (refresh_remote_config, ensure_current_process).        *)
PolicyGranted ==
    fetch_impl =>
        /\ \/ capture_policy = MINIMAL_CAPTURE_POLICY
           \/ \E v \in granted : <<capture_policy>> = parse_capture_policy(Documents[v].capture_policy)
        /\ remote_config_snapshot # <<>> =>
              capture_policy \in {MINIMAL_CAPTURE_POLICY, remote_config_snapshot[1].capture_policy}

(* An ETag is kept only with a configuration, so that a 304 always has one *)
(* to confirm, whatever re-initializations and forks overtake the fetch    *)
(* (refresh_remote_config, init, ensure_current_process).                  *)
Grounded ==
    /\ remote_config_etag # <<>> => remote_config_snapshot # <<>>
    /\ \A p \in Pollers : poller[p].reply = "304" /\ ~Outdated(p) => remote_config_snapshot # <<>>

(* Optional evidence is sent only to a destination that has proved to take *)
(* it: the features in force are together the pin, an acknowledgement or   *)
(* what a document that parses says, and none of these is left from before *)
(* the last init or fork, even when an answer asked for then arrives late  *)
(* (EvidenceDelivery.observe, refresh_remote_config, init, dispose).       *)
EvidenceProved == features # {} => features \in proofs

(* Every armed timer is the one the SDK refers to, so that dispose and     *)
(* init can cancel it: overlapping refreshes never leave an orphan that    *)
(* polls on (_schedule_next_remote_config_refresh).                        *)
OneTimer == \A p \in Pollers : poller[p].pc = "armed" => remote_config_timer = <<p>>

(* The chain of refreshes never breaks: an initialized SDK has a timer     *)
(* armed or a refresh of its generation under way, unless its              *)
(* configuration says that remote probes are off                           *)
(* (refresh_remote_config schedules on every path).                        *)
PollingContinues ==
    Polls => \/ Stopped
             \/ \E p \in Pollers : poller[p].pc \in {"armed", "fired"}
             \/ \E p \in Pollers : poller[p].pc \in {"fetching", "answered"} /\ ~Outdated(p)

(* Once the server stops publishing and failing, an SDK that polls holds   *)
(* the server's current configuration, or one that ended the polling, for  *)
(* good, in whatever order overlapping answers were applied                *)
(* (refresh_remote_config with its ETag).                                  *)
Converges ==
    <>[](Polls => \/ Stopped
                  \/ parse_remote_config(served) = <<>>
                  \/ remote_config_snapshot # <<>> /\ remote_config_snapshot[1].version = served)
=============================================================================
