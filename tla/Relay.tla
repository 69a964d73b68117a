------------------------------- MODULE Relay -------------------------------
(***************************************************************************)
(* The browser relay of one Python process (relay.py, relay_delivery.py):  *)
(* threads of the web server call BrowserRelayHandler.handle at the same   *)
(* time. They share the rate limiter's windows, the table of file          *)
(* transports, the spool directory and the record of the evidence the      *)
(* destination supports; only the file transports hold a lock.             *)
(*                                                                         *)
(* req[r] is the local state of the thread that serves request r; a local  *)
(* that is no longer read is reset. A step reads or writes shared state    *)
(* once. One tick of `now' stands for a second of the rate limiter and for *)
(* a millisecond of a file name.                                           *)
(***************************************************************************)
EXTENDS Acknowledgement, IngestionWire

CONSTANTS
    Requests,        \* the requests, each served by a thread of its own
    Inputs,          \* what a browser may send, for each request
    AllowedOrigins,  \* allowed_origins
    RateLimit,       \* rate_limit_per_minute
    RateWindow,      \* the 60 seconds of the limiter
    Services,        \* names of browser services
    FileName,        \* _sanitize_service_name, a function on Services
    Handlers,        \* configurations of the handler
    Http,            \* the forward transport is HttpTransport
    Pin,             \* evidence_capabilities
    Reasons,         \* reasons for which the destination rejects events
    Descriptors,     \* capability documents of its answers
    Lossy,           \* calls of it may raise, answer outside 2xx or take too long
    Warm,            \* services that have had a first request
    WriteOutcomes,   \* what the file system may do: ok, short, or fail in open, write, replace
    AcceptFails,     \* outcomes of on_accept: TRUE when it raises
    MaxTime          \* bound of the clock

(* A candidate is an event and its flaw: a missing field, an envelope that *)
(* is not canonical, an unsafe identity, unsafe text outside or inside the *)
(* optional parts. Optional parts outside of exceptions are such a flaw,   *)
(* and those of an analytics event are none (validate_evidence).           *)
Candidates ==
    {c \in [event: Event, flaw: {"none", "shape", "envelope", "identity", "text", "optional"}] :
        HasOptional(c.event) =>
            \/ c.event.type = "frontend_exception"
            \/ c.flaw = "optional" /\ c.event.type # "analytics_event"}

(* What a browser sends: headers, whether the body is JSON, fits and is a  *)
(* batch, whether it asks for the destination's support, and the batch.    *)
Posts ==
    [origin: STRING, host: STRING, method: STRING, json: BOOLEAN, fits: BOOLEAN,
     decodes: BOOLEAN, discover: BOOLEAN, service: Services, batch: Seq(Candidates)]

ASSUME RelayAssumption ==
    /\ RateLimit \in Nat \ {0} /\ RateWindow \in Nat \ {0} /\ MaxTime \in Nat
    /\ Handlers \subseteq [project_mode: {"none", "local-only", "connected"},
                            durable_write: BOOLEAN, forwarding: BOOLEAN]
    /\ Http \in BOOLEAN /\ Lossy \in BOOLEAN /\ Warm \subseteq Services
    /\ AcceptFails \subseteq BOOLEAN
    /\ WriteOutcomes \subseteq {"ok", "short", "open", "write", "replace"}
    /\ "free" \notin Requests /\ IsFiniteSet(Requests) /\ IsFiniteSet(Warm)
    /\ FileName \in [Services -> STRING]
    /\ \A r \in Requests : Inputs[r] \subseteq Posts

VARIABLES
    handler,          \* project_mode, durable_write, and whether an endpoint and a token are set
    now,              \* the clock
    rate_limit_state, \* _rate_limit_state, of the one client address: when it was admitted
    features,         \* _evidence.features
    transports,       \* _local_transports or _spool_transports: service -> number, 0 if none
    writers,          \* the AtomicRelayFileTransport objects: lock and _sequence
    files,            \* finished files of the directory: path -> whose batch, and whether whole
    temps,            \* temporary files of the directory
    markers,          \* paths with a .delivered marker
    req,              \* local state of the requests
    send,             \* local state of their forwarding attempts
    granted           \* history: features that the pin or a valid acknowledgement proved

limiter == <<now, rate_limit_state>>
spool == <<transports, writers, files, temps, markers>>
proof == <<features, granted>>
vars == <<handler, limiter, spool, proof, req, send>>

NewRequest ==
    [pc |-> "arrive", input |-> <<>>, at |-> 0, limited |-> FALSE,
     stamps |-> {}, index |-> 1, events |-> <<>>, rejected |-> 0,
     writer |-> 0, path |-> <<>>, wrote |-> "none", complete |-> TRUE, acked |-> {},
     raised |-> FALSE, status |-> 0]

(* Locals of a forwarding attempt: events left and sent, the batch in      *)
(* flight and the positions of its events, whether it is a retry of one    *)
(* of which `taken' were accepted, the features that stood so far, and the *)
(* verdict on the chunk.                                                   *)
NoAttempt ==
    [left |-> <<>>, sent |-> 0, batch |-> <<>>, where |-> <<>>, again |-> FALSE,
     taken |-> 0, mine |-> {}, ok |-> FALSE, canonical |-> FALSE]

Init ==
    /\ handler \in Handlers
    /\ now = 0 /\ rate_limit_state = {}
    /\ features = parse_capabilities(Pin) /\ granted = parse_capabilities(Pin)
    /\ \E order \in {SetToSeq(Warm)} :
          /\ transports = [s \in Services |->
                              IF s \in Warm THEN CHOOSE i \in DOMAIN order : order[i] = s ELSE 0]
          /\ writers = [i \in DOMAIN order |-> [lock |-> "free", sequence |-> 0]]
    /\ files = <<>> /\ temps = {} /\ markers = {}
    /\ req = [r \in Requests |-> NewRequest] /\ send = [r \in Requests |-> NoAttempt]

Goto(r, pc) == req' = [req EXCEPT ![r].pc = pc]
Respond(r, status) == req' = [req EXCEPT ![r].pc = "done", ![r].status = status]

-----------------------------------------------------------------------------
(* The request: origin, method, content type and size.                     *)

IsOriginAllowed(i) ==
    /\ i.origin # "none"
    /\ IF AllowedOrigins # {} THEN i.origin \in AllowedOrigins
       ELSE i.host # "none" /\ i.origin = i.host

(* The status of an early return of handle, or 0.                          *)
Refusal(i) ==
    CASE ~IsOriginAllowed(i) -> 403
      [] IsOriginAllowed(i) /\ i.method = "OPTIONS" -> 204
      [] IsOriginAllowed(i) /\ i.method \notin {"OPTIONS", "POST"} -> 405
      [] OTHER -> IF ~i.json THEN 400 ELSE IF ~i.fits THEN 413 ELSE 0

Arrive(r) ==
    /\ req[r].pc = "arrive"
    /\ \E i \in Inputs[r] :
          req' = [req EXCEPT ![r].input = i, ![r].status = Refusal(i),
                             ![r].pc = IF Refusal(i) = 0 THEN "rate" ELSE "done"]
    /\ UNCHANGED <<handler, limiter, spool, proof, send>>

-----------------------------------------------------------------------------
(* _is_rate_limited reads the window and stores it again, without a lock.  *)

\* Mutant: timestamps never leave the window.
RecentForever(stamps) == stamps

Recent(stamps) == {s \in stamps : s.at > now - RateWindow}

RateRead(r) ==
    /\ req[r].pc = "rate"
    /\ LET stamps == Recent(rate_limit_state)
           limited == Cardinality(stamps) >= RateLimit
       IN  req' = [req EXCEPT ![r].pc = "store", ![r].at = now, ![r].limited = limited,
                              ![r].stamps = IF limited THEN stamps
                                             ELSE stamps \cup {[by |-> r, at |-> now]}]
    /\ UNCHANGED <<handler, limiter, spool, proof, send>>

RateStore(r) ==
    /\ req[r].pc = "store"
    /\ rate_limit_state' = req[r].stamps
    /\ req' = [req EXCEPT
                 ![r].stamps = {},
                 ![r].status = IF req[r].limited THEN 429 ELSE IF req[r].input.decodes THEN 0 ELSE 400,
                 ![r].pc = IF req[r].limited \/ ~req[r].input.decodes THEN "done" ELSE "screen"]
    /\ UNCHANGED <<handler, now, spool, proof, send>>

-----------------------------------------------------------------------------
(* Screening: each candidate of the batch becomes a sanitized event that   *)
(* the destination supports and can receive, or an error.                  *)

ACCEPTED_EVENT_TYPES ==
    {"frontend_exception", "error_suppressed", "frontend_breadcrumb", "request_event",
     "probe_event", "analytics_event", "diagnostic_context"}

(* Only an event with evidence has its envelope checked, and only one with *)
(* optional parts can be saved by dropping them.                           *)
sanitize_event(c) ==
    LET e == c.event
        evidence == /\ e.type # "analytics_event"
                    /\ e.type = "diagnostic_context" \/ HasOptional(e)
    IN  CASE c.flaw \in {"shape", "identity", "text"} -> <<>>
          [] c.flaw = "envelope" -> IF evidence THEN <<>> ELSE <<e>>
          [] c.flaw = "optional" -> without_optional(e)
          [] OTHER -> <<e>>

(* Sized with the project token, kept without it.                          *)
prepare_event(e) ==
    LET owned == [e EXCEPT !.token = TRUE]
        reduced == IF e.type = "analytics_event"
                   THEN IF event_bytes(owned) <= MAX_EVENT_BYTES THEN <<owned>> ELSE <<>>
                   ELSE fit_event(owned)
    IN  [i \in DOMAIN reduced |-> [reduced[i] EXCEPT !.token = FALSE]]

Forwarder == handler.project_mode = "connected" /\ handler.forwarding

Screened(c) ==
    LET clean == IF c.event.type \in ACCEPTED_EVENT_TYPES THEN sanitize_event(c) ELSE <<>>
        known == IF clean = <<>> \/ clean[1].type = "analytics_event" THEN clean
                 ELSE strip_unsupported(clean[1], features)
    IN  IF known = <<>> \/ ~Forwarder THEN known ELSE prepare_event(known[1])

(* Accepted events are written to a file: local-only, or durable.          *)
Spooling == handler.project_mode = "local-only" \/ (handler.project_mode = "connected" /\ handler.durable_write)

(* The answer to a request that was not refused.                           *)
FinalStatus(q) == IF q.rejected > 0 /\ ~q.input.discover THEN 400 ELSE 202

(* Where a request goes when its candidates are screened: _deliver_events. *)
Deliver(q) ==
    CASE q.events = <<>> -> [q EXCEPT !.pc = "done", !.status = FinalStatus(q)]
      [] q.events # <<>> /\ handler.project_mode = "none" -> [q EXCEPT !.pc = "accept"]
      [] q.events # <<>> /\ handler.project_mode # "none" ->
            [q EXCEPT !.pc = IF Spooling THEN "lookup" ELSE "forward"]

ScreenCandidate(r) ==
    LET q == req[r]
        kept == Screened(q.input.batch[q.index])
        next == [q EXCEPT !.index = @ + 1, !.events = @ \o kept, !.rejected = @ + 1 - Len(kept)]
    IN  /\ q.pc = "screen" /\ q.index <= Len(q.input.batch)
        /\ req' = [req EXCEPT ![r] = IF next.index > Len(q.input.batch) THEN Deliver(next) ELSE next]
        /\ UNCHANGED <<handler, limiter, spool, proof, send>>

EmptyBatch(r) ==
    /\ req[r].pc = "screen" /\ req[r].input.batch = <<>>
    /\ Respond(r, 202)
    /\ UNCHANGED <<handler, limiter, spool, proof, send>>

-----------------------------------------------------------------------------
(* AtomicRelayFileTransport: the table of transports is filled without a   *)
(* lock; a transport's lock covers the temporary file and its renaming,    *)
(* and is released before the temporary files of the directory are removed.*)

Lookup(r) ==
    LET known == transports[req[r].input.service]
    IN  /\ req[r].pc = "lookup"
        /\ req' = [req EXCEPT ![r].writer = known, ![r].pc = IF known = 0 THEN "create" ELSE "write"]
        /\ UNCHANGED <<handler, limiter, spool, proof, send>>

Create(r) ==
    /\ req[r].pc = "create"
    /\ writers' = Append(writers, [lock |-> "free", sequence |-> 0])
    /\ transports' = [transports EXCEPT ![req[r].input.service] = Len(writers) + 1]
    /\ req' = [req EXCEPT ![r].writer = Len(writers) + 1, ![r].pc = "write"]
    /\ UNCHANGED <<handler, limiter, files, temps, markers, proof, send>>

\* Mutant: a write first clears what earlier ones may have left.
WriteTempCleared(r, outcome) ==
    LET w == req[r].writer
        sequence == writers[w].sequence + 1
        path == <<now, sequence, FileName[req[r].input.service]>>
        created == outcome # "open"
        written == outcome \in {"ok", "short"}
    IN  /\ req[r].pc = "write" /\ writers[w].lock = "free"
        /\ outcome # "replace"
        /\ writers' = [writers EXCEPT ![w] = [lock |-> IF written THEN r ELSE "free",
                                              sequence |-> sequence]]
        /\ temps' = IF created THEN {[path |-> path, by |-> r]} ELSE {}
        /\ req' = [req EXCEPT ![r].path = path, ![r].wrote = outcome,
                              ![r].pc = IF written THEN "replace" ELSE "cleanup"]
        /\ UNCHANGED <<handler, limiter, transports, files, markers, proof, send>>

(* The temporary file of a write. Opening or writing it may fail; a short  *)
(* os.write is not noticed.                                                *)
WriteTemp(r, outcome) ==
    LET w == req[r].writer
        sequence == writers[w].sequence + 1
        path == <<now, sequence, FileName[req[r].input.service]>>
        created == outcome # "open"
        written == outcome \in {"ok", "short"}
    IN  /\ req[r].pc = "write" /\ writers[w].lock = "free"
        /\ outcome # "replace"
        /\ writers' = [writers EXCEPT ![w] = [lock |-> IF written THEN r ELSE "free",
                                              sequence |-> sequence]]
        /\ temps' = IF created THEN temps \cup {[path |-> path, by |-> r]} ELSE temps
        /\ req' = [req EXCEPT ![r].path = path, ![r].wrote = outcome,
                              ![r].pc = IF written THEN "replace" ELSE "cleanup"]
        /\ UNCHANGED <<handler, limiter, transports, files, markers, proof, send>>

TempOf(r) == [path |-> req[r].path, by |-> r]

Unlocked(r) == [writers EXCEPT ![req[r].writer].lock = "free"]

(* os.replace puts the file in place of any other of the same name.        *)
Replace(r) ==
    /\ req[r].pc = "replace" /\ TempOf(r) \in temps
    /\ files' = [p \in DOMAIN files \cup {req[r].path} |->
                    IF p = req[r].path THEN [of |-> r, whole |-> req[r].wrote # "short"] ELSE files[p]]
    /\ temps' = temps \ {TempOf(r)}
    /\ writers' = Unlocked(r)
    /\ Goto(r, IF handler.project_mode = "connected" THEN "forward" ELSE "accept")
    /\ UNCHANGED <<handler, limiter, transports, markers, proof, send>>

\* Mutant: a temporary file that is gone is not noticed.
ReplaceUnchecked(r) ==
    /\ req[r].pc = "replace" /\ TempOf(r) \notin temps
    /\ writers' = Unlocked(r)
    /\ Goto(r, "accept")
    /\ UNCHANGED <<handler, limiter, transports, files, temps, markers, proof, send>>

(* Another thread's cleanup removed the temporary file, or renaming fails  *)
(* and leaves it.                                                          *)
ReplaceFails(r) ==
    /\ req[r].pc = "replace"
    /\ TempOf(r) \notin temps \/ "replace" \in WriteOutcomes
    /\ writers' = Unlocked(r)
    /\ req' = [req EXCEPT ![r].pc = "cleanup",
                          ![r].wrote = IF TempOf(r) \in temps THEN "replace" ELSE @]
    /\ UNCHANGED <<handler, limiter, transports, files, temps, markers, proof, send>>

\* Mutant: cleaning up removes finished files too.
CleanupAll(r) ==
    /\ req[r].pc = "cleanup"
    /\ temps' = {} /\ files' = <<>> /\ markers' = {}
    /\ Respond(r, 500)
    /\ UNCHANGED <<handler, limiter, transports, writers, proof, send>>

(* Every temporary file of the directory is removed, whoever writes it;    *)
(* listing the directory or removing any of them may fail, which is        *)
(* ignored. Only its owner's os.replace notices that a file is gone, so    *)
(* the removals are one step, at the first of them.                        *)
Cleanup(r) ==
    /\ req[r].pc = "cleanup"
    /\ temps' \in SUBSET temps
    /\ Respond(r, 500)
    /\ UNCHANGED <<handler, limiter, transports, writers, files, markers, proof, send>>

-----------------------------------------------------------------------------
(* RelayForwardTransport.send_verified: chunk after chunk until one fails  *)
(* or the five seconds are over.                                           *)

(* The end of a forwarding attempt: the verdicts succeeded and complete.   *)
Verdict(r, succeeded, complete) ==
    /\ req' = [req EXCEPT ![r].complete = complete,
                          ![r].pc = CASE Spooling -> IF complete THEN "mark" ELSE "accept"
                                      [] ~Spooling /\ succeeded -> "accept"
                                      [] OTHER -> "done",
                          ![r].status = IF Spooling \/ succeeded THEN @ ELSE 500]
    /\ send' = [send EXCEPT ![r] = NoAttempt]

Forward(r) ==
    LET owned == [i \in DOMAIN req[r].events |-> [req[r].events[i] EXCEPT !.token = TRUE]]
    IN  /\ req[r].pc = "forward"
        /\ IF ~Forwarder \/ Unfit(owned) THEN Verdict(r, FALSE, FALSE)
           ELSE /\ req' = [req EXCEPT ![r].pc = "chunk", ![r].complete = TRUE]
                /\ send' = [send EXCEPT ![r].left = owned, ![r].mine = FEATURES]
        /\ UNCHANGED <<handler, limiter, spool, proof>>

Selected(e) == IF e.type = "analytics_event" THEN <<e>> ELSE strip_unsupported(e, features)

(* The next chunk, as far as the destination supports it.                  *)
Stripped(r) == [i \in DOMAIN prefix(send[r].left) |-> Selected(prefix(send[r].left)[i])]

(* The deadline is over, or an event has lost the support it needs.        *)
GiveUp(r) ==
    /\ req[r].pc = "chunk"
    /\ Lossy \/ \E i \in DOMAIN Stripped(r) : Stripped(r)[i] = <<>>
    /\ Verdict(r, FALSE, FALSE)
    /\ UNCHANGED <<handler, limiter, spool, proof>>

Chunk(r) ==
    /\ req[r].pc = "chunk"
    /\ \A i \in DOMAIN Stripped(r) : Stripped(r)[i] # <<>>
    /\ send' = [send EXCEPT ![r].again = FALSE,
                            ![r].batch = [i \in DOMAIN Stripped(r) |-> Stripped(r)[i][1]],
                            ![r].where = [i \in DOMAIN Stripped(r) |-> send[r].sent + i]]
    /\ Goto(r, "send")
    /\ UNCHANGED <<handler, limiter, spool, proof>>

(* _send_chunk returns.                                                    *)
ChunkResult(r, ok, canonical) ==
    /\ Goto(r, "merge")
    /\ send' = [send EXCEPT ![r].ok = ok, ![r].canonical = canonical, ![r].batch = <<>>,
                            ![r].where = <<>>, ![r].again = FALSE, ![r].taken = 0]

Oversized(batch) == Http /\ encode_body(batch) > MaxBodyBytes

(* The deadline is over, the call raises or answers outside 2xx, or the    *)
(* body is larger than HttpTransport sends.                                *)
SendFails(r) ==
    /\ req[r].pc = "send"
    /\ Lossy \/ Oversized(send[r].batch)
    /\ ChunkResult(r, FALSE, FALSE)
    /\ UNCHANGED <<handler, limiter, spool, proof>>

(* Some of n events are rejected for some reason.                          *)
Judged(n, bad, why) ==
    [keys |-> TRUE, accepted |-> n - Cardinality(bad), rejected |-> Cardinality(bad),
     errors |-> SetToSeq({[index |-> i, reason |-> why] : i \in bad})]

(* Bodies a destination may answer with for n events: none, one whose      *)
(* counts are wrong, and a verdict on every event.                         *)
Bodies(n) ==
    {[keys |-> FALSE], [keys |-> TRUE, accepted |-> n, rejected |-> 1, errors |-> <<>>]} \cup
    {Judged(n, bad, why) : bad \in SUBSET (0 .. n - 1), why \in Reasons}

Required(r) == req[r].input.discover \/ Http

(* EvidenceDelivery.observe: the features after an answer. Only a valid    *)
(* acknowledgement grants any.                                             *)
Observed(r, d, valid) ==
    IF ~Required(r) /\ ~d.present THEN features
    ELSE IF valid /\ d.present THEN parse_capabilities(d) ELSE {}

\* Mutant: any rejection repeats the whole batch.
RetryAll(batch, errors, supported) == IF errors = {} THEN {} ELSE DOMAIN batch

(* Positions in the batch of the rejected exceptions that shrink when the  *)
(* features that were lost are taken out.                                  *)
Retries(batch, errors, supported) ==
    LET Reducible(e) ==
            /\ e.reason = "invalid_event"
            /\ batch[e.index + 1].type = "frontend_exception"
            /\ strip_unsupported(batch[e.index + 1], supported) # <<batch[e.index + 1]>>
    IN  {e.index + 1 : e \in {x \in errors : Reducible(x)}}

\* Mutant: the indices of an acknowledgement count from one.
AcceptedFromOne(where, ack) ==
    IF ack.kind = "acknowledged" THEN {where[i] - 1 : i \in DOMAIN where} ELSE {}

(* Positions among the request's events that an acknowledgement accepts.   *)
AcceptedAt(where, ack) ==
    LET errors == ack.retryable_indices \cup ack.terminal_errors
    IN  IF ack.kind = "acknowledged"
        THEN {where[i] : i \in {j \in DOMAIN where :
                                   \A e \in errors : e.index # j - 1}}
        ELSE {}

Learn(supported) ==
    /\ features' = supported
    /\ granted' = granted \cup supported

(* A 2xx answer to a chunk: done, or its reducible rejections are sent     *)
(* again.                                                                  *)
Observe(r, body, d) ==
    LET s == send[r]
        ack == decide_acknowledgement(body, Len(s.batch), Required(r))
        supported == Observed(r, d, ack.kind = "acknowledged")
        lost == ~(features \subseteq supported)
        retries == SetToSeq(IF lost THEN Retries(s.batch, ack.terminal_errors, supported) ELSE {})
        all == ack.kind = "acknowledged" /\ ack.accepted = Len(s.batch)
    IN  /\ req[r].pc = "send" /\ ~s.again /\ ~Oversized(s.batch)
        /\ Learn(supported)
        /\ req' = [req EXCEPT ![r].acked = @ \cup AcceptedAt(s.where, ack),
                              ![r].pc = IF retries = <<>> THEN "merge" ELSE "send"]
        /\ send' = [send EXCEPT ![r] =
              [@ EXCEPT !.ok = all \/ ack.kind = "legacy", !.canonical = all,
                        !.again = retries # <<>>,
                        !.taken = IF retries = <<>> THEN 0 ELSE ack.accepted,
                        !.batch = [i \in DOMAIN retries |->
                                      strip_unsupported(s.batch[retries[i]], supported)[1]],
                        !.where = [i \in DOMAIN retries |-> s.where[retries[i]]]]]
        /\ UNCHANGED <<handler, limiter, spool>>

\* Mutant: a retry that is acknowledged completes the chunk.
RetryAcknowledged(s, ack) == ack.kind = "acknowledged"

RetryCompletes(s, ack) ==
    ack.kind = "acknowledged" /\ s.taken + ack.accepted = PrefixLength(s.left)

(* The answer to the second, reduced call.                                 *)
ObserveRetry(r, body, d) ==
    LET s == send[r]
        ack == decide_acknowledgement(body, Len(s.batch), TRUE)
    IN  /\ req[r].pc = "send" /\ s.again /\ ~Oversized(s.batch)
        /\ Learn(Observed(r, d, ack.kind = "acknowledged"))
        /\ req' = [req EXCEPT ![r].acked = @ \cup AcceptedAt(s.where, ack), ![r].pc = "merge"]
        /\ send' = [send EXCEPT ![r] =
              [@ EXCEPT !.ok = RetryCompletes(s, ack), !.canonical = RetryCompletes(s, ack),
                        !.batch = <<>>, !.where = <<>>, !.again = FALSE, !.taken = 0]]
        /\ UNCHANGED <<handler, limiter, spool>>

\* Mutant: the neutral list is written back as it is.
MergeUnread(r) ==
    /\ req[r].pc = "merge"
    /\ Goto(r, "publish")
    /\ UNCHANGED <<handler, limiter, spool, proof, send>>

(* The features that every chunk of this request left standing: read from  *)
(* the shared record, then written to it.                                  *)
Merge(r) ==
    /\ req[r].pc = "merge"
    /\ send' = [send EXCEPT ![r].mine = @ \cap features]
    /\ Goto(r, "publish")
    /\ UNCHANGED <<handler, limiter, spool, proof>>

Publish(r) ==
    LET s == send[r]
        complete == req[r].complete /\ s.canonical
    IN  /\ req[r].pc = "publish"
        /\ features' = s.mine
        /\ \/ (~s.ok \/ Lossy) /\ Verdict(r, FALSE, FALSE)
           \/ s.ok /\ AfterPrefix(s.left) = <<>> /\ Verdict(r, TRUE, complete)
           \/ /\ s.ok /\ AfterPrefix(s.left) # <<>>
              /\ send' = [send EXCEPT ![r] =
                    [NoAttempt EXCEPT !.left = AfterPrefix(s.left), !.mine = s.mine,
                                      !.sent = s.sent + PrefixLength(s.left)]]
              /\ req' = [req EXCEPT ![r].pc = "chunk", ![r].complete = complete]
        /\ UNCHANGED <<handler, limiter, spool, granted>>

-----------------------------------------------------------------------------
(* After delivery: the marker, the application's callback, the response.   *)

(* The marker is created exclusively; creating it may fail.                *)
Mark(r) ==
    /\ req[r].pc = "mark"
    /\ \/ markers' = markers \cup {req[r].path}
       \/ "open" \in WriteOutcomes /\ markers' = markers
    /\ Goto(r, "accept")
    /\ UNCHANGED <<handler, limiter, transports, writers, files, temps, proof, send>>

Accept(r) ==
    /\ req[r].pc = "accept"
    /\ \E fails \in AcceptFails :
          req' = [req EXCEPT ![r].pc = "done", ![r].raised = fails, ![r].path = <<>>,
                             ![r].writer = 0, ![r].complete = TRUE,
                             ![r].status = IF fails THEN 500 ELSE FinalStatus(req[r])]
    /\ UNCHANGED <<handler, limiter, spool, proof, send>>

Tick ==
    /\ now < MaxTime
    /\ now' = now + 1
    /\ UNCHANGED <<handler, rate_limit_state, spool, proof, req, send>>

(* Every request is answered.                                              *)
Finished ==
    /\ \A r \in Requests : req[r].pc = "done"
    /\ UNCHANGED vars

Step(r) ==
    \/ Arrive(r) \/ RateRead(r) \/ RateStore(r) \/ ScreenCandidate(r) \/ EmptyBatch(r)
    \/ Lookup(r) \/ Create(r) \/ (\E o \in WriteOutcomes : WriteTemp(r, o))
    \/ Replace(r) \/ ReplaceFails(r) \/ Cleanup(r)
    \/ Forward(r) \/ GiveUp(r) \/ Chunk(r) \/ SendFails(r)
    \/ (\E body \in Bodies(Len(send[r].batch)), d \in Descriptors :
          Observe(r, body, d) \/ ObserveRetry(r, body, d))
    \/ Merge(r) \/ Publish(r) \/ Mark(r) \/ Accept(r)

Next == Tick \/ Finished \/ \E r \in Requests : Step(r)

Spec == Init /\ [][Next]_vars

-----------------------------------------------------------------------------
TypeOK ==
    /\ handler \in Handlers
    /\ now \in 0 .. MaxTime /\ rate_limit_state \subseteq [by: Requests, at: 0 .. MaxTime]
    /\ features \subseteq FEATURES /\ granted \subseteq FEATURES
    /\ transports \in [Services -> 0 .. Len(writers)]
    /\ writers \in Seq([lock: {"free"} \cup Requests, sequence: Nat])
    /\ \A p \in DOMAIN files : files[p] \in [of: Requests, whole: BOOLEAN]
    /\ temps \subseteq [path: Nat \X Nat \X STRING, by: Requests]
    /\ markers \subseteq DOMAIN files
    /\ \A r \in Requests :
          /\ req[r].rejected + Len(req[r].events) < req[r].index
          /\ req[r].acked \subseteq DOMAIN req[r].events
          /\ req[r].status \in {0, 202, 204, 400, 403, 405, 413, 429, 500}

(* A file of the request's events, and a complete one.                     *)
Spooled(r) == \E p \in DOMAIN files : files[p].of = r
OnDisk(r) == \E p \in DOMAIN files : files[p].of = r /\ files[p].whole

(***************************************************************************)
(* _deliver_events (relay.py:224): a request whose accepted events go to   *)
(* files has a complete file of them when it is answered 202 (or 400, for  *)
(* other candidates of it), and also when it is answered 500 because       *)
(* on_accept raised (relay.py:197): a sender that repeats it then stores   *)
(* its events twice. The one exception is a short os.write, which leaves a *)
(* truncated file (relay_delivery.py:214). Any other 500 leaves no file.   *)
(***************************************************************************)
SpoolTruth ==
    \A r \in Requests :
        Spooling /\ req[r].pc = "done" /\ req[r].events # <<>> =>
            IF req[r].status # 500 \/ req[r].raised
            THEN Spooled(r) /\ (req[r].wrote # "short" => OnDisk(r))
            ELSE ~Spooled(r)

(***************************************************************************)
(* README.md:102: a spool "is marked delivered only after a valid complete *)
(* ACK": every event of a marked file (relay_delivery.py:44) was accepted  *)
(* by a canonical acknowledgement.                                         *)
(***************************************************************************)
MarkedOnlyComplete ==
    \A p \in markers : \A i \in DOMAIN req[files[p].of].events : i \in req[files[p].of].acked

(***************************************************************************)
(* AtomicRelayFileTransport.write (relay_delivery.py:84): a thread whose   *)
(* write fails removes the temporary files of all others, whose os.replace *)
(* then fails, and so on. Still no request is answered 500 for its file    *)
(* unless the file system failed some request's own open, write or rename. *)
(***************************************************************************)
FailuresRooted ==
    (\E r \in Requests : Spooling /\ req[r].pc = "done" /\ req[r].status = 500 /\ ~req[r].raised)
        => \E q \in Requests : req[q].wrote \in {"open", "write", "replace"}

(***************************************************************************)
(* README.md:101 and 104: the relay "advertise[s] only verified downstream *)
(* support" and "malformed ACKs cannot grant proof": what it believes, and *)
(* what it sends, was granted by the pin or by a valid acknowledgement,    *)
(* whatever the order in which concurrent sends publish (send_verified,    *)
(* relay_delivery.py:136).                                                 *)
(***************************************************************************)
ProofEarned ==
    /\ features \subseteq granted
    /\ \A r \in Requests : req[r].pc = "send" =>
          \A i \in DOMAIN send[r].batch :
              LET e == send[r].batch[i]
              IN  /\ e.graph \/ e.execution => "exception_evidence_v1" \in granted
                  /\ e.resources => "resource_observations_v1" \in granted

(***************************************************************************)
(* _is_rate_limited (relay.py:295) keeps its window without a lock and may *)
(* forget requests; it still refuses a request only when RateLimit others  *)
(* were admitted within the window.                                        *)
(***************************************************************************)
RefusedHonestly ==
    \A r \in Requests : req[r].limited =>
        Cardinality({q \in Requests : /\ req[q].pc \notin {"arrive", "rate"}
                                      /\ Refusal(req[q].input) = 0 /\ ~req[q].limited
                                      /\ req[q].at > req[r].at - RateWindow}) >= RateLimit

(***************************************************************************)
(* README.md:105: only a rejected event is sent again, and once: no call   *)
(* carries an event the destination has acknowledged (_send_chunk,         *)
(* relay_delivery.py:174).                                                 *)
(***************************************************************************)
NoResend ==
    \A r \in Requests : req[r].pc = "send" =>
        \A i \in DOMAIN send[r].where : send[r].where[i] \notin req[r].acked

(***************************************************************************)
(* README.md:79: native requests "remain within the receiving 256-KiB      *)
(* limit": what prefix selects is never more than HttpTransport sends      *)
(* (ingestion_wire.py:54, transport.py:66).                                *)
(***************************************************************************)
WireFits ==
    \A r \in Requests : req[r].pc = "send" => encode_body(send[r].batch) <= MaxBodyBytes
(* The relay as its contract sees it.                                      *)
AnswerOf(q) ==
    CASE q.pc # "done" -> "none"
      [] q.pc = "done" /\ q.status = 500 -> "failed"
      [] q.pc = "done" /\ q.status # 500 -> IF q.events = <<>> THEN "refused" ELSE "accepted"

Contract ==
    INSTANCE RelayContract WITH
        durable <- Spooling,
        stored <- {r \in Requests : Spooled(r)},
        delivered <- {r \in Requests : req[r].events # <<>> /\ req[r].acked = DOMAIN req[r].events},
        marked <- {files[p].of : p \in markers},
        answer <- [r \in Requests |-> AnswerOf(req[r])]

(***************************************************************************)
(* BrowserRelayHandler.handle (relay.py:89) keeps the relay's contract:    *)
(* accepted events are stored first, stay stored and are marked only after *)
(* delivery, and an answer is final, in every interleaving of requests for *)
(* services the relay knows. A truncated file counts as stored here:       *)
(* SpoolTruth says when a stored file is complete.                         *)
(***************************************************************************)
KeepsContract == Contract!Spec
=============================================================================
