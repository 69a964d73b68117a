--------------------------- MODULE DeliveryQueue ---------------------------
(***************************************************************************)
(* The bounded delivery queue of the debugbundle Python SDK: capture calls *)
(* admit events to it (queue_admission.py), one reserved flush at a time   *)
(* finalizes and sends a batch of it (flush_delivery.py,                   *)
(* delivery_hooks.py), and init, dispose and fork replace its ownership    *)
(* (core.py, process_support.py).                                          *)
(*                                                                         *)
(* A section of the code that holds sdk._lock is one step, except the loop *)
(* of offer_protected_event and the offers of a flush, which are several   *)
(* steps under `lock', because callers read the queue without the lock.    *)
(* Time is abstract: `backoff' is "now < _retry_after", `reported' is      *)
(* "less than 60 s since _last_pressure_report_at".                        *)
(***************************************************************************)
EXTENDS Integers, SequencesExt

CONSTANTS
    Callers,        \* application threads that capture
    Flushers,       \* threads that run flush(): timers and explicit calls
    Ids,            \* object identities; id() values are reused once free
    CaptureKinds,   \* kinds of event the callers capture
    HookKinds,      \* kinds a before_send hook may turn an event into
    Sizes,          \* serialized sizes of events
    MaxEvents,      \* MAX_PENDING_EVENTS
    MaxBytes,       \* MAX_PENDING_BYTES
    Http,           \* the transport is the SDK's HttpTransport
    Discoveries,    \* what capability documents say of optional evidence
    Responses,      \* outcomes of a transport call
    MaxAggregates,  \* bound: suppression summaries one flush drains
    DisconnectedAt, \* bound: consecutive failures that matter (3, in status)
    MaxPressure,    \* bound: where _pressure_drops saturates
    MaxGeneration   \* bound: init calls and forks

HighKinds == {"exception", "evidence", "fatal", "error", "request5xx"}
LowKinds == {"warning", "request", "probe", "recovery", "aggregate", "pressure"}
Kinds == HighKinds \cup LowKinds

AllResponses == {"none", "legacy", "protocol", "ack", "retry", "client", "server"}

ASSUME ThreadsAssumption ==
    /\ Callers \cap Flushers = {}
    /\ (Callers \cup Flushers) \cap {"free", "none", "armed", "dead"} = {}

ASSUME QueueAssumption ==
    /\ CaptureKinds \subseteq Kinds \ {"aggregate", "pressure"} /\ HookKinds \subseteq Kinds
    /\ Sizes \subseteq Nat \ {0}
    /\ MaxEvents \in Nat \ {0} /\ MaxBytes \in Nat \ {0}
    /\ Http \in BOOLEAN /\ Discoveries \subseteq BOOLEAN
    /\ Responses \subseteq AllResponses
    /\ DisconnectedAt \in Nat \ {0}
    /\ MaxAggregates \in Nat /\ MaxPressure \in Nat \ {0} /\ MaxGeneration \in Nat

VARIABLES
    buffer,                \* _buffer
    buffer_sizes,          \* _buffer_sizes: id() -> bytes
    buffer_bytes,          \* _buffer_bytes
    pending_low_priority,  \* _pending_low_priority
    pressure_drops,        \* _pressure_drops
    reported,              \* a pressure summary was queued less than 60 s ago
    hook_bypass,           \* _hook_bypass: id()s
    diagnostics,           \* _diagnostics._pending, by the object that owns it
    evidence,              \* _evidence.features is not empty
    sending,               \* _sending
    inflight_count,        \* _inflight_count
    timer,                 \* _timer: none, armed, a fired thread, or dead
    backoff,               \* _time_provider() < _retry_after
    consecutive_failures,  \* _consecutive_failures, up to DisconnectedAt
    last_event_at,         \* _last_event_at is not None
    enabled,               \* _enabled
    transport,             \* _transport is not None
    generation,            \* _generation
    lock,                  \* owner of _lock across steps
    cap,                   \* local state of the capturing threads
    fl,                    \* local state of the flushing threads
    disposed               \* history: dispose() since the last init()

queue == <<buffer, buffer_sizes, buffer_bytes, pending_low_priority>>
pressure == <<pressure_drops, reported>>
ownership == <<hook_bypass, diagnostics, evidence>>
sender == <<sending, inflight_count>>
health == <<backoff, consecutive_failures, last_event_at>>
life == <<enabled, transport, generation, disposed>>
vars == <<queue, pressure, ownership, sender, timer, health, life, lock, cap, fl>>

(* An event: the Python object's id(), its kind and serialized size, the   *)
(* generation it was captured in and, as history, whether the code has     *)
(* promised that no before_send hook sees it (again).                      *)
Event == [id: Ids, kind: Kinds, bytes: Nat, gen: Nat, skip: BOOLEAN]

HighPriority(e) == e.kind \in HighKinds

IdsOf(s) == {s[i].id : i \in DOMAIN s}

IdleCap == [pc |-> "idle", event |-> <<>>, pressed |-> FALSE, seen |-> 0]

IdleFlush ==
    [pc |-> "idle", gen |-> 0, aggs |-> 0, count |-> 0, done |-> <<>>, todo |-> <<>>,
     proof |-> "unread", closed |-> FALSE]

(* Identities of objects some thread or the queue still references.        *)
Live ==
    IdsOf(buffer) \cup UNION {IdsOf(cap[c].event) : c \in Callers}
        \cup UNION {IdsOf(fl[f].done) \cup IdsOf(fl[f].todo) : f \in Flushers}

(* n new objects; a freed identity may be handed out again.                *)
Allocations(n) == Injection(1..n, Ids \ Live)
Allocated(n) == CHOOSE s \in Allocations(n) : TRUE
FreshId == Allocated(1)[1]

Object(i, k, b) == [id |-> i, kind |-> k, bytes |-> b, gen |-> generation, skip |-> FALSE]

\* Mutant: the counter is not saturated.
CountedUnbounded(n) == n + 1

Counted(n) == IF n < MaxPressure THEN n + 1 ELSE n

-----------------------------------------------------------------------------
(* Scheduling: at most one live timer, none while a flush is reserved.     *)

Alive(t) == t = "armed" \/ (t \in Flushers /\ fl[t].pc = "start")

Scheduled(t, busy) == IF busy \/ Alive(t) THEN t ELSE "armed"

PressureScheduled(t) == IF pressure_drops = 0 THEN t ELSE Scheduled(t, FALSE)

-----------------------------------------------------------------------------
(* Capture: an unlocked preparation, then a non-blocking attempt to commit.*)

MayPrepare(k) ==
    \/ Len(buffer) < MaxEvents /\ buffer_bytes < MaxBytes
    \/ k \in HighKinds /\ pending_low_priority > 0

Prepare(c, k, b) ==
    /\ cap[c].pc = "idle" /\ enabled
    /\ k \in {"evidence", "recovery"} => evidence
    /\ k \notin {"probe", "recovery"} => MayPrepare(k)
    /\ Allocations(1) # {}
    /\ cap' = [cap EXCEPT ![c].pc = "ready", ![c].event = <<Object(FreshId, k, b)>>]
    /\ UNCHANGED <<queue, pressure, ownership, sender, timer, health, life, lock, fl>>

(* The overload check, or a probe's first attempt at the lock, gives up.   *)
(* The drop is counted by an unlocked read and a later unlocked write.     *)
Refuse(c, k) ==
    /\ cap[c].pc = "idle"
    /\ k # "recovery"
    /\ k # "probe" => enabled /\ ~MayPrepare(k)
    /\ cap' = [cap EXCEPT ![c].pc = "drop", ![c].seen = pressure_drops]
    /\ UNCHANGED <<queue, pressure, ownership, sender, timer, health, life, lock, fl>>

(* try_capture_lock fails eight times: some thread holds the lock.         *)
Contended(c) ==
    /\ cap[c].pc = "ready"
    /\ cap' = [cap EXCEPT ![c] =
                IF cap[c].event[1].kind = "recovery" THEN IdleCap
                ELSE [IdleCap EXCEPT !.pc = "drop", !.seen = pressure_drops]]
    /\ UNCHANGED <<queue, pressure, ownership, sender, timer, health, life, lock, fl>>

CountDrop(c) ==
    /\ cap[c].pc = "drop"
    /\ pressure_drops' = Counted(cap[c].seen)
    /\ cap' = [cap EXCEPT ![c] = IdleCap]
    /\ UNCHANGED <<queue, reported, ownership, sender, timer, health, life, lock, fl>>

MustDecline(e) ==
    \/ e.kind # "recovery" /\ ~enabled
    \/ e.kind = "probe" /\ e.gen # generation

(* Log policy, duplicate suppression and probe directives may have changed *)
(* since the preparation; requests and recoveries are not looked at again. *)
MayDecline(e) == e.kind \notin {"request", "request5xx", "recovery"}

Decline(c) ==
    /\ cap[c].pc = "ready" /\ lock = "free"
    /\ MustDecline(cap[c].event[1]) \/ MayDecline(cap[c].event[1])
    /\ cap' = [cap EXCEPT ![c] = IdleCap]
    /\ UNCHANGED <<queue, pressure, ownership, sender, timer, health, life, lock, fl>>

Full(b) == Len(buffer) >= MaxEvents \/ buffer_bytes + b > MaxBytes

OfferBegin(c) ==
    /\ cap[c].pc = "ready" /\ lock = "free"
    /\ ~MustDecline(cap[c].event[1])
    /\ lock' = c
    /\ cap' = [cap EXCEPT ![c].pc = "offer", ![c].pressed = Full(cap[c].event[1].bytes)]
    /\ UNCHANGED <<queue, pressure, ownership, sender, timer, health, life, fl>>

\* Mutant: any event behind the batch in flight may be displaced.
EvictableAny == {i \in DOMAIN buffer : i > inflight_count}

(* evict_low_priority: the first low-priority event behind the batch.      *)
Evictable == {i \in DOMAIN buffer : i > inflight_count /\ ~HighPriority(buffer[i])}

\* Mutant: the charge of an object that leaves is not removed.
WithoutNothing(f, i) == f

Without(f, i) == Restrict(f, DOMAIN f \ {i})

\* Mutant: the mark of an object that leaves is not discarded.
UnmarkedNothing(i) == hook_bypass

Unmarked(i) == hook_bypass \ {i}

OfferEvict(c) ==
    /\ cap[c].pc = "offer"
    /\ LET e == cap[c].event[1] IN
        e.bytes <= MaxBytes /\ Full(e.bytes) /\ HighPriority(e)
    /\ Evictable # {}
    /\ LET i == Min(Evictable)
           evicted == buffer[i].id
       IN  /\ buffer' = RemoveAt(buffer, i)
           /\ buffer_sizes' = Without(buffer_sizes, evicted)
           /\ buffer_bytes' = buffer_bytes - buffer_sizes[evicted]
           /\ hook_bypass' = Unmarked(evicted)
           /\ diagnostics' = diagnostics \ {evicted}
    /\ pending_low_priority' = pending_low_priority - 1
    /\ pressure_drops' = Counted(pressure_drops)
    /\ UNCHANGED <<reported, evidence, sender, timer, health, life, lock, cap, fl>>

OfferReject(c) ==
    /\ cap[c].pc = "offer"
    /\ LET e == cap[c].event[1] IN
        \/ e.bytes > MaxBytes
        \/ Full(e.bytes) /\ (~HighPriority(e) \/ Evictable = {})
    /\ pressure_drops' = Counted(pressure_drops)
    /\ lock' = "free"
    /\ cap' = [cap EXCEPT ![c] = IdleCap]
    /\ UNCHANGED <<queue, reported, ownership, sender, timer, health, life, fl>>

\* Mutant: a high-priority event is put in front of the batch in flight.
InsertionPointFront ==
    Min({Len(buffer) + 1} \cup {i \in DOMAIN buffer : ~HighPriority(buffer[i])})

(* A high-priority event goes behind the high-priority events that follow  *)
(* the batch in flight; list.insert clamps the position to the end.        *)
InsertionPoint ==
    Min({Len(buffer) + 1} \cup Evictable)

Admitted(e, pressed) ==
    LET first == HighPriority(e) /\ (e.kind # "request5xx" \/ pressed) IN
    /\ buffer' = IF first THEN InsertAt(buffer, InsertionPoint, e) ELSE Append(buffer, e)
    /\ pending_low_priority' = pending_low_priority + (IF first THEN 0 ELSE 1)
    /\ buffer_bytes' = buffer_bytes + e.bytes
    /\ buffer_sizes' = [i \in DOMAIN buffer_sizes \cup {e.id} |->
                            IF i = e.id THEN e.bytes ELSE buffer_sizes[i]]
    /\ timer' = Scheduled(timer, sending)

OfferAdmit(c) ==
    /\ cap[c].pc = "offer"
    /\ ~Full(cap[c].event[1].bytes)
    /\ LET e == cap[c].event[1]
           fatal == e.kind = "fatal"
       IN  /\ e.kind = "recovery" => evidence
           /\ Admitted([e EXCEPT !.skip = fatal], cap[c].pressed)
           /\ hook_bypass' = hook_bypass \cup (IF fatal THEN {e.id} ELSE {})
           /\ diagnostics' = diagnostics \cup (IF e.kind = "recovery" THEN {e.id} ELSE {})
    /\ lock' = "free"
    /\ cap' = [cap EXCEPT ![c] = IdleCap]
    /\ UNCHANGED <<pressure, evidence, sender, health, life, fl>>

(* reconcile_diagnostic refuses: no proof of support any more, or the      *)
(* capture budget is spent.                                                *)
OfferOverBudget(c) ==
    /\ cap[c].pc = "offer"
    /\ cap[c].event[1].kind = "recovery" /\ ~Full(cap[c].event[1].bytes)
    /\ lock' = "free"
    /\ cap' = [cap EXCEPT ![c] = IdleCap]
    /\ UNCHANGED <<queue, pressure, ownership, sender, timer, health, life, fl>>

-----------------------------------------------------------------------------
(* Flush: reserve, admit summaries, snapshot, finalize, select, send.      *)

TimerFires(f) ==
    /\ timer = "armed" /\ fl[f].pc = "idle"
    /\ timer' = f
    /\ fl' = [fl EXCEPT ![f].pc = "start"]
    /\ UNCHANGED <<queue, pressure, ownership, sender, health, life, lock, cap>>

ExplicitFlush(f) ==
    /\ fl[f].pc = "idle"
    /\ fl' = [fl EXCEPT ![f].pc = "start"]
    /\ UNCHANGED <<queue, pressure, ownership, sender, timer, health, life, lock, cap>>

\* Mutant: a second flush may start while one is sending.
ReservableTwice == enabled /\ transport

Reservable == enabled /\ transport /\ ~sending

FlushIdle(f) ==
    /\ fl[f].pc = "start" /\ lock = "free"
    /\ ~Reservable
    /\ timer' = IF timer = f THEN "dead" ELSE timer
    /\ fl' = [fl EXCEPT ![f] = IdleFlush]
    /\ UNCHANGED <<queue, pressure, ownership, sender, health, life, lock, cap>>

(* The old timer is cancelled and another one is started.                  *)
FlushBackoff(f) ==
    /\ fl[f].pc = "start" /\ lock = "free"
    /\ Reservable /\ backoff
    /\ timer' = "armed"
    /\ fl' = [fl EXCEPT ![f] = IdleFlush]
    /\ UNCHANGED <<queue, pressure, ownership, sender, health, life, lock, cap>>

FlushReserve(f, aggregates) ==
    /\ fl[f].pc = "start" /\ lock = "free"
    /\ Reservable /\ ~backoff
    /\ timer' = "none"
    /\ sending' = TRUE
    /\ fl' = [fl EXCEPT ![f].pc = "reserved", ![f].gen = generation, ![f].aggs = aggregates,
                        ![f].count = IF ~reported /\ Len(buffer) < MaxEvents
                                     THEN pressure_drops ELSE 0]
    /\ UNCHANGED <<queue, pressure, ownership, inflight_count, health, life, lock, cap>>

(* init() or a fork has replaced the queue: the batch is nobody's.         *)
FlushAbandon(f) ==
    /\ fl[f].pc \in {"reserved", "finalize", "send"} /\ lock = "free"
    /\ fl[f].gen # generation
    /\ sending' = FALSE /\ inflight_count' = 0
    /\ timer' = IF buffer # <<>> THEN Scheduled(timer, FALSE) ELSE timer
    /\ fl' = [fl EXCEPT ![f] = IdleFlush]
    /\ UNCHANGED <<queue, pressure, ownership, health, life, lock, cap>>

\* Mutant: the generation is not compared again once the summaries are built.
FlushAdmitAnyGeneration(f) ==
    /\ fl[f].pc = "reserved" /\ lock = "free"
    /\ lock' = f
    /\ fl' = [fl EXCEPT ![f].pc = "admit"]
    /\ UNCHANGED <<queue, pressure, ownership, sender, timer, health, life, cap>>

FlushAdmit(f) ==
    /\ fl[f].pc = "reserved" /\ lock = "free"
    /\ fl[f].gen = generation
    /\ lock' = f
    /\ fl' = [fl EXCEPT ![f].pc = "admit"]
    /\ UNCHANGED <<queue, pressure, ownership, sender, timer, health, life, cap>>

(* The summaries are built without the lock from what the flush drained    *)
(* when it was reserved: they belong to that generation.                   *)
Summary(f, k, b) == [Object(FreshId, k, b) EXCEPT !.gen = fl[f].gen]

(* error_suppressed summaries are low priority: they never evict.          *)
FlushAggregate(f, b) ==
    /\ fl[f].pc = "admit" /\ fl[f].aggs > 0
    /\ IF Full(b) THEN /\ pressure_drops' = Counted(pressure_drops)
                       /\ UNCHANGED <<queue, timer>>
                  ELSE /\ Allocations(1) # {}
                       /\ Admitted(Summary(f, "aggregate", b), FALSE)
                       /\ UNCHANGED pressure_drops
    /\ fl' = [fl EXCEPT ![f].aggs = @ - 1]
    /\ UNCHANGED <<reported, ownership, sender, health, life, lock, cap>>

(* prepare_flush_aggregates may fail or drop summaries that cannot be      *)
(* protected.                                                              *)
FlushAggregateLost(f) ==
    /\ fl[f].pc = "admit" /\ fl[f].aggs > 0
    /\ fl' = [fl EXCEPT ![f].aggs = @ - 1]
    /\ UNCHANGED <<queue, pressure, ownership, sender, timer, health, life, lock, cap>>

FlushPressure(f, b) ==
    /\ fl[f].pc = "admit" /\ fl[f].aggs = 0 /\ fl[f].count > 0
    /\ ~Full(b) /\ Allocations(1) # {}
    /\ Admitted(Summary(f, "pressure", b), FALSE)
    /\ pressure_drops' = IF pressure_drops > fl[f].count
                         THEN pressure_drops - fl[f].count ELSE 0
    /\ reported' = TRUE
    /\ fl' = [fl EXCEPT ![f].count = 0]
    /\ UNCHANGED <<ownership, sender, health, life, lock, cap>>

(* The summary could not be protected, or there is no room for it.         *)
FlushPressureLost(f) ==
    /\ fl[f].pc = "admit" /\ fl[f].aggs = 0 /\ fl[f].count > 0
    /\ fl' = [fl EXCEPT ![f].count = 0]
    /\ UNCHANGED <<queue, pressure, ownership, sender, timer, health, life, lock, cap>>

FlushEmpty(f) ==
    /\ fl[f].pc = "admit" /\ fl[f].aggs = 0 /\ fl[f].count = 0
    /\ buffer = <<>>
    /\ sending' = FALSE
    /\ timer' = PressureScheduled(timer)
    /\ lock' = "free"
    /\ fl' = [fl EXCEPT ![f] = IdleFlush]
    /\ UNCHANGED <<queue, pressure, ownership, inflight_count, health, life, cap>>

FlushSnapshot(f) ==
    /\ fl[f].pc = "admit" /\ fl[f].aggs = 0 /\ fl[f].count = 0
    /\ buffer # <<>>
    /\ inflight_count' = Len(buffer)
    /\ pending_low_priority' = 0
    /\ lock' = "free"
    /\ fl' = [fl EXCEPT ![f].pc = "finalize", ![f].todo = buffer]
    /\ UNCHANGED <<buffer, buffer_sizes, buffer_bytes, pressure, ownership,
                   sending, timer, health, life, cap>>

(* _protect_event reads the proof of support without the lock, before the  *)
(* hook runs; the replacement is committed in a later step.                *)
FinalizeProtect(f) ==
    /\ fl[f].pc = "finalize" /\ fl[f].todo # <<>> /\ fl[f].proof = "unread"
    /\ fl' = [fl EXCEPT ![f].proof = IF evidence THEN "proved" ELSE "absent"]
    /\ UNCHANGED <<queue, pressure, ownership, sender, timer, health, life, lock, cap>>

(* _protect_event strips optional evidence the destination did not prove;  *)
(* it and fit_event also strip evidence that is invalid or too large.      *)
Protected(k, proof) ==
    CASE k # "evidence" -> {k}
      [] k = "evidence" /\ proof = "proved" -> {"evidence", "exception"}
      [] k = "evidence" /\ proof # "proved" -> {"exception"}

(* What before_send and _protect_event may make of an event.               *)
Replacements(e, proof) ==
    IF e.id \in hook_bypass
    THEN Protected(e.kind, proof) \X {b \in Sizes : b <= e.bytes}
    ELSE (UNION {Protected(k, proof) : k \in HookKinds \cup {e.kind}}) \X Sizes

\* Mutant: a replacement is only compared with the limit on its own.
FitsAlone(e, b) == b <= MaxBytes

Fits(e, b) == buffer_bytes - buffer_sizes[e.id] + b <= MaxBytes

Finalizing(f) ==
    /\ fl[f].pc = "finalize" /\ fl[f].todo # <<>> /\ fl[f].proof # "unread"
    /\ lock = "free" /\ fl[f].gen = generation

\* Mutant: the replacement does not inherit the mark.
InheritedNever(old, new) == {}

Inherited(old, new) == IF old \in hook_bypass THEN {new} ELSE {}

FinalizeReplace(f, k, b) ==
    /\ Finalizing(f)
    /\ LET e == Head(fl[f].todo)
           i == Len(fl[f].done) + 1
           r == [e EXCEPT !.id = FreshId, !.kind = k, !.bytes = b]
       IN  /\ <<k, b>> \in Replacements(e, fl[f].proof) /\ Fits(e, b)
           /\ k = "recovery" => evidence
           /\ Allocations(1) # {}
           /\ buffer' = [buffer EXCEPT ![i] = r]
           /\ buffer_sizes' = [x \in (DOMAIN buffer_sizes \ {e.id}) \cup {r.id} |->
                                   IF x = r.id THEN b ELSE buffer_sizes[x]]
           /\ buffer_bytes' = buffer_bytes + b - buffer_sizes[e.id]
           /\ hook_bypass' = Unmarked(e.id) \cup Inherited(e.id, r.id)
           /\ diagnostics' = (diagnostics \ {e.id}) \cup
                             (IF k = "recovery" THEN {r.id} ELSE {})
           /\ fl' = [fl EXCEPT ![f].done = Append(@, r), ![f].todo = Tail(@),
                               ![f].proof = "unread"]
    /\ UNCHANGED <<pending_low_priority, pressure, evidence, sender, timer,
                   health, life, lock, cap>>

Overflows(e, proof) == \E r \in Replacements(e, proof) : ~Fits(e, r[2])

(* The replacement does not fit; or the hook returned None, a step of the  *)
(* finalization raised, the event passes the HTTP limit, or capture policy *)
(* or proof of support changed.                                            *)
FinalizeWithhold(f) ==
    /\ Finalizing(f)
    /\ LET e == Head(fl[f].todo) IN
        /\ \/ UNCHANGED pressure_drops
           \/ Overflows(e, fl[f].proof) /\ pressure_drops' = Counted(pressure_drops)
        /\ buffer' = RemoveAt(buffer, Len(fl[f].done) + 1)
        /\ buffer_sizes' = Without(buffer_sizes, e.id)
        /\ buffer_bytes' = buffer_bytes - buffer_sizes[e.id]
        /\ hook_bypass' = Unmarked(e.id)
        /\ diagnostics' = diagnostics \ {e.id}
    /\ inflight_count' = inflight_count - 1
    /\ fl' = [fl EXCEPT ![f].todo = Tail(@), ![f].proof = "unread"]
    /\ UNCHANGED <<pending_low_priority, reported, evidence, sending, timer,
                   health, life, lock, cap>>

\* Mutant: the reservation is not given back when the whole batch was withheld.
SelectNothingHeld(f) ==
    /\ fl[f].pc = "finalize" /\ fl[f].todo = <<>> /\ lock = "free"
    /\ fl[f].gen = generation /\ fl[f].done = <<>>
    /\ inflight_count' = 0
    /\ timer' = IF buffer # <<>> THEN Scheduled(timer, FALSE) ELSE timer
    /\ fl' = [fl EXCEPT ![f] = IdleFlush]
    /\ UNCHANGED <<queue, pressure, ownership, sending, health, life, lock, cap>>

(* The whole batch was withheld.                                           *)
SelectNothing(f) ==
    /\ fl[f].pc = "finalize" /\ fl[f].todo = <<>> /\ lock = "free"
    /\ fl[f].gen = generation /\ fl[f].done = <<>>
    /\ sending' = FALSE /\ inflight_count' = 0
    /\ timer' = IF buffer # <<>> THEN Scheduled(timer, FALSE) ELSE timer
    /\ fl' = [fl EXCEPT ![f] = IdleFlush]
    /\ UNCHANGED <<queue, pressure, ownership, health, life, lock, cap>>

(* The HTTP body limit may split the batch; the unsent tail has been       *)
(* finalized and must not see a hook again.                                *)
SelectBatch(f, n) ==
    /\ fl[f].pc = "finalize" /\ fl[f].todo = <<>> /\ lock = "free"
    /\ fl[f].gen = generation
    /\ n \in (IF Http THEN 1..Len(fl[f].done) ELSE {Len(fl[f].done)} \ {0})
    /\ LET tail == (n + 1)..Len(fl[f].done) IN
        /\ hook_bypass' = hook_bypass \cup {fl[f].done[i].id : i \in tail}
        /\ buffer' = [i \in DOMAIN buffer |->
                        IF i \in tail THEN [buffer[i] EXCEPT !.skip = TRUE] ELSE buffer[i]]
    /\ inflight_count' = n
    /\ fl' = [fl EXCEPT ![f].pc = "send", ![f].done = SubSeq(@, 1, n),
                        ![f].closed = Http /\ disposed]
    /\ UNCHANGED <<buffer_sizes, buffer_bytes, pending_low_priority, pressure,
                   diagnostics, evidence, sending, timer, health, life, lock, cap>>

-----------------------------------------------------------------------------
(* Completion: the response decides which of the sent events stay.         *)

\* Mutant: every event that stays is counted as low priority.
LowCountAll(s) == Len(s)

LowCount(s) == Cardinality({i \in DOMAIN s : ~HighPriority(s[i])})

\* Mutant: recoveries that leave keep their share of the budget.
RetainedAll(kept) == diagnostics

Retained(kept) ==
    diagnostics \cap {kept[i].id : i \in {j \in DOMAIN kept : kept[j].kind = "recovery"}}

\* Mutant: events captured during the send do not start another flush.
RunsAgainNever(kept, late) == FALSE

RunsAgain(kept, late) == kept # <<>> /\ timer = "none" /\ ~late

(* The finally block: kept is the new queue, sizes the charges so far,     *)
(* late whether _retry_after is now in the future, again whether a branch  *)
(* above has scheduled a flush.                                            *)
Settle(f, kept, sizes, late, again) ==
    /\ buffer' = kept
    /\ buffer_sizes' = Restrict(sizes, IdsOf(kept))
    /\ buffer_bytes' = SumFunction(buffer_sizes')
    /\ pending_low_priority' = LowCount(kept)
    /\ diagnostics' = Retained(kept)
    /\ backoff' = late
    /\ sending' = FALSE /\ inflight_count' = 0
    /\ timer' = IF again \/ RunsAgain(kept, late) THEN Scheduled(timer, FALSE)
                ELSE IF kept = <<>> /\ timer = "none" THEN PressureScheduled(timer)
                ELSE timer
    /\ fl' = [fl EXCEPT ![f] = IdleFlush]

Failed == IF consecutive_failures < DisconnectedAt
          THEN consecutive_failures + 1 ELSE DisconnectedAt

Trailing(f) == SubSeq(buffer, Len(fl[f].done) + 1, Len(buffer))

(* A disposed SDK has closed its HTTP client: a call that begins then      *)
(* raises. One that began before may have its response already.            *)
Completing(f, r) ==
    /\ fl[f].pc = "send" /\ lock = "free" /\ fl[f].gen = generation
    /\ r \in Responses
    /\ Http => r # "legacy"
    /\ fl[f].closed => r = "none"

Observes == IF Http THEN Discoveries ELSE Discoveries \cup {evidence}

(* No response, or a 5xx without a hint: keep everything, retry later.     *)
CompleteFailed(f) ==
    /\ Completing(f, "none") \/ Completing(f, "server")
    /\ Settle(f, buffer, buffer_sizes, FALSE, TRUE)
    /\ hook_bypass' = hook_bypass \cap IdsOf(buffer)
    /\ consecutive_failures' = Failed
    /\ UNCHANGED <<pressure, evidence, last_event_at, life, lock, cap>>

(* 429, or a 5xx with a hint, or an acknowledgement that does not add up.  *)
CompleteRetryAfter(f, late) ==
    /\ \/ Completing(f, "retry") /\ UNCHANGED evidence
       \/ Completing(f, "protocol") /\ evidence' \in (IF Http THEN {FALSE} ELSE {evidence, FALSE})
    /\ Settle(f, buffer, buffer_sizes, late, TRUE)
    /\ hook_bypass' = hook_bypass \cap IdsOf(buffer)
    /\ consecutive_failures' = Failed
    /\ UNCHANGED <<pressure, last_event_at, life, lock, cap>>

(* A 2xx without an acknowledgement (custom transports), or another 4xx.   *)
CompleteRemoved(f) ==
    /\ \/ /\ Completing(f, "legacy")
          /\ evidence' \in {evidence, FALSE}
          /\ last_event_at' = TRUE
          /\ consecutive_failures' = 0
       \/ /\ Completing(f, "client")
          /\ consecutive_failures' = Failed
          /\ UNCHANGED <<evidence, last_event_at>>
    /\ Settle(f, Trailing(f), buffer_sizes, FALSE, FALSE)
    /\ hook_bypass' = hook_bypass \cap IdsOf(Trailing(f))
    /\ UNCHANGED <<pressure, life, lock, cap>>

(* Sequences of distinct positions of a batch of n events.                 *)
Orders(n) == UNION {Injection(1..m, 1..n) : m \in 0..n}

(* retry lists the positions the server asks to send again, reduce the     *)
(* terminally rejected exceptions that are sent again without evidence,    *)
(* both in the order of the server's errors; accepted is the server's      *)
(* count of accepted events.                                               *)
CompleteAcknowledged(f, retry, reduce, accepted, late) ==
    LET batch == fl[f].done
        fresh == Allocated(Len(reduce))
        kept == [i \in 1..Len(retry) |-> batch[retry[i]]]
        reduced == [i \in 1..Len(reduce) |->
                       [batch[reduce[i]] EXCEPT !.id = fresh[i], !.kind = "exception",
                                                !.skip = TRUE]]
        sizes == [i \in DOMAIN buffer_sizes \cup Range(fresh) |->
                    IF i \in Range(fresh)
                    THEN reduced[CHOOSE j \in DOMAIN fresh : fresh[j] = i].bytes
                    ELSE buffer_sizes[i]]
        again == retry # <<>> \/ reduce # <<>>
    IN  /\ Completing(f, "ack")
        /\ Range(retry) \cap Range(reduce) = {}
        /\ accepted + Len(retry) + Len(reduce) <= Len(batch)
        /\ Allocations(Len(reduce)) # {}
        /\ evidence' \in Observes
        /\ reduce # <<>> => evidence /\ ~evidence'
        /\ \A i \in Range(reduce) : batch[i].kind = "evidence"
        /\ late => again
        /\ Settle(f, kept \o reduced \o Trailing(f), sizes, late, again)
        /\ hook_bypass' = (hook_bypass \cup Range(fresh)) \cap IdsOf(buffer')
        /\ last_event_at' = (last_event_at \/ accepted > 0)
        /\ consecutive_failures' = IF again THEN Failed
                                   ELSE IF accepted > 0 THEN 0 ELSE DisconnectedAt
        /\ UNCHANGED <<pressure, life, lock, cap>>

-----------------------------------------------------------------------------
(* Time, discovery and ownership of the process.                           *)

RetryWindowExpires ==
    /\ backoff /\ backoff' = FALSE
    /\ UNCHANGED <<queue, pressure, ownership, sender, timer, consecutive_failures,
                   last_event_at, life, lock, cap, fl>>

PressureWindowExpires ==
    /\ reported /\ reported' = FALSE
    /\ UNCHANGED <<queue, pressure_drops, ownership, sender, timer, health, life, lock, cap, fl>>

(* refresh_remote_config observes a capability document.                   *)
Discover ==
    /\ lock = "free" /\ enabled
    /\ evidence' \in Discoveries \ {evidence}
    /\ UNCHANGED <<queue, pressure, hook_bypass, diagnostics, sender, timer, health,
                   life, lock, cap, fl>>

Emptied ==
    /\ buffer' = <<>> /\ buffer_sizes' = <<>> /\ buffer_bytes' = 0
    /\ pending_low_priority' = 0
    /\ hook_bypass' = {} /\ diagnostics' = {}
    /\ timer' = "none"
    /\ backoff' = FALSE /\ consecutive_failures' = 0 /\ last_event_at' = FALSE
    /\ generation' = generation + 1

(* init() disposes first; it leaves the sender's reservation, the in-      *)
(* flight count and the pressure count alone.                              *)
InitSdk(on) ==
    /\ lock = "free" /\ generation < MaxGeneration
    /\ Emptied
    /\ evidence' \in Discoveries \cup {FALSE}
    /\ enabled' = on
    /\ transport' = (on \/ ~Http)
    /\ disposed' = FALSE
    /\ UNCHANGED <<pressure, sender, lock, cap, fl>>

Dispose ==
    /\ lock = "free"
    /\ evidence' = FALSE /\ diagnostics' = {} /\ hook_bypass' = {}
    /\ timer' = "none"
    /\ disposed' = TRUE
    /\ UNCHANGED <<queue, pressure, sender, health, enabled, transport, generation,
                   lock, cap, fl>>

(* The first SDK call in a forked child: no other thread exists there, and *)
(* a new HTTP client may fail to build.                                    *)
EnsureCurrentProcess ==
    /\ generation < MaxGeneration
    /\ Emptied
    /\ evidence' = FALSE
    /\ pressure_drops' = 0 /\ reported' = FALSE
    /\ sending' = FALSE /\ inflight_count' = 0
    /\ transport' \in (IF Http /\ transport /\ ~disposed THEN BOOLEAN ELSE {transport})
    /\ lock' = "free"
    /\ cap' = [c \in Callers |-> IdleCap]
    /\ fl' = [f \in Flushers |-> IdleFlush]
    /\ UNCHANGED <<enabled, disposed>>

-----------------------------------------------------------------------------
Init ==
    /\ buffer = <<>> /\ buffer_sizes = <<>> /\ buffer_bytes = 0
    /\ pending_low_priority = 0
    /\ pressure_drops = 0 /\ reported = FALSE
    /\ hook_bypass = {} /\ diagnostics = {} /\ evidence = FALSE
    /\ sending = FALSE /\ inflight_count = 0
    /\ timer = "none"
    /\ backoff = FALSE /\ consecutive_failures = 0 /\ last_event_at = FALSE
    /\ enabled = FALSE /\ transport = FALSE /\ generation = 0 /\ disposed = FALSE
    /\ lock = "free"
    /\ cap = [c \in Callers |-> IdleCap]
    /\ fl = [f \in Flushers |-> IdleFlush]

CaptureStep(c) ==
    \/ \E k \in CaptureKinds, b \in Sizes : Prepare(c, k, b)
    \/ \E k \in CaptureKinds : Refuse(c, k)
    \/ Contended(c) \/ CountDrop(c) \/ Decline(c)
    \/ OfferBegin(c) \/ OfferEvict(c) \/ OfferReject(c) \/ OfferAdmit(c)
    \/ OfferOverBudget(c)

Complete(f) ==
    \/ CompleteFailed(f) \/ CompleteRemoved(f)
    \/ \E late \in BOOLEAN : CompleteRetryAfter(f, late)
    \/ \E retry \in Orders(Len(fl[f].done)), reduce \in Orders(Len(fl[f].done)),
          accepted \in 0..Len(fl[f].done), late \in BOOLEAN :
            CompleteAcknowledged(f, retry, reduce, accepted, late)

(* The steps a flush takes once it has started.                            *)
FlushStep(f) ==
    \/ FlushIdle(f) \/ FlushBackoff(f)
    \/ \E n \in 0..MaxAggregates : FlushReserve(f, n)
    \/ FlushAbandon(f) \/ FlushAdmit(f)
    \/ \E b \in Sizes : FlushAggregate(f, b) \/ FlushPressure(f, b)
    \/ FlushAggregateLost(f) \/ FlushPressureLost(f)
    \/ FlushEmpty(f) \/ FlushSnapshot(f)
    \/ FinalizeProtect(f) \/ FinalizeWithhold(f)
    \/ \E k \in Kinds, b \in Sizes : FinalizeReplace(f, k, b)
    \/ SelectNothing(f)
    \/ \E n \in 1..Len(fl[f].done) : SelectBatch(f, n)
    \/ Complete(f)

Lifecycle ==
    \/ \E on \in BOOLEAN : InitSdk(on)
    \/ Dispose \/ EnsureCurrentProcess \/ Discover

Next ==
    \/ \E c \in Callers : CaptureStep(c)
    \/ \E f \in Flushers : TimerFires(f) \/ ExplicitFlush(f) \/ FlushStep(f)
    \/ RetryWindowExpires \/ PressureWindowExpires
    \/ Lifecycle

Spec == Init /\ [][Next]_vars

(* Threads run, blocked threads get the lock, hooks and transports return. *)
Fairness ==
    /\ \A c \in Callers : WF_vars(CaptureStep(c) /\ cap[c].pc # "idle")
    /\ \A f \in Flushers : SF_vars(FlushStep(f))
    /\ SF_vars(\E f \in Flushers : TimerFires(f))
    /\ WF_vars(RetryWindowExpires)

FairSpec == Spec /\ Fairness

-----------------------------------------------------------------------------
TimerStates == {"none", "armed", "dead"} \cup Flushers

CapStates ==
    [pc: {"idle", "ready", "offer", "drop"}, event: Seq(Event),
     pressed: BOOLEAN, seen: 0..MaxPressure]

FlushStates ==
    [pc: {"idle", "start", "reserved", "admit", "finalize", "send"}, gen: Nat,
     aggs: Nat, count: 0..MaxPressure, done: Seq(Event), todo: Seq(Event),
     proof: {"unread", "proved", "absent"}, closed: BOOLEAN]

(* Shapes of the state. The byte total is covered by Accounting.           *)
TypeOK ==
    /\ buffer \in Seq(Event)
    /\ pending_low_priority \in Int
    /\ pressure_drops \in 0..MaxPressure /\ reported \in BOOLEAN
    /\ hook_bypass \subseteq Ids /\ diagnostics \subseteq Ids /\ evidence \in BOOLEAN
    /\ sending \in BOOLEAN /\ inflight_count \in Int
    /\ timer \in TimerStates
    /\ backoff \in BOOLEAN /\ consecutive_failures \in 0..DisconnectedAt
    /\ last_event_at \in BOOLEAN
    /\ enabled \in BOOLEAN /\ transport \in BOOLEAN
    /\ generation \in Nat /\ disposed \in BOOLEAN
    /\ lock \in {"free"} \cup Callers \cup Flushers
    /\ cap \in [Callers -> CapStates]
    /\ fl \in [Flushers -> FlushStates]

Reserved(f) == fl[f].pc \in {"reserved", "admit", "finalize", "send"}

(* The positions of the queue that a flush is finalizing or sending.       *)
Batch ==
    UNION {1..(Len(fl[f].done) + Len(fl[f].todo)) :
             f \in {g \in Flushers : /\ fl[g].pc \in {"finalize", "send"}
                                     /\ fl[g].gen = generation}}

(* flush_sdk's reservation is exclusive: _sending is set exactly while one *)
(* thread is between the reservation and the completion, whatever init()   *)
(* does meanwhile.                                                         *)
OneSender ==
    /\ sending <=> \E f \in Flushers : Reserved(f)
    /\ \A f, g \in Flushers : Reserved(f) /\ Reserved(g) => f = g

(* The thread that sends finds the events it snapshotted or finalized      *)
(* still at the front of the queue, however many captures, evictions and   *)
(* insertions happened since: only so may finalize_batch write at          *)
(* retained_index and the completion cut the first len(batch) events off.  *)
BatchIsPrefix ==
    \A f \in Flushers :
        fl[f].pc \in {"finalize", "send"} /\ fl[f].gen = generation =>
            /\ inflight_count = Len(fl[f].done) + Len(fl[f].todo)
            /\ IsPrefix(fl[f].done \o fl[f].todo, buffer)

(* The queue never holds more events or bytes than its limits, whatever    *)
(* hooks return and the server sends back.                                 *)
Bounded == Len(buffer) <= MaxEvents /\ buffer_bytes <= MaxBytes

(* _buffer_sizes charges exactly the queued objects, no identity is in the *)
(* queue twice, and _buffer_bytes is the sum of the charges.               *)
Accounting ==
    /\ DOMAIN buffer_sizes = IdsOf(buffer)
    /\ Cardinality(IdsOf(buffer)) = Len(buffer)
    /\ \A i \in DOMAIN buffer : buffer_sizes[buffer[i].id] = buffer[i].bytes
    /\ buffer_bytes = SumFunction(buffer_sizes)

(* No lost wake-up: while the SDK can send and events are queued, a flush  *)
(* is reserved or a timer will start one.                                  *)
NoLostWakeup ==
    buffer # <<>> /\ enabled /\ transport /\ ~disposed => sending \/ Alive(timer)

(* id() values are reused once an object is freed: no table keyed by them  *)
(* keeps the identity of an object that has left the queue, where a later  *)
(* event could meet it.                                                    *)
NoStaleIdentity ==
    hook_bypass \cup diagnostics \cup DOMAIN buffer_sizes \subseteq IdsOf(buffer)

(* An application hook is bypassed for no event that it has a right to     *)
(* see.                                                                    *)
HookSeen ==
    \A i \in DOMAIN buffer : buffer[i].id \in hook_bypass => buffer[i].skip

(* Events that must not see a hook (uncaught exceptions, finalized tails,  *)
(* reduced retries) keep their mark until they leave, unless dispose()     *)
(* intervenes.                                                             *)
BypassKept ==
    ~disposed => \A i \in DOMAIN buffer : buffer[i].skip => buffer[i].id \in hook_bypass

(* The recovery budget is owned by queued recovery events and by nothing   *)
(* else: no eviction, hook, response or re-initialisation leaks a share.   *)
BudgetOwned ==
    LET recoveries == {buffer[i].id : i \in {j \in DOMAIN buffer : buffer[j].kind = "recovery"}}
    IN  diagnostics \subseteq recoveries /\ (~disposed => diagnostics = recoveries)

(* Probe events (built from directives read under an earlier lock) and the *)
(* summaries of a flush never cross an init() or a fork.                   *)
OwnGeneration ==
    \A i \in DOMAIN buffer :
        buffer[i].kind \in {"probe", "aggregate", "pressure"} => buffer[i].gen = generation

(* The count that lets a high-priority capture through an overloaded queue *)
(* is the number of low-priority events it could displace, except that a   *)
(* 5xx request admitted without pressure is counted too, and the low-      *)
(* priority tail of a split HTTP batch is not. Outside the batch every     *)
(* event is behind _inflight_count, where evict_low_priority looks, unless *)
(* a send that an init() has cut off has yet to return.                    *)
LowCounted ==
    LET behind == DOMAIN buffer \ Batch
        low == {i \in behind : ~HighPriority(buffer[i])}
        requests == {i \in behind : buffer[i].kind = "request5xx"}
    IN  /\ ~Http => Cardinality(low) <= pending_low_priority
        /\ pending_low_priority <= Cardinality(low \cup requests)
        /\ (\A f \in Flushers : Reserved(f) => fl[f].gen = generation) =>
              \A i \in behind : i > inflight_count

(* A high-priority event outside the batch being sent only leaves with the *)
(* whole queue: no capture displaces it, no completion removes it.         *)
HighKept ==
    [][generation' = generation =>
         \A i \in DOMAIN buffer \ Batch :
            HighPriority(buffer[i]) => buffer[i].id \in IdsOf(buffer')]_vars

(* MIGRATION-2.0.md:11: "Exceptions, ERROR logs, and 5xx request incidents *)
(* can displace pending lower-priority events". An ERROR log that meets a  *)
(* full queue is prepared and finds an event to displace whenever a lower- *)
(* priority event outside the batch being sent is queued.                  *)
Displaceable ==
    /\ Len(buffer) >= MaxEvents
    /\ \E i \in DOMAIN buffer \ Batch : ~HighPriority(buffer[i])
    => MayPrepare("error") /\ Evictable # {}

(* Every early return and every completion of flush_sdk gives _sending     *)
(* back: no reservation lasts for ever.                                    *)
SenderReleases == sending ~> ~sending

Running == enabled /\ transport /\ ~disposed

(* Events that are queued while the SDK runs are eventually snapshotted by *)
(* a flush, through any run of failed sends, backoffs and busy senders.    *)
EventuallyFlushed ==
    buffer # <<>> /\ Running ~>
        (\E f \in Flushers : fl[f].pc \in {"finalize", "send"}) \/ buffer = <<>> \/ ~Running
=============================================================================
