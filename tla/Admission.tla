------------------------------- MODULE Admission -------------------------------
(***************************************************************************)
(* What decides whether a captured exception or a recovery observation is  *)
(* admitted: receipts on exceptions already captured by another path       *)
(* (exception_identity.py), the suppression of repeated exceptions         *)
(* (suppression.py), and the budget of diagnostic events                   *)
(* (diagnostic_budget.py, through evidence_delivery.py). The queue itself  *)
(* is modelled in DeliveryQueue: here an offer is accepted or refused, and *)
(* of the queue only the recovery events are kept. One instance of the SDK *)
(* writes receipts, so their owner is left out.                            *)
(***************************************************************************)
EXTENDS Suppression, DiagnosticBudget

CONSTANTS
    Callers,            \* threads that capture exceptions
    Exceptions,         \* exception objects
    Fingerprint(_),     \* the suppression key of an exception
    IDENTITY_WINDOW,    \* the 30 seconds a receipt counts, in ticks
    Ids,                \* ids of recovery events
    Sizes,              \* bytes of recovery events
    Loads               \* bounds: captures, callers, exceptions, hooks, operations, what
                        \* recoveries observe (failure and scope, attempt), the clock, resets

ASSUME AdmissionAssumption ==
    /\ IDENTITY_WINDOW \in Nat /\ Sizes \subseteq Nat /\ \A id \in Ids : IdBytes(id) \in Nat
    /\ \A l \in Loads : /\ l.callers \subseteq Callers /\ l.exceptions \subseteq Exceptions
                        /\ l.hooks \subseteq BOOLEAN /\ l.time \in Nat

Fingerprints == {Fingerprint(x) : x \in Exceptions}

VARIABLES
    now,            \* the clock
    before_send,    \* whether a hook is set
    live,           \* operations of the current revision
    begun,          \* operations begun so far
    operation,      \* _operations._current of each caller, 0 for none
    receipts,       \* the receipt on each exception, if any
    cap,            \* the capture of each caller
    suppression,    \* _suppression
    allowed,        \* allows_recovery
    recoveries,     \* queued recovery events, by id
    diagnostics,    \* _diagnostics
    load,           \* the bounds of this behaviour
    resets,         \* init and dispose calls and forks so far
    accepted,       \* exceptions queued within operations since the last init
    occurrences,    \* per fingerprint: time and verdict of each occurrence
    reported,       \* per fingerprint: occurrences that aggregates have reported
    forgotten,      \* fingerprints whose entry was thrown away
    retracked       \* per fingerprint: occurrences before its present entry

identity == <<before_send, live, begun, operation, receipts, cap, accepted>>
storm == <<suppression, occurrences, reported, forgotten, retracked>>
budget == <<allowed, recoveries, diagnostics>>
bounds == <<load, resets>>
vars == <<now, identity, storm, budget, bounds>>

Idle == [pc |-> "idle", exception |-> <<>>, automatic |-> FALSE]

Init ==
    /\ load \in Loads /\ now = 0 /\ before_send \in load.hooks /\ live = {} /\ begun = 0
    /\ operation = [c \in Callers |-> 0]
    /\ receipts = [x \in Exceptions |-> <<>>]
    /\ cap = [c \in Callers |-> Idle]
    /\ suppression = <<>> /\ allowed = TRUE /\ recoveries = <<>> /\ diagnostics = EmptyBudget
    /\ resets = 0 /\ accepted = {}
    /\ occurrences = [f \in Fingerprints |-> <<>>]
    /\ reported = [f \in Fingerprints |-> 0] /\ forgotten = {}
    /\ retracked = [f \in Fingerprints |-> 0]

-----------------------------------------------------------------------------
(* Operations: begun by a caller, copied into the context of another,      *)
(* ended by anybody, and all revoked by init and dispose (see Scopes).     *)

current(c) == IF operation[c] \in live THEN operation[c] ELSE 0

begin(c) ==
    /\ begun < load.operations /\ cap[c].pc = "idle"
    /\ begun' = begun + 1 /\ live' = live \cup {begun'}
    /\ operation' = [operation EXCEPT ![c] = begun']
    /\ UNCHANGED <<before_send, receipts, cap, accepted>>

Copied(c, d) ==
    /\ operation[c] # operation[d] /\ cap[c].pc = "idle"
    /\ operation' = [operation EXCEPT ![c] = operation[d]]
    /\ UNCHANGED <<before_send, live, begun, receipts, cap, accepted>>

end(c) ==
    /\ operation[c] \in live /\ live' = live \ {operation[c]}
    /\ UNCHANGED <<before_send, begun, operation, receipts, cap, accepted>>

Operation ==
    /\ \E c \in load.callers : begin(c) \/ end(c) \/ \E d \in load.callers : Copied(c, d)
    /\ UNCHANGED <<now, storm, budget, bounds>>

-----------------------------------------------------------------------------
(* admit, before the capture: the other path has captured this exception   *)
(* in this operation a moment ago.                                         *)
Duplicate(c, x, automatic) ==
    /\ ~before_send /\ current(c) # 0 /\ receipts[x] # <<>>
    /\ receipts[x][1].scope = current(c)
    /\ now - receipts[x][1].at < IDENTITY_WINDOW
    /\ receipts[x][1].automatic # automatic

Occurred == SumFunction([f \in Fingerprints |-> Len(occurrences[f])])

capture_exception(c, x, automatic) ==
    /\ cap[c].pc = "idle" /\ x \in load.exceptions
    /\ Occurred < load.captures
    /\ cap' = [cap EXCEPT ![c] = [pc |-> IF Duplicate(c, x, automatic) THEN "skip" ELSE "commit",
                                  exception |-> <<x>>, automatic |-> automatic]]
    /\ UNCHANGED <<before_send, live, begun, operation, receipts, accepted, storm>>

(* A skipped capture uses the receipt up.                                  *)
Skip(c) ==
    /\ cap[c].pc = "skip"
    /\ receipts' = [receipts EXCEPT ![cap[c].exception[1]] = <<>>]
    /\ cap' = [cap EXCEPT ![c] = Idle]
    /\ UNCHANGED <<before_send, live, begun, operation, accepted, storm>>

(* Protection withholds the event, sampling skips it, the lock is busy.    *)
Abandon(c) ==
    /\ cap[c].pc = "commit" /\ cap' = [cap EXCEPT ![c] = Idle]
    /\ UNCHANGED <<before_send, live, begun, operation, receipts, accepted, storm>>

(* admit, once the event is queued: a receipt of this path.                *)
Receipt(c) ==
    IF before_send \/ current(c) = 0 THEN receipts
    ELSE [receipts EXCEPT ![cap[c].exception[1]] =
             <<[scope |-> current(c), at |-> now, automatic |-> cap[c].automatic]>>]

(* The entries that should_capture throws away: the evicted one and, when  *)
(* a loop is over, the one of the exception itself.                        *)
Discarded(f) ==
    LET moved == Tracked(suppression, f, now)
    IN  {s.key : s \in ToSet(suppression) \ ToSet(moved)}
            \cup {s.key : s \in {t \in {Last(moved)} : LoopOver(t, now)}}

\* Mutant: the receipt is written before the queue has taken the event.
Commit_receipt_first(c, queued) ==
    LET x == cap[c].exception[1]
        f == Fingerprint(x)
        verdict == should_capture(suppression, f, now)
    IN  /\ cap[c].pc = "commit" /\ cap' = [cap EXCEPT ![c] = Idle]
        /\ suppression' = verdict.tracker
        /\ occurrences' = [occurrences EXCEPT ![f] = Append(@, [at |-> now, captured |-> verdict.capture])]
        /\ forgotten' = forgotten \cup Discarded(f)
        /\ retracked' = [g \in Fingerprints |->
               IF g \in Discarded(f) THEN Len(occurrences[g]) ELSE retracked[g]]
        /\ queued => verdict.capture
        /\ receipts' = IF verdict.capture THEN Receipt(c) ELSE receipts
        /\ accepted' = IF queued /\ current(c) # 0
               THEN accepted \cup {[exception |-> x, scope |-> current(c), at |-> now,
                                    automatic |-> cap[c].automatic]}
               ELSE accepted
        /\ UNCHANGED <<before_send, live, begun, operation, reported>>

(* Under the lock: suppression, the offer to the queue, the receipt.       *)
Commit(c, queued) ==
    LET x == cap[c].exception[1]
        f == Fingerprint(x)
        verdict == should_capture(suppression, f, now)
    IN  /\ cap[c].pc = "commit" /\ cap' = [cap EXCEPT ![c] = Idle]
        /\ suppression' = verdict.tracker
        /\ occurrences' = [occurrences EXCEPT ![f] = Append(@, [at |-> now, captured |-> verdict.capture])]
        /\ forgotten' = forgotten \cup Discarded(f)
        /\ retracked' = [g \in Fingerprints |->
               IF g \in Discarded(f) THEN Len(occurrences[g]) ELSE retracked[g]]
        /\ queued => verdict.capture
        /\ receipts' = IF queued THEN Receipt(c) ELSE receipts
        /\ accepted' = IF queued /\ current(c) # 0
               THEN accepted \cup {[exception |-> x, scope |-> current(c), at |-> now,
                                    automatic |-> cap[c].automatic]}
               ELSE accepted
        /\ UNCHANGED <<before_send, live, begun, operation, reported>>

Capture ==
    /\ \E c \in load.callers :
          \/ \E x \in Exceptions, automatic \in BOOLEAN : capture_exception(c, x, automatic)
          \/ Skip(c)
          \/ Abandon(c)
          \/ \E queued \in BOOLEAN : Commit(c, queued)
    /\ UNCHANGED <<now, budget, bounds>>

(* What these entries hold back of a fingerprint.                          *)
Unreported(entries, f) ==
    LET entry == {s \in entries : s.key = f}
    IN  IF entry = {} THEN 0 ELSE (CHOOSE s \in entry : TRUE).pending

(* A flush begins: the counts of suppressed occurrences become aggregates, *)
(* whether or not those reach the queue.                                   *)
Drain ==
    LET drained == drain_aggregates(suppression, now)
    IN  /\ drained.aggregates # {}
        /\ suppression' = drained.tracker
        /\ reported' = [f \in Fingerprints |-> reported[f] + Unreported(drained.aggregates, f)]
        /\ UNCHANGED <<now, identity, occurrences, forgotten, retracked, budget, bounds>>

-----------------------------------------------------------------------------
(* Recovery events. The delivery hook may give one another id, another     *)
(* observation and another size, or make it an event of another type.      *)

Event(observation, size) == [observation |-> observation, size |-> size]

capture_recovery(id, observation, size) ==
    LET outcome == reserve(diagnostics, id, observation, size, now)
    IN  /\ allowed /\ id \notin DOMAIN recoveries
        /\ diagnostics' = outcome.budget
        /\ recoveries' = IF outcome.ok THEN With(recoveries, id, Event(observation, size)) ELSE recoveries
        /\ UNCHANGED allowed

Without(ids) == Restrict(recoveries, DOMAIN recoveries \ ids)

(* finalize_batch: the hook or the transport's limit withholds it, or      *)
(* recoveries are no longer allowed.                                       *)
Withhold(id) ==
    /\ id \in DOMAIN recoveries
    /\ diagnostics' = release(diagnostics, {id}) /\ recoveries' = Without({id})
    /\ UNCHANGED allowed

Replace(id, new, observation, size) ==
    LET outcome == replace(diagnostics, id, new, observation, size, now)
    IN  /\ id \in DOMAIN recoveries /\ allowed
        /\ diagnostics' = outcome.budget
        /\ recoveries' = IF outcome.ok
                         THEN With(Without({id}), new, Event(observation, size)) ELSE Without({id})
        /\ UNCHANGED allowed

(* An event of another type leaves finalization with a reference to a      *)
(* failure: it may have been a recovery before.                            *)
Register(originals, key, event, at) ==
    /\ originals \subseteq DOMAIN recoveries
    /\ diagnostics' = register_failure(release(diagnostics, originals), key, event, at)
    /\ recoveries' = Without(originals) /\ UNCHANGED allowed

(* The end of a send: what has left the queue gives its share back.        *)
Depart(ids) ==
    /\ ids # {} /\ ids \subseteq DOMAIN recoveries
    /\ recoveries' = Without(ids)
    /\ diagnostics' = retain(diagnostics, DOMAIN recoveries \ ids)
    /\ UNCHANGED allowed

evict_low_priority(id) ==
    /\ id \in DOMAIN recoveries /\ recoveries' = Without({id})
    /\ diagnostics' = release(diagnostics, {id}) /\ UNCHANGED allowed

(* A capability or a policy arrives: see Relay and RemoteConfig.           *)
Observe == allowed' = ~allowed /\ UNCHANGED <<recoveries, diagnostics>>

Recovery ==
    /\ load.observations # {}
    /\ \/ \E id \in Ids, o \in load.observations, n \in Sizes : capture_recovery(id, o, n)
       \/ \E id \in Ids : Withhold(id) \/ evict_low_priority(id)
       \/ \E id, new \in Ids, o \in load.observations, n \in Sizes : Replace(id, new, o, n)
       \/ \E originals \in {{}} \cup {{id} : id \in Ids}, o \in load.observations, e \in Ids, at \in 0 .. now :
             Register(originals, o.key, e, at)
       \/ \E ids \in SUBSET Ids : Depart(ids)
       \/ Observe
    /\ UNCHANGED <<now, identity, storm, bounds>>

-----------------------------------------------------------------------------
(* dispose revokes operations and clears the budget; the queue stays.      *)
dispose ==
    /\ live' = {} /\ allowed' = FALSE /\ diagnostics' = EmptyBudget
    /\ UNCHANGED <<before_send, begun, operation, receipts, cap, accepted, storm, recoveries>>

(* init also empties the queue and starts a new tracker.                   *)
init ==
    /\ live' = {} /\ allowed' \in BOOLEAN /\ diagnostics' = EmptyBudget /\ recoveries' = <<>>
    /\ before_send' \in load.hooks /\ suppression' = <<>> /\ accepted' = {}
    /\ forgotten' = Fingerprints
    /\ retracked' = [f \in Fingerprints |-> Len(occurrences[f])]
    /\ UNCHANGED <<begun, operation, receipts, cap, occurrences, reported>>

(* A forked child: its own tracker, budget and operations, no other        *)
(* thread, and the receipts it inherits.                                   *)
fork ==
    /\ live' = {} /\ allowed' = FALSE /\ diagnostics' = EmptyBudget /\ recoveries' = <<>>
    /\ suppression' = <<>> /\ accepted' = {}
    /\ cap' = [c \in Callers |-> Idle] /\ operation' = [c \in Callers |-> 0]
    /\ forgotten' = Fingerprints
    /\ retracked' = [f \in Fingerprints |-> Len(occurrences[f])]
    /\ UNCHANGED <<before_send, begun, receipts, occurrences, reported>>

Reset ==
    /\ resets < load.resets /\ resets' = resets + 1
    /\ init \/ dispose \/ fork
    /\ UNCHANGED <<now, load>>

Tick ==
    /\ now < load.time /\ now' = now + 1
    /\ UNCHANGED <<identity, storm, budget, bounds>>

Next == Operation \/ Capture \/ Drain \/ Recovery \/ Reset \/ Tick

Spec == Init /\ [][Next]_vars

-----------------------------------------------------------------------------
(* Types; the table holds each fingerprint once and at most MAX_TRACKED of *)
(* them, and an entry admits at most MAX_NORMAL_EVENTS in its window.      *)
TypeOK ==
    /\ before_send \in BOOLEAN /\ allowed \in BOOLEAN /\ now \in 0 .. load.time
    /\ live \subseteq 1 .. begun /\ operation \in [Callers -> 0 .. begun]
    /\ Len(suppression) <= MAX_TRACKED /\ IsInjective([i \in DOMAIN suppression |-> suppression[i].key])
    /\ \A s \in ToSet(suppression) :
          /\ s.key \in Fingerprints /\ s.emitted_count \in 0 .. MAX_NORMAL_EVENTS
          /\ s.pending \in Nat /\ (s.pending = 0) = (s.first_seen = <<>>)
    /\ \A c \in Callers : cap[c].pc \in {"idle", "skip", "commit"}

(* README "Duplicate event storms are suppressed locally": between two     *)
(* evictions of its entry, a fingerprint is captured at most twice         *)
(* MAX_NORMAL_EVENTS times in any stretch of DUPLICATE_WINDOW ticks, the   *)
(* two being the end of one window and the start of the next; and no more  *)
(* once it loops, which 2 * LOOP_THRESHOLD + 1 occurrences within          *)
(* LOOP_WINDOW ticks always make it do (should_capture).                   *)
StormBounded ==
    \A f \in Fingerprints :
        LET seen == occurrences[f]
            tracked == retracked[f] + 1 .. Len(seen)
            Within(i) == {j \in tracked : /\ j >= i /\ seen[j].captured
                                          /\ seen[j].at < seen[i].at + DUPLICATE_WINDOW}
            Recent(i) == {j \in tracked : j <= i /\ seen[i].at < seen[j].at + LOOP_WINDOW}
        IN  \A i \in tracked :
               /\ Cardinality(Within(i)) <= 2 * MAX_NORMAL_EVENTS
               /\ Cardinality(Recent(i)) > 2 * LOOP_THRESHOLD
                     => \A j \in tracked : j >= i => ~seen[j].captured

(* No occurrence is reported twice, and none is lost unless its entry was  *)
(* thrown away: captured, reported and pending occurrences are the ones    *)
(* seen. What is pending spans first_seen to last_seen (_mark_suppressed,  *)
(* drain_aggregates).                                                      *)
AggregatesTruthful ==
    \A f \in Fingerprints :
        LET seen == occurrences[f]
            captured == Cardinality({i \in DOMAIN seen : seen[i].captured})
            pending == Unreported(ToSet(suppression), f)
            Later(i) == {j \in i + 1 .. Len(seen) : ~seen[j].captured}
        IN  /\ captured + reported[f] + pending <= Len(seen)
            /\ f \notin forgotten => captured + reported[f] + pending = Len(seen)
            /\ \A s \in ToSet(suppression), i \in DOMAIN seen :
                  s.key = f /\ ~seen[i].captured /\ Cardinality(Later(i)) < s.pending
                     => s.first_seen[1] <= seen[i].at /\ seen[i].at <= s.last_seen[1]

(* A capture is skipped as a duplicate only while the exception it would   *)
(* report is one that the other path has queued in this operation, since   *)
(* the last init and within the last IDENTITY_WINDOW ticks                 *)
(* (exception_identity.admit).                                             *)
SkipJustified ==
    [][\A c \in Callers :
          cap[c].pc = "idle" /\ cap'[c].pc = "skip" =>
             \E r \in accepted :
                /\ <<r.exception>> = cap'[c].exception /\ r.scope = operation[c]
                /\ r.automatic # cap'[c].automatic /\ now - r.at < IDENTITY_WINDOW]_vars

(* The budget is exact and kept (DiagnosticCaptureBudget): what is held is *)
(* the cost of the queued events, a window counts its own, and windows,    *)
(* attempts, observations and accounted bytes keep their limits, whatever  *)
(* the hook makes of an event.                                             *)
BudgetHolds ==
    LET pending == diagnostics.pending
        windows == diagnostics.windows
    IN  /\ DOMAIN pending \subseteq DOMAIN recoveries
        /\ \A e \in DOMAIN pending :
              /\ pending[e].size = recoveries[e].size
              /\ pending[e].scope = recoveries[e].observation.key
              /\ pending[e].scope \in DOMAIN windows
              /\ pending[e].cost = pending[e].size + IdBytes(e) + 1
        /\ diagnostics.held = SumFunction(Costs(pending))
        /\ \A k \in DOMAIN windows :
              /\ windows[k].pending = Cardinality({e \in DOMAIN pending : pending[e].scope = k})
              /\ windows[k].cost = window_cost(windows[k])
              /\ Cardinality(windows[k].attempts) <= MAX_ATTEMPTS
              /\ windows[k].observations <= MAX_OBSERVATIONS
        /\ Cardinality(DOMAIN windows) <= MAX_WINDOWS
        /\ accounted_bytes(diagnostics) <= MAX_ACCOUNTED
=============================================================================
