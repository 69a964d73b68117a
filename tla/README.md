# Verification of the debugbundle Python SDK

TLA+ models of the SDK in `src/src/debugbundle`, TLC configurations that check
them on small instances, and TLAPS proofs that hold for every instance. Five
state machines cover the parts of the SDK that keep state: the delivery queue,
the browser relay, the remote configuration, scopes with probes, and the
admission of repeated exceptions and recoveries. Section 6 says what is left.
Paths below are relative to `src/src/debugbundle` unless they start with `src/`.

## 1. The system

An application calls the SDK from any of its threads to record logs, request
incidents, exceptions, recoveries and probes. A call builds an event without
holding a lock, makes a bounded number of attempts at `sdk._lock` and, if it
gets it, puts the event into one bounded queue. A `threading.Timer`, or an
explicit `flush()`, reserves the queue, lets an application hook rewrite every
event of a batch, sends the batch with the lock released and settles the queue
with the answer. `init()`, `dispose()` and `fork()` may come at any point.

| part (source) | state it keeps | operations | what makes it correct |
|---|---|---|---|
| delivery queue (`queue_admission.py`, `flush_delivery.py`, `flush_aggregates.py`, `core.py`) | `_buffer`, `_buffer_sizes`, `_buffer_bytes`, `_pending_low_priority`, `_pressure_drops`, `_sending`, `_inflight_count`, `_timer`, `_retry_after` | offer, evict, reserve, snapshot, settle, schedule | limits hold, one sender, no lost wake-up, the batch stays the front of the queue, no high-priority event is displaced |
| finalization hooks (`delivery_hooks.py`, `before_send.py`) | `_hook_bypass` | replace or withhold one event of the batch | a mark belongs to one queued event, is inherited, and is never met by another object |
| optional evidence (`evidence_delivery.py`, `evidence_wire.py`, `evidence_http.py`, `evidence_json.py`) | `features`, references, scopes | observe, strip, reduced retry | evidence goes only to a destination that proved support |
| diagnostic budget (`diagnostic_budget.py`) | pending and retained reservations, rolling windows | reserve, replace, release, retain | a share belongs to a queued recovery, or to a window |
| lifecycle (`core.py`, `process_support.py`) | `_enabled`, `_transport`, `_generation`, `_pid` | init, dispose, first call in a forked child | nothing of one generation acts on the next |
| capture calls (`exception_capture.py`, `recovery_capture.py`, `probe_capture.py`, `capture_hooks.py`) | locals between two locked sections | prepare, attempt the lock, decide again, commit | decisions made before the lock are made again under it |
| duplicate suppression (`suppression.py`) | counters per fingerprint, windows | should_capture, drain | no suppressed event is in two summaries, and none is lost while its entry is kept |
| exception identity and graphs (`exception_identity.py`, `exception_evidence.py`, `exception_snapshot.py`) | recently seen exception objects | admit | one exception object is captured once |
| remote configuration (`remote_config_client.py`, `config.py`) | ETag, configuration, poll timer | refresh | an answer of an old generation is not applied |
| acknowledgement and wire limits (`acknowledgement.py`, `ingestion_wire.py`) | none | decide, fit, split | each sent event is accepted, retried or dropped exactly once; bodies stay within limits |
| transports (`transport.py`) | an HTTP client or a file | send | every answer is classified |
| operation contexts, scope leases (`operation_context.py`, `scope_ownership.py`) | a stack per execution context, leases | begin, end, bind, release | releases out of order never restore a dead context |
| browser relay (`relay.py`, `relay_delivery.py`) | rate windows, spool files | handle, spool, forward | a batch is acknowledged only once it is spooled or delivered |
| trigger tokens, policy, redaction, canonical events, logging and framework integrations | none or caches | pure functions, glue | formats and predicates |

Interaction. Captures, flushes, the remote-configuration poll and the
lifecycle share one object under one lock. The lock is released around hooks,
redaction, transports and probe suppliers, so each of these calls splits a
flush or a capture into sections between which anything may happen. Tables are
keyed by CPython `id()` values, which are reused once an object is freed.

Hard behaviours. The hazards, each with its line, are listed in
`PROJECT.json`. In short: two flushes at once; a wake-up that nobody sends;
positions computed before and used after an unlock; captures that evict and
insert while a batch is in flight; identities that outlive their object; hooks
that enlarge events of a full queue; partial acknowledgements that reorder the
queue; `init()`, `dispose()` and `fork()` between any two sections; counters
read and written without the lock.

## 2. Modules

| module | role |
|---|---|
| `DeliveryQueue` | the queue, the captures that feed it, the flush that empties it, and the lifecycle |
| `DeliveryQueueProofs` | control of the queue: types, one sender, no lost wake-up, the batch in front |
| `DeliveryQueueLedgerProofs` | what the tables keyed by `id()` say of the queue: bytes, marks, budget |
| `FiniteSums` | lemmas about sums over finite sets, for the ledgers |
| `EvidenceWire` | pure: evidence features of a capability document, optional parts of an event, `strip_unsupported`, `without_optional` |
| `Acknowledgement` | pure: `decide_acknowledgement` over response bodies |
| `IngestionWire` | pure: encoded sizes, `fit_event`, `prefix`, and what it leaves for the next chunk |
| `Relay` | threads that serve browser requests; extends the three modules above |
| `RelayContract` | abstract specification of what the relay promises; `Relay` refines it |
| `CapturePolicy` | pure: parsing of policies, admission of requests and logs |
| `RemoteConfig` | polling threads, the server, the lifecycle; extends `CapturePolicy` and `EvidenceWire` |
| `ProbeDirectives` | pure: trigger tokens, directives, matching and expiry |
| `Scopes` | leases, operations and probes in copied execution contexts; extends `ProbeDirectives` |
| `Suppression` | pure: `should_capture`, `drain_aggregates` |
| `DiagnosticBudget` | pure: windows, `reserve`, `replace`, `release`, `retain`, `register_failure` |
| `Admission` | exception receipts, suppression and the recovery budget over time; extends the two modules above |
| `RemoteConfigProofs`, `ScopesProofs`, `AdmissionProofs` | inductive invariants and theorems about these modules |
| `RelayProofs` | lemmas about the relay's operators; types, and what each thread knows of its events |
| `RelaySafetyProofs` | the relay's theorems: spool, limiter, proof of support, and the refinement of `RelayContract` |
| `MCDeliveryQueue`, `MCRelay`, `MCRemoteConfig`, `MCScopes`, `MCAdmission` | instances for TLC |

The state machines meet at the queue. `DeliveryQueue` treats as choices what
the others decide: which captures are admitted (`CapturePolicy`, `Scopes`,
`Admission`), how many suppression summaries a flush finds (`Suppression`),
when capabilities change (`RemoteConfig`), what an answer and the body limit
leave of a batch (`Acknowledgement`, `IngestionWire`). The other modules treat
the queue's verdict on an offered event as a choice. So each composition is an
over-approximation on the side of the neighbour: a property of one module does
not rest on a promise of another.

### 2.1 DeliveryQueue

**State.** Variables keep the names of the attributes of `DebugBundleSdk` without the
leading underscore. An event is `[id, kind, bytes, gen, skip]`: the object's
`id()`, its kind (which fixes its priority), its serialized size, the
generation it was captured in (a summary: that of the flush that drained what it
reports), and, as history, whether the code has promised that no hook sees it
(again). `cap[c]` and `fl[f]` are the local variables and
the program counter of a capturing and of a flushing thread.
`diagnostics` is the set of queued objects that own a share of the recovery
budget, `evidence` says that the destination has proved support for optional
evidence, `disposed` is a history variable.

**Actions.**

| code | actions |
|---|---|
| `may_prepare_event` and payload assembly, unlocked | `Prepare`, `Refuse` |
| `try_capture_lock` | `Contended`, or one of the next rows |
| unlocked `_pressure_drops += 1` | a read in `Refuse`/`Contended`, a write in `CountDrop` |
| decisions repeated under the lock | `Decline`, `OfferBegin` |
| `offer_protected_event`, `evict_low_priority` | `OfferEvict` per eviction, `OfferReject`, `OfferAdmit`, `OfferOverBudget` |
| `threading.Timer`, `flush()` | `TimerFires`, `ExplicitFlush` |
| `flush_sdk` 21-44 | `FlushIdle`, `FlushBackoff`, `FlushReserve` |
| `flush_sdk` 46-74 and `prepare_flush_aggregates` | `FlushAbandon`, `FlushAdmit`, `FlushAggregate(Lost)`, `FlushPressure(Lost)`, `FlushEmpty`, `FlushSnapshot` |
| `finalize_batch` | `FinalizeProtect` (unlocked), then `FinalizeReplace` or `FinalizeWithhold`, one event at a time |
| `flush_sdk` 76-101 | `SelectNothing`, `SelectBatch`, `FlushAbandon` |
| `flush_sdk` 103-203 | `CompleteFailed`, `CompleteRetryAfter`, `CompleteRemoved`, `CompleteAcknowledged`, which share `Settle` for the `finally` block |
| `DebugBundleSdk.init`, `dispose`, `ensure_current_process` | `InitSdk`, `Dispose`, `EnsureCurrentProcess` |
| a capability document | `Discover` |
| the clock | `RetryWindowExpires`, `PressureWindowExpires` |

**Abstractions.**

- A section under `_lock` is one step. Exceptions are the loop of
  `offer_protected_event` and the offers of a flush, because captures read the
  queue's length and bytes without the lock while those run. They hold the
  variable `lock` over several steps.
- `Contended` is always possible: application threads outside the model (a
  `status()` call, say) may hold the lock at all eight attempts.
- Time is two Booleans: `backoff` (`now < _retry_after`) and `reported` (a
  pressure summary within the last 60 s).
- A hook is a choice of kind and size, made in the step that commits its
  result, because it sees only a copy of the event. The proof of support that
  `_protect_event` reads before the hook is a step of its own
  (`FinalizeProtect`): it may be out of date at the commit. Redaction and
  `fit_event` may turn an evidence-carrying exception into a plain one.
- Sizes are small numbers: one unit may be read as a size class. A reduced
  retry keeps its class.
- A probe call with several directives is one event. An uncaught exception is
  the kind `fatal`; whether it carries evidence is not told apart.
- A transport call has seven outcomes. `legacy` (a 2xx without
  acknowledgement) comes from custom transports only. A call that begins after
  `dispose()` has closed the HTTP client raises (field `closed`); one that began
  before may still be answered.
- An acknowledgement returns any positions to retry, in any order, and any
  exceptions to reduce, as far as `decide_acknowledgement` lets through.
- A fork is followed into the child, where no other thread exists.
- Identities come from `Ids`. A free one is handed out as soon as nothing
  references it, the most hostile reuse.
- Named bounds: `MaxAggregates`, `MaxPressure` (where the drop counter stops;
  the code stops at 2^63 - 1 in `queue_admission.py` and nowhere elsewhere), `DisconnectedAt` (3 in the code, read only by `status()`),
  `MaxGeneration`.

### 2.2 Relay and RelayContract

**State.** `req[r]` and `send[r]` are the locals of the thread that serves
request `r`. Shared are the rate limiter's window, `features`
(`_evidence.features`), the table of file transports with their locks and
sequence numbers, and the spool directory: finished files, temporary files,
`.delivered` markers. The limiter's window is a set of stamps, each with the
request it was taken for, since the code's list may hold the same time twice.
`send[r].left` is what is still to be forwarded; each chunk is the `prefix` of it,
which is how `chunks` cuts the batch. `granted` is history: features that the pin or a valid
acknowledgement has proved.

| code | actions |
|---|---|
| `BrowserRelayHandler.handle`: origin, method, content type, size | `Arrive` |
| `_is_rate_limited` | `RateRead`, `RateStore`: no lock between them |
| `_sanitize_event`, `strip_unsupported`, `prepare_event` per candidate | `ScreenCandidate`, `EmptyBatch` |
| `_deliver_events` with `AtomicRelayFileTransport.write` | `Lookup`, `Create`, `WriteTemp`, `Replace`, `ReplaceFails`, `Cleanup` |
| `RelayForwardTransport.send_verified`, `_send_chunk` | `Forward`, `GiveUp`, `Chunk`, `SendFails`, `Observe`, `ObserveRetry`, `Merge`, `Publish` |
| `mark_delivered`, `on_accept`, the response | `Mark`, `Accept` |

`RelayContract` knows neither threads nor files: a durable relay stores the
accepted events of a request before it answers 202, never loses what it
stored, marks only what was stored and delivered, and answers once. The
refinement mapping `Contract` reads "stored" off the files on disk, "delivered"
off the positions that canonical acknowledgements accepted, "marked" off the
markers. `KeepsContract` is that `Relay` implements it.

Abstractions: a candidate is an event with a *flaw* that says which validation
refuses it; sizes are small numbers with named constants for the envelope and
the optional parts; one tick is a second of the limiter and a millisecond of a
file name; one client address. Opening, writing or renaming a file may fail, and
a write may be short, which goes unnoticed in the code and in the model; `wrote` remembers
what the file system did to a request. A failed write tries to remove every temporary
file of the directory, and each removal may fail, which the code ignores: `Cleanup` leaves
any of them. Only the owner of a temporary file notices that it is gone, so the removals
are one step. `Observe` reads the features once: the code may pick up what another thread
has published since where it reads them again (`relay_delivery.py:127`, `:179`).
A call of the destination may raise, answer outside 2xx or pass the deadline
whenever `Lossy` is set.

### 2.3 RemoteConfig

**State.** The attributes of the SDK that hold configuration, the poll timer, and
`poller[p]`: the thread of a `threading.Timer`, armed, fired, fetching or
holding an answer. The server publishes `Documents` one after the other and
answers 304 to the ETag of the current one. `granted` is history: what was sent
since the last `init()` to a fetch begun after it. `proofs` is history too: each set of
features that the pin of `init()`, a document sent to such a fetch, or an acknowledgement
has proved since the last `init()` or fork.

| code | actions |
|---|---|
| `DebugBundleSdk.init`, `dispose`, `ensure_current_process` | `init`, `dispose`, `fork` |
| `threading.Timer` | `Fire`, cancelled by `Cancel` while it has not fired |
| first locked section of `refresh_remote_config` | `Begin` |
| `fetch_impl` without the lock | `FetchFails`, `NotModified`, `Modified` |
| second locked section | `Discard`, `Confirm`, `Fallback`, `Adopt`, each with `_schedule_next_remote_config_refresh` |
| `_evidence.observe` in `flush_sdk` 121-127 | `Acknowledge`: any descriptor an acknowledgement may carry |
| the server (external) | `Publish` |

Delays and directives are left out (the directives are in `Scopes`). Fetch
errors, unexpected statuses and bodies that are no JSON share one path in the
code and are one failure here. Bounds: `MaxFaults`, `MaxGeneration`.

### 2.4 Scopes and ProbeDirectives

**State.** Leases and operations are numbered in the order of their creation and
keep the chain of their parents; `current` and `operation` are the ContextVars of
each task, copied by `Spawn`. `probe[t]` is a probe call between its two locked
sections, while the application's supplier runs.

| code | actions |
|---|---|
| `bind_context`, `begin_request`, `release` (`scope_ownership.py`, `core.py`) | `bind_context`, `begin_request`, `release` |
| `OperationContexts.begin`, `end`, `context` | `Began`, `Ended` within `begin_request`/`release`; `EnterOperation`, `LeaveOperation` |
| `capture_probe` | `AdmitProbe`, `CommitProbe` |
| `init`, `dispose`, fork, a configuration refresh, the clock | `init`, `dispose`, `fork`, `Configure`, `Tick` |

`Depth` is the 16 of the loops over parents. Every token may be released by any
live task, in any order, and more than once if it had no effect. A trigger
token is its signing key, payload and expiry; base64 and HMAC are abstracted.
`Bounds` (numbers of leases, operations, whether probes run) is chosen in `Init`,
so one run holds several profiles.

### 2.5 Admission, Suppression, DiagnosticBudget

**State.** `receipts` are the marks `exception_identity` leaves on an exception,
`cap[c]` a capture between its two sections, `suppression` the table of
`SuppressionTracker` (a sequence in the order of last use), `diagnostics` the
`DiagnosticCaptureBudget`, `recoveries` the recovery events in the queue.
`accepted`, `occurrences`, `reported`, `forgotten`, `retracked` are history.

| code | actions |
|---|---|
| `operation_context.py`, as far as receipts depend on it | `Operation` |
| `capture_exception` with `admit` | `capture_exception`, `Skip`, `Abandon`, `Commit` |
| `drain_aggregates` at the start of a flush | `Drain` |
| `capture_recovery`, `finalize_batch`, `evict_low_priority`, `register_failure`, `retain` | `capture_recovery`, `Withhold`, `Replace`, `Register`, `Depart`, `evict_low_priority` |
| `init`, `dispose`, fork | `Reset` |

The constants of the code are scaled down with their order kept (`LOOP_WINDOW` 2,
`DUPLICATE_WINDOW` 5, `LOOP_RESET_AFTER` 6). Monotonic time is `now`. The branch of the
budget for resource observations is not reachable from the SDK and is left out.
`Loads` bounds a behaviour and is chosen in `Init`.

## 3. Runs

Deadlock is checked except where the table says so.

| run | instance | shows |
|---|---|---|
| `queue_overload` | 1 caller, 1 flusher, 3 events and 3 bytes, sizes 1, 2 and 4, custom transport, every answer, a hook that changes kind and size | `Bounded`, `Accounting`, `LowCounted`, `BatchIsPrefix`, `HighKept`; 700 000 states |
| `queue_reinit` | 1 caller, 2 flushers, 2 events, two generations, probes, summaries, answers `legacy` and `retry` | `OneSender`, `NoLostWakeup`, `OwnGeneration`, `TypeOK`; 380 000 states |
| `queue_http` | 1 caller, 1 flusher, 2 events, HTTP, uncaught exceptions, evidence, recoveries, partial acknowledgements | `HookSeen`, `BypassKept`, `BudgetOwned`, `NoStaleIdentity`; 874 000 states |
| `queue_liveness` | 1 caller, 1 flusher, 2 events, answers `none`, `legacy`, `retry` | `SenderReleases`, `EventuallyFlushed` under `FairSpec`; 79 000 states |
| `queue_split_tail` | 1 caller, 1 flusher, 2 events, HTTP | a violation of `Displaceable`, see section 5 |
| `relay_durable` | 2 requests in 2 threads, every project mode, one warm and one new service, refused and flawed inputs, split bodies, failing and short writes, failing renames and removals, lost and partial answers | `TypeOK`, `SpoolTruth`, `MarkedOnlyComplete`, `FailuresRooted`, `ProofEarned`, `RefusedHonestly`, `NoResend`, and the refinement `KeepsContract`; 1 050 000 states, about 2 minutes |
| `relay_spool` | 2 first requests of one service | a violation of `MarkedOnlyComplete`, see section 5 |
| `relay_wire` | 1 request with 2 events around the body limit, HTTP | a violation of `WireFits`, see section 5 |
| `remote_config` | 3 timer threads, 4 documents (one malformed, one that ends polling), 1 failure, 2 generations, a malformed and a proper pin, acknowledgements with and without features | `TypeOK`, `RestrictedUntilArrival`, `PolicyGranted`, `Grounded`, `EvidenceProved`, `OneTimer`, `PollingContinues`, and `Converges` under fairness; 170 000 states |
| `scopes` | a task and one it spawns, nesting limit 3, up to 4 leases or operations, 2 generations, probes with an expiring directive; deadlock not checked: the bounded numbers of leases and calls run out | `TypeOK`, `EndedRevoked`, `NewestOwnerRead`, `ProbeAuthorised`; 3 600 000 states |
| `scopes_severed` | the same two tasks with 4 leases, nesting limit 5 | a violation of `CompletedRevoked`, see section 5 |
| `admission` | five loads: a storm of one exception, three fingerprints in a table of two, one exception captured by two callers in shared operations, two of recoveries under a rewriting hook; deadlock not checked: the bounded loads run out | `TypeOK`, `StormBounded`, `AggregatesTruthful`, `BudgetHolds`, `SkipJustified`; 1 200 000 states, about 2 minutes |

Why the bounds are enough. Two or three events give every relative position of
a batch in flight, an event behind it and an event to displace. Size 4 does not
fit an empty queue, sizes 1 and 2 make one replacement overflow because of the
other events. Two flushers are a timer and an explicit call; a third would meet
the same guard. `Ids` has enough members for the queue, the batch, one capture
and one replacement, and few enough that every freed one is reused. Two
generations suffice for work of the first to meet the second. One caller is
enough for the interleavings with a flush; callers exclude each other by `lock`
and share only `pressure_drops`, and the proofs cover any number of them.

In `Relay` two requests give every race on the limiter, the table of transports
and the shared features; a third would add only longer queues at the same lock.
`relay_durable` keeps the first requests of one service apart, because
`relay_spool` shows what goes wrong otherwise. In `RemoteConfig` three pollers
are an old answer, a current one and the next timer, and `init()` waits for a free
thread. In `Scopes` a nesting limit of 3 is reached, and passed by the profiles
with four leases and with four operations. In `Admission`
the storm is long enough to enter a loop, pass a checkpoint, be reset and be
captured again, and more than `2 * LOOP_THRESHOLD` occurrences fall within one
`LOOP_WINDOW`, so both conjuncts of `StormBounded` are put to the test.

Random simulation of larger instances (three relay requests, seven leases and
seven operations, longer storms and more recoveries) found no violation of
these invariants either; the runs above are the ones explored in full.

The view `UpToIdentity` identifies states of `DeliveryQueue` that differ only in
the names of objects. It is sound while no table holds the identity of a freed
object, which is `NoStaleIdentity`. `queue_http` checks it, and the theorem
`IdentitiesForgotten` proves it for every instance. In `queue_overload` two of the
three tables stay empty, and `Accounting` says the same of the third.

Fairness. In `queue_liveness`: a capture that has started goes on (WF): its
lock attempts are bounded and it runs no unbounded loop. A flush that has
started goes on (SF): it blocks on the lock, which is only held for short
sections and which every waiting thread gets in the end, and hooks and
transports return (the HTTP client has a timeout). An armed timer fires (SF):
`threading.Timer` has a thread of its own; that thread is an idle flusher here,
and other flushes may use it in between. The clock passes `_retry_after` (WF).
Nothing is assumed of callers that are idle, of explicit flushes, or of the
lifecycle.

In `remote_config`: each timer thread is weakly fair (`threading.Timer` fires,
its thread runs, `fetch_impl` returns or raises). Nothing is assumed of the
server except that it publishes and fails finitely often, and of the
application nothing. `Converges` assumes a server that sends an ETag with every
200 (`Tagging = {TRUE}`); section 5 says why.

## 4. Proofs

Every theorem holds for every value of the constants that satisfies the
assumptions named in the modules: any number of threads, events, tasks,
documents and requests, and any limits. Safety theorems are `Spec => []P` or,
for the two action properties and the refinement, `Spec => P`. Each rests on an
inductive invariant. Only four theorems have a hypothesis of their own:
`SummariesOfTheirGeneration` (section 4.1) and the three on the relay's files
(section 4.5). Every safety property of a run that expects to pass is stated by a
theorem.

| module | theorems (property) |
|---|---|
| `DeliveryQueueProofs` | `TypeCorrect` (`TypeOK`), `SingleSender` (`OneSender`), `WakeupNeverLost` (`NoLostWakeup`), `BatchStaysInFront` (`BatchIsPrefix`) |
| `DeliveryQueueLedgerProofs` | `ChargesAgree` (`Accounting`), `QueueBounded` (`Bounded`), `IdentitiesForgotten` (`NoStaleIdentity`), `HooksNotSkipped` (`HookSeen`), `MarksKept` (`BypassKept`), `BudgetNotLeaked` (`BudgetOwned`), `LowPriorityCounted` (`LowCounted`), `HighPriorityKept` (`HighKept`, an action property); with hooks that make no summaries: `SummariesOfTheirGeneration` (`OwnGeneration`) |
| `RemoteConfigProofs` | `TypeCorrect` (`TypeOK`), `StartsRestricted` (`RestrictedUntilArrival`), `PolicyFromServer` (`PolicyGranted`), `KeptWithConfiguration` (`Grounded`), `OnlyProvedEvidence` (`EvidenceProved`), `NoOrphanTimer` (`OneTimer`), `ChainNeverBreaks` (`PollingContinues`) |
| `ScopesProofs` | `TypeCorrect` (`TypeOK`), `CopiesRevoked` (`EndedRevoked`), `NewestRead` (`NewestOwnerRead`), `ProbesAuthorised` (`ProbeAuthorised`) |
| `AdmissionProofs` | `AdmissionTypes` (`TypeOK`), `StormsBounded` (`StormBounded`), `AggregatesTrue` (`AggregatesTruthful`), `SkipsJustified` (`SkipJustified`, an action property), `BudgetExact` (`BudgetHolds`) |
| `RelaySafetyProofs` | `TypeCorrect` (`TypeOK`), `NeverResent` (`NoResend`), `FailuresHaveRoots` (`FailuresRooted`), `SupportEarned` (`ProofEarned`), `RefusalsHonest` (`RefusedHonestly`); with one transport per service: `SpoolTruthful` (`SpoolTruth`), `MarksComplete` (`MarkedOnlyComplete`), `ContractKept` (`KeepsContract`, the refinement) |

### 4.1 The delivery queue

Assumptions: `ThreadsAssumption` (threads are disjoint and differ from the
constants that `lock` and `timer` also range over) and `QueueAssumption` (limits
are positive, sets are of the right type).

The invariant of control, `IInv`, is the conjunction of

- `TypeOK` and `Held`: a thread that has prepared an event holds it until
  it is committed;
- `Control` = `OneSender`, `Quiet`, `NoLostWakeup`. `Quiet` says that no timer
  exists while a flush is reserved: the reservation cancels it and
  `_schedule_flush_locked` creates none. It is why the flush that ends finds
  `_timer` unset and starts the next one, and why a timer thread that finds the
  sender busy may return without leaving a successor;
- `InFront` = `BatchAtFront`, `Waiting`. `BatchAtFront` says position by position
  what `BatchIsPrefix` says of sequences; the type correctness of
  `finalize_batch`, which writes at a position it computed before an unlock,
  depends on it. `Waiting` says that a flush without a
  snapshot has no batch and that no reserved flush remembers a generation still
  to come, so that a re-initialisation never revives an abandoned batch.

The invariant of the tables adds `Tables` = `Ledger`, `Marks`, `Separate`. `Ledger`:
identities in the queue are distinct, each is charged the bytes of its event,
`_buffer_bytes` is the sum of the charges and the limits hold. `Marks`: bypass
marks and shares of the budget belong to queued events that deserve them, and
until `dispose()` every one that deserves them has them. `Separate` makes these
inductive: an event that a thread still prepares shares its identity with
nothing queued and nothing another thread prepares, so an insertion meets no
old entry. `IdentitiesForgotten` makes the view of the runs sound for every
instance. Sums are those of the community modules; `FiniteSums` derives what
adding, removing and bounding do to them by induction over the subsets of a
finite set, with the induction hypothesis given as a set of subsets.

Two more invariants stand on these.

- `OwnGeneration` needs `Locked`: a thread that offers an event holds the lock, and
  the event, if it is a probe or a summary, is of the present generation; an
  event that is only prepared is of a kind captures make; a flush that admits its
  summaries, which are of the generation it remembers, holds the lock and remembers the
  present one. That is what the second comparison in `flush_sdk` is for
  (`flush_delivery.py:47`). `init()` takes the
  lock, so it never comes in between, and a fork leaves no other thread.
  The hypothesis `PlainHooks` says that a hook turns no other event into a probe
  or a summary. The code does not forbid it, and a hook that relabels a log of the
  previous generation would make the statement false; what is at stake, that the
  SDK itself carries none across, does not depend on hooks.
- `LowCounted` needs `Recounted`. `Claimed` is how much of the queue a flush has as its
  batch: `_inflight_count` while one does, otherwise nothing. `Counts`:
  `_pending_low_priority` is at most the number of low-priority events and 5xx requests
  behind `Claimed` and, with a transport that sends whole batches, at least the number of
  low-priority events there. `Rested`: `_inflight_count` is zero while nobody claims a
  batch, unless a sender was cut off by an `init()`. Every insertion, eviction and
  replacement is shown to move the count and the queue together, and the settlement
  of a flush to count what it puts back.

### 4.2 Remote configuration

Assumptions: `ConfigAssumption`. The invariant adds to the properties what a
thread carries from one locked section to the next (`Carried`): a document it
was sent was granted to its generation, what that document proves is among the
proofs, and the ETag it sent, or the 304 it got,
still has a configuration to refer to. Without it none of `PolicyGranted`, `Grounded` and
`EvidenceProved` survives a late answer. `OneTimer` and `PollingContinues` are inductive
together: a refresh that ends arms the timer it stores.

### 4.3 Scopes

Assumptions: `ScopesAssumption`. An owner is revoked through the value its ContextVar
holds when it ends, so the invariant says where that value leads. `LeasesLinked`
and `OperationsLinked`: a chain starts at its lease and goes on with the chain of
the value it was bound on top of. `LeaseEras`: links stay within a generation.
`Copied`: a task whose variable holds the lease of another task never bound one
that this lease is nested in. `Reached`: unless an owner was bound on top of a
dead one (`Severed`, see section 5), every owner that has not ended is reached from
the variable of the task that bound it. `OperationsKept` says the same of
operations, of those begun since the last fork: a fork restarts their revisions,
so older ones may carry equal numbers, but nothing reaches them any more.

### 4.4 Admission

Assumptions: `BudgetAssumption`, `SuppressionAssumption`, `AdmissionAssumption`.
`Justified` says that a receipt in a live operation stands for an exception queued
since the last `init()`: `init()` and a fork forget what was queued and end every
operation, and an operation never lives again. `SkipsJustified` follows.

`StormInvariant` relates the table of suppressed fingerprints to what has been seen of
each. `Distinct`: one entry per fingerprint, at most `MAX_TRACKED` of them, which with
`Typed` (flags and program counters) is `TypeOK`. For each entry:

- `Windowed`: the captures since the start of its window are those counted. A stretch of
  `DUPLICATE_WINDOW` ticks that began before that start holds one window's worth of
  captures before it, or is over. Hence twice `MAX_NORMAL_EVENTS`, and no less: the
  end of one window and the start of the next may lie together;
- `Looping`: the hits since the start of the loop window are those counted; past the
  threshold, in this window or the one before, the fingerprint loops, and nothing
  after `2 * LOOP_THRESHOLD + 1` occurrences within `LOOP_WINDOW` is captured until the
  entry goes;
- `Spanned`: what is pending lies between `first_seen` and `last_seen`.

For each fingerprint, `Accounted`: captured, reported and pending occurrences are those
seen, or fewer if an entry was thrown away; and without an entry the next
occurrence starts a new history. `should_capture` is taken apart by the lemmas about a moved
entry (`Moved`), a renewed window (`RenewedEntry`), a counted hit (`HitEntry`) and a suppressed
occurrence (`SuppressedNow`).

`BudgetInvariant` says that windows and charges are exact (`Sound`): a window counts
and prices its own events, `_held` is the sum of the charges, the charges are
those of queued events (`LinkedTo`), and all limits hold. It has one lemma per
operation of `DiagnosticCaptureBudget`. The limit on all bytes is kept apart from
exactness, because `replace` passes it for a moment when the hook's id is longer
than the one it replaces.

### 4.5 The relay

Assumptions: `WireAssumption` (sizes are natural numbers, the body limit leaves
room for an envelope) and `RelayAssumption` (constants have their types, requests
are finite). Batches, chunks, answers and threads are of any number and length.

`RelayProofs` proves `Base` = `Typed`, `Acks`, with one lemma per action. `Acks` is
what a thread knows of its events. The chunks before this one, the chunk and what
is left add up to the batch; the acknowledged positions lie in those chunks; the
positions of a first call are exactly those of the chunk, none acknowledged yet;
those of a second call were rejected by the answer to the first. A chunk counts as
canonical only when all its positions are acknowledged, and a file is about to be
marked only when all the batch is. The lemmas under it say what the pure modules
compute: `sanitize_event` and `fit_event` keep the kinds of events, `prefix` and
`AfterPrefix` cut a sequence in two, and a valid acknowledgement accepts no more
events than it leaves unrejected.

`RelaySafetyProofs` first sums a step up by what it may change at each stage of a
request (`StepShape`), so that each further invariant has to look only at the actions
it is about:

- `Rooted`: until the file system fails some request, every thread about to rename has
  its temporary file and nobody is cleaning up. A removal that disturbs another thread
  therefore has a failure before it, and `FailuresRooted` follows;
- `Earnings`: what a thread publishes, and what it is about to send, has been granted.
  The thread that publishes may have read `features` long before; that it wrote only
  what it had in common with them is why a stale value does no harm;
- `Window`: every stamp, in the shared window and in the copy that a thread holds
  between reading and writing back, stands for a request admitted at that time. A
  copy may overwrite newer stamps, so the window is an under-estimate, and a refusal,
  which counts distinct stamps, is still justified;
- `Filed`: each transport serves one service and has counted all files of it, and the
  thread that renames holds its lock, so the name is new and nothing is replaced;
- `Delivery`: a batch is on the disk from its renaming on, as a complete file unless its
  own `os.write` was short, and a marked file's events are all acknowledged.

`Filed`, and with it the last three theorems, needs `OneWriter`: services have
file names of their own, and a service without a transport is asked for by one request
only. The code guarantees neither: it creates transports without a lock, and
`_sanitize_service_name` may map two services to one name. The first is what
`relay_spool` refutes (section 5), so the hypothesis cannot be dropped; the constants
of `relay_durable` satisfy it. The other five theorems do not use it.

For `ContractKept` the mapping sends each step to one of the contract or to none: the
renaming of a file to storing, an answer of the destination that completes the batch to
delivering, the marker to marking, the response to answering, and all others leave
the contract's variables unchanged.

### 4.6 Model-checked only

Liveness is out of the prover's reach: `SenderReleases`, `EventuallyFlushed` and
`Converges` are checked by TLC on the instances of section 3 and nowhere else. The
properties of the runs that expect a violation do not hold of the code in general;
`MarkedOnlyComplete`, one of them, is proved under `OneWriter` (section 4.5). What the operators
of the pure modules compute is proved as far as the invariants rest on it
(the lemmas of the proof modules), not against a reference of its own.

## 5. What the models showed

Four statements of the documentation do not hold of the code.

- `queue_split_tail`. `src/MIGRATION-2.0.md:11`: "Exceptions, ERROR logs, and
  5xx request incidents can displace pending lower-priority events". The
  snapshot sets `_pending_low_priority` to zero for the whole batch
  (`flush_delivery.py:69`). If the HTTP body limit splits the batch, the tail is
  pending again but not counted, so an ERROR log that meets the full queue is
  refused, although `evict_low_priority` would find an event to displace, until
  the send returns.
- `relay_spool`. `src/README.md:102-103`: a durable spool "is marked delivered
  only after a valid complete ACK". Two first requests of a service find the
  table of transports empty and create one each (`relay.py:245-251`). Both
  transports start at sequence number 1 and have locks of their own: within one
  millisecond they write the same file name, the second batch replaces the
  first, and the acknowledgement of the first marks the file that now holds the
  second.
- `relay_wire`. `src/README.md:79-81`: requests "remain within the receiving
  256-KiB limit". `prefix` starts to count at 12 (`ingestion_wire.py:55`), but the
  empty body `{"events":[]}` has 13 bytes. A prefix of exactly one byte too
  much is selected, refused by the transport, and selected again.
- `scopes_severed`. `src/README.md:45-46`: "Completed owners revoke copied async
  context". A new lease is linked to the current one only if that is alive
  (`scope_ownership.py:55`, operations likewise in `operation_context.py`), and `release`
  finds a lease only through these links. Bind contexts 1, 2, 3; release 2, then
  3, so that the dead 2 is current; bind 4; release 1: nothing is found, and a
  task that copied context 1 goes on reading it. `Severed` describes this, and
  `EndedRevoked`, `NewestOwnerRead` and `ProbeAuthorised` hold whenever it has not
  happened.

Further observations:

- A loss counted while the queue is empty and no timer runs (a contended lock,
  `core.py:303`) starts no timer; its summary (`src/MIGRATION-2.0.md:9`) waits for
  the next event that is queued.
- `init()` during a send empties the queue but leaves `_inflight_count`
  (`core.py:213`): until the old send returns, the first events of the new
  queue are treated as if in flight and cannot be displaced. The last conjunct of
  `LowCounted` therefore excepts the time until it returns.
- A 5xx request that meets no pressure is appended and counted as low priority
  (`queue_admission.py:69-75`), although it is high priority elsewhere:
  the upper bound in `LowCounted` has to include these requests, and a capture that
  the count lets through may find nothing to displace.
- `dispose()` forgets the bypass marks and keeps the queue: a `flush()`
  afterwards shows uncaught exceptions to the hook. `BypassKept` is stated for
  an SDK that is not disposed.
- A partially accepted batch counts as a failure if something is retried.
- `prefix()` at `flush_delivery.py:79` runs outside any `try`. It cannot raise
  as long as `fit_event` has bounded each event; if it did, the reservation
  would stay.
- A 200 without ETag keeps the previous ETag (`remote_config_client.py:70`). If
  answers overtake each other, the server goes on confirming, with 304, a
  document that the SDK no longer holds. A timer that fires
  before a second `init()` and reads its inputs after it acts as a first refresh
  of the new generation; if its fetch fails late, it sets the minimal policy
  beside a snapshot that has arrived meanwhile, and 304s keep it there.
  `PolicyGranted` allows this.
- `dispose()` does not change the generation (`core.py:461`): an answer that
  arrives afterwards arms a timer and grants optional evidence again, and
  `_initial_config_ready` may stay unset. `OneTimer` holds all the same (the timer armed
  again is the one the SDK refers to), and `EvidenceProved` says that the evidence was
  proved to this instance.
- `begin_request` reads the snapshot twice without the lock (`core.py:612`); an
  `init()` in between makes the second read fail. In the model the key of the trigger
  token is that of any configuration, or none, as it may have been read long before.
  That `bind_directives` reads generation and revision one after the other, without the
  lock (`scope_ownership.py:65-71`), is one step of the model.
- The 16th nested context reads as none, and what is bound on top of it is
  severed as above. A release in a foreign context raises before anything is
  revoked. An owner in the middle that ends first hides the live owner around
  it until the inner one ends.
- Eviction and the end of a loop throw away counts of suppressed occurrences
  (`suppression.py:39`, `:50`), and so does a flush that drains and is then
  abandoned. `AggregatesTruthful` therefore states exactness only for entries
  that were not thrown away, and that nothing is counted twice for all.
- A hook that gives an exception a new id in every retry registers two failures
  for one reference (`evidence_delivery.py:88-91`), which makes the window
  ambiguous: observations of its recovery are withheld.
- A short `os.write` truncates a spool file unnoticed (`relay_delivery.py:214`), and the
  request is answered as if nothing were missing. `SpoolTruth` excepts exactly such requests from
  the completeness of files, and `RelayContract` counts a truncated file as stored.
- `on_accept` is called after the batch has been stored and forwarded (`relay.py:197`): if it
  raises, the browser gets a 500 for events that are stored. `SpoolTruth` states that they
  are. A browser that repeats the request has them stored twice.
- A failed write removes the temporary files of other threads too, and any of these removals
  may fail. So a request may get a 500 for a failure of another one, and temporary
  files may stay behind for good; `FailuresRooted` states that behind every such 500 there
  is an error of the file system.

## 6. Plan

Modelled: sections 2.1 to 2.5. Left, most important first:

1. Theorems: the weaker promises the relay keeps without `OneWriter` (a finished
   file stays, a marked one exists).
2. `Outbox`, an abstract specification of the queue (a bounded bag of events in
   which only unsent low-priority events disappear and the rest leave through
   an answer), refined by `DeliveryQueue`.
3. The byte budgets of the exception evidence graphs
   (`exception_evidence.py`) and `bounded_retry_after_ms` (`transport.py`), as pure
   operators against a reference.

Not modelled, and not planned: redaction and canonical JSON (pure string
processing), rendering of tracebacks, logging and framework glue, HTTP and file
I/O below the calls the SDK makes, examples, smoke and performance scripts.
They keep no state whose interleavings matter.
