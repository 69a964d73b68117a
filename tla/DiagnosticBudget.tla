---------------------------- MODULE DiagnosticBudget ----------------------------
(***************************************************************************)
(* DiagnosticCaptureBudget (diagnostic_budget.py): the windows of          *)
(* observations per failure reference and scope, and the queued events     *)
(* they are charged for. Every diagnostic the SDK admits is a recovery, so *)
(* the branches for resource observations are left out. Sizes are small    *)
(* numbers; the bytes of a window's metadata grow with its attempts and    *)
(* its failure and shrink by one when `false' becomes `true'.              *)
(***************************************************************************)
EXTENDS Integers, FiniteSets, FiniteSetsExt, Functions

CONSTANTS
    MAX_ACCOUNTED,      \* 65536
    MAX_WINDOWS,        \* 50
    MAX_OBSERVATIONS,   \* 20
    MAX_ATTEMPTS,       \* 5
    OBSERVED_FOR,       \* 300_000 ms, in ticks
    IdBytes(_)          \* the length of an event's id

ASSUME BudgetAssumption ==
    /\ MAX_ACCOUNTED \in Nat /\ MAX_WINDOWS \in Nat /\ MAX_OBSERVATIONS \in Nat
    /\ MAX_ATTEMPTS \in Nat /\ OBSERVED_FOR \in Nat

Window(now) ==
    [starts |-> now, failure_at |-> <<>>, failure_id |-> <<>>, attempts |-> {},
     observations |-> 0, ambiguous |-> FALSE, pending |-> 0, cost |-> 0]

window_cost(w) ==
    1 + Cardinality(w.attempts) + Cardinality(DOMAIN w.failure_id) + (IF w.ambiguous THEN 0 ELSE 1)

Priced(w) == [w EXCEPT !.cost = window_cost(w)]

EmptyBudget == [windows |-> <<>>, pending |-> <<>>, held |-> 0]

With(f, x, v) == [y \in DOMAIN f \cup {x} |-> IF y = x THEN v ELSE f[y]]

Get(f, x) == IF x \in DOMAIN f THEN <<f[x]>> ELSE <<>>

(* What the entries of a table cost.                                       *)
Costs(table) == [x \in DOMAIN table |-> table[x].cost]

accounted_bytes(b) == b.held + SumFunction(Costs(b.windows))

(* What is accounted for once the window of a key is replaced by w.        *)
AccountedWith(b, key, w) == accounted_bytes([b EXCEPT !.windows = With(@, key, w)])

\* Mutant: a window is dropped while events are charged to it.
prune_charged(b, now) ==
    [b EXCEPT !.windows = Restrict(@, {k \in DOMAIN @ : now < @[k].starts + OBSERVED_FOR})]

prune(b, now) ==
    [b EXCEPT !.windows =
        Restrict(@, {k \in DOMAIN @ : @[k].pending > 0 \/ now < @[k].starts + OBSERVED_FOR})]

register_failure(budget, key, id, at) ==
    LET b == prune(budget, at)
        previous == Get(b.windows, key)
        base == IF previous = <<>> THEN Window(at) ELSE previous[1]
        value == Priced([base EXCEPT !.failure_id = <<id>>,
                                     !.failure_at = IF @ = <<>> THEN <<at>> ELSE @])
    IN  IF previous # <<>> /\ base.failure_id \notin {<<>>, <<id>>}
        THEN [b EXCEPT !.windows = With(@, key, Priced([base EXCEPT !.ambiguous = TRUE]))]
        ELSE IF \/ previous = <<>> /\ Cardinality(DOMAIN b.windows) >= MAX_WINDOWS
                \/ AccountedWith(b, key, value) > MAX_ACCOUNTED
        THEN b
        ELSE [b EXCEPT !.windows = With(@, key, value)]

Refused(b) == [ok |-> FALSE, budget |-> b]

reserve(budget, id, observation, size, now) ==
    LET b == prune(budget, now)
        key == observation.key
        previous == Get(b.windows, key)
        base == IF previous = <<>> THEN Window(now) ELSE previous[1]
        since == IF base.failure_at = <<>> THEN base.starts ELSE base.failure_at[1]
        value == Priced([base EXCEPT !.attempts = @ \cup {observation.attempt},
                                     !.pending = @ + 1, !.observations = @ + 1])
        cost == size + IdBytes(id) + 1
        charged == [b EXCEPT !.windows = With(@, key, value), !.held = @ + cost,
                             !.pending = With(@, id, [scope |-> key, attempt |-> observation.attempt,
                                                      size |-> size, cost |-> cost])]
    IN  IF id \in DOMAIN budget.pending THEN Refused(budget)
        ELSE IF \/ previous = <<>> /\ Cardinality(DOMAIN b.windows) >= MAX_WINDOWS
                \/ base.ambiguous
                \/ now < base.starts \/ now > since + OBSERVED_FOR
                \/ base.observations >= MAX_OBSERVATIONS
                \/ Cardinality(value.attempts) > MAX_ATTEMPTS
                \/ AccountedWith(b, key, value) + cost > MAX_ACCOUNTED
        THEN Refused(b)
        ELSE [ok |-> TRUE, budget |-> charged]

release(b, ids) ==
    LET gone == ids \cap DOMAIN b.pending
        Of(k) == Cardinality({e \in gone : b.pending[e].scope = k})
        Left(k) == IF b.windows[k].pending > Of(k) THEN b.windows[k].pending - Of(k) ELSE 0
    IN  [windows |-> [k \in DOMAIN b.windows |->
             IF Of(k) = 0 THEN b.windows[k] ELSE Priced([b.windows[k] EXCEPT !.pending = Left(k)])],
         pending |-> Restrict(b.pending, DOMAIN b.pending \ gone),
         held |-> b.held - SumFunction(Costs(Restrict(b.pending, gone)))]

retain(b, ids) == release(b, DOMAIN b.pending \ ids)

adjust(b, id, size) ==
    LET entry == b.pending[id]
        delta == size - entry.size
        resized == [entry EXCEPT !.size = size, !.cost = @ + delta]
    IN  IF id \notin DOMAIN b.pending \/ accounted_bytes(b) + delta > MAX_ACCOUNTED
        THEN Refused(b)
        ELSE [ok |-> TRUE, budget |-> [b EXCEPT !.held = @ + delta, !.pending = With(@, id, resized)]]

eligible(b, id, observation) ==
    /\ id \in DOMAIN b.pending /\ b.pending[id].scope = observation.key
    /\ observation.key \in DOMAIN b.windows /\ ~b.windows[observation.key].ambiguous

(* The entry moves to the id the hook gave the event.                      *)
Renamed(b, original, id) ==
    LET delta == IdBytes(id) - IdBytes(original)
        entry == [b.pending[original] EXCEPT !.cost = @ + delta]
    IN  [b EXCEPT !.pending = With(Restrict(@, DOMAIN @ \ {original}), id, entry), !.held = @ + delta]

replace(b, original, id, observation, size, now) ==
    LET entry == Get(b.pending, original)
        same == entry # <<>> /\ entry[1].scope = observation.key /\ entry[1].attempt = observation.attempt
        renamed == IF id = original THEN b ELSE Renamed(b, original, id)
        adjusted == adjust(renamed, id, size)
    IN  IF ~same THEN reserve(release(b, {original}), id, observation, size, now)
        ELSE IF id # original /\ id \in DOMAIN b.pending THEN Refused(release(b, {original}))
        ELSE IF adjusted.ok /\ eligible(adjusted.budget, id, observation) THEN adjusted
        ELSE Refused(release(adjusted.budget, {id}))
=============================================================================
