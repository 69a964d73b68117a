------------------------------ MODULE Suppression ------------------------------
(***************************************************************************)
(* The tracker of repeated exceptions (suppression.py). A tracker is the   *)
(* sequence of its entries, the least recently seen first, as the          *)
(* OrderedDict keeps them; a fingerprint stands for the hash of its key.   *)
(***************************************************************************)
EXTENDS Integers, SequencesExt

CONSTANTS
    DUPLICATE_WINDOW,   \* DUPLICATE_WINDOW_SECONDS, in ticks
    LOOP_WINDOW,        \* LOOP_WINDOW_SECONDS
    LOOP_THRESHOLD,
    LOOP_RESET_AFTER,   \* LOOP_RESET_AFTER_SECONDS
    LOOP_CHECKPOINT,    \* LOOP_CHECKPOINT_SECONDS
    MAX_NORMAL_EVENTS,  \* MAX_NORMAL_EVENTS_PER_WINDOW
    MAX_TRACKED         \* MAX_TRACKED_FINGERPRINTS

ASSUME SuppressionAssumption ==
    /\ DUPLICATE_WINDOW \in Nat \ {0} /\ LOOP_WINDOW \in Nat \ {0} /\ LOOP_THRESHOLD \in Nat
    /\ LOOP_RESET_AFTER \in Nat /\ LOOP_CHECKPOINT \in Nat
    /\ MAX_NORMAL_EVENTS \in Nat \ {0} /\ MAX_TRACKED \in Nat \ {0}

SuppressionState(key, now) ==
    [key |-> key, window_started_at |-> now, emitted_count |-> 0, pending |-> 0,
     first_seen |-> <<>>, last_seen |-> <<>>, aggregated_at |-> <<>>,
     loop_window_started_at |-> now, loop_hit_count |-> 0, suppression_mode |-> FALSE,
     last_seen_at |-> now]

mark_suppressed(state, now) ==
    [state EXCEPT !.first_seen = IF state.pending = 0 THEN <<state.window_started_at>> ELSE @,
                  !.pending = @ + 1, !.last_seen = <<now>>]

\* Mutant: the table of fingerprints grows without a limit.
Tracked_unlimited(tracker, key, now) ==
    LET places == {i \in DOMAIN tracker : tracker[i].key = key}
        place == CHOOSE i \in places : TRUE
    IN  IF places # {} THEN Append(RemoveAt(tracker, place), tracker[place])
        ELSE Append(tracker, SuppressionState(key, now))

(* The entry of a key becomes the newest; a full table forgets its oldest. *)
Tracked(tracker, key, now) ==
    LET places == {i \in DOMAIN tracker : tracker[i].key = key}
        place == CHOOSE i \in places : TRUE
    IN  IF places # {} THEN Append(RemoveAt(tracker, place), tracker[place])
        ELSE Append(IF Len(tracker) >= MAX_TRACKED THEN Tail(tracker) ELSE tracker,
                    SuppressionState(key, now))

(* A loop that has been quiet long enough starts afresh.                   *)
LoopOver(state, now) == state.suppression_mode /\ now - state.last_seen_at >= LOOP_RESET_AFTER

\* Mutant: the window of duplicates is renewed together with the one of loops.
Renewed_together(state, now) ==
    LET s == IF LoopOver(state, now) THEN SuppressionState(state.key, now) ELSE state
    IN  IF now - s.loop_window_started_at >= LOOP_WINDOW
        THEN [s EXCEPT !.window_started_at = now, !.emitted_count = 0,
                       !.loop_window_started_at = now, !.loop_hit_count = 0]
        ELSE s

Renewed(state, now) ==
    LET s == IF LoopOver(state, now) THEN SuppressionState(state.key, now) ELSE state
        w == IF now - s.window_started_at >= DUPLICATE_WINDOW
             THEN [s EXCEPT !.window_started_at = now, !.emitted_count = 0] ELSE s
    IN  IF now - w.loop_window_started_at >= LOOP_WINDOW
        THEN [w EXCEPT !.loop_window_started_at = now, !.loop_hit_count = 0] ELSE w

should_capture(tracker, key, now) ==
    LET moved == Tracked(tracker, key, now)
        s == Renewed(Last(moved), now)
        hit == [s EXCEPT !.loop_hit_count = @ + 1, !.last_seen_at = now,
                         !.suppression_mode = @ \/ s.loop_hit_count + 1 > LOOP_THRESHOLD]
        capture == ~hit.suppression_mode /\ hit.emitted_count < MAX_NORMAL_EVENTS
        final == IF capture THEN [hit EXCEPT !.emitted_count = @ + 1] ELSE mark_suppressed(hit, now)
    IN  [capture |-> capture, tracker |-> Append(Front(moved), final)]

(* Entries with something to report; a loop reports at checkpoints only.   *)
Reportable(s, now) ==
    /\ s.pending > 0
    /\ ~ /\ s.suppression_mode /\ s.aggregated_at # <<>>
         /\ now - s.aggregated_at[1] < LOOP_CHECKPOINT

\* Mutant: a loop's count is reported and kept.
drain_aggregates_keeping(tracker, now) ==
    [aggregates |-> {s \in ToSet(tracker) : Reportable(s, now)},
     tracker |-> [i \in DOMAIN tracker |->
         IF ~Reportable(tracker[i], now) THEN tracker[i]
         ELSE IF tracker[i].suppression_mode THEN [tracker[i] EXCEPT !.aggregated_at = <<now>>]
         ELSE [tracker[i] EXCEPT !.pending = 0, !.first_seen = <<>>, !.last_seen = <<>>,
                                 !.aggregated_at = <<now>>]]]

drain_aggregates(tracker, now) ==
    [aggregates |-> {s \in ToSet(tracker) : Reportable(s, now)},
     tracker |-> [i \in DOMAIN tracker |->
         IF Reportable(tracker[i], now)
         THEN [tracker[i] EXCEPT !.pending = 0, !.first_seen = <<>>, !.last_seen = <<>>,
                                 !.aggregated_at = <<now>>]
         ELSE tracker[i]]]
=============================================================================
