---------------------------- MODULE RelayProofs ----------------------------
(***************************************************************************)
(* Proofs about Relay, for any finite number of requests, any inputs,      *)
(* limits, answers of the destination and failures of the file system.     *)
(***************************************************************************)
EXTENDS Relay, FiniteSums

-----------------------------------------------------------------------------
(* Pure parts.                                                             *)

(* Events that screening lets through: only exceptions have optional parts.*)
Sanitized == {e \in Event : HasOptional(e) => e.type = "frontend_exception"}

(* Nothing, or one event that was let through.                             *)
AtMostOne == {<<>>} \cup {<<e>> : e \in Sanitized}

(* The optional parts of an event need no more than some features.         *)
Backed(e, set) ==
    /\ e.graph \/ e.execution => "exception_evidence_v1" \in set
    /\ e.resources => "resource_observations_v1" \in set

(* An enumeration of a finite set names each member once.                  *)
LEMMA Enumerated ==
    ASSUME NEW S, IsFiniteSet(S)
    PROVE  /\ SetToSeq(S) \in [1 .. Cardinality(S) -> S] /\ SetToSeq(S) \in Seq(S)
           /\ Len(SetToSeq(S)) = Cardinality(S) /\ Cardinality(S) \in Nat
           /\ \A i, j \in 1 .. Cardinality(S) : SetToSeq(S)[i] = SetToSeq(S)[j] => i = j
           /\ \A x \in S : \E i \in 1 .. Cardinality(S) : SetToSeq(S)[i] = x
<1>. DEFINE n == Cardinality(S)
            D == 1 .. n
            f == SetToSeq(S)
<1>1. n \in Nat /\ ExistsBijection(D, S)
  BY FS_CardinalityType
<1>2. \E g \in [D -> S] : IsInjective(g)
  <2>1. PICK g \in Bijection(D, S) : TRUE
    BY <1>1 DEF ExistsBijection
  <2>2. g \in [D -> S] /\ \A i, j \in D : g[i] = g[j] => i = j
    BY <2>1 DEF Bijection, Injection, IsInjective
  <2>. QED BY <2>2 DEF IsInjective
<1>3. f \in [D -> S] /\ IsInjective(f)
  <2>1. f = CHOOSE g \in [D -> S] : IsInjective(g)
    BY DEF SetToSeq
  <2>. HIDE DEF f
  <2>. QED BY <2>1, <1>2
<1>. HIDE DEF f
<1>4. f \in Injection(D, S)
  BY <1>3 DEF Injection, IsInjective
<1>5. IsFiniteSet(D) /\ Cardinality(D) = n
  BY <1>1, FS_Interval
<1>6. f \in Surjection(D, S)
  BY <1>4, <1>5, FS_Injection
<1>7. \A x \in S : \E i \in D : f[i] = x
  BY <1>6 DEF Surjection
<1>8. \A i, j \in D : f[i] = f[j] => i = j
  BY <1>3 DEF IsInjective
<1>9. f \in Seq(S) /\ Len(f) = n
  BY <1>1, <1>3
<1>. QED BY <1>1, <1>3, <1>7, <1>8, <1>9 DEF f

(* prefix selects events from the front, and AfterPrefix leaves the rest.  *)
LEMMA PrefixCuts ==
    ASSUME NEW S, NEW events \in Seq(S)
    PROVE  /\ PrefixLength(events) \in 0 .. Len(events) /\ PrefixLength(events) \in Nat
           /\ prefix(events) \in Seq(S) /\ Len(prefix(events)) = PrefixLength(events)
           /\ DOMAIN prefix(events) = 1 .. PrefixLength(events)
           /\ AfterPrefix(events) \in Seq(S)
           /\ Len(AfterPrefix(events)) = Len(events) - PrefixLength(events)
<1>. DEFINE n == PrefixLength(events)
            over == {m \in 1 .. Len(events) :
                        CountedBytes + JoinedBytes(SubSeq(events, 1, m)) > MaxBodyBytes}
<1>0. Len(events) \in Nat
  OBVIOUS
<1>1. n = IF over = {} THEN Len(events) ELSE Min(over) - 1
  BY Zenon DEF PrefixLength
<1>2. over \subseteq 1 .. Len(events)
  OBVIOUS
<1>. HIDE DEF over, n
<1>3. over # {} => Min(over) \in over
  <2>. SUFFICES ASSUME over # {} PROVE Min(over) \in over
    OBVIOUS
  <2>1. over \in SUBSET Nat
    BY <1>0, <1>2
  <2>2. \E m \in over : \A k \in over : m <= k
    BY <2>1, LeastNatural
  <2>. QED BY <2>2 DEF Min
<1>4. n \in 0 .. Len(events)
  <2>1. CASE over = {}
    BY <2>1, <1>0, <1>1
  <2>2. CASE over # {}
    <3>. DEFINE m == Min(over)
    <3>1. n = m - 1 /\ m \in 1 .. Len(events)
      BY <2>2, <1>1, <1>2, <1>3
    <3>. HIDE DEF m
    <3>. QED BY <3>1, <1>0
  <2>. QED BY <2>1, <2>2
<1>5. /\ SubSeq(events, 1, n) \in Seq(S) /\ Len(SubSeq(events, 1, n)) = n
      /\ DOMAIN SubSeq(events, 1, n) = 1 .. n
  BY <1>4
<1>6. /\ SubSeq(events, n + 1, Len(events)) \in Seq(S)
      /\ Len(SubSeq(events, n + 1, Len(events))) = Len(events) - n
  BY <1>4
<1>7. n \in Nat
  BY <1>4
<1>. QED BY <1>4, <1>5, <1>6, <1>7 DEF n, prefix, AfterPrefix

(* Removing optional parts of an event leaves one that was let through.    *)
LEMMA Stripping ==
    ASSUME NEW e \in Sanitized, NEW set
    PROVE  /\ strip_unsupported(e, set) \in AtMostOne
           /\ strip_unsupported(e, set) # <<>> => Backed(strip_unsupported(e, set)[1], set)
<1>1. e \in Event /\ (HasOptional(e) => e.type = "frontend_exception")
  BY DEF Sanitized
<1>2. CASE e.type = "diagnostic_context"
  <2>1. strip_unsupported(e, set) \in {<<>>, <<e>>}
    BY <1>2 DEF strip_unsupported
  <2>2. ~HasOptional(e)
    BY <1>1, <1>2
  <2>3. Backed(e, set)
    BY <2>2 DEF Backed, HasOptional
  <2>. QED BY <2>1, <2>3 DEF AtMostOne
<1>3. CASE e.type # "diagnostic_context"
  <2>. DEFINE x == [e EXCEPT !.graph = @ /\ "exception_evidence_v1" \in set,
                             !.execution = @ /\ "exception_evidence_v1" \in set,
                             !.resources = @ /\ "resource_observations_v1" \in set,
                             !.reference = @ /\ {"resource_observations_v1", "recovery_v1"} \cap set # {}]
  <2>1. strip_unsupported(e, set) = <<x>>
    BY <1>3 DEF strip_unsupported
  <2>2. x \in Event /\ x.type = e.type /\ (x.graph => e.graph) /\ (x.execution => e.execution)
        /\ (x.resources => e.resources) /\ Backed(x, set)
    BY <1>1 DEF Event, Backed
  <2>. HIDE DEF x
  <2>3. x \in Sanitized
    BY <1>1, <2>2 DEF Sanitized, HasOptional
  <2>. QED BY <2>1, <2>2, <2>3 DEF AtMostOne
<1>. QED BY <1>2, <1>3

(* So does dropping all of them, and so do the token and the note.         *)
LEMMA Reducing ==
    ASSUME NEW e \in Sanitized, NEW b \in BOOLEAN
    PROVE  /\ WithoutFields(e) \in Sanitized /\ without_optional(e) \in AtMostOne
           /\ [e EXCEPT !.token = b] \in Sanitized /\ [e EXCEPT !.limits = b] \in Sanitized
           /\ [e EXCEPT !.reference = b] \in Sanitized
<1>1. WithoutFields(e) \in Sanitized
  BY DEF Sanitized, Event, HasOptional, WithoutFields
<1>2. [e EXCEPT !.token = b] \in Sanitized
  BY DEF Sanitized, Event, HasOptional
<1>3. [e EXCEPT !.limits = b] \in Sanitized /\ [e EXCEPT !.reference = b] \in Sanitized
  BY DEF Sanitized, Event, HasOptional
<1>4. without_optional(e) \in AtMostOne
  BY <1>1 DEF without_optional, AtMostOne
<1>. QED BY <1>1, <1>2, <1>3, <1>4

(* fit_event returns one of its candidates.                                *)
LEMMA Fitting ==
    ASSUME NEW e \in Sanitized
    PROVE  fit_event(e) \in AtMostOne
<1>. DEFINE reduced == IF without_optional(e) # <<>> THEN WithoutFields(e) ELSE e
            one == IF without_optional(e) # <<>>
                   THEN <<[reduced EXCEPT !.limits = TRUE], reduced>> ELSE <<>>
            two == IF e.reference THEN <<[reduced EXCEPT !.reference = FALSE]>> ELSE <<>>
            candidates == <<e>> \o one \o two
            fitting == {i \in DOMAIN candidates : event_bytes(candidates[i]) <= MAX_EVENT_BYTES}
<1>1. fit_event(e) = IF fitting = {} THEN <<>> ELSE <<candidates[Min(fitting)]>>
  BY Zenon DEF fit_event
<1>2. reduced \in Sanitized
  BY Reducing
<1>. HIDE DEF reduced
<1>3. one \in Seq(Sanitized) /\ two \in Seq(Sanitized)
  <2>1. [reduced EXCEPT !.limits = TRUE] \in Sanitized /\ [reduced EXCEPT !.reference = FALSE] \in Sanitized
    BY <1>2, Reducing
  <2>. QED BY <1>2, <2>1
<1>. HIDE DEF one, two
<1>4. candidates \in Seq(Sanitized)
  BY <1>3
<1>. HIDE DEF candidates
<1>5. fitting \in SUBSET Nat /\ \A i \in fitting : candidates[i] \in Sanitized
  BY <1>4
<1>. HIDE DEF fitting
<1>6. fitting # {} => Min(fitting) \in fitting
  <2>. SUFFICES ASSUME fitting # {} PROVE Min(fitting) \in fitting
    OBVIOUS
  <2>1. \E m \in fitting : \A k \in fitting : m <= k
    BY <1>5, LeastNatural
  <2>. QED BY <2>1 DEF Min
<1>. QED BY <1>1, <1>5, <1>6 DEF AtMostOne

(* What screening makes of a candidate: one event, or an error.            *)
LEMMA Screening ==
    ASSUME NEW c \in Candidates
    PROVE  Screened(c) \in AtMostOne
<1>. DEFINE e == c.event
            clean == IF c.event.type \in ACCEPTED_EVENT_TYPES THEN sanitize_event(c) ELSE <<>>
            known == IF clean = <<>> \/ clean[1].type = "analytics_event" THEN clean
                     ELSE strip_unsupported(clean[1], features)
<1>0. Screened(c) = IF known = <<>> \/ ~Forwarder THEN known ELSE prepare_event(known[1])
  BY Zenon DEF Screened
<1>1. sanitize_event(c) \in AtMostOne
  <2>1. /\ e \in Event
        /\ HasOptional(e) => \/ e.type = "frontend_exception"
                             \/ c.flaw = "optional" /\ e.type # "analytics_event"
    BY DEF Candidates
  <2>2. sanitize_event(c) \in {<<>>, <<e>>} \/ (c.flaw = "optional" /\ sanitize_event(c) = without_optional(e))
    BY Zenon DEF sanitize_event
  <2>3. CASE c.flaw = "optional"
    <3>1. sanitize_event(c) = without_optional(e)
      BY <2>3 DEF sanitize_event
    <3>2. WithoutFields(e) \in Sanitized
      BY <2>1 DEF Sanitized, Event, HasOptional, WithoutFields
    <3>. QED BY <3>1, <3>2 DEF without_optional, AtMostOne
  <2>4. CASE c.flaw # "optional"
    <3>1. e \in Sanitized
      BY <2>1, <2>4 DEF Sanitized
    <3>. QED BY <3>1, <2>2, <2>4 DEF AtMostOne
  <2>. QED BY <2>3, <2>4
<1>2. clean \in AtMostOne
  BY <1>1 DEF AtMostOne
<1>. HIDE DEF clean
<1>3. clean # <<>> => clean[1] \in Sanitized
  BY <1>2 DEF AtMostOne
<1>4. known \in AtMostOne
  BY <1>2, <1>3, Stripping
<1>. HIDE DEF known
<1>5. known # <<>> => known[1] \in Sanitized
  BY <1>4 DEF AtMostOne
<1>6. ASSUME NEW x \in Sanitized PROVE prepare_event(x) \in AtMostOne
  <2>. DEFINE owned == [x EXCEPT !.token = TRUE]
              reduced == IF x.type = "analytics_event"
                         THEN IF event_bytes(owned) <= MAX_EVENT_BYTES THEN <<owned>> ELSE <<>>
                         ELSE fit_event(owned)
  <2>1. prepare_event(x) = [i \in DOMAIN reduced |-> [reduced[i] EXCEPT !.token = FALSE]]
    BY Zenon DEF prepare_event
  <2>2. owned \in Sanitized
    BY Reducing
  <2>. HIDE DEF owned
  <2>3. reduced \in AtMostOne
    BY <2>2, Fitting DEF AtMostOne
  <2>. HIDE DEF reduced
  <2>4. CASE reduced = <<>>
    BY <2>1, <2>4 DEF AtMostOne
  <2>5. CASE reduced # <<>>
    <3>1. PICK y \in Sanitized : reduced = <<y>>
      BY <2>3, <2>5 DEF AtMostOne
    <3>. DEFINE z == [y EXCEPT !.token = FALSE]
    <3>2. z \in Sanitized
      BY Reducing
    <3>3. prepare_event(x) = <<z>>
      <4>1. DOMAIN reduced = {1} /\ reduced[1] = y
        BY <3>1
      <4>2. prepare_event(x) = [i \in {1} |-> z]
        BY <2>1, <4>1
      <4>. HIDE DEF z
      <4>. QED BY <4>2
    <3>. QED BY <3>2, <3>3 DEF AtMostOne
  <2>. QED BY <2>4, <2>5
<1>. QED BY <1>0, <1>4, <1>5, <1>6

-----------------------------------------------------------------------------
(* Acknowledgements.                                                       *)

(* Positions in a batch of the events that an acknowledgement rejects.     *)
Rejected(ack) == {e.index + 1 : e \in ack.retryable_indices \cup ack.terminal_errors}

(* What an answer to n events says: each is rejected or counted, and an    *)
(* answer that is no acknowledgement says nothing.                         *)
Verdicts(ack, n) ==
    /\ ack.kind \in {"acknowledged", "legacy", "protocol_failure"} /\ ack.accepted \in Nat
    /\ \A e \in ack.retryable_indices \cup ack.terminal_errors : e.index \in 0 .. n - 1
    /\ IsFiniteSet(Rejected(ack)) /\ Rejected(ack) \subseteq 1 .. n
    /\ ack.accepted + Cardinality(Rejected(ack)) <= n
    /\ ack.kind # "acknowledged" => Rejected(ack) = {}

(* The errors of an answer are a sequence with a number in each.           *)
LEMMA BodyErrors ==
    ASSUME NEW n \in Nat, NEW body \in Bodies(n), body.keys
    PROVE  /\ body.accepted \in Int /\ body.rejected \in Int
           /\ \E S : body.errors \in Seq(S)
<1>1. CASE body = [keys |-> FALSE]
  BY <1>1
<1>2. CASE body = [keys |-> TRUE, accepted |-> n, rejected |-> 1, errors |-> <<>>]
  <2>1. body.errors \in Seq({}) /\ body.accepted = n /\ body.rejected = 1
    BY <1>2
  <2>. QED BY <2>1
<1>3. ASSUME NEW bad \in SUBSET (0 .. n - 1), NEW why \in Reasons,
             body = Judged(n, bad, why)
      PROVE  /\ body.accepted \in Int /\ body.rejected \in Int
             /\ \E S : body.errors \in Seq(S)
  <2>. DEFINE S == {[index |-> i, reason |-> why] : i \in bad}
              f == [i \in bad |-> [index |-> i, reason |-> why]]
  <2>1. IsFiniteSet(bad) /\ Cardinality(bad) \in Nat
    <3>1. IsFiniteSet(0 .. n - 1)
      BY FS_Interval
    <3>. QED BY <3>1, FS_Subset, FS_CardinalityType
  <2>2. f \in Surjection(bad, S)
    BY DEF Surjection
  <2>3. IsFiniteSet(S)
    BY <2>1, <2>2, FS_Surjection
  <2>4. body.accepted = n - Cardinality(bad) /\ body.rejected = Cardinality(bad)
        /\ body.errors = SetToSeq(S)
    BY <1>3 DEF Judged
  <2>. HIDE DEF S
  <2>. QED BY <2>1, <2>3, <2>4, Enumerated
<1>4. \/ body = [keys |-> FALSE]
      \/ body = [keys |-> TRUE, accepted |-> n, rejected |-> 1, errors |-> <<>>]
      \/ \E bad \in SUBSET (0 .. n - 1), why \in Reasons : body = Judged(n, bad, why)
  BY DEF Bodies
<1>. QED BY <1>1, <1>2, <1>3, <1>4, Zenon

(* decide_acknowledgement lets through only answers that add up.           *)
LEMMA Deciding ==
    ASSUME NEW n \in Nat, NEW body \in Bodies(n), NEW required, NEW ack,
           ack = decide_acknowledgement(body, n, required)
    PROVE  Verdicts(ack, n)
<1>1. CASE \E kind \in {"legacy", "protocol_failure"} : ack = NotAcknowledged(kind)
  <2>1. /\ ack.kind \in {"legacy", "protocol_failure"} /\ ack.accepted = 0
        /\ ack.retryable_indices = {} /\ ack.terminal_errors = {}
    BY <1>1 DEF NotAcknowledged
  <2>2. Rejected(ack) = {}
    BY <2>1 DEF Rejected
  <2>. QED BY <2>1, <2>2, FS_EmptySet DEF Verdicts
<1>2. CASE /\ body.keys /\ Consistent(body, n) /\ ValidErrors(body.errors, n)
           /\ ack = [kind |-> "acknowledged", accepted |-> body.accepted,
                     retryable_indices |-> {e \in ToSet(body.errors) : e.reason \in RETRYABLE_REASONS},
                     terminal_errors |-> {e \in ToSet(body.errors) : e.reason \notin RETRYABLE_REASONS}]
  <2>1. PICK S : body.errors \in Seq(S)
    BY <1>2, BodyErrors
  <2>. DEFINE errors == body.errors
              D == 1 .. Len(errors)
              f == [i \in D |-> errors[i].index + 1]
  <2>2. Len(errors) \in Nat /\ DOMAIN errors = D
    BY <2>1
  <2>3. /\ body.accepted \in Nat /\ body.accepted + Len(errors) = n
        /\ \A i \in D : errors[i].index \in 0 .. n - 1
    <3>1. body.accepted \in Int /\ body.rejected \in Int
      BY <1>2, BodyErrors
    <3>2. /\ body.accepted >= 0 /\ body.accepted + body.rejected = n /\ Len(errors) = body.rejected
          /\ \A i \in DOMAIN errors : errors[i].index \in 0 .. n - 1
      BY <1>2, Zenon DEF Consistent, ValidErrors, is_count
    <3>. HIDE DEF errors
    <3>3. body.accepted \in Nat /\ body.accepted + Len(errors) = n
      BY <3>1, <3>2
    <3>. QED BY <3>2, <3>3, <2>2
  <2>4. /\ ack.kind = "acknowledged" /\ ack.accepted = body.accepted
        /\ ack.retryable_indices \cup ack.terminal_errors = {errors[i] : i \in D}
    <3>1. ToSet(errors) = {errors[i] : i \in D}
      BY <2>2 DEF ToSet
    <3>. QED BY <1>2, <3>1
  <2>. HIDE DEF errors
  <2>5. Rejected(ack) = {errors[i].index + 1 : i \in D}
    BY <2>4, Zenon DEF Rejected
  <2>6. f \in Surjection(D, Rejected(ack))
    BY <2>5 DEF Surjection
  <2>7. IsFiniteSet(D) /\ Cardinality(D) = Len(errors)
    <3>. DEFINE m == Len(errors)
    <3>. HIDE DEF m
    <3>1. m \in Nat => IsFiniteSet(1 .. m) /\ Cardinality(1 .. m) = m
      BY FS_Interval
    <3>. QED BY <3>1, <2>2 DEF m
  <2>8. IsFiniteSet(Rejected(ack)) /\ Cardinality(Rejected(ack)) <= Len(errors)
    BY <2>6, <2>7, FS_Surjection
  <2>9. Cardinality(Rejected(ack)) \in Nat
    BY <2>8, FS_CardinalityType
  <2>10. Rejected(ack) \subseteq 1 .. n
    <3>. SUFFICES ASSUME NEW i \in D PROVE errors[i].index + 1 \in 1 .. n
      BY <2>5
    <3>. QED BY <2>3
  <2>11. \A e \in ack.retryable_indices \cup ack.terminal_errors : e.index \in 0 .. n - 1
    BY <2>3, <2>4
  <2>12. ack.accepted + Cardinality(Rejected(ack)) <= n
    BY <2>2, <2>3, <2>4, <2>8, <2>9
  <2>. QED BY <2>3, <2>4, <2>8, <2>10, <2>11, <2>12 DEF Verdicts
<1>. QED BY <1>1, <1>2, Zenon DEF decide_acknowledgement

(* The events that an acknowledgement accepts are those it does not reject.*)
LEMMA Accepting ==
    ASSUME NEW n \in Nat, NEW ack, Verdicts(ack, n), NEW where \in [1 .. n -> Nat]
    PROVE  AcceptedAt(where, ack) =
               IF ack.kind = "acknowledged" THEN {where[i] : i \in (1 .. n) \ Rejected(ack)} ELSE {}
<1>. DEFINE errors == ack.retryable_indices \cup ack.terminal_errors
<1>1. \A e \in errors : e.index \in 0 .. n - 1
  BY DEF Verdicts
<1>2. \A j \in 1 .. n : (\A e \in errors : e.index # j - 1) <=> j \notin Rejected(ack)
  <2>. TAKE j \in 1 .. n
  <2>1. \A e \in errors : e.index # j - 1 <=> e.index + 1 # j
    BY <1>1
  <2>2. j \notin Rejected(ack) <=> \A e \in errors : e.index + 1 # j
    BY Zenon DEF Rejected
  <2>. HIDE DEF errors
  <2>. QED BY <2>1, <2>2
<1>3. AcceptedAt(where, ack) =
          IF ack.kind = "acknowledged"
          THEN {where[i] : i \in {j \in DOMAIN where : \A e \in errors : e.index # j - 1}} ELSE {}
  BY Zenon DEF AcceptedAt
<1>. HIDE DEF errors
<1>4. {j \in DOMAIN where : \A e \in errors : e.index # j - 1} = (1 .. n) \ Rejected(ack)
  BY <1>2
<1>. QED BY <1>3, <1>4

(* What is sent again was rejected.                                        *)
LEMMA Retrying ==
    ASSUME NEW n, NEW ack, Verdicts(ack, n), NEW batch, NEW supported
    PROVE  /\ Retries(batch, ack.terminal_errors, supported) \subseteq Rejected(ack)
           /\ IsFiniteSet(Retries(batch, ack.terminal_errors, supported))
<1>. DEFINE R == Retries(batch, ack.terminal_errors, supported)
<1>1. R \subseteq Rejected(ack)
  BY DEF Retries, Rejected
<1>. HIDE DEF R
<1>2. IsFiniteSet(R)
  BY <1>1, FS_Subset DEF Verdicts
<1>. QED BY <1>1, <1>2 DEF R

-----------------------------------------------------------------------------
(* Types.                                                                  *)

Stages ==
    {"arrive", "rate", "store", "screen", "lookup", "create", "write", "replace", "cleanup",
     "forward", "chunk", "send", "merge", "publish", "mark", "accept", "done"}

Statuses == {0, 202, 204, 400, 403, 405, 413, 429, 500}

Outcomes == {"none", "ok", "short", "open", "write", "replace"}

Stamp == [by: Requests, at: 0 .. MaxTime]

Path == Nat \X Nat \X STRING

LocalType ==
    [pc: Stages, input: Posts \cup {<<>>}, at: 0 .. MaxTime, limited: BOOLEAN,
     stamps: SUBSET Stamp, index: Nat, events: Seq(Sanitized), rejected: Nat,
     writer: Nat, path: Path \cup {<<>>}, wrote: Outcomes, complete: BOOLEAN,
     acked: SUBSET Nat, raised: BOOLEAN, status: Statuses]

AttemptType ==
    [left: Seq(Sanitized), sent: Nat, batch: Seq(Sanitized), where: Seq(Nat), again: BOOLEAN,
     taken: Nat, mine: SUBSET FEATURES, ok: BOOLEAN, canonical: BOOLEAN]

WriterType == [lock: {"free"} \cup Requests, sequence: Nat]

SharedTyped ==
    /\ handler \in Handlers
    /\ now \in 0 .. MaxTime /\ rate_limit_state \subseteq Stamp
    /\ features \subseteq FEATURES /\ granted \subseteq FEATURES
    /\ transports \in [Services -> 0 .. Len(writers)]
    /\ writers \in Seq(WriterType)
    /\ \A p \in DOMAIN files : p \in Path /\ files[p] \in [of: Requests, whole: BOOLEAN]
    /\ temps \subseteq [path: Path, by: Requests]

LocalsTyped == req \in [Requests -> LocalType] /\ send \in [Requests -> AttemptType]

(* Candidates are screened in their order, each once; a thread writes with *)
(* a transport that exists.                                                *)
Consistency(r) ==
    /\ req[r].pc # "arrive" => req[r].input \in Inputs[r]
    /\ req[r].pc \in {"write", "replace"} => req[r].writer \in 1 .. Len(writers)
    /\ req[r].index >= 1 /\ req[r].rejected + Len(req[r].events) < req[r].index

Typed == SharedTyped /\ LocalsTyped /\ \A r \in Requests : Consistency(r)

(* What a step of one thread leaves alone: the other threads, and groups   *)
(* of its own locals.                                                      *)
ReqMoves(r) ==
    /\ req' \in [Requests -> LocalType]
    /\ \A q \in Requests \ {r} : req'[q] = req[q]

SendMoves(r) ==
    /\ send' \in [Requests -> AttemptType]
    /\ \A q \in Requests \ {r} : send'[q] = send[q]

SameRate(r) ==
    /\ req'[r].input = req[r].input /\ req'[r].at = req[r].at
    /\ req'[r].limited = req[r].limited /\ req'[r].stamps = req[r].stamps

SameBatch(r) ==
    /\ req'[r].index = req[r].index /\ req'[r].events = req[r].events
    /\ req'[r].rejected = req[r].rejected

SameFile(r) ==
    /\ req'[r].writer = req[r].writer /\ req'[r].path = req[r].path
    /\ req'[r].wrote = req[r].wrote

SameReply(r) ==
    /\ req'[r].complete = req[r].complete /\ req'[r].acked = req[r].acked
    /\ req'[r].raised = req[r].raised /\ req'[r].status = req[r].status

(* A step that only goes on. *)
LEMMA GotoMoves ==
    ASSUME Typed, NEW r \in Requests, NEW pc \in Stages, Goto(r, pc)
    PROVE  /\ ReqMoves(r) /\ SameRate(r) /\ SameBatch(r) /\ SameFile(r) /\ SameReply(r)
           /\ req'[r].pc = pc
<1>. DEFINE old == req[r]
            q == [old EXCEPT !.pc = pc]
<1>1. req \in [Requests -> LocalType]
  BY DEF Typed, LocalsTyped
<1>2. old \in LocalType
  BY <1>1
<1>4. req' = [req EXCEPT ![r] = q]
  BY DEF Goto
<1>. HIDE DEF old
<1>5. q \in LocalType
  BY <1>2 DEF LocalType
<1>6. /\ q.pc = pc /\ q.input = old.input /\ q.at = old.at /\ q.limited = old.limited
      /\ q.stamps = old.stamps /\ q.index = old.index /\ q.events = old.events /\ q.rejected = old.rejected
      /\ q.writer = old.writer /\ q.path = old.path /\ q.wrote = old.wrote /\ q.complete = old.complete
      /\ q.acked = old.acked /\ q.raised = old.raised /\ q.status = old.status
  BY <1>2 DEF LocalType
<1>. HIDE DEF q
<1>7. req' \in [Requests -> LocalType] /\ req'[r] = q /\ \A x \in Requests \ {r} : req'[x] = req[x]
  BY <1>1, <1>4, <1>5
<1>. QED BY <1>6, <1>7 DEF old, ReqMoves, SameRate, SameBatch, SameFile, SameReply

(* A step that answers. *)
LEMMA RespondMoves ==
    ASSUME Typed, NEW r \in Requests, NEW status \in Statuses, Respond(r, status)
    PROVE  /\ ReqMoves(r) /\ SameRate(r) /\ SameBatch(r) /\ SameFile(r)
           /\ req'[r].complete = req[r].complete /\ req'[r].acked = req[r].acked
           /\ req'[r].raised = req[r].raised /\ req'[r].status = status
           /\ req'[r].pc = "done"
<1>. DEFINE old == req[r]
            q == [old EXCEPT !.pc = "done", !.status = status]
<1>1. req \in [Requests -> LocalType]
  BY DEF Typed, LocalsTyped
<1>2. old \in LocalType
  BY <1>1
<1>4. req' = [req EXCEPT ![r] = q]
  BY DEF Respond
<1>. HIDE DEF old
<1>5. q \in LocalType
  BY <1>2 DEF LocalType, Stages
<1>6. /\ q.pc = "done" /\ q.input = old.input /\ q.at = old.at /\ q.limited = old.limited
      /\ q.stamps = old.stamps /\ q.index = old.index /\ q.events = old.events /\ q.rejected = old.rejected
      /\ q.writer = old.writer /\ q.path = old.path /\ q.wrote = old.wrote /\ q.complete = old.complete
      /\ q.acked = old.acked /\ q.raised = old.raised /\ q.status = status
  BY <1>2 DEF LocalType
<1>. HIDE DEF q
<1>7. req' \in [Requests -> LocalType] /\ req'[r] = q /\ \A x \in Requests \ {r} : req'[x] = req[x]
  BY <1>1, <1>4, <1>5
<1>. QED BY <1>6, <1>7 DEF old, ReqMoves, SameRate, SameBatch, SameFile, SameReply

(* handle until the rate limiter. *)
LEMMA ArriveMoves ==
    ASSUME Typed, NEW r \in Requests, NEW i \in Inputs[r],
           req' = [req EXCEPT ![r].input = i, ![r].status = Refusal(i),
                              ![r].pc = IF Refusal(i) = 0 THEN "rate" ELSE "done"]
    PROVE  /\ ReqMoves(r) /\ SameBatch(r) /\ SameFile(r)
           /\ req'[r].input = i /\ req'[r].at = req[r].at /\ req'[r].limited = req[r].limited
           /\ req'[r].stamps = req[r].stamps
           /\ req'[r].complete = req[r].complete /\ req'[r].acked = req[r].acked
           /\ req'[r].raised = req[r].raised /\ req'[r].status = Refusal(i)
           /\ req'[r].pc = IF Refusal(i) = 0 THEN "rate" ELSE "done"
<1>. DEFINE old == req[r]
            st == Refusal(i)
            pc == IF Refusal(i) = 0 THEN "rate" ELSE "done"
            q == [old EXCEPT !.input = i, !.status = st, !.pc = pc]
<1>1. req \in [Requests -> LocalType]
  BY DEF Typed, LocalsTyped
<1>2. old \in LocalType
  BY <1>1
<1>2a. i \in Posts
  BY RelayAssumption
<1>3a. st \in Statuses
  BY DEF Refusal, Statuses
<1>3b. pc \in Stages
  BY DEF Stages
<1>3. req' = [req EXCEPT ![r].input = i, ![r].status = st, ![r].pc = pc]
  BY DEF q
<1>. HIDE DEF st, pc
<1>4. req' = [req EXCEPT ![r] = q]
  BY <1>1, <1>3
<1>. HIDE DEF old
<1>5. q \in LocalType
  BY <1>2, <1>2a, <1>3a, <1>3b DEF LocalType
<1>6. /\ q.pc = pc /\ q.input = i /\ q.at = old.at /\ q.limited = old.limited
      /\ q.stamps = old.stamps /\ q.index = old.index /\ q.events = old.events /\ q.rejected = old.rejected
      /\ q.writer = old.writer /\ q.path = old.path /\ q.wrote = old.wrote /\ q.complete = old.complete
      /\ q.acked = old.acked /\ q.raised = old.raised /\ q.status = st
  BY <1>2 DEF LocalType
<1>. HIDE DEF q
<1>7. req' \in [Requests -> LocalType] /\ req'[r] = q /\ \A x \in Requests \ {r} : req'[x] = req[x]
  BY <1>1, <1>4, <1>5
<1>. QED BY <1>6, <1>7 DEF old, st, pc, ReqMoves, SameRate, SameBatch, SameFile, SameReply

(* The first half of _is_rate_limited. *)
LEMMA RateReadMoves ==
    ASSUME Typed, NEW r \in Requests, RateRead(r)
    PROVE  /\ ReqMoves(r) /\ SameBatch(r) /\ SameFile(r) /\ SameReply(r)
           /\ req'[r].input = req[r].input /\ req'[r].at = now
           /\ req'[r].limited = (Cardinality(Recent(rate_limit_state)) >= RateLimit)
           /\ req'[r].stamps =
                IF Cardinality(Recent(rate_limit_state)) >= RateLimit
                THEN Recent(rate_limit_state)
                               ELSE Recent(rate_limit_state) \cup {[by |-> r, at |-> now]}
           /\ req'[r].pc = "store"
<1>. DEFINE old == req[r]
            limited == (Cardinality(Recent(rate_limit_state)) >= RateLimit)
            stamps == IF Cardinality(Recent(rate_limit_state)) >= RateLimit THEN Recent(rate_limit_state)
                               ELSE Recent(rate_limit_state) \cup {[by |-> r, at |-> now]}
            q == [old EXCEPT !.pc = "store", !.at = now, !.limited = limited, !.stamps = stamps]
<1>1. req \in [Requests -> LocalType]
  BY DEF Typed, LocalsTyped
<1>2. old \in LocalType
  BY <1>1
<1>3a. limited \in BOOLEAN
  OBVIOUS
<1>3b. stamps \in SUBSET Stamp /\ now \in 0 .. MaxTime
  BY DEF Typed, SharedTyped, Recent, Stamp
<1>3. req' = [req EXCEPT ![r].pc = "store", ![r].at = now, ![r].limited = limited, ![r].stamps = stamps]
  BY DEF RateRead
<1>. HIDE DEF limited, stamps
<1>4. req' = [req EXCEPT ![r] = q]
  BY <1>1, <1>3
<1>. HIDE DEF old
<1>5. q \in LocalType
  BY <1>2, <1>3a, <1>3b DEF LocalType, Stages
<1>6. /\ q.pc = "store" /\ q.input = old.input /\ q.at = now /\ q.limited = limited
      /\ q.stamps = stamps /\ q.index = old.index /\ q.events = old.events /\ q.rejected = old.rejected
      /\ q.writer = old.writer /\ q.path = old.path /\ q.wrote = old.wrote /\ q.complete = old.complete
      /\ q.acked = old.acked /\ q.raised = old.raised /\ q.status = old.status
  BY <1>2 DEF LocalType
<1>. HIDE DEF q
<1>7. req' \in [Requests -> LocalType] /\ req'[r] = q /\ \A x \in Requests \ {r} : req'[x] = req[x]
  BY <1>1, <1>4, <1>5
<1>. QED BY <1>6, <1>7 DEF old, limited, stamps, ReqMoves, SameRate, SameBatch, SameFile, SameReply

(* The second half. *)
LEMMA RateStoreMoves ==
    ASSUME Typed, NEW r \in Requests, RateStore(r)
    PROVE  /\ ReqMoves(r) /\ SameBatch(r) /\ SameFile(r)
           /\ req'[r].input = req[r].input /\ req'[r].at = req[r].at
           /\ req'[r].limited = req[r].limited /\ req'[r].stamps = {}
           /\ req'[r].complete = req[r].complete /\ req'[r].acked = req[r].acked
           /\ req'[r].raised = req[r].raised
           /\ req'[r].status =
                IF req[r].limited THEN 429 ELSE IF req[r].input.decodes THEN 0 ELSE 400
           /\ req'[r].pc = IF req[r].limited \/ ~req[r].input.decodes THEN "done" ELSE "screen"
<1>. DEFINE old == req[r]
            st == IF req[r].limited THEN 429 ELSE IF req[r].input.decodes THEN 0 ELSE 400
            pc == IF req[r].limited \/ ~req[r].input.decodes THEN "done" ELSE "screen"
            q == [old EXCEPT !.stamps = {}, !.status = st, !.pc = pc]
<1>1. req \in [Requests -> LocalType]
  BY DEF Typed, LocalsTyped
<1>2. old \in LocalType
  BY <1>1
<1>3a. st \in Statuses
  BY DEF Statuses
<1>3b. pc \in Stages
  BY DEF Stages
<1>3. req' = [req EXCEPT ![r].stamps = {}, ![r].status = st, ![r].pc = pc]
  BY Zenon DEF RateStore
<1>. HIDE DEF st, pc
<1>4. req' = [req EXCEPT ![r] = q]
  BY <1>1, <1>3
<1>. HIDE DEF old
<1>5. q \in LocalType
  BY <1>2, <1>3a, <1>3b DEF LocalType
<1>6. /\ q.pc = pc /\ q.input = old.input /\ q.at = old.at /\ q.limited = old.limited
      /\ q.stamps = {} /\ q.index = old.index /\ q.events = old.events /\ q.rejected = old.rejected
      /\ q.writer = old.writer /\ q.path = old.path /\ q.wrote = old.wrote /\ q.complete = old.complete
      /\ q.acked = old.acked /\ q.raised = old.raised /\ q.status = st
  BY <1>2 DEF LocalType
<1>. HIDE DEF q
<1>7. req' \in [Requests -> LocalType] /\ req'[r] = q /\ \A x \in Requests \ {r} : req'[x] = req[x]
  BY <1>1, <1>4, <1>5
<1>. QED BY <1>6, <1>7 DEF old, st, pc, ReqMoves, SameRate, SameBatch, SameFile, SameReply

(* The table of transports is read. *)
LEMMA LookupMoves ==
    ASSUME Typed, NEW r \in Requests, Lookup(r), req[r].input.service \in Services
    PROVE  /\ ReqMoves(r) /\ SameRate(r) /\ SameBatch(r) /\ SameReply(r)
           /\ req'[r].writer = transports[req[r].input.service] /\ req'[r].path = req[r].path
           /\ req'[r].wrote = req[r].wrote
           /\ req'[r].pc = IF transports[req[r].input.service] = 0 THEN "create" ELSE "write"
<1>. DEFINE old == req[r]
            known == transports[req[r].input.service]
            pc == IF transports[req[r].input.service] = 0 THEN "create" ELSE "write"
            q == [old EXCEPT !.writer = known, !.pc = pc]
<1>1. req \in [Requests -> LocalType]
  BY DEF Typed, LocalsTyped
<1>2. old \in LocalType
  BY <1>1
<1>3a. known \in Nat
  BY DEF Typed, SharedTyped
<1>3b. pc \in Stages
  BY DEF Stages
<1>3. req' = [req EXCEPT ![r].writer = known, ![r].pc = pc]
  BY DEF Lookup
<1>. HIDE DEF known, pc
<1>4. req' = [req EXCEPT ![r] = q]
  BY <1>1, <1>3
<1>. HIDE DEF old
<1>5. q \in LocalType
  BY <1>2, <1>3a, <1>3b DEF LocalType
<1>6. /\ q.pc = pc /\ q.input = old.input /\ q.at = old.at /\ q.limited = old.limited
      /\ q.stamps = old.stamps /\ q.index = old.index /\ q.events = old.events /\ q.rejected = old.rejected
      /\ q.writer = known /\ q.path = old.path /\ q.wrote = old.wrote /\ q.complete = old.complete
      /\ q.acked = old.acked /\ q.raised = old.raised /\ q.status = old.status
  BY <1>2 DEF LocalType
<1>. HIDE DEF q
<1>7. req' \in [Requests -> LocalType] /\ req'[r] = q /\ \A x \in Requests \ {r} : req'[x] = req[x]
  BY <1>1, <1>4, <1>5
<1>. QED BY <1>6, <1>7 DEF old, known, pc, ReqMoves, SameRate, SameBatch, SameFile, SameReply

(* A transport is made. *)
LEMMA CreateMoves ==
    ASSUME Typed, NEW r \in Requests, Create(r)
    PROVE  /\ ReqMoves(r) /\ SameRate(r) /\ SameBatch(r) /\ SameReply(r)
           /\ req'[r].writer = Len(writers) + 1 /\ req'[r].path = req[r].path
           /\ req'[r].wrote = req[r].wrote
           /\ req'[r].pc = "write"
<1>. DEFINE old == req[r]
            made == Len(writers) + 1
            q == [old EXCEPT !.writer = made, !.pc = "write"]
<1>1. req \in [Requests -> LocalType]
  BY DEF Typed, LocalsTyped
<1>2. old \in LocalType
  BY <1>1
<1>3a. made \in Nat
  BY DEF Typed, SharedTyped
<1>3. req' = [req EXCEPT ![r].writer = made, ![r].pc = "write"]
  BY DEF Create
<1>. HIDE DEF made
<1>4. req' = [req EXCEPT ![r] = q]
  BY <1>1, <1>3
<1>. HIDE DEF old
<1>5. q \in LocalType
  BY <1>2, <1>3a DEF LocalType, Stages
<1>6. /\ q.pc = "write" /\ q.input = old.input /\ q.at = old.at /\ q.limited = old.limited
      /\ q.stamps = old.stamps /\ q.index = old.index /\ q.events = old.events /\ q.rejected = old.rejected
      /\ q.writer = made /\ q.path = old.path /\ q.wrote = old.wrote /\ q.complete = old.complete
      /\ q.acked = old.acked /\ q.raised = old.raised /\ q.status = old.status
  BY <1>2 DEF LocalType
<1>. HIDE DEF q
<1>7. req' \in [Requests -> LocalType] /\ req'[r] = q /\ \A x \in Requests \ {r} : req'[x] = req[x]
  BY <1>1, <1>4, <1>5
<1>. QED BY <1>6, <1>7 DEF old, made, ReqMoves, SameRate, SameBatch, SameFile, SameReply

(* The temporary file is written, or is not. *)
LEMMA WriteMoves ==
    ASSUME Typed, NEW r \in Requests, NEW outcome \in WriteOutcomes, WriteTemp(r, outcome),
           req[r].input.service \in Services, req[r].writer \in 1 .. Len(writers)
    PROVE  /\ ReqMoves(r) /\ SameRate(r) /\ SameBatch(r) /\ SameReply(r)
           /\ req'[r].writer = req[r].writer
           /\ req'[r].path = <<now, writers[req[r].writer].sequence + 1, FileName[req[r].input.service]>>
           /\ req'[r].wrote = outcome
           /\ req'[r].pc = IF outcome \in {"ok", "short"} THEN "replace" ELSE "cleanup"
<1>. DEFINE old == req[r]
            path == <<now, writers[req[r].writer].sequence + 1, FileName[req[r].input.service]>>
            pc == IF outcome \in {"ok", "short"} THEN "replace" ELSE "cleanup"
            q == [old EXCEPT !.path = path, !.wrote = outcome, !.pc = pc]
<1>1. req \in [Requests -> LocalType]
  BY DEF Typed, LocalsTyped
<1>2. old \in LocalType
  BY <1>1
<1>2a. now \in Nat /\ FileName[req[r].input.service] \in STRING
  BY RelayAssumption DEF Typed, SharedTyped
<1>2b. writers[req[r].writer].sequence + 1 \in Nat
  <2>1. writers[req[r].writer] \in WriterType
    BY DEF Typed, SharedTyped
  <2>. QED BY <2>1 DEF WriterType
<1>3a. path \in Path
  BY <1>2a, <1>2b DEF Path
<1>3b. outcome \in Outcomes
  BY RelayAssumption DEF Outcomes
<1>3c. pc \in Stages
  BY DEF Stages
<1>3. req' = [req EXCEPT ![r].path = path, ![r].wrote = outcome, ![r].pc = pc]
  BY DEF WriteTemp
<1>. HIDE DEF path, pc
<1>4. req' = [req EXCEPT ![r] = q]
  BY <1>1, <1>3
<1>. HIDE DEF old
<1>5. q \in LocalType
  BY <1>2, <1>3a, <1>3b, <1>3c DEF LocalType
<1>6. /\ q.pc = pc /\ q.input = old.input /\ q.at = old.at /\ q.limited = old.limited
      /\ q.stamps = old.stamps /\ q.index = old.index /\ q.events = old.events /\ q.rejected = old.rejected
      /\ q.writer = old.writer /\ q.path = path /\ q.wrote = outcome /\ q.complete = old.complete
      /\ q.acked = old.acked /\ q.raised = old.raised /\ q.status = old.status
  BY <1>2 DEF LocalType
<1>. HIDE DEF q
<1>7. req' \in [Requests -> LocalType] /\ req'[r] = q /\ \A x \in Requests \ {r} : req'[x] = req[x]
  BY <1>1, <1>4, <1>5
<1>. QED BY <1>6, <1>7 DEF old, path, pc, ReqMoves, SameRate, SameBatch, SameFile, SameReply

(* on_accept and the response. *)
LEMMA AcceptMoves ==
    ASSUME Typed, NEW r \in Requests, Accept(r)
    PROVE  \E fails \in AcceptFails :
             /\ ReqMoves(r) /\ SameRate(r) /\ SameBatch(r)
             /\ req'[r].writer = 0 /\ req'[r].path = <<>> /\ req'[r].wrote = req[r].wrote
             /\ req'[r].complete = TRUE /\ req'[r].acked = req[r].acked
             /\ req'[r].raised = fails
             /\ req'[r].status = IF fails THEN 500 ELSE FinalStatus(req[r])
             /\ req'[r].pc = "done"
<1>0. PICK fails \in AcceptFails :
          req' = [req EXCEPT ![r].pc = "done", ![r].raised = fails, ![r].path = <<>>,
                             ![r].writer = 0, ![r].complete = TRUE,
                             ![r].status = IF fails THEN 500 ELSE FinalStatus(req[r])]
  BY DEF Accept
<1>0a. fails \in BOOLEAN
  BY RelayAssumption
<1>. DEFINE old == req[r]
            st == IF fails THEN 500 ELSE FinalStatus(req[r])
            q == [old EXCEPT !.pc = "done", !.raised = fails,
                             !.path = <<>>, !.writer = 0, !.complete = TRUE, !.status = st]
<1>1. req \in [Requests -> LocalType]
  BY DEF Typed, LocalsTyped
<1>2. old \in LocalType
  BY <1>1
<1>3a. st \in Statuses
  BY DEF FinalStatus, Statuses
<1>3. req' = [req EXCEPT ![r].pc = "done", ![r].raised = fails,
                         ![r].path = <<>>, ![r].writer = 0, ![r].complete = TRUE, ![r].status = st]
  BY <1>0
<1>. HIDE DEF st
<1>4. req' = [req EXCEPT ![r] = q]
  BY <1>1, <1>3
<1>. HIDE DEF old
<1>5. q \in LocalType
  BY <1>0a, <1>2, <1>3a DEF LocalType, Stages
<1>6. /\ q.pc = "done" /\ q.input = old.input /\ q.at = old.at /\ q.limited = old.limited
      /\ q.stamps = old.stamps /\ q.index = old.index /\ q.events = old.events /\ q.rejected = old.rejected
      /\ q.writer = 0 /\ q.path = <<>> /\ q.wrote = old.wrote /\ q.complete = TRUE
      /\ q.acked = old.acked /\ q.raised = fails /\ q.status = st
  BY <1>2 DEF LocalType
<1>. HIDE DEF q
<1>7. req' \in [Requests -> LocalType] /\ req'[r] = q /\ \A x \in Requests \ {r} : req'[x] = req[x]
  BY <1>1, <1>4, <1>5
<1>. QED BY <1>6, <1>7 DEF old, st, ReqMoves, SameRate, SameBatch, SameFile, SameReply

(* The end of a forwarding attempt. *)
LEMMA VerdictMoves ==
    ASSUME Typed, NEW r \in Requests, NEW succeeded \in BOOLEAN, NEW done \in BOOLEAN,
           Verdict(r, succeeded, done)
    PROVE  /\ ReqMoves(r) /\ SameRate(r) /\ SameBatch(r) /\ SameFile(r)
           /\ req'[r].complete = done /\ req'[r].acked = req[r].acked
           /\ req'[r].raised = req[r].raised
           /\ req'[r].status = IF Spooling \/ succeeded THEN req[r].status ELSE 500
           /\ req'[r].pc = CASE Spooling -> IF done THEN "mark" ELSE "accept"
                                [] ~Spooling /\ succeeded -> "accept"
                                [] OTHER -> "done"
<1>. DEFINE old == req[r]
            pc == CASE Spooling -> IF done THEN "mark" ELSE "accept"
                                [] ~Spooling /\ succeeded -> "accept"
                                [] OTHER -> "done"
            st == IF Spooling \/ succeeded THEN req[r].status ELSE 500
            q == [old EXCEPT !.complete = done, !.pc = pc, !.status = st]
<1>1. req \in [Requests -> LocalType]
  BY DEF Typed, LocalsTyped
<1>2. old \in LocalType
  BY <1>1
<1>3a. pc \in Stages
  BY DEF Stages
<1>3b. st \in Statuses
  BY <1>2 DEF LocalType, Statuses
<1>3. req' = [req EXCEPT ![r].complete = done, ![r].pc = pc, ![r].status = st]
  BY <1>1 DEF Verdict
<1>. HIDE DEF pc, st
<1>4. req' = [req EXCEPT ![r] = q]
  BY <1>1, <1>3
<1>. HIDE DEF old
<1>5. q \in LocalType
  BY <1>2, <1>3a, <1>3b DEF LocalType
<1>6. /\ q.pc = pc /\ q.input = old.input /\ q.at = old.at /\ q.limited = old.limited
      /\ q.stamps = old.stamps /\ q.index = old.index /\ q.events = old.events /\ q.rejected = old.rejected
      /\ q.writer = old.writer /\ q.path = old.path /\ q.wrote = old.wrote /\ q.complete = done
      /\ q.acked = old.acked /\ q.raised = old.raised /\ q.status = st
  BY <1>2 DEF LocalType
<1>. HIDE DEF q
<1>7. req' \in [Requests -> LocalType] /\ req'[r] = q /\ \A x \in Requests \ {r} : req'[x] = req[x]
  BY <1>1, <1>4, <1>5
<1>. QED BY <1>6, <1>7 DEF old, pc, st, ReqMoves, SameRate, SameBatch, SameFile, SameReply

(* One candidate is screened; after the last one, delivery begins or the   *)
(* answer is given.                                                        *)
LEMMA ScreenMoves ==
    ASSUME Typed, NEW r \in Requests, ScreenCandidate(r)
    PROVE  /\ ReqMoves(r) /\ SameRate(r) /\ SameFile(r)
           /\ req'[r].complete = req[r].complete /\ req'[r].acked = req[r].acked
           /\ req'[r].raised = req[r].raised
           /\ req'[r].index = req[r].index + 1
           /\ \E kept \in AtMostOne : /\ req'[r].events = req[r].events \o kept
                                      /\ req'[r].rejected = req[r].rejected + 1 - Len(kept)
           /\ req'[r].pc \in {"screen", "done", "accept", "lookup", "forward"}
           /\ req'[r].pc # "done" => req'[r].status = req[r].status
           /\ req'[r].pc = "done" => req'[r].events = <<>> /\ req'[r].status \in {202, 400}
           /\ req'[r].pc \in {"accept", "forward"} => ~Spooling
           /\ req'[r].pc = "lookup" => Spooling
           /\ req'[r].pc \in {"accept", "forward", "lookup"} => req'[r].events # <<>>
<1>. DEFINE old == req[r]
            kept == Screened(old.input.batch[old.index])
            k == Len(kept)
            events == old.events \o kept
            rejected == old.rejected + 1 - k
            index == old.index + 1
            n == [old EXCEPT !.index = index, !.events = events, !.rejected = rejected]
            q == IF index > Len(old.input.batch) THEN Deliver(n) ELSE n
<1>1. req \in [Requests -> LocalType]
  BY DEF Typed, LocalsTyped
<1>2. old \in LocalType
  BY <1>1
<1>3. kept \in AtMostOne
  <2>1. old.input \in Posts
    <3>1. old.pc = "screen" /\ (old.pc # "arrive" => old.input \in Inputs[r])
      BY DEF ScreenCandidate, Typed, Consistency
    <3>. QED BY <3>1, RelayAssumption
  <2>2. old.input.batch \in Seq(Candidates)
    BY <2>1 DEF Posts
  <2>3. old.index \in 1 .. Len(old.input.batch)
    <3>1. old.index \in Nat
      BY <1>2 DEF LocalType
    <3>2. old.index >= 1 /\ old.index <= Len(old.input.batch)
      BY DEF ScreenCandidate, Typed, Consistency
    <3>. QED BY <3>1, <3>2, <2>2
  <2>. HIDE DEF old
  <2>4. old.input.batch[old.index] \in Candidates
    BY <2>2, <2>3
  <2>. QED BY <2>4, Screening
<1>4. req' = [req EXCEPT ![r] = q]
  <2>1. req' = [req EXCEPT ![r] = IF n.index > Len(old.input.batch) THEN Deliver(n) ELSE n]
    BY Zenon DEF ScreenCandidate
  <2>2. n.index = index
    BY <1>2 DEF LocalType
  <2>. QED BY <2>1, <2>2
<1>. HIDE DEF kept, old
<1>5. kept \in Seq(Sanitized) /\ k \in {0, 1}
  <2>1. CASE kept = <<>>
    BY <2>1
  <2>2. ASSUME NEW e \in Sanitized, kept = <<e>> PROVE kept \in Seq(Sanitized) /\ k \in {0, 1}
    BY <2>2
  <2>. QED BY <1>3, <2>1, <2>2 DEF AtMostOne
<1>6. events \in Seq(Sanitized) /\ rejected \in Nat /\ index \in Nat
  <2>1. old.events \in Seq(Sanitized) /\ old.rejected \in Nat /\ old.index \in Nat
    BY <1>2 DEF LocalType
  <2>. HIDE DEF k
  <2>. QED BY <2>1, <1>5
<1>. HIDE DEF events, rejected, index
<1>7. n \in LocalType
  BY <1>2, <1>6 DEF LocalType
<1>8. /\ n.pc = old.pc /\ n.input = old.input /\ n.at = old.at /\ n.limited = old.limited
      /\ n.stamps = old.stamps /\ n.index = index /\ n.events = events /\ n.rejected = rejected
      /\ n.writer = old.writer /\ n.path = old.path /\ n.wrote = old.wrote
      /\ n.complete = old.complete /\ n.acked = old.acked /\ n.raised = old.raised
      /\ n.status = old.status
  BY <1>2 DEF LocalType
<1>9. old.pc = "screen"
  BY DEF ScreenCandidate, old
<1>. HIDE DEF n
<1>. DEFINE Good(x) ==
                /\ x \in LocalType
                /\ x.input = n.input /\ x.at = n.at /\ x.limited = n.limited /\ x.stamps = n.stamps
                /\ x.index = n.index /\ x.events = n.events /\ x.rejected = n.rejected
                /\ x.writer = n.writer /\ x.path = n.path /\ x.wrote = n.wrote
                /\ x.complete = n.complete /\ x.acked = n.acked /\ x.raised = n.raised
                /\ x.pc \in {"screen", "done", "accept", "lookup", "forward"}
                /\ x.pc # "done" => x.status = n.status
                /\ x.pc = "done" => n.events = <<>> /\ x.status \in {202, 400}
                /\ x.pc \in {"accept", "forward"} => ~Spooling
                /\ x.pc = "lookup" => Spooling
                /\ x.pc \in {"accept", "forward", "lookup"} => n.events # <<>>
<1>10. Good(q)
  <2>1. CASE q = n
    BY <2>1, <1>7, <1>8, <1>9
  <2>2. CASE q = Deliver(n)
    <3>1. CASE n.events = <<>>
      <4>. DEFINE st == FinalStatus(n)
      <4>1. q = [n EXCEPT !.pc = "done", !.status = st]
        BY <2>2, <3>1 DEF Deliver
      <4>2. st \in {202, 400}
        BY DEF FinalStatus
      <4>3. st \in Statuses
        BY <4>2 DEF Statuses
      <4>. HIDE DEF st, q
      <4>4. q \in LocalType
        BY <4>1, <4>3, <1>7 DEF LocalType, Stages
      <4>. QED BY <3>1, <4>1, <4>2, <4>4, <1>7 DEF LocalType
    <3>2. ASSUME NEW pc \in {"accept", "forward", "lookup"}, q = [n EXCEPT !.pc = pc],
                 n.events # <<>>, pc \in {"accept", "forward"} => ~Spooling, pc = "lookup" => Spooling
          PROVE  Good(q)
      <4>. HIDE DEF q
      <4>1. q \in LocalType
        BY <3>2, <1>7 DEF LocalType, Stages
      <4>. QED BY <3>2, <4>1, <1>7 DEF LocalType
    <3>3. CASE n.events # <<>> /\ handler.project_mode = "none"
      <4>1. q = [n EXCEPT !.pc = "accept"] /\ ~Spooling
        BY <2>2, <3>3 DEF Deliver, Spooling
      <4>. HIDE DEF q
      <4>. QED BY <4>1, <3>2, <3>3
    <3>4. CASE n.events # <<>> /\ handler.project_mode # "none"
      <4>1. q = [n EXCEPT !.pc = IF Spooling THEN "lookup" ELSE "forward"]
        BY <2>2, <3>4 DEF Deliver
      <4>. HIDE DEF q
      <4>. QED BY <4>1, <3>2, <3>4
    <3>. QED BY <3>1, <3>3, <3>4
  <2>. QED BY <2>1, <2>2 DEF q
<1>. HIDE DEF q
<1>11. req' \in [Requests -> LocalType] /\ req'[r] = q /\ \A x \in Requests \ {r} : req'[x] = req[x]
  BY <1>1, <1>4, <1>10
<1>12. \E z \in AtMostOne : q.events = old.events \o z /\ q.rejected = old.rejected + 1 - Len(z)
  BY <1>3, <1>8, <1>10 DEF events, rejected
<1>13. ReqMoves(r) /\ SameRate(r) /\ SameFile(r)
  BY <1>8, <1>10, <1>11 DEF old, ReqMoves, SameRate, SameFile
<1>14. /\ req'[r].index = req[r].index + 1
       /\ req'[r].complete = req[r].complete /\ req'[r].acked = req[r].acked
       /\ req'[r].raised = req[r].raised
  BY <1>8, <1>10, <1>11 DEF old, index
<1>15. req'[r] = q /\ n.status = req[r].status /\ n.events = q.events
  BY <1>8, <1>10, <1>11 DEF old
<1>16. \E z \in AtMostOne : /\ req'[r].events = req[r].events \o z
                              /\ req'[r].rejected = req[r].rejected + 1 - Len(z)
  BY <1>12, <1>15, Zenon DEF old
<1>17. /\ req'[r].pc \in {"screen", "done", "accept", "lookup", "forward"}
       /\ req'[r].pc # "done" => req'[r].status = req[r].status
       /\ req'[r].pc = "done" => req'[r].events = <<>> /\ req'[r].status \in {202, 400}
       /\ req'[r].pc \in {"accept", "forward"} => ~Spooling
       /\ req'[r].pc = "lookup" => Spooling
       /\ req'[r].pc \in {"accept", "forward", "lookup"} => req'[r].events # <<>>
  BY <1>10, <1>15
<1>. QED BY <1>13, <1>14, <1>16, <1>17, Zenon

(* A function on 1 .. n is a sequence of n elements.                       *)
LEMMA FunctionAsSequence ==
    ASSUME NEW S, NEW n \in Nat, NEW f \in [1 .. n -> S]
    PROVE  f \in Seq(S) /\ Len(f) = n /\ DOMAIN f = 1 .. n
OBVIOUS

(* The locals of a forwarding attempt have their types.                    *)
LEMMA AttemptTyped ==
    ASSUME Typed, NEW r \in Requests
    PROVE  /\ send \in [Requests -> AttemptType] /\ send[r] \in AttemptType /\ NoAttempt \in AttemptType
           /\ send[r].left \in Seq(Sanitized) /\ send[r].batch \in Seq(Sanitized)
           /\ send[r].where \in Seq(Nat) /\ send[r].sent \in Nat /\ send[r].taken \in Nat
<1>1. send \in [Requests -> AttemptType]
  BY DEF Typed, LocalsTyped
<1>2. NoAttempt \in AttemptType
  BY DEF NoAttempt, AttemptType, FEATURES
<1>3. send[r] \in AttemptType
  BY <1>1
<1>. QED BY <1>1, <1>2, <1>3 DEF AttemptType

(* The end of an attempt clears its locals.                                *)
LEMMA VerdictSends ==
    ASSUME Typed, NEW r \in Requests, NEW a, NEW b, Verdict(r, a, b)
    PROVE  SendMoves(r) /\ send'[r] = NoAttempt
<1>1. send' = [send EXCEPT ![r] = NoAttempt]
  BY DEF Verdict
<1>. QED BY <1>1, AttemptTyped DEF SendMoves

(* Each event of the next chunk, as far as the destination supports it.    *)
LEMMA StrippedFacts ==
    ASSUME Typed, NEW r \in Requests
    PROVE  /\ DOMAIN Stripped(r) = 1 .. PrefixLength(send[r].left)
           /\ \A i \in 1 .. PrefixLength(send[r].left) :
                 /\ Stripped(r)[i] \in AtMostOne
                 /\ Stripped(r)[i] # <<>> => Backed(Stripped(r)[i][1], features)
<1>. DEFINE head == prefix(send[r].left)
            n == PrefixLength(send[r].left)
<1>1. head \in Seq(Sanitized) /\ Len(head) = n /\ DOMAIN head = 1 .. n
  BY AttemptTyped, PrefixCuts
<1>2. Stripped(r) = [i \in DOMAIN head |-> Selected(head[i])]
  BY DEF Stripped
<1>. HIDE DEF head, n
<1>3. ASSUME NEW e \in Sanitized
      PROVE  Selected(e) \in AtMostOne /\ (Selected(e) # <<>> => Backed(Selected(e)[1], features))
  <2>1. CASE e.type = "analytics_event"
    <3>1. ~HasOptional(e)
      BY <2>1 DEF Sanitized
    <3>2. Backed(e, features)
      BY <3>1 DEF HasOptional, Backed
    <3>. QED BY <2>1, <3>2 DEF Selected, AtMostOne
  <2>2. CASE e.type # "analytics_event"
    <3>1. Selected(e) = strip_unsupported(e, features)
      BY <2>2 DEF Selected
    <3>. QED BY <3>1, Stripping
  <2>. QED BY <2>1, <2>2
<1>4. \A i \in 1 .. n : head[i] \in Sanitized
  BY <1>1
<1>5. DOMAIN Stripped(r) = 1 .. n
  BY <1>1, <1>2
<1>6. ASSUME NEW i \in 1 .. n
      PROVE  /\ Stripped(r)[i] \in AtMostOne
             /\ Stripped(r)[i] # <<>> => Backed(Stripped(r)[i][1], features)
  <2>1. Stripped(r)[i] = Selected(head[i])
    BY <1>1, <1>2
  <2>. QED BY <2>1, <1>3, <1>4
<1>. QED BY <1>5, <1>6 DEF n

(* A chunk is cut from what is left.                                       *)
LEMMA ChunkSends ==
    ASSUME Typed, NEW r \in Requests, Chunk(r), NEW n, n = PrefixLength(send[r].left)
    PROVE  /\ SendMoves(r) /\ n \in Nat
           /\ send'[r].left = send[r].left /\ send'[r].sent = send[r].sent
           /\ send'[r].again = FALSE /\ send'[r].mine = send[r].mine
           /\ send'[r].batch \in [1 .. n -> Sanitized]
           /\ send'[r].where = [i \in 1 .. n |-> send[r].sent + i]
           /\ \A i \in 1 .. n : Backed(send'[r].batch[i], features)
<1>. DEFINE old == send[r]
            batch == [i \in DOMAIN Stripped(r) |-> Stripped(r)[i][1]]
            where == [i \in DOMAIN Stripped(r) |-> old.sent + i]
            s == [old EXCEPT !.again = FALSE, !.batch = batch, !.where = where]
<1>1. send \in [Requests -> AttemptType] /\ old \in AttemptType /\ old.sent \in Nat
  BY AttemptTyped
<1>2. /\ n \in Nat /\ DOMAIN Stripped(r) = 1 .. n
      /\ \A i \in 1 .. n : /\ Stripped(r)[i] \in AtMostOne
                           /\ Stripped(r)[i] # <<>> => Backed(Stripped(r)[i][1], features)
  <2>1. n \in Nat
    BY AttemptTyped, PrefixCuts, Zenon
  <2>. QED BY <2>1, StrippedFacts, Zenon
<1>3. \A i \in 1 .. n : Stripped(r)[i] # <<>>
  BY <1>2 DEF Chunk
<1>4. send' = [send EXCEPT ![r].again = FALSE, ![r].batch = batch, ![r].where = where]
  BY DEF Chunk
<1>5. batch \in [1 .. n -> Sanitized] /\ \A i \in 1 .. n : Backed(batch[i], features)
  <2>1. ASSUME NEW i \in 1 .. n
        PROVE  Stripped(r)[i][1] \in Sanitized /\ Backed(Stripped(r)[i][1], features)
    <3>1. PICK e \in Sanitized : Stripped(r)[i] = <<e>>
      BY <1>2, <1>3 DEF AtMostOne
    <3>. QED BY <1>2, <1>3, <3>1
  <2>2. \A i \in 1 .. n : batch[i] = Stripped(r)[i][1]
    BY <1>2
  <2>3. batch = [i \in 1 .. n |-> Stripped(r)[i][1]]
    BY <1>2
  <2>. QED BY <2>1, <2>2, <2>3
<1>6. where = [i \in 1 .. n |-> send[r].sent + i] /\ where \in Seq(Nat)
  <2>1. where = [i \in 1 .. n |-> send[r].sent + i]
    BY <1>2
  <2>2. where \in [1 .. n -> Nat]
    BY <2>1, <1>1
  <2>. HIDE DEF where
  <2>. QED BY <2>1, <2>2, <1>2
<1>. HIDE DEF batch, where
<1>7. batch \in Seq(Sanitized)
  BY <1>2, <1>5
<1>8. send' = [send EXCEPT ![r] = s]
  BY <1>1, <1>4
<1>. HIDE DEF old
<1>9. s \in AttemptType
  BY <1>1, <1>6, <1>7 DEF AttemptType
<1>10. /\ s.left = old.left /\ s.sent = old.sent /\ s.batch = batch /\ s.where = where
       /\ s.again = FALSE /\ s.mine = old.mine
  BY <1>1 DEF AttemptType
<1>. HIDE DEF s
<1>11. send' \in [Requests -> AttemptType] /\ send'[r] = s /\ \A x \in Requests \ {r} : send'[x] = send[x]
  BY <1>1, <1>8, <1>9
<1>. QED BY <1>2, <1>5, <1>6, <1>10, <1>11 DEF old, SendMoves

(* Forwarding begins with all the events of the request.                   *)
LEMMA ForwardSends ==
    ASSUME Typed, NEW r \in Requests, send[r] = NoAttempt, NEW owned,
           owned = [i \in DOMAIN req[r].events |-> [req[r].events[i] EXCEPT !.token = TRUE]],
           send' = [send EXCEPT ![r].left = owned, ![r].mine = FEATURES]
    PROVE  /\ SendMoves(r)
           /\ send'[r].left \in Seq(Sanitized) /\ Len(send'[r].left) = Len(req[r].events)
           /\ send'[r].sent = 0
<1>. DEFINE events == req[r].events
            m == Len(events)
            s == [NoAttempt EXCEPT !.left = owned, !.mine = FEATURES]
<1>1. events \in Seq(Sanitized)
  BY DEF Typed, LocalsTyped, LocalType
<1>2. m \in Nat /\ DOMAIN events = 1 .. m /\ \A i \in 1 .. m : events[i] \in Sanitized
  BY <1>1
<1>3. owned = [i \in 1 .. m |-> [events[i] EXCEPT !.token = TRUE]]
  BY <1>2
<1>. HIDE DEF events, m
<1>4. owned \in [1 .. m -> Sanitized]
  <2>1. \A i \in 1 .. m : [events[i] EXCEPT !.token = TRUE] \in Sanitized
    BY <1>2, Reducing
  <2>. QED BY <2>1, <1>3
<1>5. owned \in Seq(Sanitized) /\ Len(owned) = m
  BY <1>2, <1>4, FunctionAsSequence, Zenon
<1>. HIDE <1>3
<1>6. send' = [send EXCEPT ![r] = s]
  BY AttemptTyped
<1>7. s \in AttemptType
  BY <1>5, AttemptTyped DEF AttemptType
<1>8. s.left = owned /\ s.sent = 0
  BY DEF NoAttempt
<1>. HIDE DEF s
<1>9. send' \in [Requests -> AttemptType] /\ send'[r] = s /\ \A x \in Requests \ {r} : send'[x] = send[x]
  BY <1>6, <1>7, AttemptTyped
<1>. QED BY <1>5, <1>8, <1>9 DEF SendMoves, m, events

(* _send_chunk returns without a verdict of the destination.               *)
LEMMA FailSends ==
    ASSUME Typed, NEW r \in Requests, ChunkResult(r, FALSE, FALSE)
    PROVE  /\ SendMoves(r)
           /\ send'[r].left = send[r].left /\ send'[r].sent = send[r].sent
           /\ send'[r].mine = send[r].mine /\ send'[r].canonical = FALSE
<1>. DEFINE old == send[r]
            none == <<>>
            s == [old EXCEPT !.ok = FALSE, !.canonical = FALSE, !.batch = none,
                             !.where = none, !.again = FALSE, !.taken = 0]
<1>0. none \in Seq(Sanitized) /\ none \in Seq(Nat)
  OBVIOUS
<1>1. send \in [Requests -> AttemptType] /\ old \in AttemptType
  BY AttemptTyped
<1>2. send' = [send EXCEPT ![r] = s]
  BY <1>1 DEF ChunkResult
<1>. HIDE DEF old, none
<1>3. s \in AttemptType
  BY <1>0, <1>1 DEF AttemptType
<1>4. s.left = old.left /\ s.sent = old.sent /\ s.mine = old.mine /\ s.canonical = FALSE
  BY <1>1 DEF AttemptType
<1>. HIDE DEF s
<1>5. send' \in [Requests -> AttemptType] /\ send'[r] = s /\ \A x \in Requests \ {r} : send'[x] = send[x]
  BY <1>1, <1>2, <1>3
<1>. QED BY <1>4, <1>5 DEF old, SendMoves

(* The features that still stand are read.                                 *)
LEMMA MergeSends ==
    ASSUME Typed, NEW r \in Requests, Merge(r)
    PROVE  /\ SendMoves(r)
           /\ send'[r].left = send[r].left /\ send'[r].sent = send[r].sent
           /\ send'[r].mine = send[r].mine \cap features
           /\ send'[r].ok = send[r].ok /\ send'[r].canonical = send[r].canonical
<1>. DEFINE old == send[r]
            mine == old.mine \cap features
            s == [old EXCEPT !.mine = mine]
<1>1. send \in [Requests -> AttemptType] /\ old \in AttemptType
  BY AttemptTyped
<1>2. mine \in SUBSET FEATURES
  BY <1>1 DEF AttemptType
<1>3. send' = [send EXCEPT ![r] = s]
  BY <1>1 DEF Merge
<1>. HIDE DEF mine, old
<1>4. s \in AttemptType
  BY <1>1, <1>2 DEF AttemptType
<1>5. s.left = old.left /\ s.sent = old.sent /\ s.mine = mine /\ s.ok = old.ok /\ s.canonical = old.canonical
  BY <1>1 DEF AttemptType
<1>. HIDE DEF s
<1>6. send' \in [Requests -> AttemptType] /\ send'[r] = s /\ \A x \in Requests \ {r} : send'[x] = send[x]
  BY <1>1, <1>3, <1>4
<1>. QED BY <1>5, <1>6 DEF old, mine, SendMoves

(* The attempt goes on with what is left after the chunk.                  *)
LEMMA NextChunkMoves ==
    ASSUME Typed, NEW r \in Requests, NEW complete \in BOOLEAN,
           send' = [send EXCEPT ![r] =
                      [NoAttempt EXCEPT !.left = AfterPrefix(send[r].left), !.mine = send[r].mine,
                                        !.sent = send[r].sent + PrefixLength(send[r].left)]],
           req' = [req EXCEPT ![r].pc = "chunk", ![r].complete = complete]
    PROVE  /\ SendMoves(r) /\ ReqMoves(r) /\ SameRate(r) /\ SameBatch(r) /\ SameFile(r)
           /\ send'[r].left = AfterPrefix(send[r].left) /\ send'[r].mine = send[r].mine
           /\ send'[r].sent = send[r].sent + PrefixLength(send[r].left)
           /\ req'[r].pc = "chunk" /\ req'[r].complete = complete /\ req'[r].acked = req[r].acked
           /\ req'[r].raised = req[r].raised /\ req'[r].status = req[r].status
<1>. DEFINE old == send[r]
            left == AfterPrefix(old.left)
            sent == old.sent + PrefixLength(old.left)
            s == [NoAttempt EXCEPT !.left = left, !.mine = old.mine, !.sent = sent]
            was == req[r]
            q == [was EXCEPT !.pc = "chunk", !.complete = complete]
<1>1. send \in [Requests -> AttemptType] /\ old \in AttemptType /\ NoAttempt \in AttemptType
  BY AttemptTyped
<1>2. left \in Seq(Sanitized) /\ sent \in Nat /\ old.mine \in SUBSET FEATURES
  <2>1. old.left \in Seq(Sanitized) /\ old.sent \in Nat /\ old.mine \in SUBSET FEATURES
    BY <1>1 DEF AttemptType
  <2>2. left \in Seq(Sanitized) /\ PrefixLength(old.left) \in Nat
    BY <2>1, PrefixCuts
  <2>. HIDE DEF left, old
  <2>. QED BY <2>1, <2>2
<1>3. send' = [send EXCEPT ![r] = s]
  OBVIOUS
<1>4. req \in [Requests -> LocalType] /\ was \in LocalType
  BY DEF Typed, LocalsTyped
<1>5. req' = [req EXCEPT ![r] = q]
  BY <1>4
<1>. HIDE DEF left, sent, old, was
<1>6. s \in AttemptType
  BY <1>1, <1>2 DEF AttemptType
<1>7. s.left = left /\ s.sent = sent /\ s.mine = old.mine
  BY <1>1, <1>2 DEF AttemptType
<1>8. q \in LocalType
  BY <1>4 DEF LocalType, Stages
<1>9. /\ q.pc = "chunk" /\ q.input = was.input /\ q.at = was.at /\ q.limited = was.limited
      /\ q.stamps = was.stamps /\ q.index = was.index /\ q.events = was.events
      /\ q.rejected = was.rejected /\ q.writer = was.writer /\ q.path = was.path
      /\ q.wrote = was.wrote /\ q.complete = complete /\ q.acked = was.acked
      /\ q.raised = was.raised /\ q.status = was.status
  BY <1>4 DEF LocalType
<1>. HIDE DEF s, q
<1>10. send' \in [Requests -> AttemptType] /\ send'[r] = s /\ \A x \in Requests \ {r} : send'[x] = send[x]
  BY <1>1, <1>3, <1>6
<1>11. req' \in [Requests -> LocalType] /\ req'[r] = q /\ \A x \in Requests \ {r} : req'[x] = req[x]
  BY <1>4, <1>5, <1>8
<1>12. SendMoves(r) /\ send'[r].left = left /\ send'[r].mine = send[r].mine /\ send'[r].sent = sent
  BY <1>7, <1>10 DEF SendMoves, old
<1>13. ReqMoves(r) /\ SameRate(r) /\ SameBatch(r) /\ SameFile(r)
  BY <1>9, <1>11 DEF was, ReqMoves, SameRate, SameBatch, SameFile
<1>14. /\ req'[r].pc = "chunk" /\ req'[r].complete = complete /\ req'[r].acked = req[r].acked
       /\ req'[r].raised = req[r].raised /\ req'[r].status = req[r].status
  BY <1>9, <1>11 DEF was
<1>. QED BY <1>12, <1>13, <1>14 DEF left, sent, old

(* Forwarding begins.                                                      *)
LEMMA StartMoves ==
    ASSUME Typed, NEW r \in Requests,
           req' = [req EXCEPT ![r].pc = "chunk", ![r].complete = TRUE]
    PROVE  /\ ReqMoves(r) /\ SameRate(r) /\ SameBatch(r) /\ SameFile(r)
           /\ req'[r].pc = "chunk" /\ req'[r].complete = TRUE /\ req'[r].acked = req[r].acked
           /\ req'[r].raised = req[r].raised /\ req'[r].status = req[r].status
<1>. DEFINE was == req[r]
            q == [was EXCEPT !.pc = "chunk", !.complete = TRUE]
<1>1. req \in [Requests -> LocalType] /\ was \in LocalType
  BY DEF Typed, LocalsTyped
<1>2. req' = [req EXCEPT ![r] = q]
  BY <1>1
<1>. HIDE DEF was
<1>3. q \in LocalType
  BY <1>1 DEF LocalType, Stages
<1>4. /\ q.pc = "chunk" /\ q.input = was.input /\ q.at = was.at /\ q.limited = was.limited
      /\ q.stamps = was.stamps /\ q.index = was.index /\ q.events = was.events
      /\ q.rejected = was.rejected /\ q.writer = was.writer /\ q.path = was.path
      /\ q.wrote = was.wrote /\ q.complete = TRUE /\ q.acked = was.acked
      /\ q.raised = was.raised /\ q.status = was.status
  BY <1>1 DEF LocalType
<1>. HIDE DEF q
<1>5. req' \in [Requests -> LocalType] /\ req'[r] = q /\ \A x \in Requests \ {r} : req'[x] = req[x]
  BY <1>1, <1>2, <1>3
<1>. QED BY <1>4, <1>5 DEF was, ReqMoves, SameRate, SameBatch, SameFile

(* What the relay learns is among the features it knows.                   *)
LEMMA ObservedFeatures ==
    ASSUME Typed, NEW r \in Requests, NEW d, NEW valid
    PROVE  Observed(r, d, valid) \in SUBSET FEATURES
<1>1. features \in SUBSET FEATURES
  BY DEF Typed, SharedTyped
<1>2. parse_capabilities(d) \in SUBSET FEATURES
  BY DEF parse_capabilities
<1>. QED BY <1>1, <1>2 DEF Observed

(* A step that records what was accepted.                                  *)
LEMMA AckMoves ==
    ASSUME Typed, NEW r \in Requests, NEW acked \in SUBSET Nat, NEW pc \in Stages,
           req' = [req EXCEPT ![r].acked = @ \cup acked, ![r].pc = pc]
    PROVE  /\ ReqMoves(r) /\ SameRate(r) /\ SameBatch(r) /\ SameFile(r)
           /\ req'[r].pc = pc /\ req'[r].acked = req[r].acked \cup acked
           /\ req'[r].complete = req[r].complete /\ req'[r].raised = req[r].raised
           /\ req'[r].status = req[r].status
<1>. DEFINE was == req[r]
            all == was.acked \cup acked
            q == [was EXCEPT !.acked = all, !.pc = pc]
<1>1. req \in [Requests -> LocalType] /\ was \in LocalType
  BY DEF Typed, LocalsTyped
<1>2. req' = [req EXCEPT ![r] = q]
  BY <1>1
<1>3. all \in SUBSET Nat
  BY <1>1 DEF LocalType
<1>. HIDE DEF was, all
<1>4. q \in LocalType
  BY <1>1, <1>3 DEF LocalType
<1>5. /\ q.pc = pc /\ q.input = was.input /\ q.at = was.at /\ q.limited = was.limited
      /\ q.stamps = was.stamps /\ q.index = was.index /\ q.events = was.events
      /\ q.rejected = was.rejected /\ q.writer = was.writer /\ q.path = was.path
      /\ q.wrote = was.wrote /\ q.complete = was.complete /\ q.acked = all
      /\ q.raised = was.raised /\ q.status = was.status
  BY <1>1 DEF LocalType
<1>. HIDE DEF q
<1>6. req' \in [Requests -> LocalType] /\ req'[r] = q /\ \A x \in Requests \ {r} : req'[x] = req[x]
  BY <1>1, <1>2, <1>4
<1>. QED BY <1>5, <1>6 DEF was, all, ReqMoves, SameRate, SameBatch, SameFile

(* The answer to a chunk of n events: what it accepts is noted, and some   *)
(* of what it rejects is sent again.                                       *)
Answered(r, n, ack, supported) ==
    /\ ReqMoves(r) /\ SameRate(r) /\ SameBatch(r) /\ SameFile(r)
    /\ req'[r].acked = req[r].acked \cup AcceptedAt(send[r].where, ack)
    /\ req'[r].complete = req[r].complete /\ req'[r].raised = req[r].raised
    /\ req'[r].status = req[r].status
    /\ SendMoves(r)
    /\ send'[r].left = send[r].left /\ send'[r].sent = send[r].sent
    /\ send'[r].mine = send[r].mine
    /\ send'[r].canonical = (ack.kind = "acknowledged" /\ ack.accepted = n)
    /\ \E R \in SUBSET Rejected(ack) :
          /\ req'[r].pc = (IF R = {} THEN "merge" ELSE "send")
          /\ R # {} => send'[r].again /\ send'[r].taken = ack.accepted
          /\ send'[r].batch \in [1 .. Cardinality(R) -> Sanitized]
          /\ send'[r].where \in [1 .. Cardinality(R) -> Nat]
          /\ \A i \in 1 .. Cardinality(R) : /\ Backed(send'[r].batch[i], supported)
                                            /\ \E j \in R : send'[r].where[i] = send[r].where[j]
          /\ \A j \in R : \E i \in 1 .. Cardinality(R) : send'[r].where[i] = send[r].where[j]

(* A first answer does that.                                               *)
LEMMA ObserveMoves ==
    ASSUME Typed, NEW r \in Requests, NEW n \in Nat, n = Len(send[r].batch), n = Len(send[r].where),
           NEW body \in Bodies(n), NEW d, Observe(r, body, d), NEW ack, NEW supported,
           ack = decide_acknowledgement(body, n, Required(r)),
           supported = Observed(r, d, ack.kind = "acknowledged")
    PROVE  Answered(r, n, ack, supported)
<1>. DEFINE old == send[r]
            batch == old.batch
            where == old.where
            lost == ~(features \subseteq supported)
            R == IF lost THEN Retries(batch, ack.terminal_errors, supported) ELSE {}
            f == SetToSeq(R)
            k == Cardinality(R)
            all == ack.kind = "acknowledged" /\ ack.accepted = n
            ok == all \/ ack.kind = "legacy"
            again == f # <<>>
            taken == IF f = <<>> THEN 0 ELSE ack.accepted
            newBatch == [i \in DOMAIN f |-> strip_unsupported(batch[f[i]], supported)[1]]
            newWhere == [i \in DOMAIN f |-> where[f[i]]]
            pc == IF f = <<>> THEN "merge" ELSE "send"
            s == [old EXCEPT !.ok = ok, !.canonical = all, !.again = again, !.taken = taken,
                             !.batch = newBatch, !.where = newWhere]
<1>1. send \in [Requests -> AttemptType] /\ old \in AttemptType
  BY AttemptTyped
<1>2. batch \in Seq(Sanitized) /\ where \in Seq(Nat)
  BY AttemptTyped
<1>3. Verdicts(ack, n)
  BY Deciding
<1>4. /\ R \subseteq Rejected(ack) /\ IsFiniteSet(R) /\ R \subseteq 1 .. n
      /\ \A p \in R : batch[p].type = "frontend_exception"
  <2>1. CASE lost
    <3>1. R = Retries(batch, ack.terminal_errors, supported)
      BY <2>1
    <3>. HIDE DEF R, lost, batch, old
    <3>2. Retries(batch, ack.terminal_errors, supported) \subseteq Rejected(ack)
      BY <1>3, Retrying
    <3>3. IsFiniteSet(Retries(batch, ack.terminal_errors, supported))
      BY <1>3, Retrying
    <3>4. \A p \in Retries(batch, ack.terminal_errors, supported) : batch[p].type = "frontend_exception"
      BY DEF Retries
    <3>. QED BY <3>1, <3>2, <3>3, <3>4, <1>3 DEF Verdicts
  <2>2. CASE ~lost
    BY <2>2, FS_EmptySet
  <2>. QED BY <2>1, <2>2
<1>5. /\ send' = [send EXCEPT ![r] = s]
      /\ req' = [req EXCEPT ![r].acked = @ \cup AcceptedAt(where, ack), ![r].pc = pc]
  <2>. DEFINE F(u, m, a) == SetToSeq(IF ~(features \subseteq u) THEN Retries(batch, a.terminal_errors, u) ELSE {})
              All(m, a) == a.kind = "acknowledged" /\ a.accepted = m
              SendNew(u, m, a) ==
                  [send EXCEPT ![r] =
                     [old EXCEPT !.ok = All(m, a) \/ a.kind = "legacy", !.canonical = All(m, a),
                                 !.again = F(u, m, a) # <<>>,
                                 !.taken = IF F(u, m, a) = <<>> THEN 0 ELSE a.accepted,
                                 !.batch = [i \in DOMAIN F(u, m, a) |->
                                               strip_unsupported(batch[F(u, m, a)[i]], u)[1]],
                                 !.where = [i \in DOMAIN F(u, m, a) |-> where[F(u, m, a)[i]]]]]
              ReqNew(u, m, a) ==
                  [req EXCEPT ![r].acked = @ \cup AcceptedAt(where, a),
                              ![r].pc = IF F(u, m, a) = <<>> THEN "merge" ELSE "send"]
              m0 == Len(send[r].batch)
              a0 == decide_acknowledgement(body, m0, Required(r))
              u0 == Observed(r, d, a0.kind = "acknowledged")
  <2>1. send' = SendNew(u0, m0, a0) /\ req' = ReqNew(u0, m0, a0)
    BY Zenon DEF Observe
  <2>2. m0 = n
    OBVIOUS
  <2>3. a0 = ack
    BY <2>2
  <2>. HIDE DEF a0, m0
  <2>4. u0 = supported
    BY <2>3
  <2>. HIDE DEF u0, SendNew, ReqNew
  <2>5. send' = SendNew(supported, n, ack) /\ req' = ReqNew(supported, n, ack)
    BY <2>1, <2>2, <2>3, <2>4
  <2>. QED BY <2>5, Zenon DEF SendNew, ReqNew
<1>. HIDE DEF R, lost
<1>6. /\ f \in [1 .. k -> R] /\ Len(f) = k /\ k \in Nat /\ DOMAIN f = 1 .. k
      /\ \A x \in R : \E i \in 1 .. k : f[i] = x
  <2>1. f \in [1 .. k -> R] /\ Len(f) = k /\ k \in Nat /\ \A x \in R : \E i \in 1 .. k : f[i] = x
    BY <1>4, Enumerated
  <2>. HIDE DEF f, k
  <2>. QED BY <2>1
<1>. HIDE DEF f
<1>7. f = <<>> <=> R = {}
  <2>1. R = {} <=> k = 0
    BY <1>4, FS_EmptySet
  <2>. HIDE DEF k
  <2>2. f = <<>> => k = 0
    BY <1>6
  <2>3. k = 0 => f = <<>>
    BY <1>6
  <2>. QED BY <2>1, <2>2, <2>3
<1>. HIDE DEF k
<1>8. newWhere \in [1 .. k -> Nat] /\ \A i \in 1 .. k : newWhere[i] = where[f[i]]
  <2>1. newWhere = [i \in 1 .. k |-> where[f[i]]]
    BY <1>6
  <2>2. \A j \in R : where[j] \in Nat
    BY <1>2, <1>4
  <2>. HIDE DEF newWhere, where
  <2>. QED BY <2>1, <2>2, <1>6
<1>9. newBatch \in [1 .. k -> Sanitized] /\ \A i \in 1 .. k : Backed(newBatch[i], supported)
  <2>1. newBatch = [i \in 1 .. k |-> strip_unsupported(batch[f[i]], supported)[1]]
    BY <1>6
  <2>2. ASSUME NEW j \in R
        PROVE  /\ strip_unsupported(batch[j], supported)[1] \in Sanitized
               /\ Backed(strip_unsupported(batch[j], supported)[1], supported)
    <3>1. batch[j] \in Sanitized /\ batch[j].type # "diagnostic_context"
      <4>1. n = Len(batch) /\ j \in 1 .. n /\ batch[j].type = "frontend_exception"
        BY <1>4
      <4>. HIDE DEF batch
      <4>2. batch[j] \in Sanitized
        BY <4>1, <1>2
      <4>. QED BY <4>1, <4>2
    <3>2. strip_unsupported(batch[j], supported) # <<>>
      BY <3>1 DEF strip_unsupported
    <3>. DEFINE out == strip_unsupported(batch[j], supported)
    <3>3. out \in AtMostOne /\ Backed(out[1], supported) /\ out # <<>>
      BY <3>1, <3>2, Stripping
    <3>. HIDE DEF out
    <3>4. out[1] \in Sanitized
      BY <3>3 DEF AtMostOne
    <3>. QED BY <3>3, <3>4 DEF out
  <2>3. \A i \in 1 .. k : f[i] \in R
    BY <1>6
  <2>4. \A i \in 1 .. k : newBatch[i] = strip_unsupported(batch[f[i]], supported)[1]
    BY <2>1
  <2>. QED BY <2>1, <2>2, <2>3, <2>4, Zenon
<1>10. newWhere \in Seq(Nat) /\ newBatch \in Seq(Sanitized)
  <2>. HIDE DEF newWhere, newBatch
  <2>. QED BY <1>6, <1>8, <1>9, FunctionAsSequence
<1>11. ok \in BOOLEAN /\ all \in BOOLEAN /\ again \in BOOLEAN /\ taken \in Nat /\ pc \in Stages
  BY <1>3 DEF Verdicts, Stages
<1>12. AcceptedAt(where, ack) \in SUBSET Nat
  <2>1. where \in [1 .. n -> Nat]
    BY <1>2
  <2>2. AcceptedAt(where, ack) = IF ack.kind = "acknowledged" THEN {where[i] : i \in (1 .. n) \ Rejected(ack)} ELSE {}
    BY <1>3, <2>1, Accepting
  <2>. HIDE DEF where
  <2>. QED BY <2>1, <2>2
<1>13. /\ ReqMoves(r) /\ SameRate(r) /\ SameBatch(r) /\ SameFile(r)
       /\ req'[r].pc = pc /\ req'[r].acked = req[r].acked \cup AcceptedAt(where, ack)
       /\ req'[r].complete = req[r].complete /\ req'[r].raised = req[r].raised
       /\ req'[r].status = req[r].status
  <2>. HIDE DEF pc, where
  <2>. QED BY <1>5, <1>11, <1>12, AckMoves
<1>14. (all <=> (ack.kind = "acknowledged" /\ ack.accepted = n)) /\ all \in BOOLEAN
  OBVIOUS
<1>15. R # {} => again /\ taken = ack.accepted
  BY <1>7
<1>16. pc = (IF R = {} THEN "merge" ELSE "send")
  BY <1>7
<1>. HIDE DEF pc, ok, all, again, taken, newBatch, newWhere, batch, where, old
<1>17. s \in AttemptType
  BY <1>1, <1>10, <1>11 DEF AttemptType
<1>18. /\ s.left = old.left /\ s.sent = old.sent /\ s.mine = old.mine /\ s.canonical = all
       /\ s.again = again /\ s.taken = taken /\ s.batch = newBatch /\ s.where = newWhere
  BY <1>1 DEF AttemptType
<1>. HIDE DEF s
<1>19. send' \in [Requests -> AttemptType] /\ send'[r] = s /\ \A x \in Requests \ {r} : send'[x] = send[x]
  BY <1>1, <1>5, <1>17
<1>20. /\ SendMoves(r) /\ send'[r].left = send[r].left /\ send'[r].sent = send[r].sent
       /\ send'[r].mine = send[r].mine /\ send'[r].canonical = all
  BY <1>18, <1>19 DEF SendMoves, old
<1>21. /\ send'[r].batch \in [1 .. k -> Sanitized] /\ send'[r].where \in [1 .. k -> Nat]
       /\ R # {} => send'[r].again /\ send'[r].taken = ack.accepted
       /\ \A i \in 1 .. k : Backed(send'[r].batch[i], supported)
       /\ \A i \in 1 .. k : send'[r].where[i] = send[r].where[f[i]]
  BY <1>8, <1>9, <1>15, <1>18, <1>19 DEF where, old
<1>22. /\ \A i \in 1 .. k : \E j \in R : send'[r].where[i] = send[r].where[j]
       /\ \A j \in R : \E i \in 1 .. k : send'[r].where[i] = send[r].where[j]
  <2>1. \A i \in 1 .. k : f[i] \in R
    BY <1>6
  <2>2. ASSUME NEW i \in 1 .. k PROVE \E j \in R : send'[r].where[i] = send[r].where[j]
    <3>1. f[i] \in R /\ send'[r].where[i] = send[r].where[f[i]]
      BY <2>1, <1>21
    <3>. QED BY <3>1
  <2>3. ASSUME NEW j \in R PROVE \E i \in 1 .. k : send'[r].where[i] = send[r].where[j]
    <3>1. PICK i \in 1 .. k : f[i] = j
      BY <1>6
    <3>2. send'[r].where[i] = send[r].where[j]
      BY <3>1, <1>21
    <3>. QED BY <3>2
  <2>. QED BY <2>2, <2>3
<1>23. send'[r].canonical = (ack.kind = "acknowledged" /\ ack.accepted = n)
  BY <1>14, <1>20
<1>. DEFINE Good(X) ==
              /\ req'[r].pc = (IF X = {} THEN "merge" ELSE "send")
              /\ X # {} => send'[r].again /\ send'[r].taken = ack.accepted
              /\ send'[r].batch \in [1 .. Cardinality(X) -> Sanitized]
              /\ send'[r].where \in [1 .. Cardinality(X) -> Nat]
              /\ \A i \in 1 .. Cardinality(X) : /\ Backed(send'[r].batch[i], supported)
                                                /\ \E j \in X : send'[r].where[i] = send[r].where[j]
              /\ \A j \in X : \E i \in 1 .. Cardinality(X) : send'[r].where[i] = send[r].where[j]
<1>24. Good(R)
  BY <1>13, <1>16, <1>21, <1>22, Zenon DEF k
<1>. HIDE DEF Good
<1>25. \E X \in SUBSET Rejected(ack) : Good(X)
  BY <1>4, <1>24
<1>. QED BY <1>13, <1>20, <1>23, <1>25, Zenon DEF where, old, Good, Answered

(* The answer to the second call.                                          *)
LEMMA RetryMoves ==
    ASSUME Typed, NEW r \in Requests, NEW n \in Nat, n = Len(send[r].batch), n = Len(send[r].where),
           NEW body \in Bodies(n), NEW d, ObserveRetry(r, body, d), NEW ack,
           ack = decide_acknowledgement(body, n, TRUE)
    PROVE  /\ ReqMoves(r) /\ SameRate(r) /\ SameBatch(r) /\ SameFile(r)
           /\ req'[r].acked = req[r].acked \cup AcceptedAt(send[r].where, ack)
           /\ req'[r].complete = req[r].complete /\ req'[r].raised = req[r].raised
           /\ req'[r].status = req[r].status /\ req'[r].pc = "merge"
           /\ SendMoves(r)
           /\ send'[r].left = send[r].left /\ send'[r].sent = send[r].sent
           /\ send'[r].mine = send[r].mine
           /\ send'[r].canonical = RetryCompletes(send[r], ack)
<1>. DEFINE old == send[r]
            none == <<>>
            full == RetryCompletes(old, ack)
            accepted == AcceptedAt(old.where, ack)
            s == [old EXCEPT !.ok = full, !.canonical = full, !.batch = none,
                             !.where = none, !.again = FALSE, !.taken = 0]
<1>0. none \in Seq(Sanitized) /\ none \in Seq(Nat)
  OBVIOUS
<1>1. send \in [Requests -> AttemptType] /\ old \in AttemptType
  BY AttemptTyped
<1>2. Verdicts(ack, n)
  BY Deciding
<1>3. /\ send' = [send EXCEPT ![r] = s]
      /\ req' = [req EXCEPT ![r].acked = @ \cup accepted, ![r].pc = "merge"]
  <2>. DEFINE SendNew(a) ==
                  [send EXCEPT ![r] =
                     [old EXCEPT !.ok = RetryCompletes(old, a), !.canonical = RetryCompletes(old, a),
                                 !.batch = <<>>, !.where = <<>>, !.again = FALSE, !.taken = 0]]
              ReqNew(a) == [req EXCEPT ![r].acked = @ \cup AcceptedAt(old.where, a), ![r].pc = "merge"]
              a0 == decide_acknowledgement(body, Len(send[r].batch), TRUE)
  <2>1. send' = SendNew(a0) /\ req' = ReqNew(a0)
    BY Zenon DEF ObserveRetry
  <2>2. a0 = ack
    OBVIOUS
  <2>. HIDE DEF a0, SendNew, ReqNew
  <2>3. send' = SendNew(ack) /\ req' = ReqNew(ack)
    BY <2>1, <2>2
  <2>. QED BY <2>3, Zenon DEF SendNew, ReqNew
<1>4. accepted \in SUBSET Nat
  <2>1. old.where \in [1 .. n -> Nat]
    BY AttemptTyped
  <2>2. accepted = IF ack.kind = "acknowledged" THEN {old.where[i] : i \in (1 .. n) \ Rejected(ack)} ELSE {}
    BY <1>2, <2>1, Accepting
  <2>. HIDE DEF old, accepted
  <2>. QED BY <2>1, <2>2
<1>5. full \in BOOLEAN
  BY DEF RetryCompletes
<1>. HIDE DEF old, none, full, accepted
<1>6. s \in AttemptType
  BY <1>0, <1>1, <1>5 DEF AttemptType
<1>7. s.left = old.left /\ s.sent = old.sent /\ s.mine = old.mine /\ s.canonical = full
  BY <1>1 DEF AttemptType
<1>. HIDE DEF s
<1>8. send' \in [Requests -> AttemptType] /\ send'[r] = s /\ \A x \in Requests \ {r} : send'[x] = send[x]
  BY <1>1, <1>3, <1>6
<1>9. "merge" \in Stages
  BY DEF Stages
<1>10. /\ ReqMoves(r) /\ SameRate(r) /\ SameBatch(r) /\ SameFile(r)
       /\ req'[r].acked = req[r].acked \cup accepted
       /\ req'[r].complete = req[r].complete /\ req'[r].raised = req[r].raised
       /\ req'[r].status = req[r].status /\ req'[r].pc = "merge"
  BY <1>3, <1>4, <1>9, AckMoves
<1>11. /\ SendMoves(r) /\ send'[r].left = send[r].left /\ send'[r].sent = send[r].sent
       /\ send'[r].mine = send[r].mine /\ send'[r].canonical = full
  BY <1>7, <1>8 DEF SendMoves, old
<1>. QED BY <1>10, <1>11 DEF old, full, accepted

-----------------------------------------------------------------------------
(* Forwarding.                                                             *)

Sending == {"chunk", "send", "merge", "publish"}

Unsent == {"arrive", "rate", "store", "screen", "lookup", "create", "write", "replace", "cleanup",
           "forward"}

(* Positions of the events of the chunk at hand.                           *)
ChunkAt(s) == (s.sent + 1) .. (s.sent + PrefixLength(s.left))

(* What a thread knows of the events it forwards: the chunks before this   *)
(* one, the call in flight, the verdict on the chunk.                      *)
Attempt(q, s) ==
    /\ s.sent + Len(s.left) = Len(q.events)
    /\ q.acked \subseteq 1 .. s.sent \cup ChunkAt(s)
    /\ q.complete => 1 .. s.sent \subseteq q.acked

FirstCall(q, s) ==
    /\ q.acked \subseteq 1 .. s.sent
    /\ Len(s.batch) = PrefixLength(s.left)
    /\ s.where = [i \in 1 .. PrefixLength(s.left) |-> s.sent + i]

SecondCall(q, s) ==
    /\ Len(s.batch) = Len(s.where)
    /\ \A i \in 1 .. Len(s.where) : s.where[i] \in ChunkAt(s) \ q.acked
    /\ s.taken + Len(s.where) <= PrefixLength(s.left)
    /\ s.taken + Len(s.where) = PrefixLength(s.left) =>
          \A p \in ChunkAt(s) \ q.acked : \E i \in 1 .. Len(s.where) : s.where[i] = p

Forwarded(q, s) ==
    /\ q.pc \notin Sending => s = NoAttempt
    /\ q.pc \in Unsent => q.acked = {}
    /\ q.acked \subseteq 1 .. Len(q.events)
    /\ q.pc \in Sending => Attempt(q, s)
    /\ q.pc = "chunk" => q.acked \subseteq 1 .. s.sent
    /\ q.pc = "send" /\ ~s.again => FirstCall(q, s)
    /\ q.pc = "send" /\ s.again => SecondCall(q, s)
    /\ q.pc \in {"merge", "publish"} /\ s.canonical => ChunkAt(s) \subseteq q.acked
    /\ q.pc = "mark" => 1 .. Len(q.events) \subseteq q.acked

Acks == \A r \in Requests : Forwarded(req[r], send[r])

(* Only the thread that moves has to be looked at.                         *)
LEMMA AcksLift ==
    ASSUME Acks, NEW r \in Requests, ReqMoves(r), SendMoves(r), Forwarded(req'[r], send'[r])
    PROVE  Acks'
<1>. SUFFICES ASSUME NEW x \in Requests PROVE Forwarded(req'[x], send'[x])
  BY DEF Acks
<1>1. CASE x = r
  BY <1>1
<1>2. CASE x # r
  <2>1. req'[x] = req[x] /\ send'[x] = send[x] /\ Forwarded(req[x], send[x])
    BY <1>2 DEF ReqMoves, SendMoves, Acks
  <2>. QED BY <2>1
<1>. QED BY <1>1, <1>2

(* A step outside of forwarding keeps what is known of the events.         *)
LEMMA AcksQuiet ==
    ASSUME Typed, Acks, NEW r \in Requests, ReqMoves(r), send' = send,
           req'[r].acked = req[r].acked, req'[r].events = req[r].events,
           req[r].pc \notin Sending, req'[r].pc \notin Sending \cup {"mark"},
           req'[r].pc \in Unsent => req[r].pc \in Unsent
    PROVE  Acks'
<1>1. Forwarded(req[r], send[r])
  BY DEF Acks
<1>2. SendMoves(r)
  BY DEF SendMoves, Typed, LocalsTyped
<1>3. req'[r].pc # "chunk" /\ req'[r].pc # "send" /\ req'[r].pc \notin {"merge", "publish"} /\ req'[r].pc # "mark"
  BY DEF Sending
<1>4. Forwarded(req'[r], send'[r])
  BY <1>1, <1>3 DEF Forwarded
<1>. QED BY <1>2, <1>4, AcksLift

(* The same for what is known of the types.                                *)
LEMMA TypedLift ==
    ASSUME Typed, NEW r \in Requests, ReqMoves(r), SendMoves(r), SharedTyped',
           Len(writers') >= Len(writers), Consistency(r)'
    PROVE  Typed'
<1>1. LocalsTyped'
  BY DEF ReqMoves, SendMoves, LocalsTyped
<1>2. ASSUME NEW x \in Requests, x # r PROVE Consistency(x)'
  <2>1. req'[x] = req[x] /\ Consistency(x)
    BY <1>2 DEF ReqMoves, Typed
  <2>2. Len(writers) \in Nat /\ Len(writers') \in Nat
    BY DEF Typed, SharedTyped
  <2>. DEFINE m == Len(writers)
              n == Len(writers')
  <2>3. req[x].pc \in {"write", "replace"} => req[x].writer \in 1 .. n
    <3>1. req[x].pc \in {"write", "replace"} => req[x].writer \in 1 .. m
      BY <2>1 DEF Consistency
    <3>2. m \in Nat /\ n \in Nat /\ n >= m
      BY <2>2
    <3>. HIDE DEF m, n
    <3>. QED BY <3>1, <3>2
  <2>. QED BY <2>1, <2>3 DEF Consistency
<1>. QED BY <1>1, <1>2 DEF Typed

(* A step that does not read the candidates or change its transport.       *)
LEMMA TypedQuiet ==
    ASSUME Typed, NEW r \in Requests, ReqMoves(r), SendMoves(r), SharedTyped',
           Len(writers') >= Len(writers), SameBatch(r), req'[r].input = req[r].input,
           req[r].pc # "arrive",
           \/ req'[r].pc \notin {"write", "replace"}
           \/ req[r].pc = "write" /\ req'[r].writer = req[r].writer
    PROVE  Typed'
<1>1. Consistency(r)
  BY DEF Typed
<1>2. Len(writers) \in Nat /\ Len(writers') \in Nat
  BY DEF Typed, SharedTyped
<1>. DEFINE m == Len(writers)
            n == Len(writers')
<1>3. req'[r].pc \in {"write", "replace"} => req'[r].writer \in 1 .. n
  <2>1. req'[r].pc \in {"write", "replace"} => req'[r].writer \in 1 .. m
    BY <1>1 DEF Consistency
  <2>2. m \in Nat /\ n \in Nat /\ n >= m
    BY <1>2
  <2>. HIDE DEF m, n
  <2>. QED BY <2>1, <2>2
<1>4. Consistency(r)'
  BY <1>1, <1>3 DEF Consistency, SameBatch
<1>. QED BY <1>4, TypedLift

(* Nothing shared changes.                                                 *)
LEMMA SharedSame ==
    ASSUME Typed, UNCHANGED <<handler, limiter, spool, proof>>
    PROVE  SharedTyped' /\ Len(writers') >= Len(writers)
<1>1. /\ handler' = handler /\ now' = now /\ rate_limit_state' = rate_limit_state
      /\ features' = features /\ granted' = granted /\ transports' = transports
      /\ writers' = writers /\ files' = files /\ temps' = temps
  BY DEF limiter, spool, proof
<1>2. Len(writers) \in Nat
  BY DEF Typed, SharedTyped
<1>. QED BY <1>1, <1>2 DEF Typed, SharedTyped

-----------------------------------------------------------------------------
(* Every step keeps the types and what is known of the events.             *)

Base == Typed /\ Acks

(* The service of a request that has arrived is one of the services.       *)
LEMMA ServiceKnown ==
    ASSUME Typed, NEW r \in Requests, req[r].pc # "arrive"
    PROVE  req[r].input \in Posts /\ req[r].input.service \in Services
<1>1. req[r].input \in Posts
  BY RelayAssumption DEF Typed, Consistency
<1>. QED BY <1>1 DEF Posts

(* A step that leaves the attempt alone.                                   *)
LEMMA SendSame ==
    ASSUME Typed, send' = send, NEW r \in Requests
    PROVE  SendMoves(r)
BY DEF Typed, LocalsTyped, SendMoves

(* handle until the rate limiter.                                          *)
LEMMA BaseArrive ==
    ASSUME Base, NEW r \in Requests, Arrive(r)
    PROVE  Base'
<1>. USE DEF Base
<1>1. PICK i \in Inputs[r] :
          req' = [req EXCEPT ![r].input = i, ![r].status = Refusal(i),
                             ![r].pc = IF Refusal(i) = 0 THEN "rate" ELSE "done"]
  BY DEF Arrive
<1>2. /\ ReqMoves(r) /\ SameBatch(r) /\ SameFile(r) /\ req'[r].input = i
      /\ req'[r].acked = req[r].acked /\ req'[r].pc \in {"rate", "done"}
  BY <1>1, ArriveMoves
<1>3. UNCHANGED <<handler, limiter, spool, proof, send>> /\ req[r].pc = "arrive"
  BY DEF Arrive
<1>4. Consistency(r)'
  BY <1>2 DEF Typed, Consistency, SameBatch
<1>5. Typed'
  BY <1>2, <1>3, <1>4, SendSame, SharedSame, TypedLift
<1>6. Acks'
  BY <1>2, <1>3, AcksQuiet DEF SameBatch, Sending, Unsent
<1>. QED BY <1>5, <1>6

(* The rate limiter.                                                       *)
LEMMA BaseRateRead ==
    ASSUME Base, NEW r \in Requests, RateRead(r)
    PROVE  Base'
<1>. USE DEF Base
<1>1. /\ ReqMoves(r) /\ SameBatch(r) /\ SameFile(r) /\ SameReply(r)
      /\ req'[r].input = req[r].input /\ req'[r].pc = "store"
  BY RateReadMoves
<1>2. UNCHANGED <<handler, limiter, spool, proof, send>> /\ req[r].pc = "rate"
  BY DEF RateRead
<1>3. Typed'
  BY <1>1, <1>2, SendSame, SharedSame, TypedQuiet
<1>4. Acks'
  BY <1>1, <1>2, AcksQuiet DEF SameBatch, SameReply, Sending, Unsent
<1>. QED BY <1>3, <1>4

(* The window is written back, and the request refused or screened.        *)
LEMMA BaseRateStore ==
    ASSUME Base, NEW r \in Requests, RateStore(r)
    PROVE  Base'
<1>. USE DEF Base
<1>1. /\ ReqMoves(r) /\ SameBatch(r) /\ SameFile(r) /\ req'[r].acked = req[r].acked
      /\ req'[r].input = req[r].input /\ req'[r].pc \in {"done", "screen"}
  BY RateStoreMoves
<1>2. UNCHANGED <<handler, now, spool, proof, send>> /\ req[r].pc = "store" /\ rate_limit_state' = req[r].stamps
  BY DEF RateStore
<1>3. SharedTyped' /\ Len(writers') >= Len(writers)
  <2>1. req[r].stamps \subseteq Stamp
    BY DEF Typed, LocalsTyped, LocalType
  <2>2. /\ handler' = handler /\ now' = now /\ features' = features /\ granted' = granted
        /\ transports' = transports /\ writers' = writers /\ files' = files /\ temps' = temps
    BY <1>2 DEF spool, proof
  <2>3. Len(writers) \in Nat
    BY DEF Typed, SharedTyped
  <2>. QED BY <1>2, <2>1, <2>2, <2>3 DEF Typed, SharedTyped
<1>4. Typed'
  BY <1>1, <1>2, <1>3, SendSame, TypedQuiet
<1>5. Acks'
  BY <1>1, <1>2, AcksQuiet DEF SameBatch, SameReply, Sending, Unsent
<1>. QED BY <1>4, <1>5

(* Screening.                                                              *)
LEMMA BaseScreen ==
    ASSUME Base, NEW r \in Requests, ScreenCandidate(r)
    PROVE  Base'
<1>. USE DEF Base
<1>1. /\ ReqMoves(r) /\ SameRate(r) /\ SameFile(r) /\ req'[r].acked = req[r].acked
      /\ req'[r].index = req[r].index + 1
      /\ \E kept \in AtMostOne : /\ req'[r].events = req[r].events \o kept
                                 /\ req'[r].rejected = req[r].rejected + 1 - Len(kept)
      /\ req'[r].pc \in {"screen", "done", "accept", "lookup", "forward"}
  BY ScreenMoves
<1>2. UNCHANGED <<handler, limiter, spool, proof, send>> /\ req[r].pc = "screen"
  BY DEF ScreenCandidate
<1>3. Consistency(r)'
  <2>1. PICK kept \in AtMostOne : /\ req'[r].events = req[r].events \o kept
                                  /\ req'[r].rejected = req[r].rejected + 1 - Len(kept)
    BY <1>1
  <2>. DEFINE n == Len(req[r].events)
              k == Len(kept)
              a == req[r].rejected
              b == req[r].index
  <2>2. req[r].events \in Seq(Sanitized) /\ req[r].index \in Nat /\ req[r].rejected \in Nat
    BY DEF Typed, LocalsTyped, LocalType
  <2>3. kept \in Seq(Sanitized) /\ k \in {0, 1}
    <3>1. CASE kept = <<>>
      BY <3>1
    <3>2. ASSUME NEW e \in Sanitized, kept = <<e>> PROVE kept \in Seq(Sanitized) /\ k \in {0, 1}
      BY <3>2
    <3>. QED BY <3>1, <3>2 DEF AtMostOne
  <2>4. Len(req'[r].events) = n + k /\ n \in Nat
    BY <2>1, <2>2, <2>3
  <2>5. req[r].index >= 1 /\ req[r].rejected + n < req[r].index
    BY DEF Typed, Consistency
  <2>6. req'[r].rejected = req[r].rejected + 1 - k
    BY <2>1
  <2>7. req'[r].index >= 1 /\ req'[r].rejected + Len(req'[r].events) < req'[r].index
    <3>1. a \in Nat /\ b \in Nat /\ n \in Nat /\ k \in {0, 1} /\ b >= 1 /\ a + n < b
      BY <2>2, <2>3, <2>4, <2>5
    <3>2. req'[r].index = b + 1 /\ Len(req'[r].events) = n + k /\ req'[r].rejected = a + 1 - k
      BY <1>1, <2>4, <2>6
    <3>. HIDE DEF a, b, n, k
    <3>3. b + 1 >= 1 /\ (a + 1 - k) + (n + k) < b + 1
      BY <3>1
    <3>. QED BY <3>2, <3>3
  <2>8. req'[r].input \in Inputs[r] /\ req'[r].pc \notin {"write", "replace"}
    BY <1>1, <1>2 DEF Typed, Consistency, SameRate
  <2>. QED BY <2>7, <2>8 DEF Consistency
<1>4. Typed'
  BY <1>1, <1>2, <1>3, SendSame, SharedSame, TypedLift
<1>5. Forwarded(req'[r], send'[r])
  <2>1. Forwarded(req[r], send[r])
    BY DEF Acks
  <2>2. req'[r].acked = {} /\ send'[r] = NoAttempt
    BY <1>1, <1>2, <2>1 DEF Forwarded, Sending, Unsent
  <2>. QED BY <1>1, <2>2 DEF Forwarded, Sending
<1>6. Acks'
  BY <1>1, <1>2, <1>5, SendSame, AcksLift
<1>. QED BY <1>4, <1>6

(* A batch without valid events is answered without a file.                *)
LEMMA BaseEmpty ==
    ASSUME Base, NEW r \in Requests, EmptyBatch(r)
    PROVE  Base'
<1>. USE DEF Base
<1>1. 202 \in Statuses /\ Respond(r, 202)
  BY DEF EmptyBatch, Statuses
<1>2. /\ ReqMoves(r) /\ SameRate(r) /\ SameBatch(r) /\ SameFile(r)
      /\ req'[r].acked = req[r].acked /\ req'[r].pc = "done"
  BY <1>1, RespondMoves
<1>3. UNCHANGED <<handler, limiter, spool, proof, send>> /\ req[r].pc = "screen"
  BY DEF EmptyBatch
<1>4. Typed'
  BY <1>2, <1>3, SendSame, SharedSame, TypedQuiet DEF SameRate
<1>5. Acks'
  BY <1>2, <1>3, AcksQuiet DEF SameBatch, Sending, Unsent
<1>. QED BY <1>4, <1>5

(* Files.                                                                  *)
LEMMA BaseLookup ==
    ASSUME Base, NEW r \in Requests, Lookup(r)
    PROVE  Base'
<1>. USE DEF Base
<1>0. UNCHANGED <<handler, limiter, spool, proof, send>> /\ req[r].pc = "lookup"
  BY DEF Lookup
<1>1. req[r].input.service \in Services
  BY <1>0, ServiceKnown
<1>2. /\ ReqMoves(r) /\ SameRate(r) /\ SameBatch(r) /\ SameReply(r)
      /\ req'[r].writer = transports[req[r].input.service]
      /\ req'[r].pc = IF transports[req[r].input.service] = 0 THEN "create" ELSE "write"
  BY <1>1, LookupMoves
<1>3. Consistency(r)'
  <2>1. Consistency(r) /\ writers' = writers
    BY <1>0 DEF Typed, spool
  <2>2. req'[r].pc = "write" => req'[r].writer \in 1 .. Len(writers)
    <3>1. transports[req[r].input.service] \in 0 .. Len(writers) /\ Len(writers) \in Nat
      BY <1>1 DEF Typed, SharedTyped
    <3>. QED BY <1>2, <3>1
  <2>3. req'[r].pc \in {"create", "write"}
    BY <1>2
  <2>. QED BY <1>0, <1>2, <2>1, <2>2, <2>3 DEF Consistency, SameRate, SameBatch
<1>4. Typed'
  BY <1>0, <1>2, <1>3, SendSame, SharedSame, TypedLift
<1>5. req'[r].pc \in {"create", "write"}
  BY <1>2
<1>6. Acks'
  BY <1>0, <1>2, <1>5, AcksQuiet DEF SameBatch, SameReply, Sending, Unsent
<1>. QED BY <1>4, <1>6

(* A transport is added to the table.                                      *)
LEMMA BaseCreate ==
    ASSUME Base, NEW r \in Requests, Create(r)
    PROVE  Base'
<1>. USE DEF Base
<1>. DEFINE n == Len(writers)
            fresh == [lock |-> "free", sequence |-> 0]
<1>0. /\ req[r].pc = "create" /\ writers' = Append(writers, fresh)
      /\ transports' = [transports EXCEPT ![req[r].input.service] = n + 1]
      /\ UNCHANGED <<handler, limiter, files, temps, markers, proof, send>>
  BY DEF Create
<1>1. req[r].input.service \in Services
  BY <1>0, ServiceKnown
<1>2. /\ ReqMoves(r) /\ SameRate(r) /\ SameBatch(r) /\ SameReply(r)
      /\ req'[r].writer = n + 1 /\ req'[r].pc = "write"
  BY CreateMoves
<1>3. n \in Nat /\ Len(writers') = n + 1 /\ writers' \in Seq(WriterType)
  <2>1. writers \in Seq(WriterType) /\ fresh \in WriterType
    BY DEF Typed, SharedTyped, WriterType
  <2>. HIDE DEF fresh
  <2>. QED BY <1>0, <2>1
<1>4. transports \in [Services -> 0 .. n]
  BY DEF Typed, SharedTyped
<1>. HIDE DEF n
<1>5. transports' \in [Services -> 0 .. Len(writers')]
  <2>1. transports' \in [Services -> 0 .. n + 1]
    BY <1>0, <1>1, <1>3, <1>4
  <2>. QED BY <2>1, <1>3
<1>6. SharedTyped'
  <2>1. /\ handler' = handler /\ now' = now /\ rate_limit_state' = rate_limit_state
        /\ features' = features /\ granted' = granted /\ files' = files /\ temps' = temps
    BY <1>0 DEF limiter, proof
  <2>. QED BY <2>1, <1>3, <1>5 DEF Typed, SharedTyped
<1>7. Consistency(r)'
  <2>1. req'[r].writer \in 1 .. Len(writers')
    BY <1>2, <1>3
  <2>. QED BY <1>0, <1>2, <2>1 DEF Typed, Consistency, SameRate, SameBatch
<1>8. Len(writers') >= Len(writers)
  BY <1>3 DEF n
<1>9. Typed'
  BY <1>0, <1>2, <1>6, <1>7, <1>8, SendSame, TypedLift
<1>10. Acks'
  BY <1>0, <1>2, AcksQuiet DEF SameBatch, SameReply, Sending, Unsent
<1>. QED BY <1>9, <1>10

(* A transport's record changes.                                           *)
LEMMA WriterSet ==
    ASSUME Typed, NEW w \in 1 .. Len(writers), NEW record \in WriterType,
           writers' = [writers EXCEPT ![w] = record]
    PROVE  /\ writers' \in Seq(WriterType) /\ Len(writers') = Len(writers) /\ Len(writers) \in Nat
           /\ writers'[w] = record
           /\ \A i \in 1 .. Len(writers) \ {w} : writers'[i] = writers[i]
<1>1. writers \in Seq(WriterType)
  BY DEF Typed, SharedTyped
<1>. QED BY <1>1

(* Releasing the lock of a transport.                                      *)
LEMMA UnlockSet ==
    ASSUME Typed, NEW r \in Requests, req[r].pc = "replace", writers' = Unlocked(r)
    PROVE  /\ req[r].writer \in 1 .. Len(writers)
           /\ writers' \in Seq(WriterType) /\ Len(writers') = Len(writers) /\ Len(writers) \in Nat
           /\ writers'[req[r].writer].lock = "free"
           /\ writers'[req[r].writer].sequence = writers[req[r].writer].sequence
           /\ \A i \in 1 .. Len(writers) \ {req[r].writer} : writers'[i] = writers[i]
<1>. DEFINE w == req[r].writer
            old == writers[w]
            new == [old EXCEPT !.lock = "free"]
<1>1. w \in 1 .. Len(writers)
  BY DEF Typed, Consistency
<1>2. writers \in Seq(WriterType)
  BY DEF Typed, SharedTyped
<1>. HIDE DEF w
<1>3. old \in WriterType
  BY <1>1, <1>2
<1>4. writers' = [writers EXCEPT ![w] = new]
  BY DEF Unlocked, w
<1>. HIDE DEF old
<1>5. new \in WriterType /\ new.lock = "free" /\ new.sequence = old.sequence
  BY <1>3 DEF WriterType
<1>. HIDE DEF new
<1>6. /\ writers' \in Seq(WriterType) /\ Len(writers') = Len(writers) /\ Len(writers) \in Nat
      /\ writers'[w] = new /\ \A i \in 1 .. Len(writers) \ {w} : writers'[i] = writers[i]
  BY <1>1, <1>4, <1>5, WriterSet
<1>. QED BY <1>1, <1>5, <1>6 DEF w, old

(* A numbered temporary file is written under the transport's lock.        *)
LEMMA BaseWrite ==
    ASSUME Base, NEW r \in Requests, NEW outcome \in WriteOutcomes, WriteTemp(r, outcome)
    PROVE  Base'
<1>. USE DEF Base
<1>. DEFINE w == req[r].writer
            path == <<now, writers[w].sequence + 1, FileName[req[r].input.service]>>
            record == [lock |-> IF outcome \in {"ok", "short"} THEN r ELSE "free",
                       sequence |-> writers[w].sequence + 1]
<1>0. /\ req[r].pc = "write" /\ writers' = [writers EXCEPT ![w] = record]
      /\ temps' = IF outcome # "open" THEN temps \cup {[path |-> path, by |-> r]} ELSE temps
      /\ UNCHANGED <<handler, limiter, transports, files, markers, proof, send>>
  BY DEF WriteTemp
<1>1. req[r].input.service \in Services /\ w \in 1 .. Len(writers)
  BY <1>0, ServiceKnown DEF Typed, Consistency
<1>2. /\ ReqMoves(r) /\ SameRate(r) /\ SameBatch(r) /\ SameReply(r)
      /\ req'[r].path = path /\ req'[r].writer = w
      /\ req'[r].pc \in {"replace", "cleanup"}
  BY <1>1, WriteMoves
<1>3. record \in WriterType /\ path \in Path
  <2>1. now \in Nat /\ FileName[req[r].input.service] \in STRING
    BY <1>1, RelayAssumption DEF Typed, SharedTyped
  <2>2. writers[w] \in WriterType
    BY <1>1 DEF Typed, SharedTyped
  <2>3. writers[w].sequence + 1 \in Nat
    BY <2>2 DEF WriterType
  <2>. QED BY <2>1, <2>3 DEF WriterType, Path
<1>. HIDE DEF path, record
<1>4. writers' \in Seq(WriterType) /\ Len(writers') = Len(writers) /\ Len(writers) \in Nat
  <2>. HIDE DEF w
  <2>. QED BY <1>0, <1>1, <1>3, WriterSet
<1>5. temps' \subseteq [path: Path, by: Requests]
  BY <1>0, <1>3 DEF Typed, SharedTyped
<1>6. SharedTyped'
  <2>1. /\ handler' = handler /\ now' = now /\ rate_limit_state' = rate_limit_state
        /\ features' = features /\ granted' = granted /\ files' = files /\ transports' = transports
    BY <1>0 DEF limiter, proof
  <2>. QED BY <2>1, <1>4, <1>5 DEF Typed, SharedTyped
<1>7. Len(writers') >= Len(writers)
  BY <1>4
<1>8. Typed'
  BY <1>0, <1>2, <1>6, <1>7, SendSame, TypedQuiet DEF SameRate
<1>9. Acks'
  BY <1>0, <1>2, AcksQuiet DEF SameBatch, SameReply, Sending, Unsent
<1>. QED BY <1>8, <1>9

(* What os.replace does to the directory.                                  *)
LEMMA ReplaceFiles ==
    ASSUME Typed, NEW r \in Requests, Replace(r)
    PROVE  /\ req[r].path \in Path
           /\ DOMAIN files' = DOMAIN files \cup {req[r].path}
           /\ files'[req[r].path] = [of |-> r, whole |-> req[r].wrote # "short"]
           /\ \A p \in DOMAIN files : p # req[r].path => files'[p] = files[p]
<1>. DEFINE path == req[r].path
<1>1. TempOf(r) \in temps /\ temps \subseteq [path: Path, by: Requests]
  BY DEF Replace, Typed, SharedTyped
<1>2. path \in Path
  BY <1>1 DEF TempOf
<1>3. files' = [p \in DOMAIN files \cup {path} |->
                   IF p = path THEN [of |-> r, whole |-> req[r].wrote # "short"] ELSE files[p]]
  BY DEF Replace
<1>. HIDE DEF path
<1>. QED BY <1>2, <1>3 DEF path

(* The temporary file becomes a finished one.                              *)
LEMMA BaseReplace ==
    ASSUME Base, NEW r \in Requests, Replace(r)
    PROVE  Base'
<1>. USE DEF Base
<1>0. /\ req[r].pc = "replace" /\ writers' = Unlocked(r) /\ temps' = temps \ {TempOf(r)}
      /\ UNCHANGED <<handler, limiter, transports, markers, proof, send>>
  BY DEF Replace
<1>1. /\ ReqMoves(r) /\ SameRate(r) /\ SameBatch(r) /\ SameFile(r) /\ SameReply(r)
      /\ req'[r].pc \in {"forward", "accept"}
  <2>. DEFINE pc == IF handler.project_mode = "connected" THEN "forward" ELSE "accept"
  <2>1. Goto(r, pc) /\ pc \in Stages /\ pc \in {"forward", "accept"}
    BY DEF Replace, Stages
  <2>. HIDE DEF pc
  <2>. QED BY <2>1, GotoMoves
<1>2. writers' \in Seq(WriterType) /\ Len(writers') = Len(writers) /\ Len(writers) \in Nat
  BY <1>0, UnlockSet
<1>3. \A p \in DOMAIN files' : p \in Path /\ files'[p] \in [of: Requests, whole: BOOLEAN]
  <2>1. [of |-> r, whole |-> req[r].wrote # "short"] \in [of: Requests, whole: BOOLEAN]
    OBVIOUS
  <2>2. \A p \in DOMAIN files : p \in Path /\ files[p] \in [of: Requests, whole: BOOLEAN]
    BY DEF Typed, SharedTyped
  <2>. TAKE p \in DOMAIN files'
  <2>3. CASE p = req[r].path
    BY <2>1, <2>3, ReplaceFiles
  <2>4. CASE p # req[r].path
    <3>1. p \in DOMAIN files /\ files'[p] = files[p]
      BY <2>4, ReplaceFiles
    <3>. QED BY <3>1, <2>2
  <2>. QED BY <2>3, <2>4
<1>4. SharedTyped'
  <2>1. /\ handler' = handler /\ now' = now /\ rate_limit_state' = rate_limit_state
        /\ features' = features /\ granted' = granted /\ transports' = transports
    BY <1>0 DEF limiter, proof
  <2>. QED BY <2>1, <1>0, <1>2, <1>3 DEF Typed, SharedTyped
<1>5. Len(writers') >= Len(writers)
  BY <1>2
<1>6. Typed'
  BY <1>0, <1>1, <1>4, <1>5, SendSame, TypedQuiet DEF SameRate
<1>7. Acks'
  BY <1>0, <1>1, AcksQuiet DEF SameBatch, SameReply, Sending, Unsent
<1>. QED BY <1>6, <1>7

(* A failed renaming, and what it notes.                                   *)
LEMMA ReplaceFailsMoves ==
    ASSUME Typed, NEW r \in Requests, ReplaceFails(r)
    PROVE  /\ ReqMoves(r) /\ SameRate(r) /\ SameBatch(r) /\ SameReply(r)
           /\ req'[r].writer = req[r].writer /\ req'[r].path = req[r].path
           /\ req'[r].wrote = IF TempOf(r) \in temps THEN "replace" ELSE req[r].wrote
           /\ req'[r].pc = "cleanup"
<1>. DEFINE old == req[r]
            wrote == IF TempOf(r) \in temps THEN "replace" ELSE old.wrote
            q == [old EXCEPT !.pc = "cleanup", !.wrote = wrote]
<1>1. req \in [Requests -> LocalType]
  BY DEF Typed, LocalsTyped
<1>2. old \in LocalType
  BY <1>1
<1>3. req' = [req EXCEPT ![r] = q]
  BY <1>1 DEF ReplaceFails
<1>. HIDE DEF old
<1>4. wrote \in Outcomes
  BY <1>2 DEF LocalType, Outcomes
<1>. HIDE DEF wrote
<1>5. q \in LocalType
  BY <1>2, <1>4 DEF LocalType, Stages
<1>6. /\ q.pc = "cleanup" /\ q.input = old.input /\ q.at = old.at /\ q.limited = old.limited
      /\ q.stamps = old.stamps /\ q.index = old.index /\ q.events = old.events /\ q.rejected = old.rejected
      /\ q.writer = old.writer /\ q.path = old.path /\ q.wrote = wrote /\ q.complete = old.complete
      /\ q.acked = old.acked /\ q.raised = old.raised /\ q.status = old.status
  BY <1>2 DEF LocalType
<1>. HIDE DEF q
<1>7. req' \in [Requests -> LocalType] /\ req'[r] = q /\ \A x \in Requests \ {r} : req'[x] = req[x]
  BY <1>1, <1>3, <1>5
<1>. QED BY <1>6, <1>7 DEF old, wrote, ReqMoves, SameRate, SameBatch, SameReply

(* The renaming fails, and the temporary file is left to the cleanup.      *)
LEMMA BaseReplaceFails ==
    ASSUME Base, NEW r \in Requests, ReplaceFails(r)
    PROVE  Base'
<1>. USE DEF Base
<1>0. /\ req[r].pc = "replace" /\ writers' = Unlocked(r)
      /\ UNCHANGED <<handler, limiter, transports, files, temps, markers, proof, send>>
  BY DEF ReplaceFails
<1>1. /\ ReqMoves(r) /\ SameRate(r) /\ SameBatch(r) /\ SameReply(r)
      /\ req'[r].pc = "cleanup"
  BY ReplaceFailsMoves
<1>2. writers' \in Seq(WriterType) /\ Len(writers') = Len(writers) /\ Len(writers) \in Nat
  BY <1>0, UnlockSet
<1>3. SharedTyped'
  <2>1. /\ handler' = handler /\ now' = now /\ rate_limit_state' = rate_limit_state
        /\ features' = features /\ granted' = granted /\ transports' = transports
        /\ files' = files /\ temps' = temps
    BY <1>0 DEF limiter, proof
  <2>. QED BY <2>1, <1>2 DEF Typed, SharedTyped
<1>4. Len(writers') >= Len(writers)
  BY <1>2
<1>5. Typed'
  BY <1>0, <1>1, <1>3, <1>4, SendSame, TypedQuiet DEF SameRate
<1>6. Acks'
  BY <1>0, <1>1, AcksQuiet DEF SameBatch, SameReply, Sending, Unsent
<1>. QED BY <1>5, <1>6

(* Temporary files are removed and the request answered 500.               *)
LEMMA BaseCleanup ==
    ASSUME Base, NEW r \in Requests, Cleanup(r)
    PROVE  Base'
<1>. USE DEF Base
<1>0. /\ req[r].pc = "cleanup" /\ temps' \subseteq temps
      /\ UNCHANGED <<handler, limiter, transports, writers, files, markers, proof, send>>
  BY DEF Cleanup
<1>1. /\ ReqMoves(r) /\ SameRate(r) /\ SameBatch(r) /\ SameFile(r)
      /\ req'[r].acked = req[r].acked /\ req'[r].pc = "done"
  <2>1. Respond(r, 500) /\ 500 \in Statuses
    BY DEF Cleanup, Statuses
  <2>. QED BY <2>1, RespondMoves
<1>2. Len(writers') >= Len(writers)
  <2>1. Len(writers) \in Nat
    BY DEF Typed, SharedTyped
  <2>. QED BY <1>0, <2>1
<1>3. SharedTyped'
  <2>1. /\ handler' = handler /\ now' = now /\ rate_limit_state' = rate_limit_state
        /\ features' = features /\ granted' = granted /\ transports' = transports
        /\ files' = files /\ writers' = writers
    BY <1>0 DEF limiter, proof
  <2>2. temps' \subseteq [path: Path, by: Requests]
    BY <1>0 DEF Typed, SharedTyped
  <2>. QED BY <2>1, <2>2 DEF Typed, SharedTyped
<1>4. Typed'
  BY <1>0, <1>1, <1>2, <1>3, SendSame, TypedQuiet DEF SameRate
<1>5. Acks'
  BY <1>0, <1>1, AcksQuiet DEF SameBatch, Sending, Unsent
<1>. QED BY <1>4, <1>5

(* After delivery.                                                         *)
LEMMA BaseMark ==
    ASSUME Base, NEW r \in Requests, Mark(r)
    PROVE  Base'
<1>. USE DEF Base
<1>0. req[r].pc = "mark" /\ UNCHANGED <<handler, limiter, transports, writers, files, temps, proof, send>>
  BY DEF Mark
<1>1. /\ ReqMoves(r) /\ SameRate(r) /\ SameBatch(r) /\ SameFile(r) /\ SameReply(r)
      /\ req'[r].pc = "accept"
  <2>1. Goto(r, "accept") /\ "accept" \in Stages
    BY DEF Mark, Stages
  <2>. QED BY <2>1, GotoMoves
<1>2. SharedTyped' /\ Len(writers') >= Len(writers)
  <2>1. /\ handler' = handler /\ now' = now /\ rate_limit_state' = rate_limit_state
        /\ features' = features /\ granted' = granted /\ transports' = transports
        /\ files' = files /\ temps' = temps /\ writers' = writers
    BY <1>0 DEF limiter, proof
  <2>2. Len(writers) \in Nat
    BY DEF Typed, SharedTyped
  <2>. QED BY <2>1, <2>2 DEF Typed, SharedTyped
<1>3. Typed'
  BY <1>0, <1>1, <1>2, SendSame, TypedQuiet DEF SameRate
<1>4. Acks'
  BY <1>0, <1>1, AcksQuiet DEF SameBatch, SameReply, Sending, Unsent
<1>. QED BY <1>3, <1>4

(* A request is answered when it has been filed or forwarded.              *)
LEMMA BaseAccept ==
    ASSUME Base, NEW r \in Requests, Accept(r)
    PROVE  Base'
<1>. USE DEF Base
<1>0. req[r].pc = "accept" /\ UNCHANGED <<handler, limiter, spool, proof, send>>
  BY DEF Accept
<1>1. /\ ReqMoves(r) /\ SameRate(r) /\ SameBatch(r) /\ req'[r].acked = req[r].acked
      /\ req'[r].pc = "done"
  BY AcceptMoves
<1>2. Typed'
  BY <1>0, <1>1, SendSame, SharedSame, TypedQuiet DEF SameRate
<1>3. Acks'
  BY <1>0, <1>1, AcksQuiet DEF SameBatch, Sending, Unsent
<1>. QED BY <1>2, <1>3

(* Forwarding.                                                             *)
LEMMA BaseVerdict ==
    ASSUME Base, NEW r \in Requests, NEW succeeded \in BOOLEAN, NEW done \in BOOLEAN,
           Verdict(r, succeeded, done), done => 1 .. Len(req[r].events) \subseteq req[r].acked,
           req[r].pc # "arrive", SharedTyped', Len(writers') >= Len(writers)
    PROVE  Base'
<1>. USE DEF Base
<1>1. /\ ReqMoves(r) /\ SameRate(r) /\ SameBatch(r) /\ SameFile(r) /\ req'[r].acked = req[r].acked
      /\ req'[r].pc \in {"mark", "accept", "done"} /\ (req'[r].pc = "mark" => done)
  BY VerdictMoves
<1>2. SendMoves(r) /\ send'[r] = NoAttempt
  BY VerdictSends
<1>3. Typed'
  BY <1>1, <1>2, TypedQuiet DEF SameRate
<1>4. Forwarded(req'[r], send'[r])
  <2>1. req[r].acked \subseteq 1 .. Len(req[r].events)
    BY DEF Acks, Forwarded
  <2>2. /\ req'[r].pc \notin Sending /\ req'[r].pc \notin Unsent /\ req'[r].pc # "chunk"
        /\ req'[r].pc # "send" /\ req'[r].pc \notin {"merge", "publish"}
    BY <1>1 DEF Sending, Unsent
  <2>3. req'[r].events = req[r].events
    BY <1>1 DEF SameBatch
  <2>. QED BY <1>1, <1>2, <2>1, <2>2, <2>3 DEF Forwarded
<1>5. Acks'
  BY <1>1, <1>2, <1>4, AcksLift
<1>. QED BY <1>3, <1>5

(* An attempt starts with every event of the batch, none sent.             *)
LEMMA BaseForward ==
    ASSUME Base, NEW r \in Requests, Forward(r)
    PROVE  Base'
<1>. USE DEF Base
<1>. DEFINE owned == [i \in DOMAIN req[r].events |-> [req[r].events[i] EXCEPT !.token = TRUE]]
<1>0. req[r].pc = "forward" /\ UNCHANGED <<handler, limiter, spool, proof>>
  BY DEF Forward
<1>1. CASE Verdict(r, FALSE, FALSE)
  BY <1>0, <1>1, BaseVerdict, SharedSame
<1>2. CASE /\ req' = [req EXCEPT ![r].pc = "chunk", ![r].complete = TRUE]
           /\ send' = [send EXCEPT ![r].left = owned, ![r].mine = FEATURES]
  <2>0. req[r].acked = {} /\ send[r] = NoAttempt
    BY <1>0 DEF Acks, Forwarded, Sending, Unsent
  <2>1. /\ ReqMoves(r) /\ SameRate(r) /\ SameBatch(r) /\ SameFile(r)
        /\ req'[r].pc = "chunk" /\ req'[r].acked = req[r].acked
    BY <1>2, StartMoves
  <2>2. /\ SendMoves(r) /\ send'[r].left \in Seq(Sanitized)
        /\ Len(send'[r].left) = Len(req[r].events) /\ send'[r].sent = 0
    <3>1. \A x : x = owned => /\ SendMoves(r) /\ send'[r].left \in Seq(Sanitized)
                              /\ Len(send'[r].left) = Len(req[r].events) /\ send'[r].sent = 0
      BY <1>2, <2>0, ForwardSends, Zenon
    <3>. HIDE DEF owned
    <3>. QED BY <3>1
  <2>3. Typed'
    BY <1>0, <2>1, <2>2, SharedSame, TypedQuiet DEF SameRate
  <2>4. Forwarded(req'[r], send'[r])
    <3>1. req'[r].acked = {} /\ req'[r].events = req[r].events /\ req'[r].pc = "chunk"
      BY <2>0, <2>1 DEF SameBatch
    <3>2. req[r].events \in Seq(Sanitized)
      BY DEF Typed, LocalsTyped, LocalType
    <3>. DEFINE m == Len(req[r].events)
    <3>3. m \in Nat
      BY <3>2
    <3>4. send'[r].sent + Len(send'[r].left) = Len(req'[r].events)
      <4>1. send'[r].sent = 0 /\ Len(send'[r].left) = m /\ Len(req'[r].events) = m
        BY <2>2, <3>1
      <4>. HIDE DEF m
      <4>. QED BY <4>1, <3>3
    <3>5. 1 .. send'[r].sent = {}
      BY <2>2
    <3>6. Attempt(req'[r], send'[r])
      BY <3>1, <3>4, <3>5 DEF Attempt
    <3>. QED BY <3>1, <3>6 DEF Forwarded, Sending, Unsent
  <2>5. Acks'
    BY <2>1, <2>2, <2>4, AcksLift
  <2>. QED BY <2>3, <2>5
<1>. QED BY <1>1, <1>2, Zenon DEF Forward

(* An attempt ends when its time is over or an event cannot be reduced.    *)
LEMMA BaseGiveUp ==
    ASSUME Base, NEW r \in Requests, GiveUp(r)
    PROVE  Base'
<1>1. /\ req[r].pc = "chunk" /\ Verdict(r, FALSE, FALSE) /\ UNCHANGED <<handler, limiter, spool, proof>>
  BY DEF GiveUp
<1>2. SharedTyped' /\ Len(writers') >= Len(writers)
  BY <1>1, SharedSame DEF Base
<1>. QED BY <1>1, <1>2, BaseVerdict

(* The next prefix of what is left becomes a call.                         *)
LEMMA BaseChunk ==
    ASSUME Base, NEW r \in Requests, Chunk(r)
    PROVE  Base'
<1>. USE DEF Base
<1>. DEFINE n == PrefixLength(send[r].left)
<1>0. req[r].pc = "chunk" /\ Goto(r, "send") /\ UNCHANGED <<handler, limiter, spool, proof>>
  BY DEF Chunk
<1>1. /\ ReqMoves(r) /\ SameRate(r) /\ SameBatch(r) /\ SameFile(r) /\ SameReply(r) /\ req'[r].pc = "send"
  BY <1>0, GotoMoves DEF Stages
<1>2. /\ SendMoves(r) /\ n \in Nat
      /\ send'[r].left = send[r].left /\ send'[r].sent = send[r].sent /\ send'[r].again = FALSE
      /\ send'[r].batch \in [1 .. n -> Sanitized]
      /\ send'[r].where = [i \in 1 .. n |-> send[r].sent + i]
  BY ChunkSends
<1>3. Typed'
  BY <1>0, <1>1, <1>2, SharedSame, TypedQuiet DEF SameRate
<1>4. /\ Attempt(req[r], send[r]) /\ req[r].acked \subseteq 1 .. send[r].sent
      /\ req[r].acked \subseteq 1 .. Len(req[r].events)
  BY <1>0 DEF Acks, Forwarded, Sending
<1>5. /\ req'[r].acked = req[r].acked /\ req'[r].events = req[r].events
      /\ req'[r].complete = req[r].complete
  BY <1>1 DEF SameBatch, SameReply
<1>6. Attempt(req'[r], send'[r])
  BY <1>2, <1>4, <1>5 DEF Attempt, ChunkAt
<1>7. FirstCall(req'[r], send'[r])
  <2>1. Len(send'[r].batch) = n
    <3>. HIDE DEF n
    <3>. QED BY <1>2, FunctionAsSequence
  <2>2. PrefixLength(send'[r].left) = n
    BY <1>2
  <2>. HIDE DEF n
  <2>. QED BY <1>2, <1>4, <1>5, <2>1, <2>2 DEF FirstCall
<1>8. Forwarded(req'[r], send'[r])
  BY <1>1, <1>2, <1>4, <1>5, <1>6, <1>7 DEF Forwarded, Sending, Unsent
<1>9. Acks'
  BY <1>1, <1>2, <1>8, AcksLift
<1>. QED BY <1>3, <1>9

(* A call that fails ends the attempt; earlier acknowledgements stay.      *)
LEMMA BaseSendFails ==
    ASSUME Base, NEW r \in Requests, SendFails(r)
    PROVE  Base'
<1>. USE DEF Base
<1>0. /\ req[r].pc = "send" /\ ChunkResult(r, FALSE, FALSE) /\ Goto(r, "merge")
      /\ UNCHANGED <<handler, limiter, spool, proof>>
  BY DEF SendFails, ChunkResult
<1>1. /\ ReqMoves(r) /\ SameRate(r) /\ SameBatch(r) /\ SameFile(r) /\ SameReply(r) /\ req'[r].pc = "merge"
  BY <1>0, GotoMoves DEF Stages
<1>2. /\ SendMoves(r) /\ send'[r].left = send[r].left /\ send'[r].sent = send[r].sent
      /\ send'[r].canonical = FALSE
  BY <1>0, FailSends
<1>3. Typed'
  BY <1>0, <1>1, <1>2, SharedSame, TypedQuiet DEF SameRate
<1>4. Attempt(req[r], send[r]) /\ req[r].acked \subseteq 1 .. Len(req[r].events)
  BY <1>0 DEF Acks, Forwarded, Sending
<1>5. /\ req'[r].acked = req[r].acked /\ req'[r].events = req[r].events
      /\ req'[r].complete = req[r].complete
  BY <1>1 DEF SameBatch, SameReply
<1>6. Attempt(req'[r], send'[r])
  BY <1>2, <1>4, <1>5 DEF Attempt, ChunkAt
<1>7. Forwarded(req'[r], send'[r])
  BY <1>1, <1>2, <1>4, <1>5, <1>6 DEF Forwarded, Sending, Unsent
<1>8. Acks'
  BY <1>1, <1>2, <1>7, AcksLift
<1>. QED BY <1>3, <1>8

(* A thread drops the features that others have found unsupported.         *)
LEMMA BaseMerge ==
    ASSUME Base, NEW r \in Requests, Merge(r)
    PROVE  Base'
<1>. USE DEF Base
<1>0. req[r].pc = "merge" /\ Goto(r, "publish") /\ UNCHANGED <<handler, limiter, spool, proof>>
  BY DEF Merge
<1>1. /\ ReqMoves(r) /\ SameRate(r) /\ SameBatch(r) /\ SameFile(r) /\ SameReply(r) /\ req'[r].pc = "publish"
  BY <1>0, GotoMoves DEF Stages
<1>2. /\ SendMoves(r) /\ send'[r].left = send[r].left /\ send'[r].sent = send[r].sent
      /\ send'[r].canonical = send[r].canonical
  BY MergeSends
<1>3. Typed'
  BY <1>0, <1>1, <1>2, SharedSame, TypedQuiet DEF SameRate
<1>4. /\ Attempt(req[r], send[r]) /\ req[r].acked \subseteq 1 .. Len(req[r].events)
      /\ send[r].canonical => ChunkAt(send[r]) \subseteq req[r].acked
  BY <1>0 DEF Acks, Forwarded, Sending
<1>5. /\ req'[r].acked = req[r].acked /\ req'[r].events = req[r].events
      /\ req'[r].complete = req[r].complete
  BY <1>1 DEF SameBatch, SameReply
<1>6. ChunkAt(send'[r]) = ChunkAt(send[r])
  BY <1>2 DEF ChunkAt
<1>7. Attempt(req'[r], send'[r])
  BY <1>2, <1>4, <1>5, <1>6 DEF Attempt
<1>8. Forwarded(req'[r], send'[r])
  BY <1>1, <1>2, <1>4, <1>5, <1>6, <1>7 DEF Forwarded, Sending, Unsent
<1>9. Acks'
  BY <1>1, <1>2, <1>8, AcksLift
<1>. QED BY <1>3, <1>9

(* And publishes those that remain.                                        *)
LEMMA BasePublish ==
    ASSUME Base, NEW r \in Requests, Publish(r)
    PROVE  Base'
<1>. USE DEF Base
<1>. DEFINE s == send[r]
            complete == req[r].complete /\ s.canonical
            n == PrefixLength(s.left)
<1>0. /\ req[r].pc = "publish" /\ features' = s.mine
      /\ UNCHANGED <<handler, limiter, spool, granted>>
  BY DEF Publish
<1>1. SharedTyped' /\ Len(writers') >= Len(writers)
  <2>1. /\ handler' = handler /\ now' = now /\ rate_limit_state' = rate_limit_state
        /\ granted' = granted /\ transports' = transports
        /\ writers' = writers /\ files' = files /\ temps' = temps
    BY <1>0 DEF limiter, spool
  <2>2. s.mine \subseteq FEATURES
    BY AttemptTyped DEF AttemptType
  <2>3. Len(writers) \in Nat
    BY DEF Typed, SharedTyped
  <2>. QED BY <1>0, <2>1, <2>2, <2>3 DEF Typed, SharedTyped
<1>2. /\ Attempt(req[r], s) /\ req[r].acked \subseteq 1 .. Len(req[r].events)
      /\ s.canonical => ChunkAt(s) \subseteq req[r].acked
  BY <1>0 DEF Acks, Forwarded, Sending
<1>3. /\ s.left \in Seq(Sanitized) /\ s.sent \in Nat /\ n \in Nat
      /\ n \in 0 .. Len(s.left) /\ Len(AfterPrefix(s.left)) = Len(s.left) - n /\ Len(s.left) \in Nat
  <2>1. s.left \in Seq(Sanitized) /\ s.sent \in Nat
    BY AttemptTyped
  <2>. QED BY <2>1, PrefixCuts
<1>4. complete \in BOOLEAN
  BY DEF Typed, LocalsTyped, LocalType, AttemptType
<1>5. complete => 1 .. s.sent + n \subseteq req[r].acked
  <2>. SUFFICES ASSUME complete PROVE 1 .. s.sent + n \subseteq req[r].acked
    OBVIOUS
  <2>1. 1 .. s.sent \subseteq req[r].acked /\ (s.sent + 1) .. (s.sent + n) \subseteq req[r].acked
    BY <1>2 DEF Attempt, ChunkAt
  <2>. HIDE DEF n, s, complete
  <2>. QED BY <2>1, <1>3
<1>6. CASE Verdict(r, FALSE, FALSE)
  BY <1>0, <1>1, <1>6, BaseVerdict
<1>7. CASE AfterPrefix(s.left) = <<>> /\ Verdict(r, TRUE, complete)
  <2>1. Len(s.left) = n
    <3>. DEFINE l == Len(s.left)
    <3>1. l - n = 0 /\ l \in Nat /\ n \in Nat
      BY <1>3, <1>7
    <3>. HIDE DEF l, n
    <3>2. l = n
      BY <3>1
    <3>. QED BY <3>2 DEF l
  <2>2. Len(req[r].events) = s.sent + n
    BY <1>2, <2>1 DEF Attempt
  <2>3. complete => 1 .. Len(req[r].events) \subseteq req[r].acked
    BY <1>5, <2>2
  <2>. HIDE DEF complete
  <2>. QED BY <1>0, <1>1, <1>4, <1>7, <2>3, BaseVerdict
<1>8. CASE /\ send' = [send EXCEPT ![r] =
                          [NoAttempt EXCEPT !.left = AfterPrefix(s.left), !.mine = s.mine,
                                            !.sent = s.sent + PrefixLength(s.left)]]
           /\ req' = [req EXCEPT ![r].pc = "chunk", ![r].complete = complete]
  <2>1. /\ SendMoves(r) /\ ReqMoves(r) /\ SameRate(r) /\ SameBatch(r)
        /\ send'[r].left = AfterPrefix(s.left) /\ send'[r].sent = s.sent + n
        /\ req'[r].pc = "chunk" /\ req'[r].complete = complete /\ req'[r].acked = req[r].acked
    <3>. HIDE DEF complete
    <3>. QED BY <1>4, <1>8, NextChunkMoves
  <2>2. Typed'
    BY <1>0, <1>1, <2>1, TypedQuiet DEF SameRate
  <2>3. req'[r].events = req[r].events
    BY <2>1 DEF SameBatch
  <2>4. req[r].acked \subseteq 1 .. s.sent + n
    <3>1. req[r].acked \subseteq 1 .. s.sent \cup (s.sent + 1) .. (s.sent + n)
      BY <1>2 DEF Attempt, ChunkAt
    <3>. HIDE DEF s, n
    <3>. QED BY <1>3, <3>1
  <2>5. send'[r].sent + Len(send'[r].left) = Len(req'[r].events)
    <3>1. s.sent + Len(s.left) = Len(req[r].events)
      BY <1>2 DEF Attempt
    <3>. DEFINE l == Len(s.left)
                a == s.sent
    <3>2. /\ send'[r].sent = a + n /\ Len(send'[r].left) = l - n /\ Len(req'[r].events) = a + l
          /\ l \in Nat /\ a \in Nat /\ n \in Nat
      BY <1>3, <2>1, <2>3, <3>1
    <3>. HIDE DEF l, a, n
    <3>. QED BY <3>2
  <2>6. Attempt(req'[r], send'[r]) /\ req'[r].acked \subseteq 1 .. send'[r].sent
    <3>. HIDE DEF n, complete, s
    <3>. QED BY <1>5, <2>1, <2>4, <2>5 DEF Attempt
  <2>7. Forwarded(req'[r], send'[r])
    BY <1>2, <2>1, <2>3, <2>6 DEF Forwarded, Sending, Unsent
  <2>8. Acks'
    BY <2>1, <2>7, AcksLift
  <2>. QED BY <2>2, <2>8
<1>. QED BY <1>6, <1>7, <1>8, Zenon DEF Publish

(* An answer changes the shared record of the destination's support.       *)
LEMMA LearnShared ==
    ASSUME Typed, NEW u \in SUBSET FEATURES, Learn(u), UNCHANGED <<handler, limiter, spool>>
    PROVE  SharedTyped' /\ Len(writers') >= Len(writers)
<1>1. /\ handler' = handler /\ now' = now /\ rate_limit_state' = rate_limit_state
      /\ transports' = transports /\ writers' = writers /\ files' = files /\ temps' = temps
  BY DEF limiter, spool
<1>2. features' = u /\ granted' = granted \cup u
  BY DEF Learn
<1>3. Len(writers) \in Nat
  BY DEF Typed, SharedTyped
<1>. QED BY <1>1, <1>2, <1>3 DEF Typed, SharedTyped

(* The answer to a first call: accepted events are those of its batch at   *)
(* positions that were not rejected.                                       *)
LEMMA BaseObserve ==
    ASSUME Base, NEW r \in Requests, NEW body \in Bodies(Len(send[r].batch)), NEW d, Observe(r, body, d)
    PROVE  Base'
<1>. USE DEF Base
<1>. DEFINE n == PrefixLength(send[r].left)
            a == send[r].sent
            where == send[r].where
            ack == decide_acknowledgement(body, Len(send[r].batch), Required(r))
            supported == Observed(r, d, ack.kind = "acknowledged")
<1>0. /\ req[r].pc = "send" /\ ~send[r].again /\ Learn(supported)
      /\ UNCHANGED <<handler, limiter, spool>>
  BY Zenon DEF Observe
<1>1. SharedTyped' /\ Len(writers') >= Len(writers)
  <2>1. supported \in SUBSET FEATURES
    BY ObservedFeatures
  <2>. HIDE DEF supported
  <2>. QED BY <1>0, <2>1, LearnShared
<1>2. /\ Attempt(req[r], send[r]) /\ req[r].acked \subseteq 1 .. Len(req[r].events)
      /\ FirstCall(req[r], send[r])
  BY <1>0 DEF Acks, Forwarded, Sending
<1>3. n \in Nat /\ a \in Nat /\ n <= Len(send[r].left) /\ Len(send[r].left) \in Nat
  <2>1. send[r].left \in Seq(Sanitized) /\ a \in Nat
    BY AttemptTyped
  <2>2. n \in 0 .. Len(send[r].left) /\ n \in Nat
    BY <2>1, PrefixCuts, Zenon
  <2>3. Len(send[r].left) \in Nat
    BY <2>1
  <2>. HIDE DEF n
  <2>. QED BY <2>1, <2>2, <2>3
<1>4. /\ Len(send[r].batch) = n /\ where = [i \in 1 .. n |-> a + i] /\ req[r].acked \subseteq 1 .. a
  BY <1>2 DEF FirstCall
<1>5. where \in [1 .. n -> Nat] /\ Len(where) = n
  <2>. HIDE DEF n, a, where
  <2>1. where \in [1 .. n -> Nat]
    BY <1>3, <1>4
  <2>. QED BY <1>3, <2>1, FunctionAsSequence
<1>6. body \in Bodies(n) /\ ack = decide_acknowledgement(body, n, Required(r))
  <2>. HIDE DEF n
  <2>. QED BY <1>4
<1>7. Verdicts(ack, n)
  <2>. HIDE DEF n, ack
  <2>. QED BY <1>3, <1>6, Deciding
<1>. DEFINE accepted == AcceptedAt(where, ack)
<1>8. accepted = IF ack.kind = "acknowledged" THEN {where[i] : i \in (1 .. n) \ Rejected(ack)} ELSE {}
  <2>. HIDE DEF n, ack, where
  <2>. QED BY <1>3, <1>5, <1>7, Accepting
<1>9. /\ ReqMoves(r) /\ SameRate(r) /\ SameBatch(r) /\ SameFile(r)
      /\ req'[r].acked = req[r].acked \cup accepted /\ req'[r].complete = req[r].complete
      /\ SendMoves(r) /\ send'[r].left = send[r].left /\ send'[r].sent = a
      /\ send'[r].canonical = (ack.kind = "acknowledged" /\ ack.accepted = n)
      /\ \E R \in SUBSET Rejected(ack) :
            /\ req'[r].pc = (IF R = {} THEN "merge" ELSE "send")
            /\ R # {} => send'[r].again /\ send'[r].taken = ack.accepted
            /\ send'[r].batch \in [1 .. Cardinality(R) -> Sanitized]
            /\ send'[r].where \in [1 .. Cardinality(R) -> Nat]
            /\ \A i \in 1 .. Cardinality(R) : /\ Backed(send'[r].batch[i], supported)
                                              /\ \E j \in R : send'[r].where[i] = where[j]
            /\ \A j \in R : \E i \in 1 .. Cardinality(R) : send'[r].where[i] = where[j]
  <2>1. n = Len(send[r].batch) /\ n = Len(send[r].where)
    BY <1>4, <1>5
  <2>2. supported = Observed(r, d, ack.kind = "acknowledged")
    OBVIOUS
  <2>. HIDE DEF n, ack, supported
  <2>3. Answered(r, n, ack, supported)
    BY <1>3, <1>6, <2>1, <2>2, ObserveMoves
  <2>. QED BY <2>3, Zenon DEF Answered
<1>. HIDE DEF ack, supported, where, accepted
<1>10. \A p \in accepted : \E i \in 1 .. n : p = a + i /\ i \notin Rejected(ack)
  <2>. HIDE DEF n, a
  <2>1. \A i \in 1 .. n : where[i] = a + i
    BY <1>4
  <2>. QED BY <1>8, <2>1
<1>11. ack.kind = "acknowledged" => \A i \in 1 .. n : i \notin Rejected(ack) => a + i \in accepted
  <2>. HIDE DEF n, a
  <2>1. \A i \in 1 .. n : where[i] = a + i
    BY <1>4
  <2>. QED BY <1>8, <2>1
<1>12. ChunkAt(send'[r]) = (a + 1) .. (a + n) /\ PrefixLength(send'[r].left) = n
  BY <1>9 DEF ChunkAt
<1>13. a + Len(send[r].left) = Len(req[r].events) /\ (req[r].complete => 1 .. a \subseteq req[r].acked)
  BY <1>2 DEF Attempt
<1>14. req'[r].events = req[r].events
  BY <1>9 DEF SameBatch
<1>. HIDE DEF n, a
<1>15. accepted \subseteq (a + 1) .. (a + n)
  BY <1>3, <1>10
<1>16. Attempt(req'[r], send'[r])
  BY <1>4, <1>9, <1>12, <1>13, <1>14, <1>15 DEF Attempt
<1>17. req'[r].acked \subseteq 1 .. Len(req'[r].events)
  <2>. DEFINE l == Len(send[r].left)
  <2>1. l \in Nat /\ n <= l /\ Len(req'[r].events) = a + l
    BY <1>3, <1>13, <1>14
  <2>. HIDE DEF l
  <2>2. (a + 1) .. (a + n) \subseteq 1 .. a + l /\ 1 .. a \subseteq 1 .. a + l
    BY <1>3, <2>1
  <2>. QED BY <1>4, <1>9, <1>15, <2>1, <2>2
<1>18. PICK R \in SUBSET Rejected(ack) :
            /\ req'[r].pc = (IF R = {} THEN "merge" ELSE "send")
            /\ R # {} => send'[r].again /\ send'[r].taken = ack.accepted
            /\ send'[r].batch \in [1 .. Cardinality(R) -> Sanitized]
            /\ send'[r].where \in [1 .. Cardinality(R) -> Nat]
            /\ \A i \in 1 .. Cardinality(R) : \E j \in R : send'[r].where[i] = where[j]
            /\ \A j \in R : \E i \in 1 .. Cardinality(R) : send'[r].where[i] = where[j]
  BY <1>9, Zenon
<1>. DEFINE k == Cardinality(R)
            x == Cardinality(Rejected(ack))
<1>19. /\ IsFiniteSet(Rejected(ack)) /\ Rejected(ack) \subseteq 1 .. n
       /\ IsFiniteSet(R) /\ k \in Nat /\ x \in Nat /\ k <= x
       /\ k = x => R = Rejected(ack)
  <2>1. IsFiniteSet(Rejected(ack)) /\ Rejected(ack) \subseteq 1 .. n
    BY <1>7 DEF Verdicts
  <2>. QED BY <2>1, FS_Subset, FS_CardinalityType
<1>20. ack.accepted \in Nat /\ ack.accepted + x <= n /\ (ack.kind # "acknowledged" => Rejected(ack) = {})
  BY <1>7 DEF Verdicts
<1>21. \A j \in 1 .. n : where[j] = a + j
  BY <1>4
<1>22. CASE R = {}
  <2>1. req'[r].pc = "merge"
    BY <1>18, <1>22
  <2>2. send'[r].canonical => ChunkAt(send'[r]) \subseteq req'[r].acked
    <3>. SUFFICES ASSUME send'[r].canonical PROVE (a + 1) .. (a + n) \subseteq req'[r].acked
      BY <1>12
    <3>1. ack.kind = "acknowledged" /\ ack.accepted = n
      BY <1>9
    <3>2. x = 0
      <4>. HIDE DEF x
      <4>. QED BY <1>3, <1>19, <1>20, <3>1
    <3>3. Rejected(ack) = {}
      BY <1>19, <3>2, FS_EmptySet
    <3>4. \A i \in 1 .. n : a + i \in accepted
      BY <1>11, <3>1, <3>3
    <3>5. \A p \in (a + 1) .. (a + n) : p - a \in 1 .. n /\ a + (p - a) = p
      BY <1>3
    <3>6. \A p \in (a + 1) .. (a + n) : p \in accepted
      BY <3>4, <3>5
    <3>. QED BY <1>9, <3>6
  <2>. QED BY <1>9, <1>16, <1>17, <2>1, <2>2, AcksLift, <1>1, <1>0, TypedQuiet DEF Forwarded, Sending, Unsent, SameRate
<1>23. CASE R # {}
  <2>1. /\ req'[r].pc = "send" /\ send'[r].again /\ send'[r].taken = ack.accepted
        /\ ack.kind = "acknowledged"
    BY <1>18, <1>20, <1>23
  <2>2. Len(send'[r].batch) = k /\ Len(send'[r].where) = k
    <3>. HIDE DEF k
    <3>1. send'[r].batch \in [1 .. k -> Sanitized] /\ send'[r].where \in [1 .. k -> Nat]
      BY <1>18 DEF k
    <3>. QED BY <3>1, <1>19, FunctionAsSequence
  <2>3. \A i \in 1 .. k : send'[r].where[i] \in ((a + 1) .. (a + n)) \ req'[r].acked
    <3>. TAKE i \in 1 .. k
    <3>1. PICK j \in R : send'[r].where[i] = where[j]
      BY <1>18
    <3>2. j \in 1 .. n /\ j \in Rejected(ack) /\ send'[r].where[i] = a + j
      BY <1>19, <1>21, <3>1
    <3>3. a + j \in (a + 1) .. (a + n) /\ a + j \notin 1 .. a
      BY <1>3, <3>2
    <3>4. a + j \notin accepted
      <4>. SUFFICES ASSUME a + j \in accepted PROVE FALSE
        OBVIOUS
      <4>1. PICK m \in 1 .. n : a + j = a + m /\ m \notin Rejected(ack)
        BY <1>10
      <4>2. m = j
        BY <1>3, <3>2, <4>1
      <4>. QED BY <3>2, <4>1, <4>2
    <3>. QED BY <1>4, <1>9, <3>2, <3>3, <3>4
  <2>4. ack.accepted + k <= n
    <3>. HIDE DEF k, x
    <3>. QED BY <1>3, <1>19, <1>20
  <2>5. ASSUME ack.accepted + k = n, NEW p \in ((a + 1) .. (a + n)) \ req'[r].acked
        PROVE  \E i \in 1 .. k : send'[r].where[i] = p
    <3>1. k = x
      <4>. HIDE DEF k, x
      <4>. QED BY <1>3, <1>19, <1>20, <2>5
    <3>2. R = Rejected(ack)
      BY <1>19, <3>1
    <3>3. p - a \in 1 .. n /\ a + (p - a) = p
      BY <1>3
    <3>4. p - a \in R
      BY <1>9, <1>11, <2>1, <3>2, <3>3
    <3>5. where[p - a] = p
      BY <1>21, <3>3
    <3>6. PICK i \in 1 .. k : send'[r].where[i] = where[p - a]
      BY <1>18, <3>4
    <3>. QED BY <3>5, <3>6
  <2>6. SecondCall(req'[r], send'[r])
    <3>. HIDE DEF k
    <3>. QED BY <1>12, <2>1, <2>2, <2>3, <2>4, <2>5 DEF SecondCall
  <2>7. Forwarded(req'[r], send'[r])
    BY <1>16, <1>17, <2>1, <2>6 DEF Forwarded, Sending, Unsent
  <2>. QED BY <1>0, <1>1, <1>9, <2>1, <2>7, AcksLift, TypedQuiet DEF SameRate
<1>. QED BY <1>22, <1>23

(* The answer to a second call, whose events are rejected ones of the      *)
(* first.                                                                  *)
LEMMA BaseObserveRetry ==
    ASSUME Base, NEW r \in Requests, NEW body \in Bodies(Len(send[r].batch)), NEW d,
           ObserveRetry(r, body, d)
    PROVE  Base'
<1>. USE DEF Base
<1>. DEFINE m == PrefixLength(send[r].left)
            n == Len(send[r].batch)
            a == send[r].sent
            where == send[r].where
            taken == send[r].taken
            ack == decide_acknowledgement(body, n, TRUE)
            supported == Observed(r, d, ack.kind = "acknowledged")
            accepted == AcceptedAt(where, ack)
            x == Cardinality(Rejected(ack))
<1>0. /\ req[r].pc = "send" /\ send[r].again /\ Learn(supported)
      /\ UNCHANGED <<handler, limiter, spool>>
  BY Zenon DEF ObserveRetry
<1>1. SharedTyped' /\ Len(writers') >= Len(writers)
  <2>1. supported \in SUBSET FEATURES
    BY ObservedFeatures
  <2>. HIDE DEF supported
  <2>. QED BY <1>0, <2>1, LearnShared
<1>2. /\ Attempt(req[r], send[r]) /\ req[r].acked \subseteq 1 .. Len(req[r].events)
      /\ SecondCall(req[r], send[r])
  BY <1>0 DEF Acks, Forwarded, Sending
<1>3. /\ m \in Nat /\ a \in Nat /\ m <= Len(send[r].left) /\ Len(send[r].left) \in Nat
      /\ where \in Seq(Nat) /\ n \in Nat /\ taken \in Nat
  <2>1. /\ send[r].left \in Seq(Sanitized) /\ a \in Nat /\ where \in Seq(Nat) /\ taken \in Nat
        /\ send[r].batch \in Seq(Sanitized)
    BY AttemptTyped
  <2>2. m \in 0 .. Len(send[r].left) /\ m \in Nat
    BY <2>1, PrefixCuts, Zenon
  <2>3. Len(send[r].left) \in Nat /\ n \in Nat
    BY <2>1
  <2>. HIDE DEF m, n
  <2>. QED BY <2>1, <2>2, <2>3
<1>4. /\ n = Len(where)
      /\ \A i \in 1 .. n : where[i] \in ((a + 1) .. (a + m)) \ req[r].acked
      /\ taken + n <= m
      /\ taken + n = m => \A p \in ((a + 1) .. (a + m)) \ req[r].acked : \E i \in 1 .. n : where[i] = p
  BY <1>2 DEF SecondCall, ChunkAt
<1>5. where \in [1 .. n -> Nat]
  <2>1. where \in Seq(Nat) /\ n = Len(where)
    BY <1>3, <1>4
  <2>. HIDE DEF where, n
  <2>. QED BY <2>1
<1>6. Verdicts(ack, n)
  <2>1. ack = decide_acknowledgement(body, n, TRUE)
    OBVIOUS
  <2>. HIDE DEF n, ack
  <2>. QED BY <1>3, <2>1, Deciding DEF n
<1>7. accepted = IF ack.kind = "acknowledged" THEN {where[i] : i \in (1 .. n) \ Rejected(ack)} ELSE {}
  <2>. HIDE DEF n, ack, where
  <2>. QED BY <1>3, <1>5, <1>6, Accepting
<1>8. /\ ReqMoves(r) /\ SameRate(r) /\ SameBatch(r) /\ SameFile(r)
      /\ req'[r].acked = req[r].acked \cup accepted
      /\ req'[r].complete = req[r].complete /\ req'[r].pc = "merge"
      /\ SendMoves(r) /\ send'[r].left = send[r].left /\ send'[r].sent = a
      /\ send'[r].canonical = RetryCompletes(send[r], ack)
  <2>1. n = Len(send[r].batch) /\ n = Len(send[r].where) /\ ack = decide_acknowledgement(body, n, TRUE)
    BY <1>4
  <2>2. body \in Bodies(n)
    OBVIOUS
  <2>. HIDE DEF n, ack
  <2>. QED BY <1>3, <2>1, <2>2, RetryMoves
<1>9. send'[r].canonical => ack.kind = "acknowledged" /\ taken + ack.accepted = m
  BY <1>8 DEF RetryCompletes
<1>10. ChunkAt(send'[r]) = (a + 1) .. (a + m)
  BY <1>8 DEF ChunkAt
<1>11. a + Len(send[r].left) = Len(req[r].events) /\ (req[r].complete => 1 .. a \subseteq req[r].acked)
       /\ req[r].acked \subseteq 1 .. a \cup (a + 1) .. (a + m)
  BY <1>2 DEF Attempt, ChunkAt
<1>12. req'[r].events = req[r].events
  BY <1>8 DEF SameBatch
<1>13. /\ IsFiniteSet(Rejected(ack)) /\ Rejected(ack) \subseteq 1 .. n /\ x \in Nat
       /\ ack.accepted \in Nat /\ ack.accepted + x <= n
  BY <1>6, FS_CardinalityType DEF Verdicts
<1>. HIDE DEF m, n, a, where, taken, ack, supported, accepted
<1>14. accepted \subseteq (a + 1) .. (a + m)
  <2>1. \A i \in (1 .. n) \ Rejected(ack) : where[i] \in (a + 1) .. (a + m)
    BY <1>4
  <2>. QED BY <1>7, <2>1
<1>15. Attempt(req'[r], send'[r])
  BY <1>8, <1>10, <1>11, <1>12, <1>14 DEF Attempt
<1>16. req'[r].acked \subseteq 1 .. Len(req'[r].events)
  <2>. DEFINE l == Len(send[r].left)
  <2>1. l \in Nat /\ m <= l /\ Len(req'[r].events) = a + l
    BY <1>3, <1>11, <1>12
  <2>. HIDE DEF l
  <2>2. (a + 1) .. (a + m) \subseteq 1 .. a + l
    BY <1>3, <2>1
  <2>. QED BY <1>2, <1>8, <1>12, <1>14, <2>1, <2>2
<1>17. send'[r].canonical => ChunkAt(send'[r]) \subseteq req'[r].acked
  <2>. SUFFICES ASSUME send'[r].canonical, NEW p \in (a + 1) .. (a + m), p \notin req[r].acked
                PROVE  p \in accepted
    BY <1>8, <1>10
  <2>1. ack.kind = "acknowledged" /\ taken + ack.accepted = m
    BY <1>9
  <2>2. x = 0 /\ taken + n = m
    <3>. DEFINE k == ack.accepted
    <3>1. /\ k \in Nat /\ x \in Nat /\ n \in Nat /\ taken \in Nat /\ m \in Nat
          /\ k + x <= n /\ taken + k = m /\ taken + n <= m
      BY <1>3, <1>4, <1>13, <2>1
    <3>. HIDE DEF x, k
    <3>. QED BY <3>1
  <2>3. Rejected(ack) = {}
    BY <1>13, <2>2, FS_EmptySet
  <2>4. PICK i \in 1 .. n : where[i] = p
    BY <1>4, <2>2
  <2>. QED BY <1>7, <2>1, <2>3, <2>4
<1>18. Forwarded(req'[r], send'[r])
  BY <1>8, <1>15, <1>16, <1>17 DEF Forwarded, Sending, Unsent
<1>. QED BY <1>0, <1>1, <1>8, <1>18, AcksLift, TypedQuiet DEF SameRate

(* At the start.                                                           *)
LEMMA BaseInit ==
    ASSUME Init
    PROVE  Base
<1>. DEFINE order == SetToSeq(Warm)
            n == Cardinality(Warm)
<1>1. /\ order \in [1 .. n -> Warm] /\ Len(order) = n /\ n \in Nat /\ DOMAIN order = 1 .. n
      /\ \A x \in Warm : \E i \in 1 .. n : order[i] = x
  <2>1. /\ order \in [1 .. n -> Warm] /\ Len(order) = n /\ n \in Nat
        /\ \A x \in Warm : \E i \in 1 .. n : order[i] = x
    BY RelayAssumption, Enumerated
  <2>. HIDE DEF order, n
  <2>. QED BY <2>1
<1>2. /\ transports = [s \in Services |->
                          IF s \in Warm THEN CHOOSE i \in DOMAIN order : order[i] = s ELSE 0]
      /\ writers = [i \in DOMAIN order |-> [lock |-> "free", sequence |-> 0]]
  BY DEF Init
<1>. HIDE DEF order, n
<1>3. writers \in Seq(WriterType) /\ Len(writers) = n
  <2>1. writers \in [1 .. n -> WriterType]
    BY <1>1, <1>2 DEF WriterType
  <2>. QED BY <1>1, <2>1, FunctionAsSequence
<1>4. transports \in [Services -> 0 .. Len(writers)]
  <2>1. ASSUME NEW s \in Warm PROVE (CHOOSE i \in DOMAIN order : order[i] = s) \in 1 .. n
    BY <1>1
  <2>2. \A s \in Services : (IF s \in Warm THEN CHOOSE i \in DOMAIN order : order[i] = s ELSE 0) \in 0 .. n
    BY <1>1, <2>1
  <2>. QED BY <1>2, <1>3, <2>2
<1>5. parse_capabilities(Pin) \subseteq FEATURES
  BY DEF parse_capabilities
<1>6. SharedTyped
  <2>1. /\ handler \in Handlers /\ now = 0 /\ rate_limit_state = {} /\ files = <<>> /\ temps = {}
        /\ features = parse_capabilities(Pin) /\ granted = parse_capabilities(Pin)
    BY DEF Init
  <2>2. now \in 0 .. MaxTime
    BY <2>1, RelayAssumption
  <2>3. DOMAIN files = {}
    BY <2>1
  <2>. QED BY <1>3, <1>4, <1>5, <2>1, <2>2, <2>3 DEF SharedTyped
<1>7. NewRequest \in LocalType
  <2>. DEFINE none == <<>>
  <2>1. none \in Seq(Sanitized) /\ 0 \in 0 .. MaxTime /\ "arrive" \in Stages /\ 0 \in Statuses
        /\ "none" \in Outcomes
    BY RelayAssumption DEF Stages, Statuses, Outcomes
  <2>. QED BY <2>1 DEF NewRequest, LocalType
<1>8. req = [r \in Requests |-> NewRequest] /\ send = [r \in Requests |-> NoAttempt]
  BY DEF Init
<1>9. NoAttempt \in AttemptType
  BY DEF NoAttempt, AttemptType, FEATURES
<1>10. LocalsTyped
  BY <1>7, <1>8, <1>9 DEF LocalsTyped
<1>11. \A r \in Requests : Consistency(r)
  BY <1>8 DEF Consistency, NewRequest
<1>12. \A r \in Requests : Forwarded(req[r], send[r])
  <2>. TAKE r \in Requests
  <2>1. req[r] = NewRequest /\ send[r] = NoAttempt
    BY <1>8
  <2>2. /\ NewRequest.pc = "arrive" /\ NewRequest.acked = {}
    BY DEF NewRequest
  <2>. QED BY <2>1, <2>2 DEF Forwarded, Sending
<1>. QED BY <1>6, <1>10, <1>11, <1>12 DEF Base, Typed, Acks

(* The clock.                                                              *)
LEMMA BaseTick ==
    ASSUME Base, Tick
    PROVE  Base'
<1>1. /\ now' = now + 1 /\ now < MaxTime /\ handler' = handler /\ rate_limit_state' = rate_limit_state
      /\ transports' = transports /\ writers' = writers /\ files' = files /\ temps' = temps
      /\ features' = features /\ granted' = granted /\ req' = req /\ send' = send
  BY DEF Tick, spool, proof
<1>2. now' \in 0 .. MaxTime
  BY <1>1, RelayAssumption DEF Base, Typed, SharedTyped
<1>3. Typed'
  BY <1>1, <1>2 DEF Base, Typed, SharedTyped, LocalsTyped, Consistency
<1>4. Acks'
  BY <1>1 DEF Base, Acks
<1>. QED BY <1>3, <1>4 DEF Base

(* A step that changes no variable.                                        *)
LEMMA BaseStutter ==
    ASSUME Base, UNCHANGED vars
    PROVE  Base'
<1>1. /\ handler' = handler /\ now' = now /\ rate_limit_state' = rate_limit_state
      /\ transports' = transports /\ writers' = writers /\ files' = files /\ temps' = temps
      /\ features' = features /\ granted' = granted /\ req' = req /\ send' = send
  BY DEF vars, limiter, spool, proof
<1>. QED BY <1>1 DEF Base, Typed, SharedTyped, LocalsTyped, Consistency, Acks

(* A step of a request.                                                    *)
LEMMA BaseStep ==
    ASSUME Base, NEW r \in Requests, Step(r)
    PROVE  Base'
<1>1. CASE \/ Arrive(r) \/ RateRead(r) \/ RateStore(r) \/ ScreenCandidate(r) \/ EmptyBatch(r)
  BY <1>1, BaseArrive, BaseRateRead, BaseRateStore, BaseScreen, BaseEmpty
<1>2. CASE Lookup(r) \/ Create(r) \/ (\E o \in WriteOutcomes : WriteTemp(r, o))
  BY <1>2, BaseLookup, BaseCreate, BaseWrite
<1>3. CASE Replace(r) \/ ReplaceFails(r) \/ Cleanup(r) \/ Mark(r) \/ Accept(r)
  BY <1>3, BaseReplace, BaseReplaceFails, BaseCleanup, BaseMark, BaseAccept
<1>4. CASE Forward(r) \/ GiveUp(r) \/ Chunk(r) \/ SendFails(r) \/ Merge(r) \/ Publish(r)
  BY <1>4, BaseForward, BaseGiveUp, BaseChunk, BaseSendFails, BaseMerge, BasePublish
<1>5. CASE \E body \in Bodies(Len(send[r].batch)), d \in Descriptors :
              Observe(r, body, d) \/ ObserveRetry(r, body, d)
  BY <1>5, BaseObserve, BaseObserveRetry
<1>. QED BY <1>1, <1>2, <1>3, <1>4, <1>5 DEF Step

(* The types, and what a thread knows of the events it forwards.           *)
LEMMA BaseAlways == Spec => []Base
<1>1. Init => Base
  BY BaseInit
<1>2. Base /\ [Next]_vars => Base'
  BY BaseStep, BaseTick, BaseStutter DEF Next, Finished
<1>. QED BY <1>1, <1>2, PTL DEF Spec
=============================================================================
