--------------------------- MODULE AdmissionProofs ---------------------------
(***************************************************************************)
(* Proofs about Admission, for any callers, exceptions, limits and loads:  *)
(* a capture is skipped only for a report that the other path has queued,  *)
(* storms are bounded and counted, and the diagnostic budget is exact and  *)
(* kept.                                                                   *)
(***************************************************************************)
EXTENDS Admission, FiniteSums, SequenceTheorems

-----------------------------------------------------------------------------
(* Receipts. A receipt in a live operation stands for an exception that    *)
(* was queued since the last init: init and fork, which forget what was    *)
(* queued, also end every operation, and an operation never lives again.   *)
Receipts(x) ==
    receipts[x] # <<>> =>
        LET r == receipts[x][1]
        IN  /\ r.scope \in 1 .. begun
            /\ r.scope \in live =>
                  [exception |-> x, scope |-> r.scope, at |-> r.at, automatic |-> r.automatic] \in accepted

Justified ==
    /\ load \in Loads /\ begun \in Nat /\ live \subseteq 1 .. begun
    /\ DOMAIN receipts = Exceptions /\ \A x \in Exceptions : Receipts(x)
    /\ DOMAIN cap = Callers
    /\ \A c \in Callers : cap[c].pc # "idle" =>
          \E x \in Exceptions, automatic \in BOOLEAN :
             /\ cap[c].exception = <<x>> /\ cap[c].automatic = automatic

(* Operations begin and end, and captures neither write nor use receipts.  *)
LEMMA JustifiedOperation ==
    ASSUME Justified, Operation
    PROVE  Justified'
<1>1. UNCHANGED <<load, receipts, cap, accepted>>
  BY Zenon DEF Operation, begin, end, Copied, bounds
<1>2. \/ begun' = begun + 1 /\ live' = live \cup {begun'}
      \/ begun' = begun /\ live' \subseteq live
  BY Zenon DEF Operation, begin, end, Copied
<1>3. begun \in Nat /\ live \subseteq 1 .. begun
  BY DEF Justified
<1>4. begun' \in Nat /\ live' \subseteq 1 .. begun'
  <2>1. begun' \in Nat /\ begun <= begun'
    BY <1>2, <1>3
  <2>2. ASSUME NEW o \in live' PROVE o \in 1 .. begun'
    <3>1. o \in live \/ (o = begun' /\ begun' = begun + 1)
      BY <1>2
    <3>2. CASE o \in live
      <4>1. o \in 1 .. begun
        BY <3>2, <1>3
      <4>. QED BY <4>1, <2>1, <1>3
    <3>3. CASE o = begun' /\ begun' = begun + 1
      BY <3>3, <2>1, <1>3
    <3>. QED BY <3>1, <3>2, <3>3
  <2>. QED BY <2>1, <2>2
<1>5. ASSUME NEW x \in Exceptions PROVE Receipts(x)'
  <2>1. Receipts(x)
    BY DEF Justified
  <2>. SUFFICES ASSUME receipts[x] # <<>>
                PROVE  /\ receipts[x][1].scope \in 1 .. begun'
                       /\ receipts[x][1].scope \in live' =>
                             [exception |-> x, scope |-> receipts[x][1].scope, at |-> receipts[x][1].at,
                              automatic |-> receipts[x][1].automatic] \in accepted
    BY <1>1 DEF Receipts
  <2>. DEFINE s == receipts[x][1].scope
  <2>2. s \in 1 .. begun /\ (s \in live =>
           [exception |-> x, scope |-> s, at |-> receipts[x][1].at,
            automatic |-> receipts[x][1].automatic] \in accepted)
    BY <2>1 DEF Receipts
  <2>. HIDE DEF s
  <2>3. s \in 1 .. begun' /\ (s \in live' => s \in live)
    BY <2>2, <1>2, <1>3
  <2>. QED BY <2>2, <2>3 DEF s
<1>. QED BY <1>1, <1>4, <1>5 DEF Justified

(* The four steps of a capture: only a queued commit writes a receipt, for *)
(* the exception it adds to what was queued.                               *)
LEMMA JustifiedCapture ==
    ASSUME Justified, Capture
    PROVE  Justified'
<1>0. UNCHANGED <<load, begun, live>>
  BY Zenon DEF Capture, capture_exception, Skip, Abandon, Commit, bounds
<1>a. load \in Loads /\ load.callers \subseteq Callers
  BY AdmissionAssumption DEF Justified
<1>1. ASSUME NEW c \in load.callers, NEW x \in Exceptions, NEW automatic \in BOOLEAN,
             capture_exception(c, x, automatic)
      PROVE  Justified'
  <2>. DEFINE e == [pc |-> IF Duplicate(c, x, automatic) THEN "skip" ELSE "commit",
                    exception |-> <<x>>, automatic |-> automatic]
  <2>1. cap' = [cap EXCEPT ![c] = e] /\ UNCHANGED <<receipts, accepted>>
    BY <1>1 DEF capture_exception
  <2>2. e.exception = <<x>> /\ e.automatic = automatic
    OBVIOUS
  <2>. HIDE DEF e
  <2>3. DOMAIN cap' = Callers /\ \A d \in Callers : d # c => cap'[d] = cap[d]
    BY <2>1 DEF Justified
  <2>4. cap'[c] = e
    BY <2>1, <1>a DEF Justified
  <2>. QED BY <2>1, <2>2, <2>3, <2>4, <1>0 DEF Justified, Receipts
<1>2. ASSUME NEW c \in load.callers, Skip(c) PROVE Justified'
  <2>1. /\ cap[c].pc = "skip" /\ c \in Callers
        /\ receipts' = [receipts EXCEPT ![cap[c].exception[1]] = <<>>]
        /\ cap' = [cap EXCEPT ![c] = Idle] /\ UNCHANGED accepted
    BY <1>2, <1>a DEF Skip
  <2>2. DOMAIN receipts' = Exceptions /\ \A x \in Exceptions : receipts'[x] = receipts[x] \/ receipts'[x] = <<>>
    BY <2>1 DEF Justified
  <2>3. DOMAIN cap' = Callers /\ \A d \in Callers : cap'[d] = cap[d] \/ cap'[d].pc = "idle"
    BY <2>1 DEF Justified, Idle
  <2>4. \A x \in Exceptions : Receipts(x)'
    BY <2>2, <2>1, <1>0 DEF Justified, Receipts
  <2>. QED BY <2>1, <2>2, <2>3, <2>4, <1>0 DEF Justified
<1>3. ASSUME NEW c \in load.callers, Abandon(c) PROVE Justified'
  <2>1. cap' = [cap EXCEPT ![c] = Idle] /\ c \in Callers /\ UNCHANGED <<receipts, accepted>>
    BY <1>3, <1>a DEF Abandon
  <2>3. DOMAIN cap' = Callers /\ \A d \in Callers : cap'[d] = cap[d] \/ cap'[d].pc = "idle"
    BY <2>1 DEF Justified, Idle
  <2>. QED BY <2>1, <2>3, <1>0 DEF Justified, Receipts
<1>4. ASSUME NEW c \in load.callers, NEW queued \in BOOLEAN, Commit(c, queued) PROVE Justified'
  <2>1. /\ cap[c].pc = "commit" /\ cap' = [cap EXCEPT ![c] = Idle] /\ c \in Callers
        /\ receipts' = IF queued THEN Receipt(c) ELSE receipts
        /\ accepted' = IF queued /\ current(c) # 0
               THEN accepted \cup {[exception |-> cap[c].exception[1], scope |-> current(c), at |-> now,
                                    automatic |-> cap[c].automatic]}
               ELSE accepted
    BY <1>4, <1>a DEF Commit
  <2>3. DOMAIN cap' = Callers /\ \A d \in Callers : cap'[d] = cap[d] \/ cap'[d].pc = "idle"
    BY <2>1 DEF Justified, Idle
  <2>4. PICK y \in Exceptions : cap[c].exception = <<y>>
    BY <2>1 DEF Justified
  <2>5. current(c) # 0 => current(c) \in live
    BY DEF current
  <2>6. CASE receipts' = receipts
    <3>1. accepted \subseteq accepted'
      BY <2>1
    <3>2. \A x \in Exceptions : Receipts(x)'
      BY <2>6, <3>1, <1>0 DEF Justified, Receipts
    <3>. QED BY <2>6, <2>3, <3>2, <1>0 DEF Justified
  <2>7. CASE receipts' # receipts
    <3>. DEFINE r == [scope |-> current(c), at |-> now, automatic |-> cap[c].automatic]
    <3>1. /\ queued /\ current(c) # 0
          /\ receipts' = [receipts EXCEPT ![y] = <<r>>]
          /\ accepted' = accepted \cup {[exception |-> y, scope |-> current(c), at |-> now,
                                         automatic |-> cap[c].automatic]}
      BY <2>1, <2>4, <2>7 DEF Receipt
    <3>2. DOMAIN receipts' = Exceptions /\ receipts'[y] = <<r>>
          /\ \A x \in Exceptions : x # y => receipts'[x] = receipts[x]
      BY <3>1 DEF Justified
    <3>3. current(c) \in 1 .. begun
      BY <3>1, <2>5 DEF Justified
    <3>4. Receipts(y)'
      BY <3>1, <3>2, <3>3, <1>0 DEF Receipts
    <3>5. ASSUME NEW x \in Exceptions, x # y PROVE Receipts(x)'
      <4>1. receipts'[x] = receipts[x] /\ accepted \subseteq accepted'
        BY <3>1, <3>2, <3>5
      <4>. QED BY <4>1, <1>0 DEF Justified, Receipts
    <3>. QED BY <3>2, <3>4, <3>5, <2>3, <1>0 DEF Justified
  <2>. QED BY <2>6, <2>7
<1>. QED BY <1>1, <1>2, <1>3, <1>4, Zenon DEF Capture

(* init, dispose and fork end every operation, whatever they keep.         *)
LEMMA JustifiedReset ==
    ASSUME Justified, Reset
    PROVE  Justified'
<1>1. live' = {} /\ UNCHANGED <<load, begun, receipts>>
  BY Zenon DEF Reset, init, dispose, fork
<1>2. cap' = cap \/ cap' = [c \in Callers |-> Idle]
  BY Zenon DEF Reset, init, dispose, fork
<1>3. DOMAIN cap' = Callers /\ \A d \in Callers : cap'[d] = cap[d] \/ cap'[d].pc = "idle"
  BY <1>2 DEF Justified, Idle
<1>4. \A x \in Exceptions : Receipts(x)'
  BY <1>1 DEF Justified, Receipts
<1>. QED BY <1>1, <1>3, <1>4 DEF Justified

(* Every receipt of a live operation is justified, in every behaviour.     *)
LEMMA JustifiedInvariant == Spec => []Justified
<1>1. Init => Justified
  BY DEF Init, Justified, Receipts, Idle
<1>2. Justified /\ [Next]_vars => Justified'
  <2>. SUFFICES ASSUME Justified, [Next]_vars PROVE Justified'
    OBVIOUS
  <2>1. CASE UNCHANGED <<load, identity>>
    BY <2>1 DEF Justified, Receipts, identity
  <2>2. CASE Drain \/ Recovery \/ Tick \/ UNCHANGED vars
    <3>1. UNCHANGED <<load, identity>>
      BY <2>2, Zenon DEF Drain, Recovery, Tick, vars, bounds
    <3>. QED BY <3>1, <2>1
  <2>. QED BY <2>2, JustifiedOperation, JustifiedCapture, JustifiedReset DEF Next
<1>. QED BY <1>1, <1>2, PTL DEF Spec

(***************************************************************************)
(* A capture is skipped as a duplicate only while what it would report has *)
(* been queued by the other path, in this operation, since the last init   *)
(* and within the window (exception_identity.admit), for any number of     *)
(* callers, exceptions and operations.                                     *)
(***************************************************************************)
THEOREM SkipsJustified == Spec => SkipJustified
<1>1. ASSUME Justified, [Next]_vars, NEW c \in Callers, cap[c].pc = "idle", cap'[c].pc = "skip"
      PROVE  \E r \in accepted :
                /\ <<r.exception>> = cap'[c].exception /\ r.scope = operation[c]
                /\ r.automatic # cap'[c].automatic /\ now - r.at < IDENTITY_WINDOW
  <2>1. PICK d \in load.callers, x \in Exceptions, automatic \in BOOLEAN :
           capture_exception(d, x, automatic)
    <3>1. cap' # cap
      BY <1>1
    <3>2. ~Operation /\ ~Drain /\ ~Recovery /\ ~Tick /\ vars' # vars
      BY <3>1, Zenon DEF Operation, begin, end, Copied, Drain, Recovery, Tick, vars, identity
    <3>3. DOMAIN cap = Callers
      BY <1>1 DEF Justified
    <3>4. ~Reset
      BY <3>1, <1>1, <3>3 DEF Reset, init, dispose, fork, Idle
    <3>5. Capture
      BY <1>1, <3>2, <3>4 DEF Next
    <3>6. \A d : cap' # [cap EXCEPT ![d] = Idle]
      BY <1>1, <3>3 DEF Idle
    <3>. QED BY <3>5, <3>6, Zenon DEF Capture, Skip, Abandon, Commit
  <2>. DEFINE e == [pc |-> IF Duplicate(d, x, automatic) THEN "skip" ELSE "commit",
                    exception |-> <<x>>, automatic |-> automatic]
  <2>2. cap' = [cap EXCEPT ![d] = e]
    BY <2>1 DEF capture_exception
  <2>3. d = c /\ cap'[c] = e
    BY <2>2, <1>1 DEF Justified
  <2>4. Duplicate(c, x, automatic) /\ cap'[c].exception = <<x>> /\ cap'[c].automatic = automatic
    BY <2>3, <1>1
  <2>. HIDE DEF e
  <2>. DEFINE r == receipts[x][1]
              a == [exception |-> x, scope |-> r.scope, at |-> r.at, automatic |-> r.automatic]
  <2>5. /\ receipts[x] # <<>> /\ r.scope = current(c) /\ current(c) # 0
        /\ now - r.at < IDENTITY_WINDOW /\ r.automatic # automatic
    BY <2>4 DEF Duplicate
  <2>6. current(c) = operation[c] /\ operation[c] \in live
    BY <2>5 DEF current
  <2>7. a \in accepted
    BY <2>5, <2>6, <1>1 DEF Justified, Receipts
  <2>8. a.exception = x /\ a.scope = r.scope /\ a.at = r.at /\ a.automatic = r.automatic
    OBVIOUS
  <2>. HIDE DEF a, r
  <2>. QED BY <2>4, <2>5, <2>6, <2>7, <2>8
<1>2. Justified /\ [Next]_vars =>
        [\A c \in Callers : cap[c].pc = "idle" /\ cap'[c].pc = "skip" =>
             \E r \in accepted :
                /\ <<r.exception>> = cap'[c].exception /\ r.scope = operation[c]
                /\ r.automatic # cap'[c].automatic /\ now - r.at < IDENTITY_WINDOW]_vars
  BY <1>1
<1>. QED BY <1>2, JustifiedInvariant, PTL DEF Spec, SkipJustified

-----------------------------------------------------------------------------
(* Storms. What the tracker keeps of a fingerprint is related to the       *)
(* occurrences seen since its entry was made: seen is the history of the   *)
(* fingerprint, r the number of occurrences before the entry.              *)
Occurrences == [at : Nat, captured : BOOLEAN]

Ordered(seen, t) ==
    /\ seen \in Seq(Occurrences) /\ \A i \in 1 .. Len(seen) : seen[i].at <= t
    /\ \A i, j \in 1 .. Len(seen) : i <= j => seen[i].at <= seen[j].at

Emitted(seen, r, w) == {j \in r + 1 .. Len(seen) : seen[j].captured /\ seen[j].at >= w}

Hits(seen, r, w) == {j \in r + 1 .. Len(seen) : seen[j].at >= w}

Within(seen, r, i) ==
    {j \in r + 1 .. Len(seen) : j >= i /\ seen[j].captured /\ seen[j].at < seen[i].at + DUPLICATE_WINDOW}

Recent(seen, r, i) ==
    {j \in r + 1 .. Len(seen) : j <= i /\ seen[i].at < seen[j].at + LOOP_WINDOW}

(* The parts of both that lie before the present window.                   *)
WithinBefore(seen, r, i, w) == {j \in Within(seen, r, i) : seen[j].at < w}

RecentBefore(seen, r, w) ==
    {j \in r + 1 .. Len(seen) : seen[j].at < w /\ w < seen[j].at + LOOP_WINDOW}

(* The window of duplicates counts what was captured in it; a stretch that *)
(* began before it holds one window's worth before it, or is over.         *)
Windowed(w, emitted, seen, r) ==
    /\ \A j \in r + 1 .. Len(seen) : seen[j].at < w + DUPLICATE_WINDOW
    /\ Cardinality(Emitted(seen, r, w)) = emitted /\ emitted <= MAX_NORMAL_EVENTS
    /\ \A i \in r + 1 .. Len(seen) : seen[i].at < w =>
          \/ Cardinality(WithinBefore(seen, r, i, w)) <= MAX_NORMAL_EVENTS
          \/ /\ seen[i].at + DUPLICATE_WINDOW <= w
             /\ Cardinality(WithinBefore(seen, r, i, w)) <= 2 * MAX_NORMAL_EVENTS

(* The window of loops counts all of them; past the threshold, in it or in *)
(* the window before it, this is a loop, and stays one.                    *)
Looping(w, hits, mode, seen, r) ==
    /\ \A j \in r + 1 .. Len(seen) : seen[j].at < w + LOOP_WINDOW
    /\ Cardinality(Hits(seen, r, w)) = hits
    /\ ~mode => hits <= LOOP_THRESHOLD /\ Cardinality(RecentBefore(seen, r, w)) <= LOOP_THRESHOLD
    /\ \A i \in r + 1 .. Len(seen) : Cardinality(Recent(seen, r, i)) > 2 * LOOP_THRESHOLD
          => mode /\ \A j \in r + 1 .. Len(seen) : j >= i => ~seen[j].captured

(* The suppressed occurrences after one.                                   *)
Later(seen, i) == {j \in i + 1 .. Len(seen) : ~seen[j].captured}

(* What is pending spans first to last.                                    *)
Spanned(pending, first, last, seen, t) ==
    /\ (pending = 0) = (first = <<>>)
    /\ pending # 0 => first[1] <= t
    /\ \A i \in 1 .. Len(seen) : ~seen[i].captured /\ Cardinality(Later(seen, i)) < pending
          => first[1] <= seen[i].at /\ seen[i].at <= last[1]

CapturedOf(seen) == {i \in 1 .. Len(seen) : seen[i].captured}

-----------------------------------------------------------------------------
(* Positions of a history are finitely many.                               *)
LEMMA PositionsCounted ==
    ASSUME NEW a \in Nat, NEW b \in Nat, NEW S, S \subseteq a .. b
    PROVE  IsFiniteSet(S) /\ Cardinality(S) \in Nat
<1>1. a \in Int /\ b \in Int
  OBVIOUS
<1>2. IsFiniteSet(a .. b)
  BY <1>1, FS_Interval
<1>. QED BY <1>2, FS_Subset, FS_CardinalityType

(* A set within two others has no more elements than both.                 *)
LEMMA CountedWithin ==
    ASSUME NEW A, NEW B, NEW C, IsFiniteSet(B), IsFiniteSet(C), A \subseteq B \cup C
    PROVE  /\ Cardinality(A) \in Nat /\ Cardinality(B) \in Nat /\ Cardinality(C) \in Nat
           /\ Cardinality(A) <= Cardinality(B) + Cardinality(C)
<1>1. IsFiniteSet(B \cup C) /\ IsFiniteSet(B \cap C)
  BY FS_Union, FS_Subset
<1>2. Cardinality(B \cup C) = Cardinality(B) + Cardinality(C) - Cardinality(B \cap C)
  BY FS_Union
<1>3. IsFiniteSet(A) /\ Cardinality(A) <= Cardinality(B \cup C)
  BY <1>1, FS_Subset
<1>4. /\ Cardinality(A) \in Nat /\ Cardinality(B) \in Nat /\ Cardinality(C) \in Nat
      /\ Cardinality(B \cap C) \in Nat /\ Cardinality(B \cup C) \in Nat
  BY <1>1, <1>3, FS_CardinalityType
<1>. QED BY <1>2, <1>3, <1>4

(* A part of a finite set has no more elements.                            *)
LEMMA CountedPart ==
    ASSUME NEW A, NEW B, IsFiniteSet(B), A \subseteq B
    PROVE  /\ Cardinality(A) \in Nat /\ Cardinality(B) \in Nat /\ Cardinality(A) <= Cardinality(B)
<1>. QED BY FS_Subset, FS_CardinalityType

(* The sets a window is counted by are finite.                             *)
LEMMA StretchesFinite ==
    ASSUME NEW seen \in Seq(Occurrences), NEW r \in Nat, NEW w, NEW i \in Nat
    PROVE  /\ IsFiniteSet(Emitted(seen, r, w)) /\ IsFiniteSet(Hits(seen, r, w))
           /\ IsFiniteSet(Within(seen, r, i)) /\ IsFiniteSet(Recent(seen, r, i))
           /\ IsFiniteSet(WithinBefore(seen, r, i, w)) /\ IsFiniteSet(RecentBefore(seen, r, w))
           /\ IsFiniteSet(Later(seen, i)) /\ IsFiniteSet(CapturedOf(seen))
<1>. DEFINE n == Len(seen)
<1>0. r + 1 \in Nat /\ i + 1 \in Nat /\ 1 \in Nat /\ n \in Nat
  OBVIOUS
<1>1. /\ Emitted(seen, r, w) \subseteq r + 1 .. n /\ Hits(seen, r, w) \subseteq r + 1 .. n
      /\ Within(seen, r, i) \subseteq r + 1 .. n /\ Recent(seen, r, i) \subseteq r + 1 .. n
      /\ WithinBefore(seen, r, i, w) \subseteq r + 1 .. n /\ RecentBefore(seen, r, w) \subseteq r + 1 .. n
      /\ Later(seen, i) \subseteq i + 1 .. n /\ CapturedOf(seen) \subseteq 1 .. n
  BY Zenon DEF Emitted, Hits, Within, Recent, WithinBefore, RecentBefore, Later, CapturedOf
<1>. HIDE DEF n
<1>. QED BY <1>0, <1>1, PositionsCounted

(* One more occurrence.                                                    *)
LEMMA OneMoreSeen ==
    ASSUME NEW seen, NEW t \in Nat, Ordered(seen, t), NEW captured \in BOOLEAN, NEW more,
           more = Append(seen, [at |-> t, captured |-> captured])
    PROVE  /\ Ordered(more, t) /\ Len(seen) \in Nat /\ Len(more) = Len(seen) + 1
           /\ more[Len(seen) + 1].at = t /\ more[Len(seen) + 1].captured = captured
           /\ \A i \in 1 .. Len(seen) : more[i] = seen[i] /\ more[i].at \in Nat /\ seen[i].at \in Nat
<1>. DEFINE o == [at |-> t, captured |-> captured]
            n == Len(seen)
<1>1. seen \in Seq(Occurrences) /\ o \in Occurrences /\ o.at = t /\ o.captured = captured
  BY DEF Ordered, Occurrences
<1>. HIDE DEF o
<1>2. /\ more \in Seq(Occurrences) /\ n \in Nat /\ Len(more) = n + 1
      /\ more[n + 1] = o /\ \A i \in 1 .. n : more[i] = seen[i] /\ seen[i] \in Occurrences
  BY <1>1 DEF o
<1>3. \A i \in 1 .. n : seen[i].at \in Nat
  BY <1>2 DEF Occurrences
<1>4. \A i \in 1 .. n : seen[i].at <= t /\ \A j \in 1 .. n : i <= j => seen[i].at <= seen[j].at
  BY DEF Ordered
<1>. HIDE DEF n
<1>5. \A i \in 1 .. n + 1 : i \in 1 .. n \/ i = n + 1
  BY <1>2
<1>6. \A i \in 1 .. n + 1 : more[i].at <= t
  BY <1>1, <1>2, <1>4, <1>5
<1>7. ASSUME NEW i \in 1 .. n + 1, NEW j \in 1 .. n + 1, i <= j PROVE more[i].at <= more[j].at
  <2>1. CASE j = n + 1
    BY <2>1, <1>1, <1>2, <1>6
  <2>2. CASE j \in 1 .. n
    <3>1. i \in 1 .. n
      BY <2>2, <1>7, <1>2
    <3>. QED BY <3>1, <2>2, <1>2, <1>4, <1>7
  <2>. QED BY <2>1, <2>2, <1>5
<1>8. Ordered(more, t)
  BY <1>2, <1>6, <1>7 DEF Ordered
<1>. QED BY <1>1, <1>2, <1>3, <1>8 DEF n

(* The types of a history.                                                 *)
LEMMA SeenTypes ==
    ASSUME NEW seen, NEW t, Ordered(seen, t)
    PROVE  Len(seen) \in Nat /\ \A i \in 1 .. Len(seen) : seen[i].at \in Nat
<1>1. seen \in Seq(Occurrences)
  BY DEF Ordered
<1>2. \A i \in 1 .. Len(seen) : seen[i] \in Occurrences
  BY <1>1
<1>. QED BY <1>1, <1>2 DEF Occurrences

(* Any stretch holds at most two windows' worth.                           *)
LEMMA WithinBound ==
    ASSUME NEW seen, NEW t \in Nat, Ordered(seen, t), NEW r \in Nat, NEW w \in Nat, NEW k \in Nat,
           Windowed(w, k, seen, r), NEW i \in r + 1 .. Len(seen)
    PROVE  /\ Cardinality(Within(seen, r, i)) \in Nat
           /\ Cardinality(Within(seen, r, i)) <= 2 * MAX_NORMAL_EVENTS
           /\ seen[i].at >= w => Cardinality(Within(seen, r, i)) <= MAX_NORMAL_EVENTS
<1>0. /\ Len(seen) \in Nat /\ DUPLICATE_WINDOW \in Nat /\ MAX_NORMAL_EVENTS \in Nat
      /\ \A j \in r + 1 .. Len(seen) : seen[j].at \in Nat
      /\ \A j \in r + 1 .. Len(seen) : i <= j => seen[i].at <= seen[j].at
  <2>1. Len(seen) \in Nat /\ \A j \in r + 1 .. Len(seen) : j \in 1 .. Len(seen)
    BY SeenTypes
  <2>2. \A j \in 1 .. Len(seen) : seen[j].at \in Nat
    BY SeenTypes
  <2>3. \A j \in 1 .. Len(seen) : i <= j => seen[i].at <= seen[j].at
    BY <2>1 DEF Ordered
  <2>. QED BY <2>1, <2>2, <2>3, SuppressionAssumption
<1>1. /\ IsFiniteSet(Emitted(seen, r, w)) /\ IsFiniteSet(Within(seen, r, i))
      /\ IsFiniteSet(WithinBefore(seen, r, i, w)) /\ Cardinality(Emitted(seen, r, w)) <= MAX_NORMAL_EVENTS
  BY StretchesFinite DEF Ordered, Windowed
<1>2. CASE seen[i].at >= w
  <2>1. Within(seen, r, i) \subseteq Emitted(seen, r, w)
    BY <1>0, <1>2 DEF Within, Emitted
  <2>. QED BY <2>1, <1>0, <1>1, <1>2, CountedPart
<1>3. CASE seen[i].at < w
  <2>1. Within(seen, r, i) \subseteq WithinBefore(seen, r, i, w) \cup Emitted(seen, r, w)
    BY <1>0 DEF Within, WithinBefore, Emitted
  <2>2. CASE Cardinality(WithinBefore(seen, r, i, w)) <= MAX_NORMAL_EVENTS
    <3>1. /\ Cardinality(Within(seen, r, i)) \in Nat
          /\ Cardinality(WithinBefore(seen, r, i, w)) \in Nat /\ Cardinality(Emitted(seen, r, w)) \in Nat
          /\ Cardinality(Within(seen, r, i)) <=
                Cardinality(WithinBefore(seen, r, i, w)) + Cardinality(Emitted(seen, r, w))
      BY <2>1, <1>1, CountedWithin
    <3>2. seen[i].at \in Nat
      BY <1>0
    <3>. QED BY <3>1, <3>2, <2>2, <1>1, <1>3, SuppressionAssumption
  <2>3. CASE /\ seen[i].at + DUPLICATE_WINDOW <= w
             /\ Cardinality(WithinBefore(seen, r, i, w)) <= 2 * MAX_NORMAL_EVENTS
    <3>1. seen[i].at \in Nat /\ MAX_NORMAL_EVENTS \in Nat
      BY <1>0, SuppressionAssumption
    <3>2. ASSUME NEW j \in Within(seen, r, i) PROVE j \in WithinBefore(seen, r, i, w)
      <4>1. j \in r + 1 .. Len(seen) /\ seen[j].at < seen[i].at + DUPLICATE_WINDOW
        BY DEF Within
      <4>2. seen[j].at \in Nat /\ DUPLICATE_WINDOW \in Nat
        BY <4>1, <1>0, SuppressionAssumption
      <4>3. seen[j].at < w
        <5>. DEFINE a == seen[j].at
                    b == seen[i].at
        <5>1. a < b + DUPLICATE_WINDOW /\ b + DUPLICATE_WINDOW <= w /\ a \in Nat /\ b \in Nat
          BY <4>1, <4>2, <3>1, <2>3
        <5>. HIDE DEF a, b
        <5>2. a < w
          BY <5>1, <4>2
        <5>. QED BY <5>2 DEF a
      <4>. QED BY <4>3 DEF WithinBefore
    <3>3. /\ Cardinality(Within(seen, r, i)) \in Nat /\ Cardinality(WithinBefore(seen, r, i, w)) \in Nat
          /\ Cardinality(Within(seen, r, i)) <= Cardinality(WithinBefore(seen, r, i, w))
      BY <3>2, <1>1, CountedPart
    <3>. QED BY <3>1, <3>3, <2>3, <1>3
  <2>. QED BY <2>2, <2>3, <1>3 DEF Windowed
<1>. QED BY <1>0, <1>2, <1>3

(* The window of duplicates is renewed once it is over.                    *)
LEMMA WindowRenewed ==
    ASSUME NEW seen, NEW t \in Nat, Ordered(seen, t), NEW r \in Nat, NEW w \in Nat, NEW k \in Nat,
           Windowed(w, k, seen, r), w + DUPLICATE_WINDOW <= t
    PROVE  Windowed(t, 0, seen, r)
<1>0. /\ Len(seen) \in Nat /\ DUPLICATE_WINDOW \in Nat /\ MAX_NORMAL_EVENTS \in Nat
      /\ \A j \in r + 1 .. Len(seen) : seen[j].at \in Nat /\ seen[j].at < w + DUPLICATE_WINDOW
  BY SeenTypes, SuppressionAssumption DEF Windowed
<1>1. \A j \in r + 1 .. Len(seen) : seen[j].at < t /\ seen[j].at < t + DUPLICATE_WINDOW
  BY <1>0
<1>2. Emitted(seen, r, t) = {}
  BY <1>0, <1>1 DEF Emitted
<1>3. Cardinality(Emitted(seen, r, t)) = 0
  BY <1>2, FS_EmptySet
<1>4. ASSUME NEW i \in r + 1 .. Len(seen)
      PROVE  \/ Cardinality(WithinBefore(seen, r, i, t)) <= MAX_NORMAL_EVENTS
             \/ /\ seen[i].at + DUPLICATE_WINDOW <= t
                /\ Cardinality(WithinBefore(seen, r, i, t)) <= 2 * MAX_NORMAL_EVENTS
  <2>1. IsFiniteSet(Within(seen, r, i)) /\ WithinBefore(seen, r, i, t) \subseteq Within(seen, r, i)
    <3>1. seen \in Seq(Occurrences) /\ i \in Nat
      BY DEF Ordered
    <3>. QED BY <3>1, StretchesFinite DEF WithinBefore
  <2>2. /\ Cardinality(WithinBefore(seen, r, i, t)) \in Nat
        /\ Cardinality(WithinBefore(seen, r, i, t)) <= Cardinality(Within(seen, r, i))
    BY <2>1, CountedPart
  <2>3. /\ Cardinality(Within(seen, r, i)) \in Nat
        /\ Cardinality(Within(seen, r, i)) <= 2 * MAX_NORMAL_EVENTS
        /\ seen[i].at >= w => Cardinality(Within(seen, r, i)) <= MAX_NORMAL_EVENTS
    BY WithinBound
  <2>4. seen[i].at \in Nat /\ seen[i].at < w + DUPLICATE_WINDOW
    BY <1>0
  <2>5. CASE seen[i].at >= w
    BY <2>2, <2>3, <2>5, <1>0
  <2>6. CASE seen[i].at < w
    <3>1. seen[i].at + DUPLICATE_WINDOW <= t
      BY <2>4, <2>6, <1>0
    <3>. QED BY <3>1, <2>2, <2>3, <1>0
  <2>. QED BY <2>4, <2>5, <2>6
<1>. QED BY <1>0, <1>1, <1>3, <1>4 DEF Windowed

(* An occurrence in the window.                                            *)
LEMMA WindowHit ==
    ASSUME NEW seen, NEW t \in Nat, Ordered(seen, t), NEW r \in Nat, NEW w \in Nat, NEW k \in Nat,
           Windowed(w, k, seen, r), w <= t, t < w + DUPLICATE_WINDOW, r <= Len(seen),
           NEW captured \in BOOLEAN, captured => k < MAX_NORMAL_EVENTS
    PROVE  Windowed(w, IF captured THEN k + 1 ELSE k,
                    Append(seen, [at |-> t, captured |-> captured]), r)
<1>. DEFINE more == Append(seen, [at |-> t, captured |-> captured])
            n == Len(seen)
            W == Emitted(seen, r, w)
<1>0. n \in Nat /\ DUPLICATE_WINDOW \in Nat /\ MAX_NORMAL_EVENTS \in Nat
  BY SeenTypes, SuppressionAssumption
<1>1. /\ Len(more) = n + 1 /\ more[n + 1].at = t /\ more[n + 1].captured = captured
      /\ \A j \in r + 1 .. n : more[j] = seen[j] /\ seen[j].at \in Nat
  <2>1. \A j \in r + 1 .. n : j \in 1 .. n
    BY <1>0
  <2>2. /\ Len(more) = n + 1 /\ more[n + 1].at = t /\ more[n + 1].captured = captured
        /\ \A j \in 1 .. n : more[j] = seen[j] /\ seen[j].at \in Nat
    <3>1. more = Append(seen, [at |-> t, captured |-> captured])
      OBVIOUS
    <3>. HIDE DEF more
    <3>. QED BY <3>1, OneMoreSeen
  <2>. HIDE DEF more, n
  <2>. QED BY <2>1, <2>2
<1>2. \A j \in r + 1 .. n : seen[j].at < w + DUPLICATE_WINDOW
  BY DEF Windowed
<1>3. IsFiniteSet(W) /\ Cardinality(W) = k /\ k <= MAX_NORMAL_EVENTS
  BY StretchesFinite DEF Windowed, Ordered
<1>. HIDE DEF more, n, W
<1>4. \A j \in r + 1 .. n + 1 : j \in r + 1 .. n \/ j = n + 1
  BY <1>0
<1>5. \A j \in r + 1 .. Len(more) : more[j].at < w + DUPLICATE_WINDOW
  BY <1>1, <1>2, <1>4
<1>6. Emitted(more, r, w) = IF captured THEN W \cup {n + 1} ELSE W
  BY <1>0, <1>1, <1>4 DEF Emitted, W, n
<1>7. n + 1 \notin W
  BY <1>0 DEF W, Emitted, n
<1>8. Cardinality(Emitted(more, r, w)) = IF captured THEN k + 1 ELSE k
  BY <1>3, <1>6, <1>7, FS_AddElement
<1>9. (IF captured THEN k + 1 ELSE k) <= MAX_NORMAL_EVENTS
  BY <1>0, <1>3
<1>10. ASSUME NEW i \in r + 1 .. Len(more), more[i].at < w
       PROVE  \/ Cardinality(WithinBefore(more, r, i, w)) <= MAX_NORMAL_EVENTS
              \/ /\ more[i].at + DUPLICATE_WINDOW <= w
                 /\ Cardinality(WithinBefore(more, r, i, w)) <= 2 * MAX_NORMAL_EVENTS
  <2>1. i \in r + 1 .. n /\ more[i] = seen[i]
    BY <1>1, <1>4, <1>10
  <2>2. WithinBefore(more, r, i, w) = WithinBefore(seen, r, i, w)
    <3>1. t >= w /\ ~(t < w)
      OBVIOUS
    <3>2. ASSUME NEW j \in r + 1 .. n + 1, more[j].at < w PROVE j \in r + 1 .. n /\ more[j] = seen[j]
      BY <3>1, <3>2, <1>1, <1>4
    <3>3. r + 1 .. n \subseteq r + 1 .. n + 1
      BY <1>0
    <3>4. \A j : j \in WithinBefore(more, r, i, w) <=> j \in WithinBefore(seen, r, i, w)
      BY <3>2, <3>3, <2>1, <1>1 DEF WithinBefore, Within, n
    <3>. QED BY <3>4
  <2>. QED BY <2>1, <2>2, <1>10 DEF Windowed, n
<1>11. Windowed(w, IF captured THEN k + 1 ELSE k, more, r)
  BY <1>5, <1>8, <1>9, <1>10, Zenon DEF Windowed
<1>. QED BY <1>11 DEF more

(* The window of loops is renewed once it is over.                         *)
LEMMA LoopRenewed ==
    ASSUME NEW seen, NEW t \in Nat, Ordered(seen, t), NEW r \in Nat, NEW w \in Nat, NEW h \in Nat,
           NEW mode \in BOOLEAN, Looping(w, h, mode, seen, r), w + LOOP_WINDOW <= t
    PROVE  Looping(t, 0, mode, seen, r)
<1>0. /\ Len(seen) \in Nat /\ LOOP_WINDOW \in Nat /\ LOOP_THRESHOLD \in Nat
      /\ \A j \in r + 1 .. Len(seen) : seen[j].at \in Nat /\ seen[j].at < w + LOOP_WINDOW
  BY SeenTypes, SuppressionAssumption DEF Looping
<1>1. \A j \in r + 1 .. Len(seen) : seen[j].at < t /\ seen[j].at < t + LOOP_WINDOW
  BY <1>0
<1>2. Hits(seen, r, t) = {}
  BY <1>0, <1>1 DEF Hits
<1>3. Cardinality(Hits(seen, r, t)) = 0
  BY <1>2, FS_EmptySet
<1>4. ASSUME ~mode PROVE Cardinality(RecentBefore(seen, r, t)) <= LOOP_THRESHOLD
  <2>1. RecentBefore(seen, r, t) \subseteq Hits(seen, r, w)
    BY <1>0 DEF RecentBefore, Hits
  <2>2. IsFiniteSet(Hits(seen, r, w))
    BY StretchesFinite DEF Ordered
  <2>3. Cardinality(Hits(seen, r, w)) <= LOOP_THRESHOLD
    BY <1>4 DEF Looping
  <2>. QED BY <2>1, <2>2, <2>3, <1>0, CountedPart
<1>. QED BY <1>0, <1>1, <1>3, <1>4 DEF Looping

(* An occurrence in the window of loops.                                   *)
LEMMA LoopHit ==
    ASSUME NEW seen, NEW t \in Nat, Ordered(seen, t), NEW r \in Nat, NEW w \in Nat, NEW h \in Nat,
           NEW mode \in BOOLEAN, Looping(w, h, mode, seen, r), w <= t, t < w + LOOP_WINDOW,
           r <= Len(seen), NEW captured \in BOOLEAN, NEW loop \in BOOLEAN,
           loop = (mode \/ h + 1 > LOOP_THRESHOLD), captured => ~loop
    PROVE  Looping(w, h + 1, loop, Append(seen, [at |-> t, captured |-> captured]), r)
<1>. DEFINE more == Append(seen, [at |-> t, captured |-> captured])
            n == Len(seen)
            H == Hits(seen, r, w)
<1>0. n \in Nat /\ LOOP_WINDOW \in Nat /\ LOOP_THRESHOLD \in Nat
  BY SeenTypes, SuppressionAssumption
<1>1. /\ Len(more) = n + 1 /\ more[n + 1].at = t /\ more[n + 1].captured = captured
      /\ \A j \in r + 1 .. n : more[j] = seen[j] /\ seen[j].at \in Nat
  <2>1. \A j \in r + 1 .. n : j \in 1 .. n
    BY <1>0
  <2>2. /\ Len(more) = n + 1 /\ more[n + 1].at = t /\ more[n + 1].captured = captured
        /\ \A j \in 1 .. n : more[j] = seen[j] /\ seen[j].at \in Nat
    <3>1. more = Append(seen, [at |-> t, captured |-> captured])
      OBVIOUS
    <3>. HIDE DEF more
    <3>. QED BY <3>1, OneMoreSeen
  <2>. HIDE DEF more, n
  <2>. QED BY <2>1, <2>2
<1>2. \A j \in r + 1 .. n : seen[j].at < w + LOOP_WINDOW
  BY DEF Looping
<1>3. IsFiniteSet(H) /\ Cardinality(H) = h /\ more \in Seq(Occurrences)
  BY StretchesFinite, OneMoreSeen DEF Looping, Ordered
<1>. HIDE DEF more, n, H
<1>4. \A j \in r + 1 .. n + 1 : j \in r + 1 .. n \/ j = n + 1
  BY <1>0
<1>5. \A j \in r + 1 .. Len(more) : more[j].at < w + LOOP_WINDOW
  BY <1>1, <1>2, <1>4
<1>a. r + 1 <= n + 1
  BY <1>0 DEF n
<1>6. Hits(more, r, w) = H \cup {n + 1}
  BY <1>0, <1>1, <1>4, <1>a DEF Hits, H, n
<1>7. n + 1 \notin H
  BY <1>0 DEF H, Hits, n
<1>8. Cardinality(Hits(more, r, w)) = h + 1
  BY <1>3, <1>6, <1>7, FS_AddElement
<1>9. RecentBefore(more, r, w) = RecentBefore(seen, r, w)
  BY <1>0, <1>1, <1>4 DEF RecentBefore, n
<1>10. ~loop => h + 1 <= LOOP_THRESHOLD /\ Cardinality(RecentBefore(more, r, w)) <= LOOP_THRESHOLD
  <2>1. ~mode => Cardinality(RecentBefore(seen, r, w)) <= LOOP_THRESHOLD
    BY DEF Looping
  <2>2. ~loop => ~mode /\ ~(h + 1 > LOOP_THRESHOLD)
    BY Zenon
  <2>3. ~(h + 1 > LOOP_THRESHOLD) => h + 1 <= LOOP_THRESHOLD
    BY <1>0
  <2>. QED BY <2>1, <2>2, <2>3, <1>9
<1>11. ASSUME NEW i \in r + 1 .. Len(more), Cardinality(Recent(more, r, i)) > 2 * LOOP_THRESHOLD
       PROVE  loop /\ \A j \in r + 1 .. Len(more) : j >= i => ~more[j].captured
  <2>1. CASE i \in r + 1 .. n
    <3>1. Recent(more, r, i) = Recent(seen, r, i)
      <4>1. ~(n + 1 <= i) /\ r + 1 .. n \subseteq r + 1 .. n + 1
        BY <2>1, <1>0
      <4>2. \A j : j \in Recent(more, r, i) <=> j \in Recent(seen, r, i)
        BY <4>1, <2>1, <1>1, <1>4 DEF Recent, n
      <4>. QED BY <4>2
    <3>2. mode /\ \A j \in r + 1 .. n : j >= i => ~seen[j].captured
      BY <3>1, <2>1, <1>11 DEF Looping, n
    <3>3. loop /\ ~more[n + 1].captured
      BY <3>2, <1>1
    <3>. QED BY <3>2, <3>3, <1>1, <1>4
  <2>2. CASE i = n + 1
    <3>1. Recent(more, r, i) \subseteq Hits(more, r, w) \cup RecentBefore(more, r, w)
      BY <2>2, <1>0, <1>1, <1>4 DEF Recent, Hits, RecentBefore
    <3>2. IsFiniteSet(Hits(more, r, w)) /\ IsFiniteSet(RecentBefore(more, r, w))
      BY <1>3, StretchesFinite
    <3>3. /\ Cardinality(Recent(more, r, i)) <= Cardinality(Hits(more, r, w)) + Cardinality(RecentBefore(more, r, w))
          /\ Cardinality(Recent(more, r, i)) \in Nat /\ Cardinality(RecentBefore(more, r, w)) \in Nat
      BY <3>1, <3>2, CountedWithin
    <3>4. loop
      BY <3>3, <1>0, <1>8, <1>10, <1>11
    <3>5. \A j \in r + 1 .. Len(more) : j >= i => j = n + 1
      BY <2>2, <1>0, <1>1
    <3>. QED BY <3>4, <3>5, <1>1
  <2>. QED BY <2>1, <2>2, <1>1, <1>4
<1>12. Looping(w, h + 1, loop, more, r)
  BY <1>5, <1>8, <1>10, <1>11, Zenon DEF Looping
<1>. QED BY <1>12 DEF more

(* A captured occurrence leaves what is pending alone.                     *)
LEMMA SpanCaptured ==
    ASSUME NEW seen, NEW t \in Nat, Ordered(seen, t), NEW p \in Nat, NEW first, NEW last,
           Spanned(p, first, last, seen, t)
    PROVE  Spanned(p, first, last, Append(seen, [at |-> t, captured |-> TRUE]), t)
<1>. DEFINE more == Append(seen, [at |-> t, captured |-> TRUE])
            n == Len(seen)
<1>1. /\ n \in Nat /\ Len(more) = n + 1 /\ more[n + 1].captured
      /\ \A j \in 1 .. n : more[j] = seen[j]
  BY OneMoreSeen
<1>. HIDE DEF more, n
<1>2. \A j \in 1 .. n + 1 : j \in 1 .. n \/ j = n + 1
  BY <1>1
<1>3. ASSUME NEW i \in 1 .. Len(more), ~more[i].captured, Cardinality(Later(more, i)) < p
      PROVE  first[1] <= more[i].at /\ more[i].at <= last[1]
  <2>1. i \in 1 .. n /\ more[i] = seen[i]
    BY <1>1, <1>2, <1>3
  <2>2. Later(more, i) = Later(seen, i)
    BY <2>1, <1>1, <1>2 DEF Later, n
  <2>. QED BY <2>1, <2>2, <1>3 DEF Spanned, n
<1>4. Spanned(p, first, last, more, t)
  BY <1>3 DEF Spanned
<1>. QED BY <1>4 DEF more

(* A suppressed one joins it (_mark_suppressed).                           *)
LEMMA SpanSuppressed ==
    ASSUME NEW seen, NEW t \in Nat, Ordered(seen, t), NEW p \in Nat, NEW first, NEW last,
           Spanned(p, first, last, seen, t), NEW w \in Nat, w <= t, NEW since,
           since = IF p = 0 THEN <<w>> ELSE first
    PROVE  Spanned(p + 1, since, <<t>>, Append(seen, [at |-> t, captured |-> FALSE]), t)
<1>. DEFINE more == Append(seen, [at |-> t, captured |-> FALSE])
            n == Len(seen)
<1>1. /\ n \in Nat /\ Len(more) = n + 1 /\ ~more[n + 1].captured /\ more[n + 1].at = t
      /\ \A j \in 1 .. n : more[j] = seen[j] /\ more[j].at <= t
  BY OneMoreSeen DEF Ordered
<1>2. since # <<>> /\ since[1] <= t
  BY DEF Spanned
<1>. HIDE DEF more, n
<1>3. \A j \in 1 .. n + 1 : j \in 1 .. n \/ j = n + 1
  BY <1>1
<1>4. ASSUME NEW i \in 1 .. Len(more), ~more[i].captured, Cardinality(Later(more, i)) < p + 1
      PROVE  since[1] <= more[i].at /\ more[i].at <= t
  <2>1. CASE i \in 1 .. n
    <3>0. seen \in Seq(Occurrences) /\ i \in Nat
      BY <2>1 DEF Ordered
    <3>1. IsFiniteSet(Later(seen, i)) /\ Cardinality(Later(seen, i)) \in Nat
      BY <3>0, StretchesFinite, FS_CardinalityType
    <3>2. Later(more, i) = Later(seen, i) \cup {n + 1}
      BY <2>1, <1>1, <1>3 DEF Later, n
    <3>3. n + 1 \notin Later(seen, i)
      BY <1>1 DEF Later, n
    <3>4. Cardinality(Later(seen, i)) < p
      <4>1. Cardinality(Later(more, i)) = Cardinality(Later(seen, i)) + 1
        BY <3>1, <3>2, <3>3, FS_AddElement
      <4>. QED BY <4>1, <3>1, <1>4
    <3>5. p # 0
      BY <3>1, <3>4
    <3>. QED BY <3>4, <3>5, <2>1, <1>1, <1>4 DEF Spanned, n
  <2>2. CASE i = n + 1
    BY <2>2, <1>1, <1>2
  <2>. QED BY <2>1, <2>2, <1>1, <1>3
<1>5. Spanned(p + 1, since, <<t>>, more, t)
  <2>1. p + 1 # 0
    OBVIOUS
  <2>. QED BY <2>1, <1>2, <1>4 DEF Spanned
<1>. QED BY <1>5 DEF more

(* One more occurrence, and one more captured if it is.                    *)
LEMMA CapturedMore ==
    ASSUME NEW seen, NEW t \in Nat, Ordered(seen, t), NEW captured \in BOOLEAN
    PROVE  /\ Cardinality(CapturedOf(seen)) \in Nat
           /\ Cardinality(CapturedOf(Append(seen, [at |-> t, captured |-> captured]))) =
                 Cardinality(CapturedOf(seen)) + (IF captured THEN 1 ELSE 0)
<1>. DEFINE more == Append(seen, [at |-> t, captured |-> captured])
            n == Len(seen)
            C == CapturedOf(seen)
<1>1. /\ n \in Nat /\ Len(more) = n + 1 /\ more[n + 1].captured = captured
      /\ \A j \in 1 .. n : more[j] = seen[j]
  BY OneMoreSeen
<1>2. IsFiniteSet(C)
  BY StretchesFinite DEF Ordered
<1>3. Cardinality(C) \in Nat
  BY <1>2, FS_CardinalityType
<1>. HIDE DEF more, n, C
<1>4. \A j \in 1 .. n + 1 : j \in 1 .. n \/ j = n + 1
  BY <1>1
<1>5. CapturedOf(more) = IF captured THEN C \cup {n + 1} ELSE C
  BY <1>1, <1>4 DEF CapturedOf, C, n
<1>6. n + 1 \notin C
  BY <1>1 DEF CapturedOf, C, n
<1>7. Cardinality(CapturedOf(more)) = Cardinality(C) + (IF captured THEN 1 ELSE 0)
  <2>1. Cardinality(C \cup {n + 1}) = Cardinality(C) + 1
    BY <1>2, <1>6, FS_AddElement
  <2>. QED BY <2>1, <1>3, <1>5
<1>. QED BY <1>3, <1>7 DEF more, C

(* The table of entries, each of a fingerprint of its own.                 *)
States ==
    [key : Fingerprints, window_started_at : Nat, emitted_count : Nat,
     pending : Nat, first_seen : Seq(Nat), last_seen : Seq(Nat), aggregated_at : Seq(Nat),
     loop_window_started_at : Nat, loop_hit_count : Nat, suppression_mode : BOOLEAN,
     last_seen_at : Nat]

Distinct(tracker) ==
    tracker \in Seq(States)
    /\ \A i, j \in 1 .. Len(tracker) : tracker[i].key = tracker[j].key => i = j

Entry(s, seen, r, t) ==
    /\ s.window_started_at <= t /\ s.loop_window_started_at <= t
    /\ Windowed(s.window_started_at, s.emitted_count, seen, r)
    /\ Looping(s.loop_window_started_at, s.loop_hit_count, s.suppression_mode, seen, r)
    /\ Spanned(s.pending, s.first_seen, s.last_seen, seen, t)

(* A new entry is about no occurrence yet.                                 *)
LEMMA FreshEntry ==
    ASSUME NEW key \in Fingerprints, NEW t \in Nat, NEW seen, Ordered(seen, t), NEW s,
           s = SuppressionState(key, t)
    PROVE  /\ s \in States /\ s.key = key /\ s.pending = 0
           /\ Entry(s, seen, Len(seen), t)
<1>. DEFINE none == <<>>
<1>0. none \in Seq(Nat)
  OBVIOUS
<1>1. s = [key |-> key, window_started_at |-> t, emitted_count |-> 0, pending |-> 0,
           first_seen |-> none, last_seen |-> none, aggregated_at |-> none,
           loop_window_started_at |-> t, loop_hit_count |-> 0, suppression_mode |-> FALSE,
           last_seen_at |-> t]
  BY DEF SuppressionState
<1>. HIDE DEF none
<1>2. s \in States
  BY <1>0, <1>1 DEF States
<1>3. /\ s.key = key /\ s.pending = 0 /\ s.suppression_mode = FALSE
      /\ s.window_started_at = t /\ s.loop_window_started_at = t /\ s.emitted_count = 0
      /\ s.loop_hit_count = 0 /\ s.first_seen = none
  BY <1>1
<1>4. Len(seen) \in Nat
  BY SeenTypes
<1>5. Len(seen) + 1 .. Len(seen) = {}
  BY <1>4
<1>6. /\ Emitted(seen, Len(seen), t) = {} /\ Hits(seen, Len(seen), t) = {}
      /\ RecentBefore(seen, Len(seen), t) = {}
  BY <1>5 DEF Emitted, Hits, RecentBefore
<1>7. Windowed(t, 0, seen, Len(seen))
  BY <1>5, <1>6, FS_EmptySet, SuppressionAssumption DEF Windowed
<1>8. Looping(t, 0, FALSE, seen, Len(seen))
  BY <1>5, <1>6, FS_EmptySet, SuppressionAssumption DEF Looping
<1>9. Spanned(0, none, s.last_seen, seen, t)
  <2>1. ASSUME NEW i \in 1 .. Len(seen) PROVE ~(Cardinality(Later(seen, i)) < 0)
    <3>1. i \in Nat /\ seen \in Seq(Occurrences)
      BY DEF Ordered
    <3>2. Cardinality(Later(seen, i)) \in Nat
      BY <3>1, StretchesFinite, FS_CardinalityType
    <3>. QED BY <3>2
  <2>. QED BY <2>1 DEF Spanned, none
<1>10. t <= t
  OBVIOUS
<1>. QED BY <1>2, <1>3, <1>7, <1>8, <1>9, <1>10 DEF Entry

(* The fields of an entry.                                                 *)
LEMMA EntryTypes ==
    ASSUME NEW s \in States
    PROVE  /\ s.key \in Fingerprints /\ s.window_started_at \in Nat /\ s.emitted_count \in Nat
           /\ s.pending \in Nat /\ s.first_seen \in Seq(Nat) /\ s.last_seen \in Seq(Nat)
           /\ s.aggregated_at \in Seq(Nat) /\ s.loop_window_started_at \in Nat
           /\ s.loop_hit_count \in Nat /\ s.suppression_mode \in BOOLEAN /\ s.last_seen_at \in Nat
BY DEF States

(* An entry with a new window of loops is one.                             *)
LEMMA EntryLooped ==
    ASSUME NEW s \in States, NEW n \in Nat, NEW w \in Nat
    PROVE  [s EXCEPT !.loop_window_started_at = w, !.loop_hit_count = n] \in States
BY DEF States

(* An entry with another count is one.                                     *)
LEMMA EntryCounted ==
    ASSUME NEW s \in States, NEW n \in Nat
    PROVE  [s EXCEPT !.emitted_count = n] \in States
BY DEF States

(* An entry with another span is one.                                      *)
LEMMA EntrySpan ==
    ASSUME NEW s \in States, NEW n \in Nat, NEW first \in Seq(Nat), NEW last \in Seq(Nat)
    PROVE  [s EXCEPT !.first_seen = first, !.pending = n, !.last_seen = last] \in States
BY DEF States

(* Renewal brings the clock within both windows.                           *)
LEMMA RenewedEntry ==
    ASSUME NEW s \in States, NEW t \in Nat, NEW seen, Ordered(seen, t),
           NEW r \in 0 .. Len(seen), Entry(s, seen, r, t), ~LoopOver(s, t), NEW u, u = Renewed(s, t)
    PROVE  /\ u \in States /\ u.key = s.key /\ u.pending = s.pending
           /\ Entry(u, seen, r, t)
           /\ t < u.window_started_at + DUPLICATE_WINDOW /\ t < u.loop_window_started_at + LOOP_WINDOW
<1>. DEFINE w == IF t - s.window_started_at >= DUPLICATE_WINDOW
                 THEN [s EXCEPT !.window_started_at = t, !.emitted_count = 0] ELSE s
<1>0. DUPLICATE_WINDOW \in Nat /\ DUPLICATE_WINDOW > 0 /\ LOOP_WINDOW \in Nat /\ LOOP_WINDOW > 0 /\ r \in Nat
  BY SeenTypes, SuppressionAssumption
<1>1. u = IF t - w.loop_window_started_at >= LOOP_WINDOW
          THEN [w EXCEPT !.loop_window_started_at = t, !.loop_hit_count = 0] ELSE w
  BY DEF Renewed
<1>2. /\ s.window_started_at \in Nat /\ s.loop_window_started_at \in Nat /\ s.emitted_count \in Nat
      /\ s.loop_hit_count \in Nat /\ s.suppression_mode \in BOOLEAN
  BY EntryTypes
<1>3. /\ s.window_started_at <= t /\ s.loop_window_started_at <= t
      /\ Windowed(s.window_started_at, s.emitted_count, seen, r)
      /\ Looping(s.loop_window_started_at, s.loop_hit_count, s.suppression_mode, seen, r)
      /\ Spanned(s.pending, s.first_seen, s.last_seen, seen, t)
  BY DEF Entry
<1>4. /\ w \in States /\ w.key = s.key /\ w.pending = s.pending /\ w.first_seen = s.first_seen
      /\ w.last_seen = s.last_seen /\ w.loop_window_started_at = s.loop_window_started_at
      /\ w.loop_hit_count = s.loop_hit_count /\ w.suppression_mode = s.suppression_mode
  BY DEF States
<1>5. /\ w.window_started_at <= t /\ t < w.window_started_at + DUPLICATE_WINDOW
      /\ Windowed(w.window_started_at, w.emitted_count, seen, r)
  <2>1. CASE t - s.window_started_at >= DUPLICATE_WINDOW
    <3>1. w.window_started_at = t /\ w.emitted_count = 0
      BY <2>1 DEF States
    <3>2. s.window_started_at + DUPLICATE_WINDOW <= t
      BY <2>1, <1>0, <1>2
    <3>. HIDE DEF w
    <3>3. Windowed(t, 0, seen, r)
      BY <3>2, <1>0, <1>2, <1>3, WindowRenewed
    <3>. QED BY <3>1, <3>3, <1>0
  <2>2. CASE ~(t - s.window_started_at >= DUPLICATE_WINDOW)
    <3>1. w = s
      BY <2>2
    <3>2. t < s.window_started_at + DUPLICATE_WINDOW
      BY <2>2, <1>0, <1>2
    <3>. HIDE DEF w
    <3>. QED BY <3>1, <3>2, <1>3
  <2>. QED BY <2>1, <2>2
<1>. HIDE DEF w
<1>6. /\ u \in States /\ u.key = w.key /\ u.pending = w.pending /\ u.first_seen = w.first_seen
      /\ u.last_seen = w.last_seen /\ u.window_started_at = w.window_started_at
      /\ u.emitted_count = w.emitted_count /\ u.suppression_mode = w.suppression_mode
  <2>1. w \in States
    BY <1>4
  <2>2. CASE u = w
    BY <2>1, <2>2
  <2>3. CASE u = [w EXCEPT !.loop_window_started_at = t, !.loop_hit_count = 0]
    <3>1. u \in States
      <4>1. 0 \in Nat
        OBVIOUS
      <4>2. [w EXCEPT !.loop_window_started_at = t, !.loop_hit_count = 0] \in States
        BY <4>1, <2>1, EntryLooped, Zenon
      <4>. QED BY <4>2, <2>3, Zenon
    <3>. QED BY <3>1, <2>1, <2>3 DEF States
  <2>. QED BY <2>2, <2>3, <1>1
<1>7. /\ u.loop_window_started_at <= t /\ t < u.loop_window_started_at + LOOP_WINDOW
      /\ Looping(u.loop_window_started_at, u.loop_hit_count, u.suppression_mode, seen, r)
  <2>1. CASE t - w.loop_window_started_at >= LOOP_WINDOW
    <3>1. u.loop_window_started_at = t /\ u.loop_hit_count = 0
      BY <2>1, <1>1, <1>4 DEF States
    <3>2. s.loop_window_started_at + LOOP_WINDOW <= t
      BY <2>1, <1>0, <1>2, <1>4
    <3>3. Looping(t, 0, s.suppression_mode, seen, r)
      BY <3>2, <1>0, <1>2, <1>3, LoopRenewed
    <3>. QED BY <3>1, <3>3, <1>0, <1>4, <1>6
  <2>2. CASE ~(t - w.loop_window_started_at >= LOOP_WINDOW)
    <3>1. u = w
      BY <2>2, <1>1
    <3>2. t < s.loop_window_started_at + LOOP_WINDOW
      BY <2>2, <1>0, <1>2, <1>4
    <3>. QED BY <3>1, <3>2, <1>3, <1>4
  <2>. QED BY <2>1, <2>2
<1>. QED BY <1>3, <1>4, <1>5, <1>6, <1>7 DEF Entry

(* Counting the occurrence, and the verdict (should_capture).              *)
Judged(u, t, hit, capture, final) ==
    /\ hit = [u EXCEPT !.loop_hit_count = @ + 1, !.last_seen_at = t,
                       !.suppression_mode = @ \/ u.loop_hit_count + 1 > LOOP_THRESHOLD]
    /\ capture = (~hit.suppression_mode /\ hit.emitted_count < MAX_NORMAL_EVENTS)
    /\ final = IF capture THEN [hit EXCEPT !.emitted_count = @ + 1] ELSE mark_suppressed(hit, t)

(* It keeps an entry about its occurrences.                                *)
LEMMA HitEntry ==
    ASSUME NEW u \in States, NEW t \in Nat, NEW seen, Ordered(seen, t), NEW r \in 0 .. Len(seen),
           Entry(u, seen, r, t),
           t < u.window_started_at + DUPLICATE_WINDOW, t < u.loop_window_started_at + LOOP_WINDOW,
           NEW hit, NEW capture, NEW final, Judged(u, t, hit, capture, final)
    PROVE  /\ capture \in BOOLEAN
           /\ final \in States /\ final.key = u.key
           /\ final.pending = u.pending + (IF capture THEN 0 ELSE 1)
           /\ Entry(final, Append(seen, [at |-> t, captured |-> capture]), r, t)
<1>. DEFINE mode == u.suppression_mode
            loop == mode \/ u.loop_hit_count + 1 > LOOP_THRESHOLD
            more == Append(seen, [at |-> t, captured |-> capture])
<1>0. /\ hit = [u EXCEPT !.loop_hit_count = @ + 1, !.last_seen_at = t,
                         !.suppression_mode = @ \/ u.loop_hit_count + 1 > LOOP_THRESHOLD]
      /\ capture = (~hit.suppression_mode /\ hit.emitted_count < MAX_NORMAL_EVENTS)
      /\ final = IF capture THEN [hit EXCEPT !.emitted_count = @ + 1] ELSE mark_suppressed(hit, t)
  BY Zenon DEF Judged
<1>1. /\ u.window_started_at \in Nat /\ u.loop_window_started_at \in Nat /\ u.emitted_count \in Nat
      /\ u.loop_hit_count \in Nat /\ mode \in BOOLEAN /\ u.pending \in Nat
      /\ u.first_seen \in Seq(Nat)
  BY EntryTypes
<1>2. /\ u.window_started_at <= t /\ u.loop_window_started_at <= t
      /\ Windowed(u.window_started_at, u.emitted_count, seen, r)
      /\ Looping(u.loop_window_started_at, u.loop_hit_count, mode, seen, r)
      /\ Spanned(u.pending, u.first_seen, u.last_seen, seen, t)
  BY DEF Entry
<1>3. r \in Nat /\ r <= Len(seen) /\ capture \in BOOLEAN /\ loop \in BOOLEAN
  BY <1>0, SeenTypes
<1>4. /\ hit \in States /\ hit.key = u.key /\ hit.loop_hit_count = u.loop_hit_count + 1
      /\ hit.window_started_at = u.window_started_at /\ hit.emitted_count = u.emitted_count
      /\ hit.pending = u.pending /\ hit.first_seen = u.first_seen /\ hit.last_seen = u.last_seen
      /\ hit.loop_window_started_at = u.loop_window_started_at /\ hit.suppression_mode = loop
  <2>. DEFINE h == u.loop_hit_count + 1
  <2>1. h \in Nat /\ loop \in BOOLEAN
    BY <1>1
  <2>2. hit = [u EXCEPT !.loop_hit_count = h, !.last_seen_at = t, !.suppression_mode = loop]
    BY <1>0, Zenon
  <2>. HIDE DEF h, loop
  <2>3. hit \in States
    BY <2>1, <2>2 DEF States
  <2>4. /\ hit.key = u.key /\ hit.loop_hit_count = h
        /\ hit.window_started_at = u.window_started_at /\ hit.emitted_count = u.emitted_count
        /\ hit.pending = u.pending /\ hit.first_seen = u.first_seen /\ hit.last_seen = u.last_seen
        /\ hit.loop_window_started_at = u.loop_window_started_at /\ hit.suppression_mode = loop
    BY <2>2 DEF States
  <2>. QED BY <2>3, <2>4 DEF h
<1>5. hit.suppression_mode = loop
  BY <1>4
<1>6. capture => ~loop /\ u.emitted_count < MAX_NORMAL_EVENTS
  BY <1>0, <1>4, <1>5, Zenon
<1>. HIDE DEF loop
<1>7. Windowed(u.window_started_at, IF capture THEN u.emitted_count + 1 ELSE u.emitted_count, more, r)
  BY <1>1, <1>2, <1>3, <1>6, WindowHit
<1>8. Looping(u.loop_window_started_at, u.loop_hit_count + 1, loop, more, r)
  <2>1. loop = (mode \/ u.loop_hit_count + 1 > LOOP_THRESHOLD)
    BY DEF loop
  <2>. HIDE DEF mode
  <2>2. Looping(u.loop_window_started_at, u.loop_hit_count, mode, seen, r)
    BY <1>2
  <2>. QED BY <2>1, <2>2, <1>1, <1>2, <1>3, <1>6, LoopHit
<1>9. CASE capture
  <2>1. final = [hit EXCEPT !.emitted_count = @ + 1]
    BY <1>0, <1>9
  <2>2. /\ final \in States /\ final.key = u.key /\ final.pending = u.pending
        /\ final.emitted_count = u.emitted_count + 1 /\ final.suppression_mode = hit.suppression_mode
        /\ final.window_started_at = u.window_started_at
        /\ final.loop_window_started_at = u.loop_window_started_at
        /\ final.loop_hit_count = u.loop_hit_count + 1
        /\ final.first_seen = u.first_seen /\ final.last_seen = u.last_seen
    <3>1. hit \in States /\ hit.emitted_count \in Nat
      BY <1>1, <1>4
    <3>2. final \in States
      <4>1. hit.emitted_count + 1 \in Nat /\ final = [hit EXCEPT !.emitted_count = hit.emitted_count + 1]
        BY <2>1, <3>1
      <4>2. [hit EXCEPT !.emitted_count = hit.emitted_count + 1] \in States
        BY <4>1, <3>1, EntryCounted, Zenon
      <4>. QED BY <4>1, <4>2, Zenon
    <3>3. /\ final.key = hit.key /\ final.pending = hit.pending
          /\ final.emitted_count = hit.emitted_count + 1 /\ final.suppression_mode = hit.suppression_mode
          /\ final.window_started_at = hit.window_started_at
          /\ final.loop_window_started_at = hit.loop_window_started_at
          /\ final.loop_hit_count = hit.loop_hit_count
          /\ final.first_seen = hit.first_seen /\ final.last_seen = hit.last_seen
      BY <2>1, <3>1 DEF States
    <3>. QED BY <3>2, <3>3, <1>4
  <2>3. Spanned(u.pending, u.first_seen, u.last_seen, more, t)
    <3>1. more = Append(seen, [at |-> t, captured |-> TRUE])
      BY <1>9, <1>3
    <3>. HIDE DEF more
    <3>. QED BY <3>1, <1>1, <1>2, SpanCaptured
  <2>. HIDE DEF more
  <2>4. Entry(final, more, r, t)
    BY <2>2, <2>3, <1>2, <1>5, <1>7, <1>8, <1>9 DEF Entry
  <2>. QED BY <2>2, <2>4, <1>1, <1>3, <1>9 DEF more
<1>10. CASE ~capture
  <2>. DEFINE since == IF hit.pending = 0 THEN <<hit.window_started_at>> ELSE hit.first_seen
  <2>1. final = [hit EXCEPT !.first_seen = since, !.pending = @ + 1, !.last_seen = <<t>>]
    BY <1>0, <1>10 DEF mark_suppressed
  <2>2. since \in Seq(Nat) /\ <<t>> \in Seq(Nat)
    BY <1>1, <1>4
  <2>3. since = IF u.pending = 0 THEN <<u.window_started_at>> ELSE u.first_seen
    BY <1>4
  <2>. HIDE DEF since
  <2>4. /\ final \in States /\ final.key = u.key /\ final.pending = u.pending + 1
        /\ final.emitted_count = u.emitted_count /\ final.suppression_mode = hit.suppression_mode
        /\ final.window_started_at = u.window_started_at
        /\ final.loop_window_started_at = u.loop_window_started_at
        /\ final.loop_hit_count = u.loop_hit_count + 1
        /\ final.first_seen = since /\ final.last_seen = <<t>>
    <3>. DEFINE single == <<t>>
    <3>1. hit \in States /\ hit.pending \in Nat /\ single \in Seq(Nat) /\ since \in Seq(Nat)
      BY <2>2, <1>1, <1>4
    <3>2. final = [hit EXCEPT !.first_seen = since, !.pending = @ + 1, !.last_seen = single]
      BY <2>1
    <3>. HIDE DEF single
    <3>3. final \in States
      <4>1. /\ hit.pending + 1 \in Nat
            /\ final = [hit EXCEPT !.first_seen = since, !.pending = hit.pending + 1, !.last_seen = single]
        BY <3>1, <3>2
      <4>2. [hit EXCEPT !.first_seen = since, !.pending = hit.pending + 1, !.last_seen = single] \in States
        BY <4>1, <3>1, EntrySpan, Zenon
      <4>. QED BY <4>1, <4>2, Zenon
    <3>4. /\ final.key = hit.key /\ final.pending = hit.pending + 1
          /\ final.emitted_count = hit.emitted_count /\ final.suppression_mode = hit.suppression_mode
          /\ final.window_started_at = hit.window_started_at
          /\ final.loop_window_started_at = hit.loop_window_started_at
          /\ final.loop_hit_count = hit.loop_hit_count
          /\ final.first_seen = since /\ final.last_seen = single
      BY <3>1, <3>2 DEF States
    <3>. QED BY <3>3, <3>4, <1>4 DEF single
  <2>5. Spanned(u.pending + 1, since, <<t>>, more, t)
    <3>1. more = Append(seen, [at |-> t, captured |-> FALSE])
      BY <1>10, <1>3
    <3>. HIDE DEF more
    <3>. QED BY <3>1, <2>3, <1>1, <1>2, SpanSuppressed
  <2>. HIDE DEF more
  <2>6. Entry(final, more, r, t)
    BY <2>4, <2>5, <1>2, <1>5, <1>7, <1>8, <1>10 DEF Entry
  <2>. QED BY <2>4, <2>6, <1>1, <1>3, <1>10 DEF more
<1>. QED BY <1>3, <1>9, <1>10

(* What is left of a table once an entry is taken out, or its oldest, is a *)
(* part of it in the same order.                                           *)
Part(rest, tracker) ==
    /\ rest \in Seq(States) /\ Len(rest) \in Nat
    /\ \E at \in [1 .. Len(rest) -> 1 .. Len(tracker)] :
          /\ \A i, j \in 1 .. Len(rest) : at[i] = at[j] => i = j
          /\ \A i \in 1 .. Len(rest) : rest[i] = tracker[at[i]]

(* It holds each fingerprint once.                                         *)
LEMMA PartDistinct ==
    ASSUME NEW tracker, Distinct(tracker), NEW rest, Part(rest, tracker)
    PROVE  Distinct(rest) /\ \A i \in 1 .. Len(rest) : \E k \in 1 .. Len(tracker) : rest[i] = tracker[k]
<1>1. PICK at \in [1 .. Len(rest) -> 1 .. Len(tracker)] :
          /\ \A i, j \in 1 .. Len(rest) : at[i] = at[j] => i = j
          /\ \A i \in 1 .. Len(rest) : rest[i] = tracker[at[i]]
  BY DEF Part
<1>2. ASSUME NEW i \in 1 .. Len(rest), NEW j \in 1 .. Len(rest), rest[i].key = rest[j].key PROVE i = j
  <2>1. at[i] \in 1 .. Len(tracker) /\ at[j] \in 1 .. Len(tracker)
    BY <1>1
  <2>2. tracker[at[i]].key = tracker[at[j]].key
    BY <1>1, <1>2
  <2>3. at[i] = at[j]
    BY <2>1, <2>2 DEF Distinct
  <2>. QED BY <2>3, <1>1
<1>. QED BY <1>1, <1>2 DEF Distinct, Part

(* The entry of a fingerprint comes last, the others as they were, without *)
(* the oldest if a new entry finds the table full.                         *)
MovedLast(tracker, key, t, rest, last) ==
    /\ Tracked(tracker, key, t) = Append(rest, last)
    /\ Part(rest, tracker) /\ Len(rest) < MAX_TRACKED
    /\ \A i \in 1 .. Len(rest) : rest[i].key # key
    /\ \/ last = SuppressionState(key, t) /\ \A i \in 1 .. Len(tracker) : tracker[i].key # key
       \/ /\ \E p \in 1 .. Len(tracker) : last = tracker[p]
          /\ last.key = key
          /\ \A i \in 1 .. Len(tracker) : tracker[i] = last \/ \E j \in 1 .. Len(rest) : rest[j] = tracker[i]

(* That is what looking an entry up does to the table.                     *)
LEMMA Moved ==
    ASSUME NEW tracker, Distinct(tracker), Len(tracker) <= MAX_TRACKED,
           NEW key \in Fingerprints, NEW t \in Nat
    PROVE  \E rest, last : MovedLast(tracker, key, t, rest, last)
<1>. DEFINE n == Len(tracker)
            places == {i \in DOMAIN tracker : tracker[i].key = key}
            place == CHOOSE i \in places : TRUE
<1>1. /\ tracker \in Seq(States) /\ n \in Nat /\ DOMAIN tracker = 1 .. n
      /\ MAX_TRACKED \in Nat /\ MAX_TRACKED > 0
      /\ \A i, j \in 1 .. n : tracker[i].key = tracker[j].key => i = j
  BY SuppressionAssumption DEF Distinct
<1>2. CASE places # {}
  <2>1. place \in 1 .. n /\ tracker[place].key = key
    BY <1>1, <1>2
  <2>2. Tracked(tracker, key, t) = Append(RemoveAt(tracker, place), tracker[place])
    BY <1>2 DEF Tracked
  <2>. DEFINE p == place
              a == SubSeq(tracker, 1, p - 1)
              b == SubSeq(tracker, p + 1, n)
              rest == a \o b
              at == [i \in 1 .. n - 1 |-> IF i < p THEN i ELSE i + 1]
  <2>3. rest = RemoveAt(tracker, place)
    BY DEF RemoveAt
  <2>. HIDE DEF places, place, n
  <2>4. a \in Seq(States) /\ Len(a) = p - 1 /\ \A i \in 1 .. p - 1 : a[i] = tracker[i]
    <3>1. 1 \in Int /\ p - 1 \in Int /\ \A i \in 1 .. p - 1 : tracker[i] \in States
      BY <1>1, <2>1 DEF n
    <3>2. /\ a \in Seq(States) /\ Len(a) = IF 1 <= p - 1 THEN p - 1 - 1 + 1 ELSE 0
          /\ \A i \in 1 .. p - 1 - 1 + 1 : a[i] = tracker[1 + i - 1]
      BY <3>1, SubSeqProperties
    <3>. HIDE DEF a
    <3>. QED BY <3>2, <2>1, <1>1
  <2>5. b \in Seq(States) /\ Len(b) = n - p /\ \A i \in 1 .. n - p : b[i] = tracker[p + i]
    <3>1. p + 1 \in Int /\ n \in Int /\ \A i \in p + 1 .. n : tracker[i] \in States
      BY <1>1, <2>1 DEF n
    <3>2. /\ b \in Seq(States) /\ Len(b) = IF p + 1 <= n THEN n - (p + 1) + 1 ELSE 0
          /\ \A i \in 1 .. n - (p + 1) + 1 : b[i] = tracker[(p + 1) + i - 1]
      BY <3>1, SubSeqProperties
    <3>. HIDE DEF b
    <3>3. \A i \in 1 .. n - p : (p + 1) + i - 1 = p + i /\ i \in 1 .. n - (p + 1) + 1
      BY <2>1, <1>1
    <3>. QED BY <3>2, <3>3, <2>1, <1>1
  <2>6. /\ rest \in Seq(States) /\ Len(rest) = Len(a) + Len(b)
        /\ \A i \in 1 .. Len(a) + Len(b) : rest[i] = IF i <= Len(a) THEN a[i] ELSE b[i - Len(a)]
    BY <2>4, <2>5, ConcatProperties
  <2>. HIDE DEF a, b, rest
  <2>7. Len(rest) = n - 1 /\ n - 1 \in Nat
    BY <2>1, <2>4, <2>5, <2>6, <1>1
  <2>8. at \in [1 .. n - 1 -> 1 .. n] /\ (\A i, j \in 1 .. n - 1 : at[i] = at[j] => i = j)
        /\ \A i \in 1 .. n - 1 : at[i] # p /\ (i < p => at[i] = i) /\ (i >= p => at[i] = i + 1)
    BY <2>1, <1>1
  <2>. HIDE DEF at
  <2>9. ASSUME NEW i \in 1 .. n - 1 PROVE rest[i] = tracker[at[i]]
    <3>1. CASE i < p
      <4>1. i \in 1 .. p - 1 /\ i <= Len(a) /\ i \in 1 .. Len(a) + Len(b)
        BY <3>1, <2>1, <2>4, <2>5, <1>1
      <4>2. rest[i] = a[i]
        BY <4>1, <2>6
      <4>. QED BY <4>1, <4>2, <3>1, <2>4, <2>8
    <3>2. CASE i >= p
      <4>1. /\ ~(i <= Len(a)) /\ i \in 1 .. Len(a) + Len(b) /\ i - Len(a) \in 1 .. n - p
            /\ p + (i - Len(a)) = i + 1
        BY <3>2, <2>1, <2>4, <2>5, <1>1
      <4>2. rest[i] = b[i - Len(a)]
        BY <4>1, <2>6
      <4>3. b[i - Len(a)] = tracker[p + (i - Len(a))]
        BY <4>1, <2>5
      <4>. QED BY <4>1, <4>2, <4>3, <3>2, <2>8
    <3>. QED BY <3>1, <3>2, <2>1, <1>1
  <2>10. Part(rest, tracker)
    <3>1. /\ at \in [1 .. Len(rest) -> 1 .. Len(tracker)]
          /\ \A i, j \in 1 .. Len(rest) : at[i] = at[j] => i = j
          /\ \A i \in 1 .. Len(rest) : rest[i] = tracker[at[i]]
      BY <2>7, <2>8, <2>9 DEF n
    <3>2. rest \in Seq(States) /\ Len(rest) \in Nat
      BY <2>6, <2>7
    <3>. QED BY <3>1, <3>2, Zenon DEF Part
  <2>11. \A i \in 1 .. Len(rest) : rest[i].key # key
    BY <2>1, <2>7, <2>8, <2>9, <1>1
  <2>12. \A i \in 1 .. n : tracker[i] = tracker[p] \/ \E j \in 1 .. Len(rest) : rest[j] = tracker[i]
    <3>. SUFFICES ASSUME NEW i \in 1 .. n, i # p PROVE \E j \in 1 .. n - 1 : rest[j] = tracker[i]
      BY <2>7
    <3>1. CASE i < p
      <4>1. i \in 1 .. n - 1 /\ at[i] = i
        BY <3>1, <2>1, <2>8, <1>1
      <4>. QED BY <4>1, <2>9
    <3>2. CASE i > p
      <4>1. i - 1 \in 1 .. n - 1 /\ at[i - 1] = i
        BY <3>2, <2>1, <2>8, <1>1
      <4>. QED BY <4>1, <2>9
    <3>. QED BY <3>1, <3>2, <2>1, <1>1
  <2>13. Len(rest) < MAX_TRACKED
    BY <2>7, <1>1 DEF n
  <2>14. MovedLast(tracker, key, t, rest, tracker[p])
    BY <2>1, <2>2, <2>3, <2>10, <2>11, <2>12, <2>13 DEF n, MovedLast
  <2>. QED BY <2>14
<1>3. CASE places = {}
  <2>. DEFINE rest == IF n >= MAX_TRACKED THEN Tail(tracker) ELSE tracker
  <2>1. Tracked(tracker, key, t) = Append(rest, SuppressionState(key, t))
    BY <1>3 DEF Tracked
  <2>2. \A i \in 1 .. n : tracker[i].key # key
    BY <1>1, <1>3
  <2>3. Part(rest, tracker) /\ Len(rest) < MAX_TRACKED
    <3>1. CASE n >= MAX_TRACKED
      <4>1. rest = Tail(tracker) /\ tracker # <<>>
        BY <3>1, <1>1
      <4>. HIDE DEF rest, places
      <4>2. /\ rest \in Seq(States) /\ Len(rest) = n - 1
            /\ \A i \in 1 .. Len(rest) : rest[i] = tracker[i + 1]
        BY <4>1, <1>1, HeadTailProperties
      <4>. DEFINE at == [i \in 1 .. n - 1 |-> i + 1]
      <4>3. at \in [1 .. n - 1 -> 1 .. n] /\ (\A i, j \in 1 .. n - 1 : at[i] = at[j] => i = j)
            /\ \A i \in 1 .. n - 1 : at[i] = i + 1
        BY <1>1
      <4>4. n - 1 \in Nat /\ n - 1 < MAX_TRACKED
        BY <3>1, <1>1
      <4>. HIDE DEF n, at
      <4>. QED BY <4>2, <4>3, <4>4 DEF Part, n
    <3>2. CASE ~(n >= MAX_TRACKED)
      <4>1. rest = tracker /\ n < MAX_TRACKED
        BY <3>2, <1>1
      <4>. DEFINE at == [i \in 1 .. n |-> i]
      <4>2. at \in [1 .. n -> 1 .. n] /\ \A i \in 1 .. n : at[i] = i
        OBVIOUS
      <4>. HIDE DEF rest, at, places
      <4>. QED BY <4>1, <4>2, <1>1 DEF Part
    <3>. QED BY <3>1, <3>2
  <2>. HIDE DEF rest
  <2>4. \A i \in 1 .. Len(rest) : rest[i].key # key
    <3>1. \A i \in 1 .. Len(rest) : \E k \in 1 .. n : rest[i] = tracker[k]
      BY <2>3, PartDistinct
    <3>. HIDE DEF n
    <3>. QED BY <3>1, <2>2
  <2>5. MovedLast(tracker, key, t, rest, SuppressionState(key, t))
    BY <2>1, <2>2, <2>3, <2>4 DEF n, MovedLast
  <2>. QED BY <2>5
<1>. QED BY <1>2, <1>3

(* A fingerprint without an entry is ready for the next one; captured,     *)
(* reported and pending occurrences are those seen, or no more if an entry *)
(* was thrown away.                                                        *)
Accounted(f) ==
    LET counted == Cardinality(CapturedOf(occurrences[f])) + reported[f]
                      + Unreported(ToSet(suppression), f)
    IN  counted <= Len(occurrences[f]) /\ (f \notin forgotten => counted = Len(occurrences[f]))

History(f) ==
    /\ Ordered(occurrences[f], now) /\ retracked[f] \in 0 .. Len(occurrences[f])
    /\ (\A i \in 1 .. Len(suppression) : suppression[i].key # f) => retracked[f] = Len(occurrences[f])
    /\ reported[f] \in Nat /\ Accounted(f)

StormInvariant ==
    /\ load \in Loads /\ now \in 0 .. load.time
    /\ Distinct(suppression) /\ Len(suppression) <= MAX_TRACKED
    /\ \A v \in {occurrences, reported, retracked} : DOMAIN v = Fingerprints
    /\ \A f \in Fingerprints : History(f)
    /\ \A i \in 1 .. Len(suppression) :
          Entry(suppression[i], occurrences[suppression[i].key], retracked[suppression[i].key], now)

(* What a table holds back is what the entry does.                         *)
LEMMA UnreportedOf ==
    ASSUME NEW tracker, Distinct(tracker), NEW f
    PROVE  /\ \A i \in 1 .. Len(tracker) : tracker[i].key = f => Unreported(ToSet(tracker), f) = tracker[i].pending
           /\ (\A i \in 1 .. Len(tracker) : tracker[i].key # f) => Unreported(ToSet(tracker), f) = 0
           /\ Unreported(ToSet(tracker), f) \in Nat
<1>. DEFINE entry == {s \in ToSet(tracker) : s.key = f}
<1>1. tracker \in Seq(States) /\ DOMAIN tracker = 1 .. Len(tracker) /\ \A i \in 1 .. Len(tracker) : tracker[i] \in States
  BY DEF Distinct
<1>2. Unreported(ToSet(tracker), f) = IF entry = {} THEN 0 ELSE (CHOOSE s \in entry : TRUE).pending
  BY DEF Unreported
<1>3. ASSUME NEW i \in 1 .. Len(tracker), tracker[i].key = f
      PROVE  Unreported(ToSet(tracker), f) = tracker[i].pending
  <2>1. entry = {tracker[i]}
    BY <1>1, <1>3 DEF Distinct, ToSet
  <2>. HIDE DEF entry
  <2>. QED BY <1>2, <2>1
<1>4. ASSUME \A i \in 1 .. Len(tracker) : tracker[i].key # f PROVE Unreported(ToSet(tracker), f) = 0
  <2>1. entry = {}
    BY <1>1, <1>4 DEF ToSet
  <2>. HIDE DEF entry
  <2>. QED BY <1>2, <2>1
<1>5. Unreported(ToSet(tracker), f) \in Nat
  <2>1. CASE \A i \in 1 .. Len(tracker) : tracker[i].key # f
    BY <2>1, <1>4
  <2>2. CASE \E i \in 1 .. Len(tracker) : tracker[i].key = f
    BY <2>2, <1>1, <1>3, EntryTypes
  <2>. QED BY <2>1, <2>2
<1>. QED BY <1>3, <1>4, <1>5

(* A loop that is over is renewed from a new entry.                        *)
LEMMA RenewedAfresh ==
    ASSUME NEW s \in States, NEW t \in Nat, LoopOver(s, t), NEW fresh, fresh = SuppressionState(s.key, t)
    PROVE  Renewed(s, t) = Renewed(fresh, t) /\ ~LoopOver(fresh, t)
<1>1. fresh.suppression_mode = FALSE
  BY DEF SuppressionState
<1>2. ~LoopOver(fresh, t)
  BY <1>1 DEF LoopOver
<1>. QED BY <1>2, Zenon DEF Renewed

Ends(tracker, f, t, rest, last) == Tracked(tracker, f, t) = Append(rest, last)

Verdict(tracker, f, t, capture, rest, final) ==
    should_capture(tracker, f, t) = [capture |-> capture, tracker |-> Append(rest, final)]

(* should_capture, taken apart: the entries that stay, the entry of the    *)
(* fingerprint as it was found or made, and that entry in the end.         *)
LEMMA Taken ==
    ASSUME NEW tracker, NEW f, NEW t, NEW rest \in Seq(States), NEW last \in States,
           Ends(tracker, f, t, rest, last), NEW u, u = Renewed(last, t),
           NEW hit, NEW capture, NEW final, Judged(u, t, hit, capture, final)
    PROVE  /\ Verdict(tracker, f, t, capture, rest, final)
           /\ Last(Tracked(tracker, f, t)) = last
           /\ \A s : s \in ToSet(Tracked(tracker, f, t)) <=> s = last \/ \E i \in 1 .. Len(rest) : s = rest[i]
<1>. DEFINE moved == Append(rest, last)
            n == Len(rest)
<1>1. /\ moved \in Seq(States) /\ n \in Nat /\ Len(moved) = n + 1 /\ moved[n + 1] = last
      /\ \A i \in 1 .. n : moved[i] = rest[i]
  BY AppendProperties
<1>. HIDE DEF moved
<1>2. Last(moved) = last
  BY <1>1 DEF Last
<1>3. Front(moved) = rest
  <2>1. Front(moved) = SubSeq(moved, 1, n)
    BY <1>1 DEF Front
  <2>2. 1 \in Int /\ n \in Int /\ \A i \in 1 .. n : moved[i] \in States
    BY <1>1
  <2>3. /\ SubSeq(moved, 1, n) \in Seq(States) /\ Len(SubSeq(moved, 1, n)) = n
        /\ \A i \in 1 .. n : SubSeq(moved, 1, n)[i] = moved[i]
    <3>1. /\ SubSeq(moved, 1, n) \in Seq(States)
          /\ Len(SubSeq(moved, 1, n)) = IF 1 <= n THEN n - 1 + 1 ELSE 0
          /\ \A i \in 1 .. n - 1 + 1 : SubSeq(moved, 1, n)[i] = moved[1 + i - 1]
      BY <2>2, SubSeqProperties
    <3>2. (IF 1 <= n THEN n - 1 + 1 ELSE 0) = n /\ n - 1 + 1 = n /\ \A i \in 1 .. n : 1 + i - 1 = i
      BY <1>1
    <3>. HIDE DEF n
    <3>. QED BY <3>1, <3>2
  <2>. DEFINE front == SubSeq(moved, 1, n)
  <2>. HIDE DEF front
  <2>4. front \in Seq(States) /\ Len(front) = Len(rest) /\ \A i \in 1 .. Len(rest) : front[i] = rest[i]
    BY <2>3, <1>1 DEF front
  <2>5. front = rest
    BY <2>4
  <2>. QED BY <2>1, <2>5 DEF front
<1>4. ToSet(moved) = {rest[i] : i \in 1 .. n} \cup {last}
  <2>1. DOMAIN moved = 1 .. n + 1 /\ \A i \in 1 .. n + 1 : i \in 1 .. n \/ i = n + 1
    BY <1>1
  <2>2. n + 1 \in 1 .. n + 1 /\ \A i \in 1 .. n : i \in 1 .. n + 1
    BY <1>1
  <2>. HIDE DEF n
  <2>. QED BY <2>1, <2>2, <1>1 DEF ToSet
<1>5. Tracked(tracker, f, t) = moved
  BY DEF moved, Ends
<1>6. Verdict(tracker, f, t, capture, rest, final)
  BY <1>2, <1>3, <1>5, Zenon DEF should_capture, Judged, Verdict
<1>. QED BY <1>2, <1>4, <1>5, <1>6

(* What a commit does to the table and to the entry of its fingerprint.    *)
Suppressed(f, rest, final, capture) ==
    /\ Verdict(suppression, f, now, capture, rest, final)
    /\ Part(rest, suppression) /\ Len(rest) < MAX_TRACKED
    /\ \A i \in 1 .. Len(rest) : rest[i].key # f /\ rest[i].key \notin Discarded(f)
    /\ \A i \in 1 .. Len(suppression) :
          \/ suppression[i].key \in {f} \cup Discarded(f)
          \/ \E j \in 1 .. Len(rest) : rest[j] = suppression[i]
    /\ final \in States /\ final.key = f
    /\ Entry(final, Append(occurrences[f], [at |-> now, captured |-> capture]),
             IF f \in Discarded(f) THEN Len(occurrences[f]) ELSE retracked[f], now)
    /\ final.pending <= Unreported(ToSet(suppression), f) + (IF capture THEN 0 ELSE 1)
    /\ f \notin Discarded(f) =>
          final.pending = Unreported(ToSet(suppression), f) + (IF capture THEN 0 ELSE 1)

(* That is what it does.                                                   *)
LEMMA SuppressedNow ==
    ASSUME StormInvariant, NEW f \in Fingerprints
    PROVE  \E rest, final : \E capture \in BOOLEAN : Suppressed(f, rest, final, capture)
<1>. DEFINE seen == occurrences[f]
            n == Len(suppression)
<1>1. /\ now \in Nat /\ Distinct(suppression) /\ n <= MAX_TRACKED /\ Ordered(seen, now)
      /\ suppression \in Seq(States)
  <2>1. load.time \in Nat
    BY AdmissionAssumption DEF StormInvariant
  <2>. QED BY <2>1 DEF StormInvariant, History, Distinct
<1>b. PICK rest, last : MovedLast(suppression, f, now, rest, last)
  <2>1. Distinct(suppression) /\ Len(suppression) <= MAX_TRACKED /\ now \in Nat
    BY <1>1
  <2>. QED BY <2>1, Moved
<1>2. /\ Tracked(suppression, f, now) = Append(rest, last)
      /\ Part(rest, suppression) /\ Len(rest) < MAX_TRACKED
      /\ \A i \in 1 .. Len(rest) : rest[i].key # f
      /\ \/ last = SuppressionState(f, now) /\ \A i \in 1 .. n : suppression[i].key # f
         \/ /\ \E p \in 1 .. n : last = suppression[p]
            /\ last.key = f
            /\ \A i \in 1 .. n : suppression[i] = last \/ \E j \in 1 .. Len(rest) : rest[j] = suppression[i]
  BY <1>b, Zenon DEF MovedLast
<1>. DEFINE fresh == SuppressionState(f, now)
            base == IF LoopOver(last, now) THEN fresh ELSE last
            u == Renewed(last, now)
            hit == [u EXCEPT !.loop_hit_count = @ + 1, !.last_seen_at = now,
                             !.suppression_mode = @ \/ u.loop_hit_count + 1 > LOOP_THRESHOLD]
            capture == ~hit.suppression_mode /\ hit.emitted_count < MAX_NORMAL_EVENTS
            final == IF capture THEN [hit EXCEPT !.emitted_count = @ + 1] ELSE mark_suppressed(hit, now)
            r == IF LoopOver(last, now) THEN Len(seen) ELSE retracked[f]
            verdict == [capture |-> capture, tracker |-> Append(rest, final)]
<1>3. /\ fresh \in States /\ fresh.key = f /\ fresh.pending = 0
      /\ Entry(fresh, seen, Len(seen), now)
  <2>1. fresh = SuppressionState(f, now)
    OBVIOUS
  <2>. HIDE DEF fresh
  <2>. QED BY <2>1, <1>1, FreshEntry
<1>. HIDE DEF fresh
<1>4. last \in States /\ last.key = f /\ Entry(last, seen, retracked[f], now)
      /\ last.pending = Unreported(ToSet(suppression), f)
  <2>1. CASE last = fresh /\ \A i \in 1 .. n : suppression[i].key # f
    <3>1. retracked[f] = Len(seen)
      BY <2>1 DEF StormInvariant, History
    <3>2. Unreported(ToSet(suppression), f) = 0
      BY <2>1, <1>1, UnreportedOf
    <3>. QED BY <3>1, <3>2, <2>1, <1>3
  <2>2. CASE last.key = f /\ \E p \in 1 .. n : last = suppression[p]
    <3>1. PICK p \in 1 .. n : last = suppression[p]
      BY <2>2
    <3>2. last \in States
      BY <3>1, <1>1
    <3>3. Entry(last, seen, retracked[f], now)
      BY <3>1, <2>2 DEF StormInvariant
    <3>4. Unreported(ToSet(suppression), f) = last.pending
      BY <3>1, <2>2, <1>1, UnreportedOf
    <3>. QED BY <3>2, <3>3, <3>4, <2>2
  <2>. QED BY <1>2, <2>1, <2>2 DEF fresh
<1>5. r \in 0 .. Len(seen) /\ Len(seen) \in Nat
  BY <1>1, SeenTypes DEF StormInvariant, History
<1>6. /\ base \in States /\ base.key = f /\ ~LoopOver(base, now) /\ Entry(base, seen, r, now)
      /\ u = Renewed(base, now) /\ base.pending <= last.pending /\ (~LoopOver(last, now) => base = last)
  <2>1. last.pending \in Nat
    BY <1>4, EntryTypes
  <2>2. CASE LoopOver(last, now)
    <3>1. base = fresh /\ r = Len(seen)
      BY <2>2
    <3>2. Renewed(last, now) = Renewed(fresh, now) /\ ~LoopOver(fresh, now)
      BY <2>2, <1>1, <1>4, RenewedAfresh DEF fresh
    <3>. HIDE DEF base, r
    <3>. QED BY <3>1, <3>2, <2>1, <2>2, <1>3
  <2>3. CASE ~LoopOver(last, now)
    <3>1. base = last /\ r = retracked[f]
      BY <2>3
    <3>. HIDE DEF base, r
    <3>. QED BY <3>1, <2>1, <2>3, <1>4
  <2>. QED BY <2>2, <2>3
<1>. HIDE DEF base, r, u
<1>7. /\ u \in States /\ u.key = f /\ u.pending = base.pending /\ Entry(u, seen, r, now)
      /\ now < u.window_started_at + DUPLICATE_WINDOW /\ now < u.loop_window_started_at + LOOP_WINDOW
  BY <1>1, <1>5, <1>6, RenewedEntry
<1>8. Judged(u, now, hit, capture, final)
  BY Zenon DEF Judged
<1>. HIDE DEF hit, capture, final
<1>11. /\ capture \in BOOLEAN /\ final \in States /\ final.key = u.key
       /\ final.pending = u.pending + (IF capture THEN 0 ELSE 1)
       /\ Entry(final, Append(seen, [at |-> now, captured |-> capture]), r, now)
  BY <1>1, <1>5, <1>7, <1>8, HitEntry
<1>12. rest \in Seq(States) /\ Len(rest) \in Nat
  BY <1>2 DEF Part
<1>a. u = Renewed(last, now)
  BY DEF u
<1>13. /\ Verdict(suppression, f, now, capture, rest, final)
       /\ Last(Tracked(suppression, f, now)) = last
       /\ ToSet(Tracked(suppression, f, now)) = {rest[i] : i \in 1 .. Len(rest)} \cup {last}
  <2>1. rest \in Seq(States) /\ last \in States /\ Ends(suppression, f, now, rest, last)
    BY <1>2, <1>4, <1>12 DEF Ends
  <2>2. Last(Tracked(suppression, f, now)) = last
    BY <2>1, <1>8, <1>a, Taken
  <2>3. \A s : s \in ToSet(Tracked(suppression, f, now)) <=> s = last \/ \E i \in 1 .. Len(rest) : s = rest[i]
    BY <2>1, <1>8, <1>a, Taken
  <2>4. Verdict(suppression, f, now, capture, rest, final)
    BY <2>1, <1>8, <1>a, Taken
  <2>. QED BY <2>2, <2>3, <2>4
<1>. DEFINE gone == ToSet(suppression) \ ({rest[i] : i \in 1 .. Len(rest)} \cup {last})
<1>14. Discarded(f) = {s.key : s \in gone} \cup {s.key : s \in {q \in {last} : LoopOver(q, now)}}
  BY <1>13, Zenon DEF Discarded
<1>15. ToSet(suppression) = {suppression[i] : i \in 1 .. n}
  BY <1>1 DEF ToSet
<1>16. f \in Discarded(f) <=> LoopOver(last, now)
  <2>1. ASSUME NEW s \in gone PROVE s.key # f
    <3>1. PICK i \in 1 .. n : s = suppression[i]
      BY <1>15
    <3>2. suppression[i] # last /\ ~\E j \in 1 .. Len(rest) : rest[j] = suppression[i]
      BY <3>1
    <3>3. CASE \A k \in 1 .. n : suppression[k].key # f
      BY <3>1, <3>3
    <3>4. CASE \A k \in 1 .. n : suppression[k] = last \/ \E j \in 1 .. Len(rest) : rest[j] = suppression[k]
      BY <3>2, <3>4
    <3>. QED BY <3>3, <3>4, <1>2
  <2>. HIDE DEF gone
  <2>. QED BY <2>1, <1>4, <1>14
<1>17. Distinct(rest) /\ \A i \in 1 .. Len(rest) : \E k \in 1 .. n : rest[i] = suppression[k]
  BY <1>1, <1>2, PartDistinct
<1>18. ASSUME NEW i \in 1 .. Len(rest) PROVE rest[i].key \notin Discarded(f)
  <2>. SUFFICES ASSUME NEW s \in gone, s.key = rest[i].key PROVE FALSE
    <3>. HIDE DEF gone
    <3>. QED BY <1>2, <1>4, <1>14
  <2>1. PICK k \in 1 .. n : rest[i] = suppression[k]
    BY <1>17
  <2>2. PICK j \in 1 .. n : s = suppression[j]
    BY <1>15
  <2>3. j = k
    BY <2>1, <2>2, <1>1 DEF Distinct
  <2>4. s = rest[i]
    BY <2>1, <2>2, <2>3
  <2>. QED BY <2>4
<1>19. ASSUME NEW i \in 1 .. n
       PROVE  \/ suppression[i].key \in {f} \cup Discarded(f)
              \/ \E j \in 1 .. Len(rest) : rest[j] = suppression[i]
  <2>. SUFFICES ASSUME suppression[i] # last, ~\E j \in 1 .. Len(rest) : rest[j] = suppression[i]
                PROVE  suppression[i].key \in Discarded(f)
    BY <1>4
  <2>1. suppression[i] \in gone
    BY <1>15
  <2>. HIDE DEF gone
  <2>. QED BY <2>1, <1>14
<1>20. r = IF f \in Discarded(f) THEN Len(seen) ELSE retracked[f]
  BY <1>16 DEF r
<1>21. /\ final.pending <= Unreported(ToSet(suppression), f) + (IF capture THEN 0 ELSE 1)
       /\ f \notin Discarded(f) =>
             final.pending = Unreported(ToSet(suppression), f) + (IF capture THEN 0 ELSE 1)
  <2>1. base.pending \in Nat /\ last.pending \in Nat
    BY <1>4, <1>6, EntryTypes
  <2>2. f \notin Discarded(f) => base.pending = last.pending
    BY <1>6, <1>16
  <2>. QED BY <2>1, <2>2, <1>4, <1>6, <1>7, <1>11
<1>22. Entry(final, Append(seen, [at |-> now, captured |-> capture]),
             IF f \in Discarded(f) THEN Len(seen) ELSE retracked[f], now)
  BY <1>11, <1>20
<1>. HIDE DEF gone, verdict
<1>23. capture \in BOOLEAN /\ final \in States /\ final.key = f
  BY <1>7, <1>11
<1>24. Suppressed(f, rest, final, capture)
  BY <1>2, <1>13, <1>18, <1>19, <1>21, <1>22, <1>23, Zenon DEF Suppressed
<1>. QED BY <1>23, <1>24

(* As time passes, what is known stays so.                                 *)
LEMMA HistoryLater ==
    ASSUME NEW s, NEW seen, NEW r, NEW t \in Nat, NEW u \in Nat, t <= u, Ordered(seen, t)
    PROVE  Ordered(seen, u) /\ (s \in States /\ Entry(s, seen, r, t) => Entry(s, seen, r, u))
<1>1. Ordered(seen, u)
  <2>1. ASSUME NEW i \in 1 .. Len(seen) PROVE seen[i].at <= u
    <3>1. seen[i].at \in Nat /\ seen[i].at <= t
      BY SeenTypes DEF Ordered
    <3>. QED BY <3>1
  <2>. QED BY <2>1 DEF Ordered
<1>2. ASSUME s \in States, Entry(s, seen, r, t) PROVE Entry(s, seen, r, u)
  <2>1. s.window_started_at <= u /\ s.loop_window_started_at <= u
    BY <1>2, EntryTypes DEF Entry
  <2>2. Spanned(s.pending, s.first_seen, s.last_seen, seen, u)
    <3>1. s.pending # 0 => s.first_seen[1] <= u
      <4>. SUFFICES ASSUME s.pending # 0 PROVE s.first_seen[1] <= u
        OBVIOUS
      <4>1. s.first_seen \in Seq(Nat) /\ s.first_seen # <<>> /\ s.first_seen[1] <= t
        BY <1>2, EntryTypes DEF Entry, Spanned
      <4>2. s.first_seen[1] \in Nat
        BY <4>1
      <4>. QED BY <4>1, <4>2
    <3>. QED BY <3>1, <1>2 DEF Entry, Spanned
  <2>. QED BY <2>1, <2>2, <1>2 DEF Entry
<1>. QED BY <1>1, <1>2

(* The clock is a natural.                                                 *)
LEMMA StormTypes ==
    ASSUME StormInvariant
    PROVE  /\ now \in Nat /\ load.time \in Nat /\ suppression \in Seq(States)
           /\ DOMAIN occurrences = Fingerprints /\ DOMAIN reported = Fingerprints
           /\ DOMAIN retracked = Fingerprints
<1>1. load.time \in Nat /\ now \in 0 .. load.time
  BY AdmissionAssumption DEF StormInvariant
<1>2. now \in Nat
  BY <1>1
<1>. QED BY <1>1, <1>2 DEF StormInvariant, Distinct

(* Steps that leave the tracker and its histories alone.                   *)
LEMMA StormKept ==
    ASSUME StormInvariant, UNCHANGED <<storm, load>>, now' \in 0 .. load.time, now <= now'
    PROVE  StormInvariant'
<1>1. UNCHANGED <<suppression, occurrences, reported, forgotten, retracked, load>>
  BY DEF storm
<1>2. now \in Nat /\ now' \in Nat /\ load.time \in Nat
  BY StormTypes
<1>3. ASSUME NEW f \in Fingerprints PROVE History(f)'
  <2>1. History(f)
    BY DEF StormInvariant
  <2>2. Ordered(occurrences[f], now')
    BY <2>1, <1>2, HistoryLater DEF History
  <2>. QED BY <2>1, <2>2, <1>1 DEF History, Accounted
<1>4. ASSUME NEW i \in 1 .. Len(suppression)
      PROVE  Entry(suppression[i], occurrences[suppression[i].key], retracked[suppression[i].key], now')
  <2>1. suppression[i] \in States
    BY StormTypes
  <2>2. suppression[i].key \in Fingerprints
    BY <2>1, EntryTypes
  <2>3. Ordered(occurrences[suppression[i].key], now)
    BY <2>2 DEF StormInvariant, History
  <2>4. Entry(suppression[i], occurrences[suppression[i].key], retracked[suppression[i].key], now)
    BY DEF StormInvariant
  <2>. QED BY <2>1, <2>3, <2>4, <1>2, HistoryLater
<1>. QED BY <1>1, <1>3, <1>4 DEF StormInvariant

(* init and fork start a new table.                                        *)
LEMMA StormReset ==
    ASSUME StormInvariant, Reset
    PROVE  StormInvariant'
<1>1. UNCHANGED <<now, load>>
  BY DEF Reset
<1>2. CASE UNCHANGED storm
  <2>1. now \in 0 .. load.time /\ now <= now
    BY StormTypes DEF StormInvariant
  <2>. QED BY <1>1, <1>2, <2>1, StormKept
<1>3. CASE /\ suppression' = <<>> /\ forgotten' = Fingerprints /\ UNCHANGED <<occurrences, reported>>
           /\ retracked' = [f \in Fingerprints |-> Len(occurrences[f])]
  <2>. DEFINE none == <<>>
  <2>1. Distinct(none) /\ Len(none) = 0 /\ 1 .. Len(none) = {}
    BY DEF Distinct
  <2>2. suppression' = none /\ Len(none) <= MAX_TRACKED
    BY <1>3, <2>1, SuppressionAssumption
  <2>. HIDE DEF none
  <2>3. ASSUME NEW f \in Fingerprints PROVE History(f)'
    <3>1. /\ Ordered(occurrences[f], now) /\ reported[f] \in Nat
          /\ Cardinality(CapturedOf(occurrences[f])) + reported[f] + Unreported(ToSet(suppression), f)
                <= Len(occurrences[f])
      BY DEF StormInvariant, History, Accounted
    <3>2. retracked'[f] = Len(occurrences[f]) /\ Len(occurrences[f]) \in Nat
      BY <1>3, <3>1, SeenTypes
    <3>3. Unreported(ToSet(none), f) = 0
      BY <2>1, UnreportedOf
    <3>4. Cardinality(CapturedOf(occurrences[f])) \in Nat /\ Unreported(ToSet(suppression), f) \in Nat
      BY <3>1, StormTypes, CapturedMore, UnreportedOf DEF StormInvariant
    <3>5. Cardinality(CapturedOf(occurrences[f])) + reported[f] + 0 <= Len(occurrences[f])
      BY <3>1, <3>2, <3>4
    <3>6. Accounted(f)'
      BY <3>3, <3>5, <2>2, <1>3 DEF Accounted
    <3>. QED BY <3>1, <3>2, <3>6, <1>1, <1>3 DEF History
  <2>4. \A v \in {occurrences', reported', retracked'} : DOMAIN v = Fingerprints
    BY <1>3, StormTypes
  <2>. QED BY <2>1, <2>2, <2>3, <2>4, <1>1 DEF StormInvariant
<1>. QED BY <1>2, <1>3 DEF Reset, init, dispose, fork

(* A flush reports what is pending, or leaves it.                          *)
LEMMA StormDrain ==
    ASSUME StormInvariant, Drain
    PROVE  StormInvariant'
<1>. DEFINE n == Len(suppression)
            none == <<>>
            emptied(s) == [s EXCEPT !.pending = 0, !.first_seen = none, !.last_seen = none,
                                    !.aggregated_at = <<now>>]
            out == {s \in ToSet(suppression) : Reportable(s, now)}
<1>1. /\ suppression' = [i \in DOMAIN suppression |->
             IF Reportable(suppression[i], now) THEN emptied(suppression[i]) ELSE suppression[i]]
      /\ reported' = [f \in Fingerprints |-> reported[f] + Unreported(out, f)]
      /\ UNCHANGED <<now, load, occurrences, forgotten, retracked>>
  BY Zenon DEF Drain, drain_aggregates, bounds
<1>2. /\ now \in Nat /\ suppression \in Seq(States) /\ n \in Nat /\ DOMAIN suppression = 1 .. n
      /\ Distinct(suppression) /\ n <= MAX_TRACKED /\ none \in Seq(Nat)
  BY StormTypes DEF StormInvariant
<1>. HIDE DEF none
<1>3. ASSUME NEW s \in States
      PROVE  /\ emptied(s) \in States /\ emptied(s).key = s.key /\ emptied(s).pending = 0
             /\ \A seen, r : Entry(s, seen, r, now) /\ Ordered(seen, now) => Entry(emptied(s), seen, r, now)
  <2>. DEFINE single == <<now>>
              e == [s EXCEPT !.pending = 0, !.first_seen = none, !.last_seen = none, !.aggregated_at = single]
  <2>1. emptied(s) = e /\ single \in Seq(Nat)
    BY <1>2
  <2>. HIDE DEF emptied, single
  <2>2. e \in States
    BY <1>2, <2>1 DEF States
  <2>3. /\ e.key = s.key /\ e.pending = 0 /\ e.first_seen = none
        /\ e.window_started_at = s.window_started_at /\ e.emitted_count = s.emitted_count
        /\ e.loop_window_started_at = s.loop_window_started_at
        /\ e.loop_hit_count = s.loop_hit_count /\ e.suppression_mode = s.suppression_mode
    BY DEF States
  <2>. HIDE DEF e
  <2>4. ASSUME NEW seen, NEW r, Entry(s, seen, r, now), Ordered(seen, now) PROVE Entry(e, seen, r, now)
    <3>1. Spanned(0, none, e.last_seen, seen, now)
      <4>1. ASSUME NEW i \in 1 .. Len(seen) PROVE ~(Cardinality(Later(seen, i)) < 0)
        <5>1. i \in Nat /\ seen \in Seq(Occurrences)
          BY <2>4 DEF Ordered
        <5>2. Cardinality(Later(seen, i)) \in Nat
          BY <5>1, StretchesFinite, FS_CardinalityType
        <5>. QED BY <5>2
      <4>. QED BY <4>1 DEF Spanned, none
    <3>. QED BY <3>1, <2>3, <2>4 DEF Entry
  <2>. QED BY <2>1, <2>2, <2>3, <2>4
<1>. HIDE DEF emptied, n
<1>4. \A i \in 1 .. n : suppression[i] \in States /\ suppression[i].key \in Fingerprints
  BY <1>2, EntryTypes DEF n
<1>5. /\ suppression' \in Seq(States) /\ Len(suppression') = n
      /\ \A i \in 1 .. n : suppression'[i] \in States /\ suppression'[i].key = suppression[i].key
  <2>1. DOMAIN suppression' = 1 .. n /\ \A i \in 1 .. n : suppression'[i] =
           IF Reportable(suppression[i], now) THEN emptied(suppression[i]) ELSE suppression[i]
    BY <1>1, <1>2
  <2>2. \A i \in 1 .. n : suppression'[i] \in States /\ suppression'[i].key = suppression[i].key
    BY <2>1, <1>3, <1>4
  <2>3. suppression' \in [1 .. n -> States]
    BY <2>2, <1>1, <1>2
  <2>. QED BY <2>2, <2>3, <1>2
<1>6. Distinct(suppression')
  BY <1>2, <1>5 DEF Distinct, n
<1>7. ASSUME NEW i \in 1 .. n
      PROVE  Entry(suppression'[i], occurrences'[suppression'[i].key], retracked'[suppression'[i].key], now')
  <2>. DEFINE k == suppression[i].key
  <2>1. Entry(suppression[i], occurrences[k], retracked[k], now) /\ Ordered(occurrences[k], now)
    BY <1>4 DEF StormInvariant, History, n
  <2>2. Entry(emptied(suppression[i]), occurrences[k], retracked[k], now)
    <3>. HIDE DEF k
    <3>. QED BY <2>1, <1>3, <1>4
  <2>3. suppression'[i] = emptied(suppression[i]) \/ suppression'[i] = suppression[i]
    BY <1>1, <1>2
  <2>4. Entry(suppression'[i], occurrences[k], retracked[k], now)
    BY <2>1, <2>2, <2>3
  <2>5. suppression'[i].key = k
    BY <1>5
  <2>. HIDE DEF k
  <2>. QED BY <2>4, <2>5, <1>1
<1>8. ASSUME NEW f \in Fingerprints
      PROVE  Unreported(out, f) \in Nat
             /\ Unreported(out, f) + Unreported(ToSet(suppression'), f) = Unreported(ToSet(suppression), f)
  <2>. DEFINE entry == {s \in out : s.key = f}
  <2>1. Unreported(out, f) = IF entry = {} THEN 0 ELSE (CHOOSE s \in entry : TRUE).pending
    BY DEF Unreported
  <2>2. out = {s \in {suppression[i] : i \in 1 .. n} : Reportable(s, now)}
    BY <1>2 DEF ToSet
  <2>3. CASE \A i \in 1 .. n : suppression[i].key # f
    <3>1. entry = {}
      BY <2>2, <2>3
    <3>2. Unreported(ToSet(suppression), f) = 0
      BY <2>3, <1>2, UnreportedOf DEF n
    <3>3. Unreported(ToSet(suppression'), f) = 0
      BY <2>3, <1>5, <1>6, UnreportedOf
    <3>. HIDE DEF entry
    <3>. QED BY <3>1, <3>2, <3>3, <2>1
  <2>4. ASSUME NEW i \in 1 .. n, suppression[i].key = f
        PROVE  Unreported(out, f) \in Nat
               /\ Unreported(out, f) + Unreported(ToSet(suppression'), f) = Unreported(ToSet(suppression), f)
    <3>1. Unreported(ToSet(suppression), f) = suppression[i].pending /\ suppression[i].pending \in Nat
      BY <2>4, <1>2, <1>4, UnreportedOf, EntryTypes DEF n
    <3>2. Unreported(ToSet(suppression'), f) = suppression'[i].pending
      BY <2>4, <1>5, <1>6, UnreportedOf
    <3>3. \A j \in 1 .. n : suppression[j].key = f => j = i
      BY <2>4, <1>2 DEF Distinct, n
    <3>4. CASE Reportable(suppression[i], now)
      <4>1. suppression'[i].pending = 0
        BY <3>4, <1>1, <1>2, <1>3, <1>4
      <4>2. entry = {suppression[i]}
        BY <3>3, <3>4, <2>2, <2>4
      <4>. HIDE DEF entry
      <4>3. Unreported(out, f) = suppression[i].pending
        BY <4>2, <2>1
      <4>. QED BY <4>1, <4>3, <3>1, <3>2
    <3>5. CASE ~Reportable(suppression[i], now)
      <4>1. suppression'[i] = suppression[i]
        BY <3>5, <1>1, <1>2
      <4>2. entry = {}
        BY <3>3, <3>5, <2>2
      <4>. HIDE DEF entry
      <4>3. Unreported(out, f) = 0
        BY <4>2, <2>1
      <4>. QED BY <4>1, <4>3, <3>1, <3>2
    <3>. QED BY <3>4, <3>5
  <2>. QED BY <2>3, <2>4
<1>. HIDE DEF out
<1>9. ASSUME NEW f \in Fingerprints PROVE History(f)'
  <2>1. History(f)
    BY DEF StormInvariant
  <2>2. reported'[f] = reported[f] + Unreported(out, f) /\ reported[f] \in Nat
    BY <1>1, <2>1 DEF History
  <2>3. /\ Cardinality(CapturedOf(occurrences[f])) \in Nat /\ Unreported(ToSet(suppression'), f) \in Nat
        /\ Unreported(ToSet(suppression), f) \in Nat
    BY <2>1, <1>2, <1>6, CapturedMore, UnreportedOf DEF History
  <2>4. Cardinality(CapturedOf(occurrences[f])) + reported'[f] + Unreported(ToSet(suppression'), f)
           = Cardinality(CapturedOf(occurrences[f])) + reported[f] + Unreported(ToSet(suppression), f)
    BY <2>2, <2>3, <1>8
  <2>5. Accounted(f)'
    BY <2>1, <2>4, <1>1 DEF History, Accounted
  <2>6. (\A i \in 1 .. Len(suppression') : suppression'[i].key # f) =>
           \A i \in 1 .. Len(suppression) : suppression[i].key # f
    BY <1>5 DEF n
  <2>7. reported'[f] \in Nat
    BY <2>2, <1>8
  <2>. QED BY <2>1, <2>5, <2>6, <2>7, <1>1 DEF History
<1>10. \A v \in {occurrences', reported', retracked'} : DOMAIN v = Fingerprints
  BY <1>1, StormTypes
<1>11. load' \in Loads /\ now' \in 0 .. load'.time /\ Len(suppression') <= MAX_TRACKED
  BY <1>1, <1>2, <1>5 DEF StormInvariant
<1>. QED BY <1>5, <1>6, <1>7, <1>9, <1>10, <1>11 DEF StormInvariant

(* One more entry at the end of a table.                                   *)
LEMMA TableExtended ==
    ASSUME NEW rest, Distinct(rest), NEW final \in States,
           \A i \in 1 .. Len(rest) : rest[i].key # final.key,
           NEW table, table = Append(rest, final)
    PROVE  /\ Distinct(table) /\ Len(rest) \in Nat /\ Len(table) = Len(rest) + 1
           /\ table[Len(rest) + 1] = final
           /\ \A i \in 1 .. Len(rest) : table[i] = rest[i]
           /\ \A i \in 1 .. Len(table) : i \in 1 .. Len(rest) \/ i = Len(rest) + 1
<1>. DEFINE n == Len(rest)
<1>1. /\ table \in Seq(States) /\ n \in Nat /\ Len(table) = n + 1 /\ table[n + 1] = final
      /\ \A i \in 1 .. n : table[i] = rest[i]
  BY AppendProperties DEF Distinct
<1>2. \A i \in 1 .. n + 1 : i \in 1 .. n \/ i = n + 1
  BY <1>1
<1>3. \A i, j \in 1 .. n : rest[i].key = rest[j].key => i = j
  BY DEF Distinct
<1>4. \A i \in 1 .. n : rest[i].key # final.key
  OBVIOUS
<1>. HIDE DEF n
<1>5. \A i, j \in 1 .. n + 1 : table[i].key = table[j].key => i = j
  BY <1>1, <1>2, <1>3, <1>4
<1>6. Distinct(table)
  BY <1>1, <1>5 DEF Distinct
<1>. QED BY <1>1, <1>2, <1>6 DEF n

(* A history with one more occurrence.                                     *)
LEMMA OneMoreOrdered ==
    ASSUME NEW seen, NEW t \in Nat, Ordered(seen, t), NEW captured \in BOOLEAN,
           NEW more, more = Append(seen, [at |-> t, captured |-> captured])
    PROVE  /\ Ordered(more, t) /\ Len(seen) \in Nat /\ Len(more) = Len(seen) + 1
           /\ Cardinality(CapturedOf(seen)) \in Nat
           /\ Cardinality(CapturedOf(more)) = Cardinality(CapturedOf(seen)) + (IF captured THEN 1 ELSE 0)
<1>1. Ordered(more, t)
  BY OneMoreSeen
<1>2. Len(seen) \in Nat
  BY SeenTypes
<1>3. Len(more) = Len(seen) + 1
  BY OneMoreSeen
<1>. QED BY <1>1, <1>2, <1>3, CapturedMore

(* A commit moves the entry of its fingerprint to the end, judges the      *)
(* occurrence and gives up what should_capture throws away.                *)
LEMMA StormCommit ==
    ASSUME StormInvariant, NEW f \in Fingerprints, NEW rest, NEW final, NEW capture \in BOOLEAN,
           Suppressed(f, rest, final, capture),
           suppression' = Append(rest, final),
           occurrences' = [occurrences EXCEPT ![f] = Append(@, [at |-> now, captured |-> capture])],
           forgotten' = forgotten \cup Discarded(f),
           retracked' = [g \in Fingerprints |->
               IF g \in Discarded(f) THEN Len(occurrences[g]) ELSE retracked[g]],
           UNCHANGED <<now, load, reported>>
    PROVE  StormInvariant'
<1>. DEFINE more == Append(occurrences[f], [at |-> now, captured |-> capture])
            n == Len(rest)
<1>1. /\ Part(rest, suppression) /\ n < MAX_TRACKED
      /\ \A i \in 1 .. n : rest[i].key # f /\ rest[i].key \notin Discarded(f)
      /\ \A i \in 1 .. Len(suppression) :
            \/ suppression[i].key \in {f} \cup Discarded(f)
            \/ \E j \in 1 .. n : rest[j] = suppression[i]
      /\ final \in States /\ final.key = f
      /\ Entry(final, more, IF f \in Discarded(f) THEN Len(occurrences[f]) ELSE retracked[f], now)
      /\ final.pending <= Unreported(ToSet(suppression), f) + (IF capture THEN 0 ELSE 1)
      /\ f \notin Discarded(f) =>
            final.pending = Unreported(ToSet(suppression), f) + (IF capture THEN 0 ELSE 1)
  BY Zenon DEF Suppressed
<1>2. /\ now \in Nat /\ Distinct(suppression) /\ DOMAIN occurrences = Fingerprints
      /\ \A g \in Fingerprints : History(g)
  BY StormTypes DEF StormInvariant
<1>3. Distinct(rest) /\ \A i \in 1 .. n : \E k \in 1 .. Len(suppression) : rest[i] = suppression[k]
  BY <1>1, <1>2, PartDistinct
<1>4. /\ Distinct(suppression') /\ n \in Nat /\ Len(suppression') = n + 1 /\ suppression'[n + 1] = final
      /\ \A i \in 1 .. n : suppression'[i] = rest[i]
      /\ \A i \in 1 .. Len(suppression') : i \in 1 .. n \/ i = n + 1
  <2>1. /\ Distinct(rest) /\ final \in States /\ suppression' = Append(rest, final)
        /\ \A i \in 1 .. Len(rest) : rest[i].key # final.key
    BY <1>1, <1>3
  <2>2. /\ Distinct(suppression') /\ Len(rest) \in Nat /\ Len(suppression') = Len(rest) + 1
        /\ suppression'[Len(rest) + 1] = final
        /\ \A i \in 1 .. Len(rest) : suppression'[i] = rest[i]
        /\ \A i \in 1 .. Len(suppression') : i \in 1 .. Len(rest) \/ i = Len(rest) + 1
    BY <2>1, TableExtended
  <2>. QED BY <2>2
<1>5. occurrences'[f] = more /\ \A g \in Fingerprints : g # f => occurrences'[g] = occurrences[g]
  BY <1>2
<1>6. /\ Ordered(more, now) /\ Len(occurrences[f]) \in Nat /\ Len(more) = Len(occurrences[f]) + 1
      /\ Cardinality(CapturedOf(occurrences[f])) \in Nat
      /\ Cardinality(CapturedOf(more)) =
            Cardinality(CapturedOf(occurrences[f])) + (IF capture THEN 1 ELSE 0)
  <2>1. Ordered(occurrences[f], now)
    BY <1>2 DEF History
  <2>. QED BY <2>1, <1>2, OneMoreOrdered
<1>7. /\ forgotten' = forgotten \cup Discarded(f) /\ DOMAIN retracked' = Fingerprints
      /\ \A g \in Fingerprints :
            retracked'[g] = IF g \in Discarded(f) THEN Len(occurrences[g]) ELSE retracked[g]
  OBVIOUS
<1>. HIDE DEF more, n
<1>8. ASSUME NEW i \in 1 .. Len(suppression')
      PROVE  Entry(suppression'[i], occurrences'[suppression'[i].key], retracked'[suppression'[i].key], now)
  <2>1. CASE i = n + 1
    BY <2>1, <1>1, <1>4, <1>5, <1>7
  <2>2. CASE i \in 1 .. n
    <3>1. PICK k \in 1 .. Len(suppression) : rest[i] = suppression[k]
      BY <2>2, <1>3
    <3>. DEFINE g == suppression[k].key
    <3>2. g \in Fingerprints /\ g # f /\ g \notin Discarded(f)
      <4>1. suppression[k] \in States
        BY <1>2 DEF Distinct
      <4>. QED BY <4>1, <3>1, <2>2, <1>1, EntryTypes
    <3>3. Entry(suppression[k], occurrences[g], retracked[g], now)
      BY DEF StormInvariant
    <3>4. suppression'[i] = suppression[k]
      BY <3>1, <2>2, <1>4
    <3>5. occurrences'[g] = occurrences[g] /\ retracked'[g] = retracked[g]
      BY <3>2, <1>5, <1>7
    <3>. QED BY <3>3, <3>4, <3>5
  <2>. QED BY <2>1, <2>2, <1>4
<1>9. ASSUME NEW g \in Fingerprints, g # f PROVE History(g)'
  <2>1. /\ Ordered(occurrences[g], now) /\ retracked[g] \in 0 .. Len(occurrences[g])
        /\ (\A i \in 1 .. Len(suppression) : suppression[i].key # g) => retracked[g] = Len(occurrences[g])
        /\ reported[g] \in Nat /\ Accounted(g) /\ Len(occurrences[g]) \in Nat
    BY <1>2, SeenTypes DEF History
  <2>2. CASE \E j \in 1 .. n : rest[j].key = g
    <3>1. PICK j \in 1 .. n : rest[j].key = g
      BY <2>2
    <3>2. PICK k \in 1 .. Len(suppression) : rest[j] = suppression[k]
      BY <1>3
    <3>3. suppression'[j].key = g /\ j \in 1 .. Len(suppression') /\ suppression'[j] = suppression[k]
      BY <3>1, <3>2, <1>4
    <3>4. Unreported(ToSet(suppression), g) = Unreported(ToSet(suppression'), g)
      <4>1. Unreported(ToSet(suppression), g) = suppression[k].pending
        BY <3>1, <3>2, <1>2, UnreportedOf
      <4>2. Unreported(ToSet(suppression'), g) = suppression'[j].pending
        BY <3>3, <1>4, UnreportedOf
      <4>. QED BY <4>1, <4>2, <3>3
    <3>5. g \notin Discarded(f)
      BY <3>1, <1>1
    <3>. QED BY <3>3, <3>4, <3>5, <2>1, <1>5, <1>7, <1>9 DEF History, Accounted
  <2>3. CASE \A j \in 1 .. n : rest[j].key # g
    <3>1. Unreported(ToSet(suppression'), g) = 0
      <4>1. \A i \in 1 .. Len(suppression') : suppression'[i].key # g
        BY <2>3, <1>1, <1>4, <1>9
      <4>. QED BY <4>1, <1>4, UnreportedOf
    <3>2. Unreported(ToSet(suppression), g) \in Nat
      BY <1>2, UnreportedOf
    <3>3. Cardinality(CapturedOf(occurrences[g])) \in Nat
      BY <2>1, <1>2, CapturedMore
    <3>4. retracked'[g] = Len(occurrences[g]) /\ (g \notin forgotten' => Unreported(ToSet(suppression), g) = 0)
      <4>1. CASE g \in Discarded(f)
        BY <4>1, <1>7
      <4>2. CASE g \notin Discarded(f)
        <5>1. \A i \in 1 .. Len(suppression) : suppression[i].key # g
          BY <4>2, <2>3, <1>1, <1>9
        <5>2. Unreported(ToSet(suppression), g) = 0
          BY <5>1, <1>2, UnreportedOf
        <5>. QED BY <5>1, <5>2, <4>2, <2>1, <1>7
      <4>. QED BY <4>1, <4>2
    <3>5. g \notin forgotten' => g \notin forgotten
      BY <1>7
    <3>6. Accounted(g)'
      BY <3>1, <3>2, <3>3, <3>4, <3>5, <2>1, <1>5, <1>9 DEF Accounted
    <3>7. Len(occurrences[g]) \in 0 .. Len(occurrences[g])
      BY <2>1
    <3>. QED BY <3>4, <3>6, <3>7, <2>1, <1>5, <1>9 DEF History
  <2>. QED BY <2>2, <2>3
<1>10. History(f)'
  <2>1. /\ retracked[f] \in 0 .. Len(occurrences[f]) /\ reported[f] \in Nat /\ Accounted(f)
    BY <1>2 DEF History
  <2>2. retracked'[f] \in 0 .. Len(more)
    BY <2>1, <1>6, <1>7
  <2>3. Unreported(ToSet(suppression'), f) = final.pending /\ n + 1 \in 1 .. Len(suppression')
    <3>1. n + 1 \in 1 .. Len(suppression') /\ suppression'[n + 1].key = f
      BY <1>1, <1>4
    <3>. QED BY <3>1, <1>4, UnreportedOf
  <2>4. final.pending \in Nat /\ Unreported(ToSet(suppression), f) \in Nat
    BY <1>1, <1>2, EntryTypes, UnreportedOf
  <2>5. Accounted(f)'
    <3>. DEFINE u == Unreported(ToSet(suppression), f)
                v == Unreported(ToSet(suppression'), f)
                k == Cardinality(CapturedOf(occurrences[f]))
                m == Cardinality(CapturedOf(more))
                r == reported[f]
                l == Len(occurrences[f])
                one == IF capture THEN 1 ELSE 0
                other == IF capture THEN 0 ELSE 1
    <3>1. k + r + u <= l /\ (f \notin forgotten => k + r + u = l)
      BY <2>1 DEF Accounted
    <3>2. v <= u + other /\ (f \notin forgotten' => f \notin forgotten /\ v = u + other)
      BY <2>3, <1>1, <1>7
    <3>3. /\ m = k + one /\ Len(more) = l + 1
          /\ k \in Nat /\ u \in Nat /\ v \in Nat /\ r \in Nat /\ l \in Nat
      BY <2>1, <2>3, <2>4, <1>6
    <3>4. one + other = 1 /\ one \in Nat /\ other \in Nat
      OBVIOUS
    <3>. HIDE DEF u, v, k, m, r, l, one, other
    <3>5. m + r + v <= l + 1
      BY <3>1, <3>2, <3>3, <3>4
    <3>6. ASSUME f \notin forgotten' PROVE m + r + v = l + 1
      <4>1. k + r + u = l /\ v = u + other
        BY <3>6, <3>1, <3>2
      <4>. QED BY <4>1, <3>3, <3>4
    <3>. QED BY <3>3, <3>5, <3>6, <1>5 DEF Accounted, v, m, r
  <2>6. ~\A i \in 1 .. Len(suppression') : suppression'[i].key # f
    BY <2>3, <1>1, <1>4
  <2>. QED BY <2>1, <2>2, <2>5, <2>6, <1>5, <1>6 DEF History
<1>11. \A v \in {occurrences', reported', retracked'} : DOMAIN v = Fingerprints
  BY <1>7, StormTypes
<1>12. load' \in Loads /\ now' \in 0 .. load'.time /\ Len(suppression') <= MAX_TRACKED
  BY <1>1, <1>4, SuppressionAssumption DEF StormInvariant
<1>. QED BY <1>4, <1>8, <1>9, <1>10, <1>11, <1>12 DEF StormInvariant

(* The steps of a capture: only a commit changes the table.                *)
LEMMA StormCapture ==
    ASSUME StormInvariant, Justified, Capture
    PROVE  StormInvariant'
<1>1. UNCHANGED <<now, load>>
  BY Zenon DEF Capture, bounds
<1>2. CASE UNCHANGED storm
  <2>1. now \in 0 .. load.time /\ now <= now
    BY StormTypes DEF StormInvariant
  <2>. QED BY <1>1, <1>2, <2>1, StormKept
<1>3. ASSUME NEW c \in load.callers, NEW queued \in BOOLEAN, Commit(c, queued) PROVE StormInvariant'
  <2>. DEFINE f == Fingerprint(cap[c].exception[1])
              verdict == should_capture(suppression, f, now)
  <2>1. /\ cap[c].pc = "commit" /\ suppression' = verdict.tracker
        /\ occurrences' = [occurrences EXCEPT ![f] = Append(@, [at |-> now, captured |-> verdict.capture])]
        /\ forgotten' = forgotten \cup Discarded(f)
        /\ retracked' = [g \in Fingerprints |->
               IF g \in Discarded(f) THEN Len(occurrences[g]) ELSE retracked[g]]
        /\ UNCHANGED reported
    BY <1>3, Zenon DEF Commit
  <2>2. f \in Fingerprints
    <3>1. c \in Callers
      BY AdmissionAssumption DEF StormInvariant
    <3>2. PICK x \in Exceptions : cap[c].exception = <<x>>
      BY <2>1, <3>1 DEF Justified
    <3>. QED BY <3>2 DEF Fingerprints
  <2>. HIDE DEF f
  <2>3. PICK rest, final : \E capture \in BOOLEAN : Suppressed(f, rest, final, capture)
    BY <2>2, SuppressedNow
  <2>4. PICK capture \in BOOLEAN : Suppressed(f, rest, final, capture)
    BY <2>3
  <2>. DEFINE table == Append(rest, final)
  <2>5. verdict.capture = capture /\ verdict.tracker = table
    <3>1. verdict = [capture |-> capture, tracker |-> table]
      BY <2>4, Zenon DEF Suppressed, Verdict
    <3>. HIDE DEF table, verdict
    <3>. QED BY <3>1
  <2>. HIDE DEF verdict
  <2>6. /\ suppression' = Append(rest, final)
        /\ occurrences' = [occurrences EXCEPT ![f] = Append(@, [at |-> now, captured |-> capture])]
    BY <2>1, <2>5, Zenon
  <2>. QED BY <1>1, <2>1, <2>2, <2>4, <2>6, StormCommit, Zenon
<1>4. \/ UNCHANGED storm
      \/ \E c \in load.callers, queued \in BOOLEAN : Commit(c, queued)
  BY Zenon DEF Capture, capture_exception, Skip, Abandon
<1>. QED BY <1>2, <1>3, <1>4

(* What is known of the tracker holds in every behaviour.                  *)
LEMMA StormInvariance == Spec => []StormInvariant
<1>1. ASSUME Init PROVE StormInvariant
  <2>. DEFINE none == <<>>
  <2>1. Distinct(none) /\ Len(none) = 0 /\ 1 .. Len(none) = {}
    BY DEF Distinct
  <2>2. /\ suppression = none /\ now = 0 /\ load \in Loads
        /\ occurrences = [f \in Fingerprints |-> none]
        /\ reported = [f \in Fingerprints |-> 0] /\ retracked = [f \in Fingerprints |-> 0]
    BY <1>1 DEF Init
  <2>3. Ordered(none, 0) /\ none \in Seq(Occurrences)
    BY <2>1 DEF Ordered
  <2>4. CapturedOf(none) = {}
    BY <2>1 DEF CapturedOf
  <2>. HIDE DEF none
  <2>5. Cardinality(CapturedOf(none)) = 0
    BY <2>4, FS_EmptySet
  <2>6. ASSUME NEW f \in Fingerprints PROVE History(f)
    <3>1. Unreported(ToSet(none), f) = 0
      BY <2>1, UnreportedOf
    <3>2. Accounted(f)
      BY <3>1, <2>1, <2>2, <2>5 DEF Accounted
    <3>. QED BY <3>2, <2>1, <2>2, <2>3 DEF History
  <2>7. 0 \in 0 .. load.time
    BY <2>2, AdmissionAssumption
  <2>8. Len(none) <= MAX_TRACKED
    BY <2>1, SuppressionAssumption
  <2>. QED BY <2>1, <2>2, <2>6, <2>7, <2>8 DEF StormInvariant
<1>2. StormInvariant /\ Justified /\ [Next]_vars => StormInvariant'
  <2>. SUFFICES ASSUME StormInvariant, Justified, [Next]_vars PROVE StormInvariant'
    OBVIOUS
  <2>1. now \in Nat /\ load.time \in Nat /\ now \in 0 .. load.time
    BY StormTypes DEF StormInvariant
  <2>2. CASE Operation \/ Recovery \/ UNCHANGED vars
    <3>1. UNCHANGED <<now, storm, load>>
      BY <2>2, Zenon DEF Operation, Recovery, vars, bounds
    <3>2. now' \in 0 .. load.time /\ now <= now'
      BY <2>1, <3>1
    <3>. QED BY <3>1, <3>2, StormKept
  <2>3. CASE Tick
    <3>1. UNCHANGED <<storm, load>> /\ now < load.time /\ now' = now + 1
      BY <2>3 DEF Tick, bounds
    <3>2. now' \in 0 .. load.time /\ now <= now'
      BY <2>1, <3>1
    <3>. QED BY <3>1, <3>2, StormKept
  <2>. QED BY <2>2, <2>3, StormCapture, StormDrain, StormReset DEF Next
<1>. QED BY <1>1, <1>2, JustifiedInvariant, PTL DEF Spec

(***************************************************************************)
(* README "Duplicate event storms are suppressed locally", for any         *)
(* exceptions, windows, threshold and limits: between two evictions of its *)
(* entry a fingerprint is captured at most twice MAX_NORMAL_EVENTS times   *)
(* in any DUPLICATE_WINDOW ticks, and not at all once 2 * LOOP_THRESHOLD   *)
(* + 1 occurrences have come within LOOP_WINDOW ticks (should_capture).    *)
(***************************************************************************)
THEOREM StormsBounded == Spec => []StormBounded
<1>1. ASSUME StormInvariant, NEW f \in Fingerprints,
             NEW i \in retracked[f] + 1 .. Len(occurrences[f])
      PROVE  /\ Cardinality(Within(occurrences[f], retracked[f], i)) <= 2 * MAX_NORMAL_EVENTS
             /\ Cardinality(Recent(occurrences[f], retracked[f], i)) > 2 * LOOP_THRESHOLD
                   => \A j \in retracked[f] + 1 .. Len(occurrences[f]) :
                         j >= i => ~occurrences[f][j].captured
  <2>. DEFINE seen == occurrences[f]
              r == retracked[f]
  <2>1. /\ Ordered(seen, now) /\ r \in 0 .. Len(seen) /\ now \in Nat
        /\ (\A k \in 1 .. Len(suppression) : suppression[k].key # f) => r = Len(seen)
    BY <1>1, StormTypes DEF StormInvariant, History
  <2>2. Len(seen) \in Nat
    BY <2>1, SeenTypes
  <2>3. r # Len(seen) /\ r \in Nat
    BY <2>1, <2>2, <1>1
  <2>4. PICK k \in 1 .. Len(suppression) : suppression[k].key = f
    BY <2>1, <2>3
  <2>. DEFINE s == suppression[k]
  <2>5. s \in States /\ Entry(s, seen, r, now)
    BY <2>4, <1>1, StormTypes DEF StormInvariant
  <2>. HIDE DEF s
  <2>6. /\ Windowed(s.window_started_at, s.emitted_count, seen, r)
        /\ Looping(s.loop_window_started_at, s.loop_hit_count, s.suppression_mode, seen, r)
        /\ s.window_started_at \in Nat /\ s.emitted_count \in Nat
    BY <2>5, EntryTypes DEF Entry
  <2>7. i \in r + 1 .. Len(seen)
    OBVIOUS
  <2>. HIDE DEF seen, r
  <2>8. Cardinality(Within(seen, r, i)) <= 2 * MAX_NORMAL_EVENTS
    BY <2>1, <2>3, <2>6, <2>7, WithinBound
  <2>9. Cardinality(Recent(seen, r, i)) > 2 * LOOP_THRESHOLD
           => \A j \in r + 1 .. Len(seen) : j >= i => ~seen[j].captured
    BY <2>6, <2>7 DEF Looping
  <2>. QED BY <2>8, <2>9 DEF seen, r
<1>2. StormInvariant => StormBounded
  BY <1>1, Zenon DEF StormBounded, Within, Recent
<1>. QED BY <1>2, StormInvariance, PTL

(***************************************************************************)
(* No occurrence is reported twice, none is lost unless its entry was      *)
(* thrown away, and what is pending lies between first_seen and last_seen  *)
(* (_mark_suppressed, drain_aggregates), for any histories and limits.     *)
(***************************************************************************)
THEOREM AggregatesTrue == Spec => []AggregatesTruthful
<1>1. ASSUME StormInvariant, NEW f \in Fingerprints
      PROVE  /\ Accounted(f) /\ DOMAIN occurrences[f] = 1 .. Len(occurrences[f])
             /\ \A s \in ToSet(suppression), i \in DOMAIN occurrences[f] :
                   s.key = f /\ ~occurrences[f][i].captured
                   /\ Cardinality(Later(occurrences[f], i)) < s.pending
                      => s.first_seen[1] <= occurrences[f][i].at /\ occurrences[f][i].at <= s.last_seen[1]
  <2>. DEFINE seen == occurrences[f]
  <2>1. Accounted(f) /\ Ordered(seen, now)
    BY <1>1 DEF StormInvariant, History
  <2>2. DOMAIN seen = 1 .. Len(seen)
    BY <2>1 DEF Ordered
  <2>3. ASSUME NEW s \in ToSet(suppression), s.key = f PROVE Spanned(s.pending, s.first_seen, s.last_seen, seen, now)
    <3>1. suppression \in Seq(States)
      BY <1>1, StormTypes
    <3>2. PICK k \in 1 .. Len(suppression) : s = suppression[k]
      BY <2>3, <3>1 DEF ToSet
    <3>3. Entry(suppression[k], occurrences[suppression[k].key], retracked[suppression[k].key], now)
      BY <1>1 DEF StormInvariant
    <3>4. suppression[k].key = f
      BY <3>2, <2>3
    <3>5. Entry(s, seen, retracked[f], now)
      BY <3>2, <3>3, <3>4
    <3>. QED BY <3>5 DEF Entry
  <2>. HIDE DEF seen
  <2>4. ASSUME NEW s \in ToSet(suppression), NEW i \in DOMAIN seen, s.key = f, ~seen[i].captured,
               Cardinality(Later(seen, i)) < s.pending
        PROVE  s.first_seen[1] <= seen[i].at /\ seen[i].at <= s.last_seen[1]
    BY <2>2, <2>3, <2>4 DEF Spanned
  <2>. QED BY <2>1, <2>2, <2>4 DEF seen
<1>2. StormInvariant => AggregatesTruthful
  <2>. SUFFICES ASSUME StormInvariant, NEW f \in Fingerprints
                PROVE  /\ Cardinality({i \in DOMAIN occurrences[f] : occurrences[f][i].captured})
                             + reported[f] + Unreported(ToSet(suppression), f) <= Len(occurrences[f])
                       /\ f \notin forgotten =>
                             Cardinality({i \in DOMAIN occurrences[f] : occurrences[f][i].captured})
                                + reported[f] + Unreported(ToSet(suppression), f) = Len(occurrences[f])
                       /\ \A s \in ToSet(suppression), i \in DOMAIN occurrences[f] :
                             s.key = f /\ ~occurrences[f][i].captured
                             /\ Cardinality({j \in i + 1 .. Len(occurrences[f]) : ~occurrences[f][j].captured})
                                   < s.pending
                                => s.first_seen[1] <= occurrences[f][i].at
                                   /\ occurrences[f][i].at <= s.last_seen[1]
    BY Zenon DEF AggregatesTruthful
  <2>1. {i \in DOMAIN occurrences[f] : occurrences[f][i].captured} = CapturedOf(occurrences[f])
    BY <1>1 DEF CapturedOf
  <2>2. \A i : {j \in i + 1 .. Len(occurrences[f]) : ~occurrences[f][j].captured} = Later(occurrences[f], i)
    BY Zenon DEF Later
  <2>3. /\ Cardinality(CapturedOf(occurrences[f])) + reported[f] + Unreported(ToSet(suppression), f)
              <= Len(occurrences[f])
        /\ f \notin forgotten =>
              Cardinality(CapturedOf(occurrences[f])) + reported[f] + Unreported(ToSet(suppression), f)
                 = Len(occurrences[f])
    BY <1>1 DEF Accounted
  <2>4. \A s \in ToSet(suppression), i \in DOMAIN occurrences[f] :
           s.key = f /\ ~occurrences[f][i].captured
           /\ Cardinality(Later(occurrences[f], i)) < s.pending
              => s.first_seen[1] <= occurrences[f][i].at /\ occurrences[f][i].at <= s.last_seen[1]
    BY <1>1
  <2>. QED BY <2>1, <2>2, <2>3, <2>4, Zenon
<1>. QED BY <1>2, StormInvariance, PTL

-----------------------------------------------------------------------------
(* Types: the flags, the contexts of callers and the states of captures.   *)
Typed ==
    /\ before_send \in BOOLEAN /\ allowed \in BOOLEAN
    /\ operation \in [Callers -> 0 .. begun]
    /\ \A c \in Callers : cap[c].pc \in {"idle", "skip", "commit"}

(* They have their types in every behaviour.                               *)
LEMMA TypedInvariance == Spec => []Typed
<1>1. ASSUME Init PROVE Typed
  <2>1. before_send \in BOOLEAN
    BY <1>1, AdmissionAssumption DEF Init
  <2>. QED BY <1>1, <2>1 DEF Init, Typed, Idle
<1>2. ASSUME Typed, Justified, [Next]_vars PROVE Typed'
  <2>1. before_send' \in BOOLEAN
    <3>1. before_send' = before_send \/ before_send' \in load.hooks
      BY <1>2, Zenon DEF Next, Operation, begin, end, Copied, Capture, capture_exception, Skip, Abandon,
         Commit, Drain, Recovery, Reset, init, dispose, fork, Tick, vars, identity
    <3>2. load.hooks \subseteq BOOLEAN
      BY <1>2, AdmissionAssumption DEF Justified
    <3>. QED BY <3>1, <3>2, <1>2 DEF Typed
  <2>2. allowed' \in BOOLEAN
    <3>1. allowed' = allowed \/ allowed' = ~allowed \/ allowed' = FALSE \/ allowed' \in BOOLEAN
      BY <1>2, Zenon DEF Next, Operation, Capture, Drain, Recovery, capture_recovery, Withhold,
         evict_low_priority, Replace, Register, Depart, Observe, Reset, init, dispose, fork, Tick,
         vars, budget
    <3>. QED BY <3>1, <1>2 DEF Typed
  <2>3. operation' \in [Callers -> 0 .. begun']
    <3>1. operation \in [Callers -> 0 .. begun] /\ begun \in Nat /\ load.callers \subseteq Callers
      BY <1>2, AdmissionAssumption DEF Typed, Justified
    <3>2. CASE UNCHANGED <<operation, begun>>
      BY <3>1, <3>2
    <3>3. ASSUME NEW c \in load.callers, begin(c) PROVE operation' \in [Callers -> 0 .. begun']
      <4>1. begun' = begun + 1 /\ operation' = [operation EXCEPT ![c] = begun']
        BY <3>3 DEF begin
      <4>2. \A o \in 0 .. begun : o \in 0 .. begun'
        BY <4>1, <3>1
      <4>3. begun' \in 0 .. begun'
        BY <4>1, <3>1
      <4>. QED BY <4>1, <4>2, <4>3, <3>1
    <3>4. ASSUME NEW c \in load.callers, NEW d \in load.callers, Copied(c, d)
          PROVE  operation' \in [Callers -> 0 .. begun']
      BY <3>4, <3>1 DEF Copied
    <3>5. CASE operation' = [c \in Callers |-> 0] /\ begun' = begun
      BY <3>5, <3>1
    <3>6. \/ UNCHANGED <<operation, begun>>
          \/ \E c \in load.callers : begin(c)
          \/ \E c, d \in load.callers : Copied(c, d)
          \/ operation' = [c \in Callers |-> 0] /\ begun' = begun
      BY <1>2, Zenon DEF Next, Operation, end, Capture, capture_exception, Skip, Abandon,
         Commit, Drain, Recovery, Reset, init, dispose, fork, Tick, vars, identity
    <3>. QED BY <3>2, <3>3, <3>4, <3>5, <3>6
  <2>4. ASSUME NEW c \in Callers PROVE cap'[c].pc \in {"idle", "skip", "commit"}
    <3>1. cap[c].pc \in {"idle", "skip", "commit"} /\ DOMAIN cap = Callers
      BY <1>2 DEF Typed, Justified
    <3>2. \/ cap' = cap \/ cap' = [d \in Callers |-> Idle]
          \/ \E d : cap' = [cap EXCEPT ![d] = Idle]
          \/ \E d, x, automatic : capture_exception(d, x, automatic)
      BY <1>2, Zenon DEF Next, Operation, begin, end, Copied, Capture, Skip, Abandon,
         Commit, Drain, Recovery, Reset, init, dispose, fork, Tick, vars, identity
    <3>3. Idle.pc = "idle"
      BY DEF Idle
    <3>4. CASE \E d, x, automatic : capture_exception(d, x, automatic)
      <4>1. PICK d, x, automatic : capture_exception(d, x, automatic)
        BY <3>4
      <4>. DEFINE new == [pc |-> IF Duplicate(d, x, automatic) THEN "skip" ELSE "commit",
                          exception |-> <<x>>, automatic |-> automatic]
      <4>2. cap' = [cap EXCEPT ![d] = new] /\ new.pc \in {"skip", "commit"}
        BY <4>1 DEF capture_exception
      <4>. HIDE DEF new
      <4>. QED BY <4>2, <3>1
    <3>. QED BY <3>1, <3>2, <3>3, <3>4
  <2>. QED BY <2>1, <2>2, <2>3, <2>4 DEF Typed
<1>. QED BY <1>1, <1>2, JustifiedInvariant, PTL DEF Spec

(***************************************************************************)
(* Types, for any constants: the table never exceeds MAX_TRACKED, holds a  *)
(* fingerprint once, an entry admits no more than its window allows, and   *)
(* first_seen is set just while something is pending (suppression.py).     *)
(***************************************************************************)
THEOREM AdmissionTypes == Spec => []TypeOK
<1>1. ASSUME StormInvariant
      PROVE  /\ now \in 0 .. load.time /\ Len(suppression) <= MAX_TRACKED
             /\ IsInjective([i \in DOMAIN suppression |-> suppression[i].key])
             /\ \A s \in ToSet(suppression) :
                   /\ s.key \in Fingerprints /\ s.emitted_count \in 0 .. MAX_NORMAL_EVENTS
                   /\ s.pending \in Nat /\ (s.pending = 0) = (s.first_seen = <<>>)
  <2>1. suppression \in Seq(States) /\ DOMAIN suppression = 1 .. Len(suppression) /\ Distinct(suppression)
    BY <1>1, StormTypes DEF StormInvariant
  <2>2. IsInjective([i \in DOMAIN suppression |-> suppression[i].key])
    BY <2>1 DEF Distinct, IsInjective
  <2>3. ASSUME NEW s \in ToSet(suppression)
        PROVE  /\ s.key \in Fingerprints /\ s.emitted_count \in 0 .. MAX_NORMAL_EVENTS
               /\ s.pending \in Nat /\ (s.pending = 0) = (s.first_seen = <<>>)
    <3>1. PICK k \in 1 .. Len(suppression) : s = suppression[k]
      BY <2>1 DEF ToSet
    <3>2. s \in States /\ \E seen, r : Entry(s, seen, r, now)
      BY <3>1, <2>1, <1>1 DEF StormInvariant
    <3>3. PICK seen, r : Entry(s, seen, r, now)
      BY <3>2
    <3>4. s.emitted_count <= MAX_NORMAL_EVENTS /\ (s.pending = 0) = (s.first_seen = <<>>)
      BY <3>3, Zenon DEF Entry, Windowed, Spanned
    <3>5. s.key \in Fingerprints /\ s.emitted_count \in Nat /\ s.pending \in Nat
      BY <3>2, EntryTypes
    <3>6. s.emitted_count \in 0 .. MAX_NORMAL_EVENTS
      BY <3>4, <3>5, SuppressionAssumption
    <3>. QED BY <3>4, <3>5, <3>6
  <2>. QED BY <1>1, <2>2, <2>3 DEF StormInvariant
<1>2. StormInvariant /\ Justified /\ Typed => TypeOK
  BY <1>1, Zenon DEF TypeOK, Justified, Typed
<1>. QED BY <1>2, StormInvariance, JustifiedInvariant, TypedInvariance, PTL

-----------------------------------------------------------------------------
(* The budget. Tables are functions on finite sets of keys or ids.         *)
Observations == UNION {l.observations : l \in Loads}

Keys == {o.key : o \in Observations}

Attempts == {o.attempt : o \in Observations}

Windows ==
    [starts : Nat, failure_at : Seq(Nat), failure_id : Seq(Ids), attempts : SUBSET Attempts,
     observations : Nat, ambiguous : BOOLEAN, pending : Nat, cost : Nat]

Charges == [scope : Keys, attempt : Attempts, size : Nat, cost : Nat]

Table(f, K, V) == IsFiniteSet(DOMAIN f) /\ DOMAIN f \subseteq K /\ f \in [DOMAIN f -> V]

(* A window keeps its limits, and costs what its fields say.               *)
WindowSound(w) ==
    /\ w \in Windows /\ IsFiniteSet(w.attempts) /\ w.cost = window_cost(w)
    /\ Cardinality(w.attempts) <= MAX_ATTEMPTS /\ w.observations <= MAX_OBSERVATIONS

ChargedTo(table, k) == {e \in DOMAIN table : table[e].scope = k}

(* Windows W, charges P and their sum h are exact; nothing is said yet of  *)
(* the limit on all bytes, which a renamed event passes for a moment.      *)
Exact(W, P, h) ==
    /\ Table(W, Keys, Windows) /\ Table(P, Ids, Charges)
    /\ \A k \in DOMAIN W : WindowSound(W[k]) /\ W[k].pending = Cardinality(ChargedTo(P, k))
    /\ \A e \in DOMAIN P : P[e].scope \in DOMAIN W /\ P[e].cost = P[e].size + IdBytes(e) + 1
    /\ h = SumFunction(Costs(P))
    /\ Cardinality(DOMAIN W) <= MAX_WINDOWS

Sound(b) == b = [windows |-> b.windows, pending |-> b.pending, held |-> b.held]
            /\ Exact(b.windows, b.pending, b.held)

(* The costs of a table are naturals.                                      *)
LEMMA CostsType ==
    ASSUME NEW f, NEW K, NEW V, Table(f, K, V), \A v \in V : v.cost \in Nat
    PROVE  /\ Costs(f) \in [DOMAIN f -> Nat] /\ \A x \in DOMAIN f : Costs(f)[x] = f[x].cost
           /\ SumFunction(Costs(f)) \in Nat
<1>1. Costs(f) \in [DOMAIN f -> Nat] /\ \A x \in DOMAIN f : Costs(f)[x] = f[x].cost
  BY DEF Costs, Table
<1>2. IsFiniteSet(DOMAIN f)
  BY DEF Table
<1>3. SumFunction(Costs(f)) \in Nat
  <2>. DEFINE g == Costs(f)
              D == DOMAIN f
  <2>1. IsFiniteSet(D) /\ g \in [D -> Nat]
    BY <1>1, <1>2
  <2>. HIDE DEF g, D
  <2>2. SumFunction(g) \in Nat
    BY <2>1, SumType
  <2>. QED BY <2>2 DEF g
<1>. QED BY <1>1, <1>3

(* A table that has lost entries, or whose entries cost less, costs no     *)
(* more.                                                                   *)
LEMMA CostsShrink ==
    ASSUME NEW f, NEW g, NEW K, NEW V, Table(f, K, V), Table(g, K, V), \A v \in V : v.cost \in Nat,
           DOMAIN g \subseteq DOMAIN f, \A x \in DOMAIN g : g[x].cost <= f[x].cost
    PROVE  SumFunction(Costs(g)) <= SumFunction(Costs(f))
<1>. DEFINE S == DOMAIN f
            T == DOMAIN g
            F == Costs(f)
            G == Costs(g)
            m == [x \in T |-> x]
<1>1. F \in [S -> Nat] /\ G \in [T -> Nat] /\ \A x \in T : G[x] <= F[x]
  BY CostsType
<1>2. IsFiniteSet(S) /\ IsFiniteSet(T) /\ T \subseteq S
  BY DEF Table
<1>3. m \in [T -> S] /\ (\A x, y \in T : m[x] = m[y] => x = y) /\ \A x \in T : m[x] = x
  BY <1>2
<1>. HIDE DEF S, T, F, G, m
<1>4. Covered(T, G, S, F, m)
  BY <1>1, <1>2, <1>3 DEF Covered
<1>5. SumFunction(G) <= SumFunction(F)
  BY <1>4, SumAtMost
<1>. QED BY <1>5 DEF F, G

(* One more entry costs its cost.                                          *)
LEMMA CostsWith ==
    ASSUME NEW f, NEW K, NEW V, Table(f, K, V), \A v \in V : v.cost \in Nat,
           NEW x \in K, x \notin DOMAIN f, NEW v \in V
    PROVE  SumFunction(Costs(With(f, x, v))) = SumFunction(Costs(f)) + v.cost
<1>. DEFINE S == DOMAIN f
            F == Costs(f)
            g == With(f, x, v)
            G == Costs(g)
<1>1. DOMAIN g = S \cup {x} /\ g[x] = v /\ \A y \in S : g[y] = f[y]
  BY DEF With
<1>. HIDE DEF g
<1>2. G \in [S \cup {x} -> Nat] /\ G[x] = v.cost /\ \A y \in S : G[y] = f[y].cost
  BY <1>1 DEF Costs, Table
<1>3. F \in [S -> Nat] /\ \A y \in S : F[y] = f[y].cost
  BY CostsType
<1>4. IsFiniteSet(S) /\ x \notin S
  BY DEF Table
<1>. HIDE DEF S, F, G
<1>5. OneMore(S, x, F, G)
  BY <1>2, <1>3, <1>4 DEF OneMore
<1>6. SumFunction(G) = SumFunction(F) + G[x]
  BY <1>5, SumOneMore
<1>. QED BY <1>2, <1>6 DEF F, G, g

(* The costs of a part of a table and those of the rest.                   *)
LEMMA CostsSplit ==
    ASSUME NEW f, NEW K, NEW V, Table(f, K, V), \A v \in V : v.cost \in Nat,
           NEW T \in SUBSET DOMAIN f
    PROVE  /\ SumFunction(Costs(Restrict(f, DOMAIN f \ T))) =
                 SumFunction(Costs(f)) - SumFunction(Costs(Restrict(f, T)))
           /\ SumFunction(Costs(Restrict(f, T))) \in Nat
<1>. DEFINE S == DOMAIN f
            F == Costs(f)
<1>1. F \in [S -> Nat] /\ (\A y \in S : F[y] = f[y].cost) /\ IsFiniteSet(S) /\ T \in SUBSET S
      /\ SumFunction(F) \in Nat
  BY CostsType DEF Table
<1>2. ASSUME NEW R \in SUBSET S
      PROVE  SumFunction(Costs(Restrict(f, R))) = SumFunctionOnSet(F, R)
  <2>. DEFINE G == Costs(Restrict(f, R))
  <2>1. DOMAIN G = R /\ \A y \in R : G[y] = f[y].cost
    BY DEF Costs, Restrict
  <2>. HIDE DEF G, F, S
  <2>2. IsFiniteSet(R) /\ \A y \in R : G[y] \in Int /\ G[y] = F[y]
    BY <1>1, <2>1, FS_Subset
  <2>3. SumFunctionOnSet(G, R) = SumFunctionOnSet(F, R)
    BY <2>2, SumCongruent
  <2>4. SumFunction(G) = SumFunctionOnSet(G, R)
    BY <2>1 DEF SumFunction
  <2>. QED BY <2>3, <2>4 DEF G
<1>3. /\ SumFunctionOnSet(F, T) \in Nat /\ SumFunctionOnSet(F, S \ T) \in Nat
      /\ SumFunction(F) = SumFunctionOnSet(F, T) + SumFunctionOnSet(F, S \ T)
  <2>. HIDE DEF F, S
  <2>. QED BY <1>1, SumSplit
<1>4. /\ SumFunction(Costs(Restrict(f, T))) = SumFunctionOnSet(F, T)
      /\ SumFunction(Costs(Restrict(f, S \ T))) = SumFunctionOnSet(F, S \ T)
  BY <1>1, <1>2
<1>. QED BY <1>1, <1>3, <1>4

(* Windows and charges have natural costs.                                 *)
LEMMA NaturalCosts == (\A w \in Windows : w.cost \in Nat) /\ \A c \in Charges : c.cost \in Nat
BY DEF Windows, Charges

(* The charges of a window are finitely many, and none only if it counts   *)
(* none.                                                                   *)
LEMMA ChargedFinite ==
    ASSUME NEW P, Table(P, Ids, Charges), NEW k
    PROVE  /\ IsFiniteSet(ChargedTo(P, k)) /\ Cardinality(ChargedTo(P, k)) \in Nat
           /\ Cardinality(ChargedTo(P, k)) = 0 <=> ChargedTo(P, k) = {}
<1>1. IsFiniteSet(DOMAIN P) /\ ChargedTo(P, k) \subseteq DOMAIN P
  BY DEF Table, ChargedTo
<1>. QED BY <1>1, FS_Subset, FS_CardinalityType, FS_EmptySet

(* The bytes accounted for are a number.                                   *)
LEMMA AccountedType ==
    ASSUME NEW b, Sound(b)
    PROVE  /\ b.held \in Nat /\ SumFunction(Costs(b.windows)) \in Nat /\ accounted_bytes(b) \in Nat
           /\ accounted_bytes(b) = b.held + SumFunction(Costs(b.windows))
<1>1. Table(b.windows, Keys, Windows) /\ Table(b.pending, Ids, Charges)
      /\ b.held = SumFunction(Costs(b.pending))
  BY DEF Sound, Exact
<1>2. b.held \in Nat /\ SumFunction(Costs(b.windows)) \in Nat
  BY <1>1, CostsType, NaturalCosts
<1>. QED BY <1>2 DEF accounted_bytes

(* A part of a table is a table.                                           *)
LEMMA TableRestrict ==
    ASSUME NEW f, NEW K, NEW V, Table(f, K, V), NEW S \in SUBSET DOMAIN f
    PROVE  /\ Table(Restrict(f, S), K, V) /\ DOMAIN Restrict(f, S) = S
           /\ \A x \in S : Restrict(f, S)[x] = f[x]
<1>1. IsFiniteSet(S)
  BY FS_Subset DEF Table
<1>. QED BY <1>1 DEF Table, Restrict

(* A table with one entry more, or another one.                            *)
Stored(f, x, v, g) ==
    DOMAIN g = DOMAIN f \cup {x} /\ g[x] = v /\ \A y \in DOMAIN f \ {x} : g[y] = f[y]

(* It is a table again.                                                    *)
LEMMA TableWith ==
    ASSUME NEW f, NEW K, NEW V, Table(f, K, V), NEW x \in K, NEW v \in V
    PROVE  Table(With(f, x, v), K, V) /\ Stored(f, x, v, With(f, x, v))
<1>1. IsFiniteSet(DOMAIN f \cup {x})
  BY FS_AddElement DEF Table
<1>. QED BY <1>1 DEF Table, With, Stored

(* _prune forgets windows that no event is charged to.                     *)
LEMMA PruneSound ==
    ASSUME NEW b, Sound(b), NEW t \in Nat
    PROVE  /\ Sound(prune(b, t)) /\ prune(b, t).pending = b.pending /\ prune(b, t).held = b.held
           /\ accounted_bytes(prune(b, t)) <= accounted_bytes(b)
<1>. DEFINE W == b.windows
            P == b.pending
            D == {k \in DOMAIN W : W[k].pending > 0 \/ t < W[k].starts + OBSERVED_FOR}
            V == Restrict(W, D)
            c == prune(b, t)
<1>1. Exact(W, P, b.held) /\ b = [windows |-> W, pending |-> P, held |-> b.held]
  BY DEF Sound
<1>2. c = [windows |-> V, pending |-> P, held |-> b.held]
  <2>1. c = [b EXCEPT !.windows = V]
    BY DEF prune
  <2>. HIDE DEF V, W, P, c
  <2>. QED BY <2>1, <1>1
<1>3. D \in SUBSET DOMAIN W /\ Table(W, Keys, Windows) /\ Table(P, Ids, Charges)
  BY <1>1 DEF Exact
<1>4. Table(V, Keys, Windows) /\ DOMAIN V = D /\ \A k \in D : V[k] = W[k]
  BY <1>3, TableRestrict
<1>5. ASSUME NEW e \in DOMAIN P PROVE P[e].scope \in D
  <2>. DEFINE k == P[e].scope
  <2>1. k \in DOMAIN W /\ W[k].pending = Cardinality(ChargedTo(P, k)) /\ e \in ChargedTo(P, k)
    BY <1>1 DEF Exact, ChargedTo
  <2>2. Cardinality(ChargedTo(P, k)) \in Nat /\ Cardinality(ChargedTo(P, k)) # 0
    BY <2>1, <1>3, ChargedFinite
  <2>. QED BY <2>1, <2>2
<1>6. Cardinality(D) <= MAX_WINDOWS
  <2>1. IsFiniteSet(DOMAIN W) /\ Cardinality(DOMAIN W) <= MAX_WINDOWS /\ MAX_WINDOWS \in Nat
    BY <1>1, <1>3, BudgetAssumption DEF Exact, Table
  <2>2. IsFiniteSet(D) /\ Cardinality(D) <= Cardinality(DOMAIN W)
    BY <2>1, <1>3, FS_Subset
  <2>3. Cardinality(D) \in Nat /\ Cardinality(DOMAIN W) \in Nat
    BY <2>1, <2>2, FS_CardinalityType
  <2>. HIDE DEF D, W
  <2>. QED BY <2>1, <2>2, <2>3
<1>7. Exact(V, P, b.held)
  <2>1. \A k \in DOMAIN V : WindowSound(V[k]) /\ V[k].pending = Cardinality(ChargedTo(P, k))
    <3>. HIDE DEF V, D
    <3>. QED BY <1>1, <1>3, <1>4 DEF Exact
  <2>. HIDE DEF V, D
  <2>. QED BY <1>1, <1>3, <1>4, <1>5, <1>6, <2>1 DEF Exact
<1>8. Sound(c) /\ c.pending = P /\ c.held = b.held /\ c.windows = V
  <2>. HIDE DEF V, W, P, c
  <2>. QED BY <1>2, <1>7 DEF Sound
<1>9. SumFunction(Costs(V)) <= SumFunction(Costs(W))
  <2>1. \A k \in DOMAIN V : V[k].cost <= W[k].cost
    <3>1. \A k \in DOMAIN V : V[k] = W[k] /\ V[k] \in Windows
      BY <1>4 DEF Table
    <3>. HIDE DEF V, D, W
    <3>. QED BY <3>1, NaturalCosts
  <2>. HIDE DEF V, D, W
  <2>. QED BY <2>1, <1>3, <1>4, CostsShrink, NaturalCosts
<1>10. accounted_bytes(c) <= accounted_bytes(b)
  <2>1. /\ accounted_bytes(c) = c.held + SumFunction(Costs(c.windows)) /\ c.held \in Nat
        /\ SumFunction(Costs(c.windows)) \in Nat
    BY <1>8, AccountedType
  <2>2. /\ accounted_bytes(b) = b.held + SumFunction(Costs(b.windows))
        /\ SumFunction(Costs(b.windows)) \in Nat
    BY AccountedType
  <2>. HIDE DEF c, V
  <2>. QED BY <2>1, <2>2, <1>8, <1>9
<1>. QED BY <1>8, <1>10

(* A window that counts fewer charges costs the same.                      *)
LEMMA PendingPriced ==
    ASSUME NEW w, WindowSound(w), NEW n \in Nat
    PROVE  /\ WindowSound(Priced([w EXCEPT !.pending = n]))
           /\ Priced([w EXCEPT !.pending = n]).pending = n
           /\ Priced([w EXCEPT !.pending = n]).cost = w.cost
<1>. DEFINE v == [w EXCEPT !.pending = n]
            u == [v EXCEPT !.cost = window_cost(v)]
<1>1. /\ w \in Windows /\ IsFiniteSet(w.attempts) /\ w.cost = window_cost(w)
      /\ Cardinality(w.attempts) <= MAX_ATTEMPTS /\ w.observations <= MAX_OBSERVATIONS
  BY DEF WindowSound
<1>2. /\ v \in Windows /\ v.attempts = w.attempts /\ v.failure_id = w.failure_id
      /\ v.ambiguous = w.ambiguous /\ v.pending = n /\ v.observations = w.observations
  BY <1>1 DEF Windows
<1>. HIDE DEF v
<1>3. window_cost(v) = w.cost
  BY <1>1, <1>2 DEF window_cost
<1>4. /\ u \in Windows /\ u.attempts = w.attempts /\ u.failure_id = w.failure_id /\ u.cost = w.cost
      /\ u.ambiguous = w.ambiguous /\ u.pending = n /\ u.observations = w.observations
  BY <1>1, <1>2, <1>3 DEF Windows
<1>. HIDE DEF u
<1>5. window_cost(u) = w.cost
  BY <1>1, <1>4 DEF window_cost
<1>. QED BY <1>1, <1>4, <1>5 DEF WindowSound, Priced, u, v

(* release takes events off the books: their charges leave the sum, and    *)
(* their windows count them no longer.                                     *)
LEMMA ReleaseSound ==
    ASSUME NEW b, Sound(b), NEW ids
    PROVE  /\ Sound(release(b, ids))
           /\ release(b, ids).pending = Restrict(b.pending, DOMAIN b.pending \ ids)
           /\ accounted_bytes(release(b, ids)) <= accounted_bytes(b)
           /\ SumFunction(Costs(release(b, ids).windows)) <= SumFunction(Costs(b.windows))
<1>. DEFINE W == b.windows
            P == b.pending
            gone == ids \cap DOMAIN P
            Q == Restrict(P, DOMAIN P \ gone)
            Of(k) == Cardinality({e \in gone : P[e].scope = k})
            Left(k) == IF W[k].pending > Of(k) THEN W[k].pending - Of(k) ELSE 0
            V == [k \in DOMAIN W |-> IF Of(k) = 0 THEN W[k] ELSE Priced([W[k] EXCEPT !.pending = Left(k)])]
            h == b.held - SumFunction(Costs(Restrict(P, gone)))
            c == release(b, ids)
<1>1. Exact(W, P, b.held) /\ b = [windows |-> W, pending |-> P, held |-> b.held]
  BY DEF Sound
<1>2. c = [windows |-> V, pending |-> Q, held |-> h]
  BY Zenon DEF release
<1>3. /\ Table(W, Keys, Windows) /\ Table(P, Ids, Charges) /\ b.held = SumFunction(Costs(P))
      /\ gone \in SUBSET DOMAIN P /\ DOMAIN P \ gone = DOMAIN P \ ids
  BY <1>1 DEF Exact
<1>4. Table(Q, Ids, Charges) /\ DOMAIN Q = DOMAIN P \ gone /\ \A e \in DOMAIN Q : Q[e] = P[e]
  BY <1>3, TableRestrict
<1>5. /\ h = SumFunction(Costs(Q)) /\ h <= b.held /\ h \in Nat
  <2>1. /\ SumFunction(Costs(Q)) = SumFunction(Costs(P)) - SumFunction(Costs(Restrict(P, gone)))
        /\ SumFunction(Costs(Restrict(P, gone))) \in Nat
    BY <1>3, CostsSplit, NaturalCosts
  <2>2. SumFunction(Costs(P)) \in Nat /\ SumFunction(Costs(Q)) \in Nat
    BY <1>3, <1>4, CostsType, NaturalCosts
  <2>. HIDE DEF Q, gone, P
  <2>. QED BY <2>1, <2>2, <1>3
<1>6. ASSUME NEW k \in DOMAIN W
      PROVE  /\ Of(k) \in Nat /\ Cardinality(ChargedTo(P, k)) \in Nat
             /\ Cardinality(ChargedTo(Q, k)) = Cardinality(ChargedTo(P, k)) - Of(k)
             /\ Cardinality(ChargedTo(Q, k)) \in Nat
  <2>. DEFINE G == {e \in gone : P[e].scope = k}
  <2>1. ChargedTo(Q, k) = ChargedTo(P, k) \ G /\ G \subseteq ChargedTo(P, k)
    <3>. HIDE DEF Q
    <3>. QED BY <1>4 DEF ChargedTo
  <2>2. /\ IsFiniteSet(ChargedTo(P, k)) /\ Cardinality(ChargedTo(P, k)) \in Nat
        /\ Cardinality(ChargedTo(Q, k)) \in Nat
    BY <1>3, <1>4, ChargedFinite
  <2>3. IsFiniteSet(G) /\ Cardinality(G) \in Nat
    BY <2>1, <2>2, FS_Subset, FS_CardinalityType
  <2>4. ChargedTo(P, k) \cap G = G
    BY <2>1
  <2>5. Cardinality(ChargedTo(P, k) \ G) = Cardinality(ChargedTo(P, k)) - Cardinality(ChargedTo(P, k) \cap G)
    <3>. HIDE DEF G
    <3>. QED BY <2>2, <2>3, FS_Difference
  <2>. QED BY <2>1, <2>2, <2>3, <2>4, <2>5
<1>7. ASSUME NEW k \in DOMAIN W
      PROVE  WindowSound(V[k]) /\ V[k].pending = Cardinality(ChargedTo(Q, k)) /\ V[k].cost = W[k].cost
  <2>1. WindowSound(W[k]) /\ W[k].pending = Cardinality(ChargedTo(P, k))
    BY <1>1 DEF Exact
  <2>2. CASE Of(k) = 0
    <3>1. V[k] = W[k]
      BY <2>2
    <3>. HIDE DEF V, Q, W, P, Of
    <3>. QED BY <3>1, <2>1, <2>2, <1>6
  <2>3. CASE Of(k) # 0
    <3>1. V[k] = Priced([W[k] EXCEPT !.pending = Left(k)])
      BY <2>3
    <3>2. Left(k) = Cardinality(ChargedTo(Q, k)) /\ Left(k) \in Nat
      <4>. HIDE DEF Q, W, P, Of
      <4>. QED BY <2>1, <1>6
    <3>. HIDE DEF V, Q, W, P, Of, Left
    <3>. QED BY <3>1, <3>2, <2>1, PendingPriced
  <2>. QED BY <2>2, <2>3
<1>8. Table(V, Keys, Windows) /\ DOMAIN V = DOMAIN W
  <2>1. DOMAIN V = DOMAIN W
    OBVIOUS
  <2>2. \A k \in DOMAIN W : V[k] \in Windows
    BY <1>7 DEF WindowSound
  <2>3. V \in [DOMAIN W -> Windows]
    <3>1. V = [k \in DOMAIN V |-> V[k]]
      OBVIOUS
    <3>. HIDE DEF V
    <3>. QED BY <3>1, <2>1, <2>2
  <2>. HIDE DEF V, W
  <2>. QED BY <2>1, <2>3, <1>3 DEF Table
<1>9. Exact(V, Q, h)
  <2>1. \A e \in DOMAIN Q : Q[e].scope \in DOMAIN V /\ Q[e].cost = Q[e].size + IdBytes(e) + 1
    <3>. HIDE DEF V, Q, W
    <3>. QED BY <1>1, <1>4, <1>8 DEF Exact
  <2>2. Cardinality(DOMAIN V) <= MAX_WINDOWS
    BY <1>1, <1>8 DEF Exact
  <2>. HIDE DEF V, Q, W, h
  <2>. QED BY <1>4, <1>5, <1>7, <1>8, <2>1, <2>2 DEF Exact
<1>10. Sound(c) /\ c.pending = Q /\ c.held = h /\ c.windows = V
  <2>. HIDE DEF V, Q, h, c
  <2>. QED BY <1>2, <1>9 DEF Sound
<1>11. SumFunction(Costs(V)) <= SumFunction(Costs(W))
  <2>1. \A k \in DOMAIN V : V[k].cost <= W[k].cost
    <3>1. \A k \in DOMAIN V : V[k].cost = W[k].cost /\ W[k] \in Windows
      <4>. HIDE DEF V, W
      <4>. QED BY <1>3, <1>7, <1>8 DEF Table
    <3>. HIDE DEF V, W
    <3>. QED BY <3>1, NaturalCosts
  <2>. HIDE DEF V, W
  <2>. QED BY <2>1, <1>3, <1>8, CostsShrink, NaturalCosts
<1>12. accounted_bytes(c) <= accounted_bytes(b)
  <2>1. /\ accounted_bytes(c) = c.held + SumFunction(Costs(c.windows))
        /\ SumFunction(Costs(c.windows)) \in Nat
    BY <1>10, AccountedType
  <2>2. /\ accounted_bytes(b) = b.held + SumFunction(Costs(b.windows)) /\ b.held \in Nat
        /\ SumFunction(Costs(b.windows)) \in Nat
    BY AccountedType
  <2>. HIDE DEF c, V, h
  <2>. QED BY <2>1, <2>2, <1>5, <1>10, <1>11
<1>13. c.pending = Restrict(b.pending, DOMAIN b.pending \ ids)
  BY <1>3, <1>10
<1>. QED BY <1>10, <1>11, <1>12, <1>13

(* The positions of a sequence are counted by a natural.                   *)
LEMMA IntervalCount ==
    ASSUME NEW n \in Nat
    PROVE  Cardinality(1 .. n) \in Nat
<1>1. 1 \in Int /\ n \in Int
  OBVIOUS
<1>2. IsFiniteSet(1 .. n)
  BY <1>1, FS_Interval
<1>. QED BY <1>2, FS_CardinalityType

(* What a window is before it is priced.                                   *)
Unpriced(w) ==
    /\ w \in Windows /\ IsFiniteSet(w.attempts)
    /\ Cardinality(w.attempts) <= MAX_ATTEMPTS /\ w.observations <= MAX_OBSERVATIONS

(* Pricing makes it sound.                                                 *)
LEMMA PricedSound ==
    ASSUME NEW w, Unpriced(w)
    PROVE  /\ WindowSound(Priced(w)) /\ Priced(w).pending = w.pending
           /\ Priced(w).cost = window_cost(w) /\ Priced(w).attempts = w.attempts
           /\ window_cost(w) \in Nat
<1>. DEFINE u == [w EXCEPT !.cost = window_cost(w)]
<1>1. /\ w \in Windows /\ IsFiniteSet(w.attempts)
      /\ Cardinality(w.attempts) <= MAX_ATTEMPTS /\ w.observations <= MAX_OBSERVATIONS
  BY DEF Unpriced
<1>2. window_cost(w) \in Nat
  <2>1. Cardinality(w.attempts) \in Nat
    BY <1>1, FS_CardinalityType
  <2>2. w.failure_id \in Seq(Ids)
    BY <1>1 DEF Windows
  <2>3. DOMAIN w.failure_id = 1 .. Len(w.failure_id) /\ Len(w.failure_id) \in Nat
    BY <2>2
  <2>4. Cardinality(DOMAIN w.failure_id) \in Nat
    BY <2>3, IntervalCount
  <2>. QED BY <2>1, <2>4 DEF window_cost
<1>3. /\ u \in Windows /\ u.attempts = w.attempts /\ u.failure_id = w.failure_id
      /\ u.cost = window_cost(w) /\ u.ambiguous = w.ambiguous /\ u.pending = w.pending
      /\ u.observations = w.observations
  BY <1>1, <1>2 DEF Windows
<1>. HIDE DEF u
<1>4. window_cost(u) = window_cost(w)
  BY <1>3 DEF window_cost
<1>. QED BY <1>1, <1>2, <1>3, <1>4 DEF WindowSound, Priced, u

(* The window a call works on: the one of its key, or a new one.           *)
LEMMA BaseWindow ==
    ASSUME NEW b, Sound(b), NEW key \in Keys, NEW t \in Nat, NEW base,
           base = IF Get(b.windows, key) = <<>> THEN Window(t) ELSE Get(b.windows, key)[1]
    PROVE  /\ Unpriced(base) /\ base.pending = Cardinality(ChargedTo(b.pending, key))
           /\ Get(b.windows, key) = <<>> <=> key \notin DOMAIN b.windows
           /\ key \in DOMAIN b.windows => base = b.windows[key]
<1>1. Exact(b.windows, b.pending, b.held)
  BY DEF Sound
<1>2. Get(b.windows, key) = <<>> <=> key \notin DOMAIN b.windows
  BY DEF Get
<1>3. CASE key \in DOMAIN b.windows
  <2>1. base = b.windows[key]
    BY <1>2, <1>3 DEF Get
  <2>2. WindowSound(base) /\ base.pending = Cardinality(ChargedTo(b.pending, key))
    BY <1>1, <1>3, <2>1 DEF Exact
  <2>. QED BY <1>2, <2>1, <2>2 DEF WindowSound, Unpriced
<1>4. CASE key \notin DOMAIN b.windows
  <2>1. base = Window(t)
    BY <1>2, <1>4
  <2>2. /\ base \in Windows /\ base.attempts = {} /\ base.observations = 0 /\ base.pending = 0
    <3>. DEFINE none == <<>>
                empty == {}
                no == FALSE
    <3>1. none \in Seq(Nat) /\ none \in Seq(Ids) /\ empty \in SUBSET Attempts /\ no \in BOOLEAN
      OBVIOUS
    <3>2. base = [starts |-> t, failure_at |-> none, failure_id |-> none, attempts |-> empty,
                  observations |-> 0, ambiguous |-> no, pending |-> 0, cost |-> 0]
      BY <2>1 DEF Window
    <3>3. base.attempts = {} /\ base.observations = 0 /\ base.pending = 0
      BY <3>2
    <3>. HIDE DEF none, empty, no
    <3>4. base \in Windows
      BY <3>1, <3>2 DEF Windows
    <3>. QED BY <3>3, <3>4
  <2>3. Unpriced(base)
    <3>1. IsFiniteSet({}) /\ Cardinality({}) = 0
      BY FS_EmptySet
    <3>2. 0 <= MAX_ATTEMPTS /\ 0 <= MAX_OBSERVATIONS
      BY BudgetAssumption
    <3>. QED BY <2>2, <3>1, <3>2 DEF Unpriced
  <2>4. ChargedTo(b.pending, key) = {}
    BY <1>1, <1>4 DEF Exact, ChargedTo
  <2>5. Cardinality(ChargedTo(b.pending, key)) = 0
    BY <2>4, FS_EmptySet
  <2>. QED BY <1>2, <1>4, <2>2, <2>3, <2>5
<1>. QED BY <1>3, <1>4

(* Room for one more window.                                               *)
LEMMA WindowsCount ==
    ASSUME NEW b, Sound(b), NEW key, NEW w,
           key \in DOMAIN b.windows \/ ~(Cardinality(DOMAIN b.windows) >= MAX_WINDOWS)
    PROVE  Cardinality(DOMAIN With(b.windows, key, w)) <= MAX_WINDOWS
<1>. DEFINE D == DOMAIN b.windows
<1>1. IsFiniteSet(D) /\ Cardinality(D) <= MAX_WINDOWS /\ MAX_WINDOWS \in Nat /\ Cardinality(D) \in Nat
  BY FS_CardinalityType, BudgetAssumption DEF Sound, Exact, Table
<1>2. DOMAIN With(b.windows, key, w) = D \cup {key}
  BY DEF With
<1>3. CASE key \in D
  <2>1. D \cup {key} = D
    BY <1>3
  <2>. QED BY <1>1, <1>2, <2>1
<1>4. CASE key \notin D
  <2>1. Cardinality(D \cup {key}) = Cardinality(D) + 1
    <3>. HIDE DEF D
    <3>. QED BY <1>1, <1>4, FS_AddElement
  <2>2. ~(Cardinality(D) >= MAX_WINDOWS)
    BY <1>4
  <2>. HIDE DEF D
  <2>. QED BY <1>1, <1>2, <2>1, <2>2
<1>. QED BY <1>3, <1>4

(* Storing a window that counts the charges of its key.                    *)
LEMMA StoreWindow ==
    ASSUME NEW b, Sound(b), NEW key \in Keys, NEW w, WindowSound(w),
           w.pending = Cardinality(ChargedTo(b.pending, key)),
           key \in DOMAIN b.windows \/ ~(Cardinality(DOMAIN b.windows) >= MAX_WINDOWS),
           NEW c, c = [b EXCEPT !.windows = With(b.windows, key, w)]
    PROVE  Sound(c) /\ c.pending = b.pending /\ c.held = b.held /\ c.windows = With(b.windows, key, w)
<1>. DEFINE V == With(b.windows, key, w)
<1>1. /\ Exact(b.windows, b.pending, b.held)
      /\ b = [windows |-> b.windows, pending |-> b.pending, held |-> b.held]
  BY DEF Sound
<1>2. c = [windows |-> V, pending |-> b.pending, held |-> b.held]
  <2>. HIDE DEF V
  <2>1. c = [b EXCEPT !.windows = V]
    BY DEF V
  <2>. QED BY <1>1, <2>1
<1>3. Table(b.windows, Keys, Windows) /\ w \in Windows
  BY <1>1 DEF Exact, WindowSound
<1>4. /\ Table(V, Keys, Windows) /\ DOMAIN V = DOMAIN b.windows \cup {key}
      /\ V[key] = w /\ \A k \in DOMAIN b.windows \ {key} : V[k] = b.windows[k]
  <2>1. Table(V, Keys, Windows) /\ Stored(b.windows, key, w, V)
    BY <1>3, TableWith
  <2>. QED BY <2>1 DEF Stored
<1>5. Cardinality(DOMAIN V) <= MAX_WINDOWS
  BY WindowsCount
<1>. HIDE DEF V
<1>6. \A k \in DOMAIN V : WindowSound(V[k]) /\ V[k].pending = Cardinality(ChargedTo(b.pending, k))
  <2>. SUFFICES ASSUME NEW k \in DOMAIN V
                PROVE  WindowSound(V[k]) /\ V[k].pending = Cardinality(ChargedTo(b.pending, k))
    OBVIOUS
  <2>1. CASE k = key
    BY <2>1, <1>4
  <2>2. CASE k # key
    <3>1. k \in DOMAIN b.windows /\ V[k] = b.windows[k]
      BY <2>2, <1>4
    <3>. QED BY <3>1, <1>1 DEF Exact
  <2>. QED BY <2>1, <2>2
<1>7. Exact(V, b.pending, b.held)
  BY <1>1, <1>4, <1>5, <1>6 DEF Exact
<1>. QED BY <1>2, <1>7 DEF Sound, V

(* register_failure changes one window, within the limit.                  *)
LEMMA RegisterSound ==
    ASSUME NEW budget_, Sound(budget_), accounted_bytes(budget_) <= MAX_ACCOUNTED,
           NEW key \in Keys, NEW id \in Ids, NEW t \in Nat, NEW c,
           c = register_failure(budget_, key, id, t)
    PROVE  Sound(c) /\ c.pending = budget_.pending /\ accounted_bytes(c) <= MAX_ACCOUNTED
<1>. DEFINE b == prune(budget_, t)
            previous == Get(b.windows, key)
            base == IF previous = <<>> THEN Window(t) ELSE previous[1]
            named == [base EXCEPT !.failure_id = <<id>>,
                                  !.failure_at = IF @ = <<>> THEN <<t>> ELSE @]
            value == Priced(named)
            doubtful == [base EXCEPT !.ambiguous = TRUE]
<1>1. Sound(b) /\ b.pending = budget_.pending /\ accounted_bytes(b) <= accounted_bytes(budget_)
  BY PruneSound
<1>2. accounted_bytes(b) <= MAX_ACCOUNTED /\ accounted_bytes(b) \in Nat
  <2>1. accounted_bytes(b) \in Nat /\ accounted_bytes(budget_) \in Nat /\ MAX_ACCOUNTED \in Nat
    BY <1>1, AccountedType, BudgetAssumption
  <2>. HIDE DEF b
  <2>. QED BY <2>1, <1>1
<1>3. c = IF previous # <<>> /\ base.failure_id \notin {<<>>, <<id>>}
          THEN [b EXCEPT !.windows = With(b.windows, key, Priced(doubtful))]
          ELSE IF \/ previous = <<>> /\ Cardinality(DOMAIN b.windows) >= MAX_WINDOWS
                  \/ AccountedWith(b, key, value) > MAX_ACCOUNTED
          THEN b
          ELSE [b EXCEPT !.windows = With(b.windows, key, value)]
  BY Zenon DEF register_failure
<1>. HIDE DEF b
<1>4. /\ Unpriced(base) /\ base.pending = Cardinality(ChargedTo(b.pending, key))
      /\ previous = <<>> <=> key \notin DOMAIN b.windows
      /\ key \in DOMAIN b.windows => base = b.windows[key]
  BY <1>1, BaseWindow
<1>. HIDE DEF base, previous
<1>5. base \in Windows
  BY <1>4 DEF Unpriced
<1>6. Unpriced(doubtful) /\ doubtful.pending = base.pending
  BY <1>4, <1>5 DEF Unpriced, Windows
<1>7. Unpriced(named) /\ named.pending = base.pending
  <2>1. base.failure_at \in Seq(Nat) /\ <<t>> \in Seq(Nat) /\ <<id>> \in Seq(Ids)
    BY <1>5 DEF Windows
  <2>. DEFINE at == IF base.failure_at = <<>> THEN <<t>> ELSE base.failure_at
              name == <<id>>
  <2>2. at \in Seq(Nat) /\ name \in Seq(Ids)
    BY <2>1
  <2>3. named = [base EXCEPT !.failure_id = name, !.failure_at = at]
    OBVIOUS
  <2>. HIDE DEF at, name, named
  <2>. QED BY <2>2, <2>3, <1>4, <1>5 DEF Unpriced, Windows
<1>8. CASE previous # <<>> /\ base.failure_id \notin {<<>>, <<id>>}
  <2>. DEFINE w == Priced(doubtful)
  <2>1. WindowSound(w) /\ w.pending = base.pending /\ w.cost = window_cost(doubtful)
    BY <1>6, PricedSound
  <2>2. key \in DOMAIN b.windows /\ base = b.windows[key]
    BY <1>4, <1>8
  <2>3. window_cost(doubtful) <= base.cost
    <3>1. WindowSound(base)
      BY <2>2, <1>1 DEF Sound, Exact
    <3>2. /\ doubtful.attempts = base.attempts /\ doubtful.failure_id = base.failure_id
          /\ doubtful.ambiguous = TRUE
      BY <1>5 DEF Windows
    <3>3. base.cost = window_cost(base) /\ window_cost(base) \in Nat /\ window_cost(doubtful) \in Nat
      BY <3>1, <1>4, <1>6, PricedSound DEF WindowSound
    <3>4. /\ Cardinality(base.attempts) \in Nat
          /\ Cardinality(DOMAIN base.failure_id) \in Nat
      <4>1. IsFiniteSet(base.attempts) /\ base.failure_id \in Seq(Ids)
        BY <1>4, <1>5 DEF Unpriced, Windows
      <4>2. DOMAIN base.failure_id = 1 .. Len(base.failure_id) /\ Len(base.failure_id) \in Nat
        BY <4>1
      <4>. QED BY <4>1, <4>2, IntervalCount, FS_CardinalityType
    <3>. DEFINE n == Cardinality(base.attempts)
                m == Cardinality(DOMAIN base.failure_id)
    <3>5. /\ window_cost(doubtful) = 1 + n + m + 0
          /\ window_cost(base) = 1 + n + m + (IF base.ambiguous THEN 0 ELSE 1)
      <4>. HIDE DEF doubtful
      <4>. QED BY <3>2 DEF window_cost
    <3>. HIDE DEF n, m, doubtful
    <3>. QED BY <3>3, <3>4, <3>5 DEF n, m
  <2>. HIDE DEF w, doubtful
  <2>4. c = [b EXCEPT !.windows = With(b.windows, key, w)]
    BY <1>3, <1>8 DEF w
  <2>5. Sound(c) /\ c.pending = b.pending /\ c.held = b.held /\ c.windows = With(b.windows, key, w)
    BY <2>1, <2>2, <2>4, <1>1, <1>4, StoreWindow
  <2>6. SumFunction(Costs(c.windows)) <= SumFunction(Costs(b.windows))
    <3>1. Table(b.windows, Keys, Windows) /\ Table(c.windows, Keys, Windows)
      BY <1>1, <2>5 DEF Sound, Exact
    <3>2. w \in Windows
      BY <2>1 DEF WindowSound
    <3>3. /\ DOMAIN c.windows = DOMAIN b.windows \cup {key} /\ c.windows[key] = w
          /\ \A k \in DOMAIN b.windows \ {key} : c.windows[k] = b.windows[k]
      <4>1. Stored(b.windows, key, w, c.windows)
        BY <2>5, <3>1, <3>2, TableWith
      <4>. QED BY <4>1 DEF Stored
    <3>4. \A k \in DOMAIN c.windows : c.windows[k].cost <= b.windows[k].cost
      <4>. SUFFICES ASSUME NEW k \in DOMAIN c.windows
                    PROVE  c.windows[k].cost <= b.windows[k].cost
        OBVIOUS
      <4>1. CASE k = key
        BY <4>1, <3>3, <2>1, <2>2, <2>3
      <4>2. CASE k # key
        <5>1. c.windows[k] = b.windows[k] /\ b.windows[k] \in Windows
          BY <4>2, <3>1, <3>3 DEF Table
        <5>. QED BY <5>1, NaturalCosts
      <4>. QED BY <4>1, <4>2
    <3>5. DOMAIN c.windows \subseteq DOMAIN b.windows
      BY <3>3, <2>2
    <3>. QED BY <3>1, <3>4, <3>5, CostsShrink, NaturalCosts
  <2>7. accounted_bytes(c) <= accounted_bytes(b) /\ accounted_bytes(c) \in Nat
    <3>1. /\ accounted_bytes(c) = c.held + SumFunction(Costs(c.windows))
          /\ SumFunction(Costs(c.windows)) \in Nat /\ accounted_bytes(c) \in Nat
      BY <2>5, AccountedType
    <3>2. /\ accounted_bytes(b) = b.held + SumFunction(Costs(b.windows)) /\ b.held \in Nat
          /\ SumFunction(Costs(b.windows)) \in Nat
      BY <1>1, AccountedType
    <3>. QED BY <3>1, <3>2, <2>5, <2>6
  <2>. QED BY <2>5, <2>7, <1>1, <1>2, BudgetAssumption
<1>9. CASE c = b
  BY <1>9, <1>1, <1>2
<1>10. CASE /\ ~(previous = <<>> /\ Cardinality(DOMAIN b.windows) >= MAX_WINDOWS)
            /\ ~(AccountedWith(b, key, value) > MAX_ACCOUNTED)
            /\ c = [b EXCEPT !.windows = With(b.windows, key, value)]
  <2>1. WindowSound(value) /\ value.pending = base.pending
    BY <1>7, PricedSound
  <2>. HIDE DEF value
  <2>2. key \in DOMAIN b.windows \/ ~(Cardinality(DOMAIN b.windows) >= MAX_WINDOWS)
    BY <1>4, <1>10
  <2>3. Sound(c) /\ c.pending = b.pending
    BY <2>1, <2>2, <1>1, <1>4, <1>10, StoreWindow
  <2>4. ~(accounted_bytes(c) > MAX_ACCOUNTED)
    BY <1>10 DEF AccountedWith
  <2>5. accounted_bytes(c) \in Nat /\ MAX_ACCOUNTED \in Nat
    BY <2>3, AccountedType, BudgetAssumption
  <2>6. accounted_bytes(c) <= MAX_ACCOUNTED
    BY <2>4, <2>5
  <2>. QED BY <2>3, <2>6, <1>1
<1>. QED BY <1>3, <1>8, <1>9, <1>10

(* The charges Q are P and one for an event: its size and its window.      *)
Booked(P, id, o, size, Q) ==
    /\ id \in DOMAIN Q /\ DOMAIN Q \subseteq DOMAIN P \cup {id}
    /\ Q[id].scope = o.key /\ Q[id].size = size
    /\ \A e \in DOMAIN Q \ {id} : Q[e] = P[e]

(* A new charge and its window, priced and counted together.               *)
Chargeable(b, id, key, w, entry) ==
    /\ Sound(b) /\ id \in Ids /\ id \notin DOMAIN b.pending /\ key \in Keys
    /\ WindowSound(w) /\ w.pending = Cardinality(ChargedTo(b.pending, key)) + 1
    /\ key \in DOMAIN b.windows \/ ~(Cardinality(DOMAIN b.windows) >= MAX_WINDOWS)
    /\ entry \in Charges /\ entry.scope = key /\ entry.cost = entry.size + IdBytes(id) + 1

Charged(b, id, key, w, entry, c) ==
    c = [b EXCEPT !.windows = With(b.windows, key, w), !.held = b.held + entry.cost,
                  !.pending = With(b.pending, id, entry)]

(* The books stay exact when both are written.                             *)
LEMMA ChargeSound ==
    ASSUME NEW b, NEW id, NEW key, NEW w, NEW entry, Chargeable(b, id, key, w, entry),
           NEW c, Charged(b, id, key, w, entry, c)
    PROVE  /\ Sound(c) /\ c.pending = With(b.pending, id, entry)
           /\ c.held = b.held + entry.cost /\ c.windows = With(b.windows, key, w)
<1>. USE DEF Chargeable
<1>. DEFINE V == With(b.windows, key, w)
            Q == With(b.pending, id, entry)
            h == b.held + entry.cost
<1>1. /\ Exact(b.windows, b.pending, b.held)
      /\ b = [windows |-> b.windows, pending |-> b.pending, held |-> b.held]
  BY DEF Sound
<1>2. c = [windows |-> V, pending |-> Q, held |-> h]
  <2>1. c = [b EXCEPT !.windows = V, !.held = h, !.pending = Q]
    BY DEF Charged
  <2>. HIDE DEF V, Q, h
  <2>. QED BY <1>1, <2>1
<1>3. Table(b.windows, Keys, Windows) /\ w \in Windows /\ Table(b.pending, Ids, Charges)
  BY <1>1 DEF Exact, WindowSound
<1>4. /\ Table(V, Keys, Windows) /\ DOMAIN V = DOMAIN b.windows \cup {key}
      /\ V[key] = w /\ \A k \in DOMAIN b.windows \ {key} : V[k] = b.windows[k]
  <2>1. Table(V, Keys, Windows) /\ Stored(b.windows, key, w, V)
    BY <1>3, TableWith
  <2>. QED BY <2>1 DEF Stored
<1>5. /\ Table(Q, Ids, Charges) /\ DOMAIN Q = DOMAIN b.pending \cup {id}
      /\ Q[id] = entry /\ \A e \in DOMAIN b.pending : Q[e] = b.pending[e]
  <2>1. Table(Q, Ids, Charges) /\ Stored(b.pending, id, entry, Q)
    BY <1>3, TableWith
  <2>. QED BY <2>1 DEF Stored
<1>6. h = SumFunction(Costs(Q))
  <2>1. SumFunction(Costs(Q)) = SumFunction(Costs(b.pending)) + entry.cost
    BY <1>3, CostsWith, NaturalCosts
  <2>. QED BY <2>1, <1>1 DEF Exact
<1>7. Cardinality(DOMAIN V) <= MAX_WINDOWS
  BY WindowsCount
<1>. HIDE DEF V, Q, h
<1>8. ASSUME NEW k \in DOMAIN V
      PROVE  WindowSound(V[k]) /\ V[k].pending = Cardinality(ChargedTo(Q, k))
  <2>1. CASE k = key
    <3>1. ChargedTo(Q, key) = ChargedTo(b.pending, key) \cup {id} /\ id \notin ChargedTo(b.pending, key)
      BY <1>5 DEF ChargedTo
    <3>2. IsFiniteSet(ChargedTo(b.pending, key))
      BY <1>3, ChargedFinite
    <3>3. Cardinality(ChargedTo(Q, key)) = Cardinality(ChargedTo(b.pending, key)) + 1
      <4>. DEFINE C == ChargedTo(b.pending, key)
      <4>1. IsFiniteSet(C) /\ id \notin C /\ ChargedTo(Q, key) = C \cup {id}
        BY <3>1, <3>2
      <4>. HIDE DEF C
      <4>2. Cardinality(C \cup {id}) = Cardinality(C) + 1
        BY <4>1, FS_AddElement
      <4>. QED BY <4>1, <4>2 DEF C
    <3>. QED BY <2>1, <3>3, <1>4
  <2>2. CASE k # key
    <3>1. k \in DOMAIN b.windows /\ V[k] = b.windows[k]
      BY <2>2, <1>4
    <3>2. ChargedTo(Q, k) = ChargedTo(b.pending, k)
      BY <2>2, <1>5 DEF ChargedTo
    <3>. QED BY <3>1, <3>2, <1>1 DEF Exact
  <2>. QED BY <2>1, <2>2
<1>9. ASSUME NEW e \in DOMAIN Q
      PROVE  Q[e].scope \in DOMAIN V /\ Q[e].cost = Q[e].size + IdBytes(e) + 1
  <2>1. CASE e = id
    BY <2>1, <1>4, <1>5
  <2>2. CASE e # id
    BY <2>2, <1>1, <1>4, <1>5 DEF Exact
  <2>. QED BY <2>1, <2>2
<1>10. Exact(V, Q, h)
  BY <1>4, <1>5, <1>6, <1>7, <1>8, <1>9 DEF Exact
<1>. QED BY <1>2, <1>10 DEF Sound, V, Q, h

(* reserve charges an event to its window, or refuses it.                  *)
LEMMA ReserveSound ==
    ASSUME NEW budget_, Sound(budget_), accounted_bytes(budget_) <= MAX_ACCOUNTED,
           NEW id \in Ids, NEW o \in Observations, NEW size \in Nat, NEW t \in Nat, NEW r,
           r = reserve(budget_, id, o, size, t)
    PROVE  /\ Sound(r.budget) /\ accounted_bytes(r.budget) <= MAX_ACCOUNTED
           /\ ~r.ok => r.budget.pending = budget_.pending
           /\ r.ok => id \notin DOMAIN budget_.pending /\ Booked(budget_.pending, id, o, size, r.budget.pending)
<1>. DEFINE b == prune(budget_, t)
            key == o.key
            previous == Get(b.windows, key)
            base == IF previous = <<>> THEN Window(t) ELSE previous[1]
            since == IF base.failure_at = <<>> THEN base.starts ELSE base.failure_at[1]
            grown == [base EXCEPT !.attempts = @ \cup {o.attempt},
                                  !.pending = @ + 1, !.observations = @ + 1]
            value == Priced(grown)
            cost == size + IdBytes(id) + 1
            entry == [scope |-> key, attempt |-> o.attempt, size |-> size, cost |-> cost]
            charged == [b EXCEPT !.windows = With(b.windows, key, value), !.held = b.held + cost,
                                 !.pending = With(b.pending, id, entry)]
            full == \/ previous = <<>> /\ Cardinality(DOMAIN b.windows) >= MAX_WINDOWS
                    \/ base.ambiguous
                    \/ t < base.starts \/ t > since + OBSERVED_FOR
                    \/ base.observations >= MAX_OBSERVATIONS
                    \/ Cardinality(value.attempts) > MAX_ATTEMPTS
                    \/ AccountedWith(b, key, value) + cost > MAX_ACCOUNTED
<1>1. Sound(b) /\ b.pending = budget_.pending /\ accounted_bytes(b) <= accounted_bytes(budget_)
  BY PruneSound
<1>2. accounted_bytes(b) <= MAX_ACCOUNTED
  <2>1. accounted_bytes(b) \in Nat /\ accounted_bytes(budget_) \in Nat /\ MAX_ACCOUNTED \in Nat
    BY <1>1, AccountedType, BudgetAssumption
  <2>. HIDE DEF b
  <2>. QED BY <2>1, <1>1
<1>3. r = IF id \in DOMAIN budget_.pending THEN Refused(budget_)
          ELSE IF full THEN Refused(b) ELSE [ok |-> TRUE, budget |-> charged]
  BY Zenon DEF reserve
<1>4. key \in Keys /\ o.attempt \in Attempts
  BY Zenon DEF Keys, Attempts
<1>. HIDE DEF b
<1>5. /\ Unpriced(base) /\ base.pending = Cardinality(ChargedTo(b.pending, key))
      /\ previous = <<>> <=> key \notin DOMAIN b.windows
  BY <1>1, <1>4, BaseWindow
<1>6. CASE id \in DOMAIN budget_.pending
  BY <1>3, <1>6 DEF Refused
<1>7. CASE id \notin DOMAIN budget_.pending /\ full
  <2>. HIDE DEF full
  <2>1. r = Refused(b)
    BY <1>3, <1>7
  <2>. QED BY <2>1, <1>1, <1>2 DEF Refused
<1>8. CASE id \notin DOMAIN budget_.pending /\ ~full
  <2>1. r = [ok |-> TRUE, budget |-> charged]
    <3>. HIDE DEF full, charged
    <3>. QED BY <1>3, <1>8
  <2>2. /\ ~(previous = <<>> /\ Cardinality(DOMAIN b.windows) >= MAX_WINDOWS)
        /\ ~(base.observations >= MAX_OBSERVATIONS)
        /\ ~(Cardinality(value.attempts) > MAX_ATTEMPTS)
        /\ ~(AccountedWith(b, key, value) + cost > MAX_ACCOUNTED)
    <3>. HIDE DEF previous, base, value, cost, since, key
    <3>. QED BY <1>8, Zenon
  <2>. HIDE DEF base, previous, full, key
  <2>3. /\ base \in Windows /\ IsFiniteSet(base.attempts) /\ base.observations <= MAX_OBSERVATIONS
        /\ base.pending \in Nat
    BY <1>5 DEF Unpriced, Windows
  <2>4. /\ grown \in Windows /\ grown.pending = base.pending + 1
        /\ grown.observations = base.observations + 1 /\ grown.attempts = base.attempts \cup {o.attempt}
    <3>1. /\ base.attempts \cup {o.attempt} \in SUBSET Attempts /\ base.observations \in Nat
          /\ base.pending + 1 \in Nat /\ base.observations + 1 \in Nat
      BY <2>3, <1>4 DEF Windows
    <3>. QED BY <3>1, <2>3 DEF Windows
  <2>5. IsFiniteSet(grown.attempts) /\ Cardinality(grown.attempts) \in Nat
    BY <2>3, <2>4, FS_AddElement, FS_CardinalityType
  <2>6. value.attempts = grown.attempts
    <3>1. value = [grown EXCEPT !.cost = window_cost(grown)]
      BY DEF Priced
    <3>. HIDE DEF grown, value
    <3>. QED BY <3>1, <2>4 DEF Windows
  <2>. HIDE DEF grown
  <2>7. Unpriced(grown)
    <3>1. Cardinality(grown.attempts) <= MAX_ATTEMPTS
      BY <2>2, <2>5, <2>6, BudgetAssumption
    <3>2. grown.observations <= MAX_OBSERVATIONS
      <4>1. base.observations \in Nat
        BY <2>3 DEF Windows
      <4>. QED BY <4>1, <2>2, <2>4, BudgetAssumption
    <3>. QED BY <3>1, <3>2, <2>4, <2>5 DEF Unpriced
  <2>8. WindowSound(value) /\ value.pending = Cardinality(ChargedTo(b.pending, key)) + 1
    BY <2>4, <2>7, <1>5, PricedSound
  <2>. HIDE DEF value
  <2>9. IdBytes(id) \in Nat /\ cost \in Nat
    BY AdmissionAssumption
  <2>10. entry \in Charges /\ entry.scope = key /\ entry.cost = entry.size + IdBytes(id) + 1
         /\ entry.size = size /\ entry.cost = cost
    <3>. HIDE DEF cost
    <3>1. entry \in Charges
      BY <2>9, <1>4 DEF Charges
    <3>2. entry.scope = key /\ entry.size = size /\ entry.cost = cost
      OBVIOUS
    <3>. QED BY <3>1, <3>2 DEF cost
  <2>. HIDE DEF entry, cost
  <2>11. key \in DOMAIN b.windows \/ ~(Cardinality(DOMAIN b.windows) >= MAX_WINDOWS)
    BY <1>5, <2>2
  <2>12. Charged(b, id, key, value, entry, charged)
    BY <2>10 DEF Charged
  <2>. HIDE DEF charged
  <2>13. /\ Sound(charged) /\ charged.pending = With(b.pending, id, entry)
         /\ charged.held = b.held + entry.cost /\ charged.windows = With(b.windows, key, value)
    <3>1. Chargeable(b, id, key, value, entry)
      BY <1>1, <1>4, <1>8, <2>8, <2>10, <2>11 DEF Chargeable
    <3>. QED BY <3>1, <2>12, ChargeSound
  <2>14. accounted_bytes(charged) <= MAX_ACCOUNTED
    <3>. DEFINE n == SumFunction(Costs(charged.windows))
                a == [b EXCEPT !.windows = With(b.windows, key, value)]
    <3>1. accounted_bytes(charged) = charged.held + n /\ accounted_bytes(charged) \in Nat
      BY <2>13, AccountedType
    <3>2. AccountedWith(b, key, value) = accounted_bytes(a)
      BY DEF AccountedWith
    <3>3. a.windows = charged.windows /\ a.held = b.held
      <4>1. b = [windows |-> b.windows, pending |-> b.pending, held |-> b.held]
        BY <1>1 DEF Sound
      <4>. QED BY <4>1, <2>13
    <3>. HIDE DEF a
    <3>4. accounted_bytes(a) = b.held + n
      BY <3>3 DEF accounted_bytes
    <3>5. b.held \in Nat /\ n \in Nat /\ cost \in Nat /\ MAX_ACCOUNTED \in Nat
      BY <1>1, <2>13, <2>9, AccountedType, BudgetAssumption
    <3>6. ~(b.held + n + cost > MAX_ACCOUNTED)
      BY <2>2, <3>2, <3>4
    <3>. HIDE DEF n
    <3>. QED BY <3>1, <3>5, <3>6, <2>10, <2>13
  <2>15. Booked(budget_.pending, id, o, size, charged.pending)
    <3>1. Stored(b.pending, id, entry, With(b.pending, id, entry))
      BY DEF With, Stored
    <3>. QED BY <3>1, <1>1, <2>10, <2>13 DEF Stored, Booked, key
  <2>. QED BY <2>1, <2>13, <2>14, <2>15, <1>8
<1>. QED BY <1>6, <1>7, <1>8

(* The charges Q are those of P outside of X, or fewer.                    *)
Fewer(P, X, Q) ==
    DOMAIN Q \subseteq DOMAIN P \ X /\ \A e \in DOMAIN Q : Q[e] = P[e]

(* An event keeps its window and gets another id, another size or both.    *)
Rewritable(b, original, id, entry) ==
    /\ Sound(b) /\ original \in DOMAIN b.pending /\ id \in Ids
    /\ id = original \/ id \notin DOMAIN b.pending
    /\ entry \in Charges /\ entry.scope = b.pending[original].scope
    /\ entry.cost = entry.size + IdBytes(id) + 1

Rewritten(b, original, id, entry, c) ==
    c = [windows |-> b.windows,
         pending |-> With(Restrict(b.pending, DOMAIN b.pending \ {original}), id, entry),
         held |-> b.held - b.pending[original].cost + entry.cost]

(* The sum, the windows' counts and their limits are as exact as before.   *)
LEMMA RewrittenSound ==
    ASSUME NEW b, NEW original, NEW id, NEW entry, NEW c,
           Rewritable(b, original, id, entry), Rewritten(b, original, id, entry, c)
    PROVE  /\ Sound(c) /\ c.windows = b.windows
           /\ DOMAIN c.pending = (DOMAIN b.pending \ {original}) \cup {id} /\ c.pending[id] = entry
           /\ \A e \in DOMAIN b.pending \ {original} : c.pending[e] = b.pending[e]
<1>. DEFINE P == b.pending
            R == Restrict(P, DOMAIN P \ {original})
            Q == With(R, id, entry)
            h == b.held - P[original].cost + entry.cost
            old == P[original]
<1>1. Exact(b.windows, P, b.held) /\ Table(P, Ids, Charges) /\ b.held = SumFunction(Costs(P))
  BY DEF Rewritable, Sound, Exact
<1>2. /\ original \in DOMAIN P /\ id \in Ids /\ entry \in Charges /\ entry.scope = P[original].scope
      /\ (id = original \/ id \notin DOMAIN P) /\ entry.cost = entry.size + IdBytes(id) + 1
  BY DEF Rewritable
<1>3. c.windows = b.windows /\ c.pending = Q /\ c.held = h
      /\ c = [windows |-> b.windows, pending |-> Q, held |-> h]
  BY DEF Rewritten
<1>4. /\ Table(R, Ids, Charges) /\ DOMAIN R = DOMAIN P \ {original} /\ \A e \in DOMAIN R : R[e] = P[e]
  <2>1. DOMAIN P \ {original} \in SUBSET DOMAIN P
    OBVIOUS
  <2>. QED BY <1>1, <2>1, TableRestrict
<1>5. id \notin DOMAIN R /\ original \notin DOMAIN R /\ original \in Ids /\ old \in Charges
  BY <1>1, <1>2, <1>4 DEF Table
<1>6. P = With(R, original, old)
  <2>1. DOMAIN P = DOMAIN R \cup {original}
    BY <1>2, <1>4
  <2>2. P = [y \in DOMAIN P |-> P[y]]
    BY <1>1 DEF Table
  <2>3. \A y \in DOMAIN P : P[y] = IF y = original THEN old ELSE R[y]
    BY <1>2, <1>4
  <2>. HIDE DEF R, old, P
  <2>. QED BY <2>1, <2>2, <2>3 DEF With
<1>7. SumFunction(Costs(P)) = SumFunction(Costs(R)) + old.cost
  <2>1. SumFunction(Costs(With(R, original, old))) = SumFunction(Costs(R)) + old.cost
    <3>. HIDE DEF R, old
    <3>. QED BY <1>4, <1>5, CostsWith, NaturalCosts
  <2>. QED BY <2>1, <1>6
<1>8. SumFunction(Costs(Q)) = SumFunction(Costs(R)) + entry.cost
  <2>. HIDE DEF R
  <2>. QED BY <1>2, <1>4, <1>5, CostsWith, NaturalCosts
<1>9. h = SumFunction(Costs(Q))
  <2>1. SumFunction(Costs(R)) \in Nat /\ old.cost \in Nat /\ entry.cost \in Nat
    BY <1>2, <1>4, <1>5, CostsType, NaturalCosts
  <2>. HIDE DEF R, Q, P
  <2>. QED BY <2>1, <1>1, <1>7, <1>8 DEF P
<1>10. /\ Table(Q, Ids, Charges) /\ DOMAIN Q = DOMAIN R \cup {id}
       /\ Q[id] = entry /\ \A e \in DOMAIN R : Q[e] = R[e]
  <2>. HIDE DEF R
  <2>1. Table(Q, Ids, Charges) /\ Stored(R, id, entry, Q)
    BY <1>2, <1>4, TableWith
  <2>. QED BY <2>1, <1>5 DEF Stored
<1>. HIDE DEF R, Q, h, old
<1>11. ASSUME NEW k \in DOMAIN b.windows
       PROVE  Cardinality(ChargedTo(Q, k)) = Cardinality(ChargedTo(P, k))
  <2>1. CASE k = P[original].scope
    <3>. DEFINE A == ChargedTo(R, k)
    <3>1. /\ ChargedTo(P, k) = A \cup {original} /\ original \notin A
      BY <2>1, <1>2, <1>4, <1>5 DEF ChargedTo
    <3>2. /\ ChargedTo(Q, k) = A \cup {id} /\ id \notin A
      BY <2>1, <1>2, <1>5, <1>10 DEF ChargedTo
    <3>3. IsFiniteSet(A)
      BY <1>4, ChargedFinite
    <3>. HIDE DEF A
    <3>4. Cardinality(A \cup {original}) = Cardinality(A) + 1 /\ Cardinality(A \cup {id}) = Cardinality(A) + 1
      BY <3>1, <3>2, <3>3, FS_AddElement
    <3>. QED BY <3>1, <3>2, <3>4
  <2>2. CASE k # P[original].scope
    <3>1. ChargedTo(Q, k) = ChargedTo(P, k)
      BY <2>2, <1>2, <1>4, <1>5, <1>10 DEF ChargedTo
    <3>. QED BY <3>1
  <2>. QED BY <2>1, <2>2
<1>12. ASSUME NEW e \in DOMAIN Q
       PROVE  Q[e].scope \in DOMAIN b.windows /\ Q[e].cost = Q[e].size + IdBytes(e) + 1
  <2>1. CASE e = id
    BY <2>1, <1>1, <1>2, <1>10 DEF Exact
  <2>2. CASE e # id
    <3>1. e \in DOMAIN P /\ Q[e] = P[e]
      BY <2>2, <1>4, <1>10
    <3>. QED BY <3>1, <1>1 DEF Exact
  <2>. QED BY <2>1, <2>2
<1>13. Exact(b.windows, Q, h)
  BY <1>1, <1>9, <1>10, <1>11, <1>12 DEF Exact
<1>14. Sound(c)
  BY <1>3, <1>13 DEF Sound
<1>. QED BY <1>3, <1>4, <1>10, <1>14

(* Fewer charges in no dearer windows stay within the limit.               *)
LEMMA FewerCost ==
    ASSUME NEW b, Sound(b), accounted_bytes(b) <= MAX_ACCOUNTED, NEW d, Sound(d), NEW X,
           Fewer(b.pending, X, d.pending),
           SumFunction(Costs(d.windows)) <= SumFunction(Costs(b.windows))
    PROVE  accounted_bytes(d) <= MAX_ACCOUNTED
<1>1. Table(b.pending, Ids, Charges) /\ Table(d.pending, Ids, Charges)
  BY DEF Sound, Exact
<1>2. SumFunction(Costs(d.pending)) <= SumFunction(Costs(b.pending))
  <2>1. DOMAIN d.pending \subseteq DOMAIN b.pending
    BY DEF Fewer
  <2>2. \A e \in DOMAIN d.pending : d.pending[e].cost <= b.pending[e].cost
    <3>1. \A e \in DOMAIN d.pending : d.pending[e] = b.pending[e] /\ d.pending[e] \in Charges
      BY <1>1 DEF Fewer, Table
    <3>. QED BY <3>1, NaturalCosts
  <2>. QED BY <2>1, <2>2, <1>1, CostsShrink, NaturalCosts
<1>3. d.held = SumFunction(Costs(d.pending)) /\ b.held = SumFunction(Costs(b.pending))
  BY DEF Sound, Exact
<1>4. /\ accounted_bytes(d) = d.held + SumFunction(Costs(d.windows)) /\ d.held \in Nat
      /\ SumFunction(Costs(d.windows)) \in Nat
  BY AccountedType
<1>5. /\ accounted_bytes(b) = b.held + SumFunction(Costs(b.windows)) /\ b.held \in Nat
      /\ SumFunction(Costs(b.windows)) \in Nat
  BY AccountedType
<1>. QED BY <1>2, <1>3, <1>4, <1>5, BudgetAssumption

(* replace moves the charge of an event to what the hook made of it, or    *)
(* gives it back.                                                          *)
LEMMA ReplaceSound ==
    ASSUME NEW b, Sound(b), accounted_bytes(b) <= MAX_ACCOUNTED,
           NEW original, NEW id \in Ids, NEW o \in Observations, NEW size \in Nat, NEW t \in Nat, NEW r,
           r = replace(b, original, id, o, size, t)
    PROVE  /\ Sound(r.budget) /\ accounted_bytes(r.budget) <= MAX_ACCOUNTED
           /\ ~r.ok => Fewer(b.pending, {original}, r.budget.pending)
           /\ r.ok => Booked(Restrict(b.pending, DOMAIN b.pending \ {original}), id, o, size, r.budget.pending)
<1>. DEFINE P == b.pending
            entry == Get(P, original)
            same == entry # <<>> /\ entry[1].scope = o.key /\ entry[1].attempt = o.attempt
            renamed == IF id = original THEN b ELSE Renamed(b, original, id)
            adjusted == adjust(renamed, id, size)
            released == release(b, {original})
<1>1. r = IF ~same THEN reserve(released, id, o, size, t)
          ELSE IF id # original /\ id \in DOMAIN P THEN Refused(released)
          ELSE IF adjusted.ok /\ eligible(adjusted.budget, id, o) THEN adjusted
          ELSE Refused(release(adjusted.budget, {id}))
  BY Zenon DEF replace
<1>2. /\ Sound(released) /\ released.pending = Restrict(P, DOMAIN P \ {original})
      /\ accounted_bytes(released) <= accounted_bytes(b)
  BY ReleaseSound
<1>3. accounted_bytes(released) <= MAX_ACCOUNTED
  <2>1. accounted_bytes(released) \in Nat /\ accounted_bytes(b) \in Nat /\ MAX_ACCOUNTED \in Nat
    BY <1>2, AccountedType, BudgetAssumption
  <2>. HIDE DEF released
  <2>. QED BY <2>1, <1>2
<1>. HIDE DEF released
<1>4. Fewer(P, {original}, released.pending)
  BY <1>2 DEF Fewer, Restrict
<1>5. CASE ~same
  <2>1. r = reserve(released, id, o, size, t)
    <3>. HIDE DEF same, adjusted
    <3>. QED BY <1>1, <1>5
  <2>2. /\ Sound(r.budget) /\ accounted_bytes(r.budget) <= MAX_ACCOUNTED
        /\ ~r.ok => r.budget.pending = released.pending
        /\ r.ok => Booked(released.pending, id, o, size, r.budget.pending)
    BY <1>2, <1>3, <2>1, ReserveSound
  <2>. QED BY <2>2, <1>2, <1>4
<1>6. CASE same /\ id # original /\ id \in DOMAIN P
  <2>1. r = Refused(released)
    <3>. HIDE DEF same, adjusted
    <3>. QED BY <1>1, <1>6
  <2>. QED BY <2>1, <1>2, <1>3, <1>4 DEF Refused
<1>7. CASE same /\ ~(id # original /\ id \in DOMAIN P)
  <2>. DEFINE old == P[original]
  <2>1. original \in DOMAIN P /\ old.scope = o.key
    BY <1>7 DEF Get
  <2>2. r = IF adjusted.ok /\ eligible(adjusted.budget, id, o) THEN adjusted
            ELSE Refused(release(adjusted.budget, {id}))
    <3>. HIDE DEF same, adjusted
    <3>. QED BY <1>1, <1>7
  <2>. HIDE DEF same, entry
  <2>3. /\ b = [windows |-> b.windows, pending |-> P, held |-> b.held] /\ Table(P, Ids, Charges)
        /\ original \in Ids /\ old \in Charges /\ old.cost = old.size + IdBytes(original) + 1
        /\ b.held \in Nat
    BY <2>1, AccountedType DEF Sound, Exact, Table
  <2>4. IdBytes(id) \in Nat /\ IdBytes(original) \in Nat /\ old.size \in Nat /\ old.cost \in Nat
    BY <2>3, AdmissionAssumption DEF Charges
  <2>. DEFINE moved == [old EXCEPT !.cost = @ + (IdBytes(id) - IdBytes(original))]
  <2>5. /\ moved \in Charges /\ moved.scope = old.scope /\ moved.size = old.size
        /\ moved.cost = moved.size + IdBytes(id) + 1
        /\ moved.cost = old.cost + (IdBytes(id) - IdBytes(original))
    <3>1. /\ moved.scope = old.scope /\ moved.size = old.size /\ moved.attempt = old.attempt
          /\ moved.cost = old.cost + (IdBytes(id) - IdBytes(original))
      <4>. HIDE DEF old
      <4>. QED BY <2>3 DEF Charges
    <3>2. old.cost + (IdBytes(id) - IdBytes(original)) = old.size + IdBytes(id) + 1
          /\ old.size + IdBytes(id) + 1 \in Nat
      <4>. HIDE DEF old
      <4>. QED BY <2>3, <2>4
    <3>3. moved \in Charges
      <4>. DEFINE n == old.cost + (IdBytes(id) - IdBytes(original))
      <4>1. n \in Nat /\ moved = [old EXCEPT !.cost = n]
        BY <3>2
      <4>. HIDE DEF old, n, moved
      <4>. QED BY <4>1, <2>3 DEF Charges
    <3>. HIDE DEF old, moved
    <3>. QED BY <3>1, <3>2, <3>3
  <2>6. /\ Sound(renamed) /\ renamed.windows = b.windows
        /\ DOMAIN renamed.pending = (DOMAIN P \ {original}) \cup {id}
        /\ renamed.pending[id].scope = old.scope /\ renamed.pending[id].size = old.size
        /\ \A e \in DOMAIN P \ {original} : e # id => renamed.pending[e] = P[e]
        /\ id \in DOMAIN renamed.pending
        /\ renamed.held = b.held - old.cost + renamed.pending[id].cost
    <3>1. CASE id = original
      <4>1. renamed = b
        BY <3>1
      <4>2. DOMAIN P = (DOMAIN P \ {original}) \cup {id} /\ b.held = b.held - old.cost + P[id].cost
        <5>. HIDE DEF P
        <5>. QED BY <3>1, <2>1, <2>3, <2>4
      <4>. HIDE DEF renamed
      <4>. QED BY <4>1, <4>2, <3>1, <2>1
    <3>2. CASE id # original
      <4>1. id \notin DOMAIN P
        BY <3>2, <1>7
      <4>2. Rewritable(b, original, id, moved)
        <5>. HIDE DEF moved
        <5>. QED BY <4>1, <2>1, <2>5 DEF Rewritable
      <4>3. renamed = [b EXCEPT !.pending = With(Restrict(P, DOMAIN P \ {original}), id, moved),
                                !.held = b.held + (IdBytes(id) - IdBytes(original))]
        BY <3>2 DEF Renamed
      <4>4. b.held - old.cost + moved.cost = b.held + (IdBytes(id) - IdBytes(original))
        <5>. HIDE DEF old, moved
        <5>. QED BY <2>3, <2>4, <2>5
      <4>5. Rewritten(b, original, id, moved, renamed) /\ renamed.held = b.held - old.cost + moved.cost
        <5>. DEFINE Q == With(Restrict(P, DOMAIN P \ {original}), id, moved)
                    h == b.held + (IdBytes(id) - IdBytes(original))
        <5>1. renamed = [b EXCEPT !.pending = Q, !.held = h]
          BY <4>3
        <5>. HIDE DEF Q, h, renamed, moved
        <5>2. renamed = [windows |-> b.windows, pending |-> Q, held |-> h] /\ renamed.held = h
          BY <5>1, <2>3
        <5>. QED BY <5>2, <4>4 DEF Rewritten, Q, h
      <4>. HIDE DEF renamed, moved
      <4>6. /\ Sound(renamed) /\ renamed.windows = b.windows
            /\ DOMAIN renamed.pending = (DOMAIN P \ {original}) \cup {id}
            /\ renamed.pending[id] = moved
            /\ \A e \in DOMAIN P \ {original} : renamed.pending[e] = P[e]
        BY <4>2, <4>5, RewrittenSound
      <4>. QED BY <4>5, <4>6, <2>5
    <3>. QED BY <3>1, <3>2
  <2>. HIDE DEF renamed, moved
  <2>. DEFINE had == renamed.pending[id]
              delta == size - had.size
              resized == [had EXCEPT !.size = size, !.cost = @ + delta]
              grown == [renamed EXCEPT !.held = renamed.held + delta,
                                       !.pending = With(renamed.pending, id, resized)]
              over == id \notin DOMAIN renamed.pending \/ accounted_bytes(renamed) + delta > MAX_ACCOUNTED
  <2>7. adjusted = IF over THEN Refused(renamed) ELSE [ok |-> TRUE, budget |-> grown]
    BY Zenon DEF adjust
  <2>8. /\ had \in Charges /\ had.size \in Nat /\ had.cost \in Nat
        /\ had.cost = had.size + IdBytes(id) + 1
        /\ renamed = [windows |-> renamed.windows, pending |-> renamed.pending, held |-> renamed.held]
        /\ renamed.held \in Nat /\ Table(renamed.pending, Ids, Charges)
    <3>1. Exact(renamed.windows, renamed.pending, renamed.held) /\ renamed.held \in Nat
          /\ renamed = [windows |-> renamed.windows, pending |-> renamed.pending, held |-> renamed.held]
      BY <2>6, AccountedType DEF Sound
    <3>2. Table(renamed.pending, Ids, Charges) /\ had.cost = had.size + IdBytes(id) + 1
      BY <3>1, <2>6 DEF Exact
    <3>3. had \in Charges
      BY <3>2, <2>6 DEF Table
    <3>. QED BY <3>1, <3>2, <3>3 DEF Charges
  <2>9. /\ resized \in Charges /\ resized.scope = had.scope /\ resized.size = size
        /\ resized.cost = size + IdBytes(id) + 1 /\ resized.cost = had.cost + delta
    <3>1. had.cost + delta = size + IdBytes(id) + 1 /\ size + IdBytes(id) + 1 \in Nat
      <4>. HIDE DEF had
      <4>. QED BY <2>4, <2>8
    <3>. DEFINE n == had.cost + delta
    <3>2. n \in Nat /\ resized = [had EXCEPT !.size = size, !.cost = n]
      BY <3>1
    <3>. HIDE DEF n, had, resized
    <3>3. resized \in Charges /\ resized.scope = had.scope /\ resized.size = size /\ resized.cost = n
      BY <3>2, <2>8 DEF Charges
    <3>. QED BY <3>1, <3>3 DEF n
  <2>10. Rewritable(renamed, id, id, resized)
    <3>. HIDE DEF resized
    <3>. QED BY <2>6, <2>9 DEF Rewritable, had
  <2>11. Rewritten(renamed, id, id, resized, grown) /\ grown.held = renamed.held + delta
    <3>. DEFINE Q == With(renamed.pending, id, resized)
                h == renamed.held + delta
    <3>1. h = renamed.held - had.cost + resized.cost
      <4>1. delta \in Int
        <5>. HIDE DEF had
        <5>. QED BY <2>8
      <4>. HIDE DEF had, resized, delta
      <4>. QED BY <4>1, <2>8, <2>9
    <3>2. With(Restrict(renamed.pending, DOMAIN renamed.pending \ {id}), id, resized) = Q
      <4>. HIDE DEF resized
      <4>1. (DOMAIN renamed.pending \ {id}) \cup {id} = DOMAIN renamed.pending \cup {id}
        OBVIOUS
      <4>. QED BY <4>1 DEF With, Restrict
    <3>3. grown = [renamed EXCEPT !.held = h, !.pending = Q]
      OBVIOUS
    <3>. HIDE DEF Q, h, grown, resized, had, delta
    <3>4. grown = [windows |-> renamed.windows, pending |-> Q, held |-> h] /\ grown.held = h
      BY <3>3, <2>8
    <3>. QED BY <3>1, <3>2, <3>4 DEF Rewritten, h, had
  <2>. HIDE DEF grown, resized
  <2>12. /\ Sound(grown) /\ grown.windows = renamed.windows
         /\ DOMAIN grown.pending = (DOMAIN renamed.pending \ {id}) \cup {id}
         /\ grown.pending[id] = resized
         /\ \A e \in DOMAIN renamed.pending \ {id} : grown.pending[e] = renamed.pending[e]
    BY <2>10, <2>11, RewrittenSound
  <2>13. ASSUME NEW a, Sound(a), a.windows = b.windows, DOMAIN a.pending = (DOMAIN P \ {original}) \cup {id},
                \A e \in DOMAIN P \ {original} : e # id => a.pending[e] = P[e]
         PROVE  /\ Sound(release(a, {id})) /\ accounted_bytes(release(a, {id})) <= MAX_ACCOUNTED
                /\ Fewer(P, {original}, release(a, {id}).pending)
    <3>. DEFINE d == release(a, {id})
    <3>1. /\ Sound(d) /\ d.pending = Restrict(a.pending, DOMAIN a.pending \ {id})
          /\ SumFunction(Costs(d.windows)) <= SumFunction(Costs(b.windows))
      BY <2>13, ReleaseSound
    <3>. HIDE DEF d
    <3>2. DOMAIN d.pending = DOMAIN a.pending \ {id} /\ \A e \in DOMAIN d.pending : d.pending[e] = a.pending[e]
      BY <3>1 DEF Restrict
    <3>3. Fewer(P, {original}, d.pending)
      BY <2>13, <3>2 DEF Fewer
    <3>4. accounted_bytes(d) <= MAX_ACCOUNTED
      BY <3>1, <3>3, FewerCost
    <3>. QED BY <3>1, <3>3, <3>4 DEF d
  <2>14. CASE over
    <3>1. adjusted = Refused(renamed)
      <4>. HIDE DEF over
      <4>. QED BY <2>7, <2>14
    <3>2. adjusted.budget = renamed /\ ~adjusted.ok
      BY <3>1 DEF Refused
    <3>. HIDE DEF adjusted
    <3>3. r = Refused(release(renamed, {id}))
      BY <2>2, <3>2
    <3>4. /\ Sound(release(renamed, {id})) /\ accounted_bytes(release(renamed, {id})) <= MAX_ACCOUNTED
          /\ Fewer(P, {original}, release(renamed, {id}).pending)
      BY <2>6, <2>13
    <3>. QED BY <3>3, <3>4 DEF Refused
  <2>15. CASE ~over
    <3>1. adjusted = [ok |-> TRUE, budget |-> grown]
      <4>. HIDE DEF over
      <4>. QED BY <2>7, <2>15
    <3>2. adjusted.budget = grown /\ adjusted.ok
      BY <3>1
    <3>. HIDE DEF adjusted
    <3>3. CASE r = adjusted
      <4>1. accounted_bytes(grown) <= MAX_ACCOUNTED
        <5>1. ~(accounted_bytes(renamed) + delta > MAX_ACCOUNTED)
          BY <2>15
        <5>2. /\ accounted_bytes(renamed) = renamed.held + SumFunction(Costs(renamed.windows))
              /\ SumFunction(Costs(renamed.windows)) \in Nat
          BY <2>6, AccountedType
        <5>3. /\ accounted_bytes(grown) = grown.held + SumFunction(Costs(grown.windows))
          BY <2>12, AccountedType
        <5>4. delta \in Int /\ MAX_ACCOUNTED \in Nat
          <6>. HIDE DEF had
          <6>. QED BY <2>8, BudgetAssumption
        <5>. HIDE DEF delta
        <5>. QED BY <5>1, <5>2, <5>3, <5>4, <2>8, <2>11, <2>12
      <4>2. Booked(Restrict(P, DOMAIN P \ {original}), id, o, size, grown.pending)
        <5>. DEFINE F == Restrict(P, DOMAIN P \ {original})
        <5>1. DOMAIN F = DOMAIN P \ {original} /\ \A e \in DOMAIN F : F[e] = P[e]
          BY DEF Restrict
        <5>. HIDE DEF F
        <5>2. grown.pending[id].scope = o.key /\ grown.pending[id].size = size
          BY <2>1, <2>6, <2>9, <2>12
        <5>3. id \in DOMAIN grown.pending /\ DOMAIN grown.pending \subseteq DOMAIN F \cup {id}
          BY <5>1, <2>6, <2>12
        <5>4. \A e \in DOMAIN grown.pending \ {id} : grown.pending[e] = F[e]
          BY <5>1, <2>6, <2>12
        <5>5. Booked(F, id, o, size, grown.pending)
          BY <5>2, <5>3, <5>4 DEF Booked
        <5>. QED BY <5>5 DEF F
      <4>. QED BY <3>2, <3>3, <4>1, <4>2, <2>12
    <3>4. CASE r = Refused(release(adjusted.budget, {id}))
      <4>1. /\ Sound(release(grown, {id})) /\ accounted_bytes(release(grown, {id})) <= MAX_ACCOUNTED
            /\ Fewer(P, {original}, release(grown, {id}).pending)
        <5>1. /\ Sound(grown) /\ grown.windows = b.windows
              /\ DOMAIN grown.pending = (DOMAIN P \ {original}) \cup {id}
              /\ \A e \in DOMAIN P \ {original} : e # id => grown.pending[e] = P[e]
          BY <2>6, <2>12
        <5>. QED BY <5>1, <2>13
      <4>. QED BY <3>2, <3>4, <4>1 DEF Refused
    <3>. QED BY <2>2, <3>3, <3>4
  <2>. QED BY <2>14, <2>15
<1>. HIDE DEF same
<1>. QED BY <1>5, <1>6, <1>7

-----------------------------------------------------------------------------
(* Every charge is that of a queued event, with its size and its window.   *)
LinkedTo(P, R) ==
    \A e \in DOMAIN P :
        e \in DOMAIN R /\ P[e].size = R[e].size /\ P[e].scope = R[e].observation.key

(* The inductive invariant. Sound says of the windows and the charges what *)
(* no single operation needs but the next one builds on: their types, and  *)
(* that the counts, the costs and the sum are exact.                       *)
Kept ==
    /\ Sound(diagnostics) /\ accounted_bytes(diagnostics) <= MAX_ACCOUNTED
    /\ LinkedTo(diagnostics.pending, recoveries)

BudgetInvariant == load \in Loads /\ now \in Nat /\ Kept

(* A budget without windows and charges.                                   *)
LEMMA EmptySound == Sound(EmptyBudget) /\ accounted_bytes(EmptyBudget) <= MAX_ACCOUNTED
                    /\ DOMAIN EmptyBudget.pending = {}
<1>. DEFINE none == <<>>
<1>1. DOMAIN none = {}
  OBVIOUS
<1>2. /\ EmptyBudget = [windows |-> none, pending |-> none, held |-> 0]
      /\ EmptyBudget.windows = none /\ EmptyBudget.pending = none /\ EmptyBudget.held = 0
  BY DEF EmptyBudget
<1>. HIDE DEF none
<1>3. Table(none, Keys, Windows) /\ Table(none, Ids, Charges)
  <2>1. none \in [DOMAIN none -> Windows] /\ none \in [DOMAIN none -> Charges]
    BY <1>1 DEF none
  <2>. QED BY <2>1, <1>1, FS_EmptySet DEF Table
<1>4. SumFunction(Costs(none)) = 0
  <2>1. DOMAIN Costs(none) = {}
    BY <1>1 DEF Costs
  <2>. QED BY <2>1, SumEmpty
<1>5. Cardinality(DOMAIN none) = 0
  BY <1>1, FS_EmptySet
<1>6. Exact(none, none, 0)
  BY <1>1, <1>3, <1>4, <1>5, BudgetAssumption DEF Exact
<1>7. accounted_bytes(EmptyBudget) = 0
  BY <1>2, <1>4 DEF accounted_bytes
<1>. QED BY <1>1, <1>2, <1>6, <1>7, BudgetAssumption DEF Sound

(* Fewer charges are linked to the events that are left.                   *)
LEMMA LinkedFewer ==
    ASSUME NEW P, NEW R, LinkedTo(P, R), NEW X, NEW Q, Fewer(P, X, Q)
    PROVE  LinkedTo(Q, Restrict(R, DOMAIN R \ X))
<1>. DEFINE S == Restrict(R, DOMAIN R \ X)
<1>1. DOMAIN S = DOMAIN R \ X /\ \A e \in DOMAIN S : S[e] = R[e]
  BY DEF Restrict
<1>. HIDE DEF S
<1>2. LinkedTo(Q, S)
  BY <1>1 DEF LinkedTo, Fewer
<1>. QED BY <1>2 DEF S

(* So is one charge more, once its event is queued.                        *)
LEMMA LinkedBooked ==
    ASSUME NEW P, NEW R, LinkedTo(P, R), NEW id, NEW o, NEW size, NEW Q, Booked(P, id, o, size, Q)
    PROVE  LinkedTo(Q, With(R, id, Event(o, size)))
<1>. DEFINE v == Event(o, size)
            S == With(R, id, v)
<1>1. v.observation = o /\ v.size = size
  BY DEF Event
<1>. HIDE DEF v
<1>2. DOMAIN S = DOMAIN R \cup {id} /\ S[id] = v /\ \A e \in DOMAIN R : e # id => S[e] = R[e]
  BY DEF With
<1>. HIDE DEF S
<1>3. ASSUME NEW e \in DOMAIN Q
      PROVE  e \in DOMAIN S /\ Q[e].size = S[e].size /\ Q[e].scope = S[e].observation.key
  <2>1. CASE e = id
    BY <2>1, <1>1, <1>2 DEF Booked
  <2>2. CASE e # id
    <3>1. e \in DOMAIN P /\ Q[e] = P[e]
      BY <2>2 DEF Booked
    <3>. QED BY <3>1, <2>2, <1>2 DEF LinkedTo
  <2>. QED BY <2>1, <2>2
<1>. QED BY <1>3 DEF LinkedTo, S, v

(* A release of events that leave the queue keeps the budget.              *)
LEMMA ReleaseKept ==
    ASSUME Kept, NEW ids
    PROVE  /\ Sound(release(diagnostics, ids)) /\ accounted_bytes(release(diagnostics, ids)) <= MAX_ACCOUNTED
           /\ LinkedTo(release(diagnostics, ids).pending, Without(ids))
<1>. DEFINE b == release(diagnostics, ids)
            P == diagnostics.pending
            Q == Restrict(P, DOMAIN P \ ids)
<1>1. /\ Sound(b) /\ b.pending = Q /\ accounted_bytes(b) <= accounted_bytes(diagnostics)
      /\ Sound(diagnostics) /\ accounted_bytes(diagnostics) <= MAX_ACCOUNTED /\ LinkedTo(P, recoveries)
  BY ReleaseSound DEF Kept
<1>2. Fewer(P, ids, Q)
  BY DEF Fewer, Restrict
<1>. HIDE DEF b, P, Q
<1>3. LinkedTo(Q, Without(ids))
  BY <1>1, <1>2, LinkedFewer DEF Without
<1>4. accounted_bytes(b) \in Nat /\ accounted_bytes(diagnostics) \in Nat /\ MAX_ACCOUNTED \in Nat
  BY <1>1, AccountedType, BudgetAssumption
<1>5. accounted_bytes(b) <= MAX_ACCOUNTED
  BY <1>1, <1>4
<1>. QED BY <1>1, <1>3, <1>5 DEF b

(* Every step on a recovery event keeps the budget.                        *)
LEMMA KeptRecovery ==
    ASSUME BudgetInvariant, Recovery
    PROVE  Kept'
<1>0. /\ Sound(diagnostics) /\ accounted_bytes(diagnostics) <= MAX_ACCOUNTED /\ now \in Nat
      /\ LinkedTo(diagnostics.pending, recoveries) /\ Kept
      /\ load.observations \subseteq Observations /\ Sizes \subseteq Nat
  BY AdmissionAssumption DEF BudgetInvariant, Kept, Observations
<1>1. ASSUME NEW id \in Ids, NEW o \in load.observations, NEW n \in Sizes, capture_recovery(id, o, n)
      PROVE  Kept'
  <2>. DEFINE r == reserve(diagnostics, id, o, n, now)
  <2>1. /\ diagnostics' = r.budget
        /\ recoveries' = IF r.ok THEN With(recoveries, id, Event(o, n)) ELSE recoveries
    BY <1>1, Zenon DEF capture_recovery
  <2>2. o \in Observations /\ n \in Nat
    BY <1>0
  <2>3. /\ Sound(r.budget) /\ accounted_bytes(r.budget) <= MAX_ACCOUNTED
        /\ ~r.ok => r.budget.pending = diagnostics.pending
        /\ r.ok => Booked(diagnostics.pending, id, o, n, r.budget.pending)
    BY <1>0, <2>2, ReserveSound
  <2>. HIDE DEF r
  <2>4. LinkedTo(r.budget.pending, recoveries')
    <3>1. CASE r.ok
      <4>1. LinkedTo(r.budget.pending, With(recoveries, id, Event(o, n)))
        BY <3>1, <2>3, <1>0, LinkedBooked
      <4>. QED BY <4>1, <3>1, <2>1
    <3>2. CASE ~r.ok
      BY <3>2, <2>1, <2>3, <1>0
    <3>. QED BY <3>1, <3>2
  <2>. QED BY <2>1, <2>3, <2>4 DEF Kept
<1>2. ASSUME NEW id \in Ids, Withhold(id) \/ evict_low_priority(id) PROVE Kept'
  <2>1. diagnostics' = release(diagnostics, {id}) /\ recoveries' = Without({id})
    BY <1>2 DEF Withhold, evict_low_priority
  <2>. QED BY <2>1, <1>0, ReleaseKept DEF Kept
<1>3. ASSUME NEW id \in Ids, NEW new \in Ids, NEW o \in load.observations, NEW n \in Sizes,
             Replace(id, new, o, n)
      PROVE  Kept'
  <2>. DEFINE r == replace(diagnostics, id, new, o, n, now)
              P == diagnostics.pending
              Q == Restrict(P, DOMAIN P \ {id})
  <2>1. /\ diagnostics' = r.budget
        /\ recoveries' = IF r.ok THEN With(Without({id}), new, Event(o, n)) ELSE Without({id})
    BY <1>3, Zenon DEF Replace
  <2>2. o \in Observations /\ n \in Nat
    BY <1>0
  <2>3. /\ Sound(r.budget) /\ accounted_bytes(r.budget) <= MAX_ACCOUNTED
        /\ ~r.ok => Fewer(P, {id}, r.budget.pending)
        /\ r.ok => Booked(Q, new, o, n, r.budget.pending)
    BY <1>0, <2>2, ReplaceSound
  <2>4. Fewer(P, {id}, Q)
    BY DEF Fewer, Restrict
  <2>5. LinkedTo(P, recoveries)
    BY <1>0
  <2>. HIDE DEF r, P, Q
  <2>6. LinkedTo(r.budget.pending, recoveries')
    <3>1. CASE r.ok
      <4>1. LinkedTo(Q, Without({id}))
        BY <2>4, <2>5, LinkedFewer DEF Without
      <4>2. LinkedTo(r.budget.pending, With(Without({id}), new, Event(o, n)))
        BY <4>1, <3>1, <2>3, LinkedBooked
      <4>. QED BY <4>2, <3>1, <2>1
    <3>2. CASE ~r.ok
      <4>1. LinkedTo(r.budget.pending, Without({id}))
        BY <3>2, <2>3, <2>5, LinkedFewer DEF Without
      <4>. QED BY <4>1, <3>2, <2>1
    <3>. QED BY <3>1, <3>2
  <2>. QED BY <2>1, <2>3, <2>6 DEF Kept
<1>4. ASSUME NEW originals, NEW o \in load.observations, NEW e \in Ids, NEW at \in 0 .. now,
             Register(originals, o.key, e, at)
      PROVE  Kept'
  <2>. DEFINE b == release(diagnostics, originals)
              c == register_failure(b, o.key, e, at)
  <2>1. diagnostics' = c /\ recoveries' = Without(originals)
    BY <1>4 DEF Register
  <2>2. Sound(b) /\ accounted_bytes(b) <= MAX_ACCOUNTED /\ LinkedTo(b.pending, Without(originals))
    BY <1>0, ReleaseKept
  <2>3. o.key \in Keys /\ at \in Nat
    BY <1>0 DEF Keys
  <2>. HIDE DEF b
  <2>4. Sound(c) /\ c.pending = b.pending /\ accounted_bytes(c) <= MAX_ACCOUNTED
    BY <2>2, <2>3, RegisterSound
  <2>. HIDE DEF c
  <2>. QED BY <2>1, <2>2, <2>4 DEF Kept
<1>5. ASSUME NEW ids \in SUBSET Ids, Depart(ids) PROVE Kept'
  <2>. DEFINE P == diagnostics.pending
              gone == DOMAIN P \ (DOMAIN recoveries \ ids)
              b == release(diagnostics, gone)
  <2>1. diagnostics' = b /\ recoveries' = Without(ids)
    BY <1>5 DEF Depart, retain
  <2>2. Sound(b) /\ accounted_bytes(b) <= MAX_ACCOUNTED
    BY <1>0, ReleaseKept
  <2>3. b.pending = Restrict(P, DOMAIN P \ gone)
    BY <1>0, ReleaseSound
  <2>4. Fewer(P, ids, b.pending)
    <3>1. DOMAIN P \ gone \subseteq DOMAIN P \ ids
      OBVIOUS
    <3>. HIDE DEF gone, b
    <3>. QED BY <3>1, <2>3 DEF Fewer, Restrict
  <2>5. LinkedTo(P, recoveries)
    BY <1>0
  <2>. HIDE DEF P, gone, b
  <2>6. LinkedTo(b.pending, Without(ids))
    BY <2>4, <2>5, LinkedFewer DEF Without
  <2>. QED BY <2>1, <2>2, <2>6 DEF Kept
<1>6. CASE Observe
  <2>1. diagnostics' = diagnostics /\ recoveries' = recoveries
    BY <1>6 DEF Observe
  <2>. QED BY <2>1, <1>0 DEF Kept
<1>. QED BY <1>1, <1>2, <1>3, <1>4, <1>5, <1>6, Zenon DEF Recovery

(* The invariant holds of every state: nothing outside of the steps on     *)
(* recoveries touches the budget but a reset, which empties it.            *)
LEMMA BudgetInvariantHolds == Spec => []BudgetInvariant
<1>1. Init => BudgetInvariant
  <2>. SUFFICES ASSUME Init PROVE BudgetInvariant
    OBVIOUS
  <2>1. load \in Loads /\ now = 0 /\ diagnostics = EmptyBudget
    BY DEF Init
  <2>. QED BY <2>1, EmptySound DEF BudgetInvariant, Kept, LinkedTo
<1>2. BudgetInvariant /\ [Next]_vars => BudgetInvariant'
  <2>. SUFFICES ASSUME BudgetInvariant, [Next]_vars PROVE BudgetInvariant'
    OBVIOUS
  <2>0. load \in Loads /\ now \in Nat /\ Kept
    BY DEF BudgetInvariant
  <2>1. load' = load
    BY Zenon DEF Next, vars, bounds, Operation, Capture, Drain, Recovery, Reset, Tick
  <2>2. now' = now \/ now' = now + 1
    BY Zenon DEF Next, vars, Operation, Capture, Drain, Recovery, Reset, Tick
  <2>3. CASE Recovery
    BY <2>3, <2>0, <2>1, <2>2, KeptRecovery DEF BudgetInvariant
  <2>4. CASE Reset
    <3>1. diagnostics' = EmptyBudget
      BY <2>4 DEF Reset, init, dispose, fork
    <3>2. Kept'
      BY <3>1, EmptySound DEF Kept, LinkedTo
    <3>. QED BY <3>2, <2>0, <2>1, <2>2 DEF BudgetInvariant
  <2>5. CASE Operation \/ Capture \/ Drain \/ Tick \/ UNCHANGED vars
    <3>1. diagnostics' = diagnostics /\ recoveries' = recoveries
      BY <2>5, Zenon DEF Operation, Capture, Drain, Tick, vars, budget
    <3>2. Kept'
      BY <3>1, <2>0 DEF Kept
    <3>. QED BY <3>2, <2>0, <2>1, <2>2 DEF BudgetInvariant
  <2>. QED BY <2>3, <2>4, <2>5 DEF Next
<1>. QED BY <1>1, <1>2, PTL DEF Spec

(* The diagnostic budget is exact and kept (DiagnosticCaptureBudget): what *)
(* it holds is the cost of queued events, each window counts its own, and  *)
(* windows, attempts, observations and bytes keep their limits, whatever   *)
(* the hook makes of an event and however many events, windows and ids     *)
(* there are.                                                              *)
THEOREM BudgetExact == Spec => []BudgetHolds
<1>1. BudgetInvariant => BudgetHolds
  <2>. SUFFICES ASSUME Kept PROVE BudgetHolds
    BY DEF BudgetInvariant
  <2>1. /\ Exact(diagnostics.windows, diagnostics.pending, diagnostics.held)
        /\ accounted_bytes(diagnostics) <= MAX_ACCOUNTED
        /\ LinkedTo(diagnostics.pending, recoveries)
    BY DEF Kept, Sound
  <2>2. DOMAIN diagnostics.pending \subseteq DOMAIN recoveries
    BY <2>1 DEF LinkedTo
  <2>3. \A e \in DOMAIN diagnostics.pending :
           /\ diagnostics.pending[e].size = recoveries[e].size
           /\ diagnostics.pending[e].scope = recoveries[e].observation.key
           /\ diagnostics.pending[e].scope \in DOMAIN diagnostics.windows
           /\ diagnostics.pending[e].cost = diagnostics.pending[e].size + IdBytes(e) + 1
    BY <2>1, Zenon DEF LinkedTo, Exact
  <2>4. \A k \in DOMAIN diagnostics.windows :
           /\ diagnostics.windows[k].pending =
                 Cardinality({e \in DOMAIN diagnostics.pending : diagnostics.pending[e].scope = k})
           /\ diagnostics.windows[k].cost = window_cost(diagnostics.windows[k])
           /\ Cardinality(diagnostics.windows[k].attempts) <= MAX_ATTEMPTS
           /\ diagnostics.windows[k].observations <= MAX_OBSERVATIONS
    BY <2>1, Zenon DEF Exact, WindowSound, ChargedTo
  <2>5. /\ diagnostics.held = SumFunction(Costs(diagnostics.pending))
        /\ Cardinality(DOMAIN diagnostics.windows) <= MAX_WINDOWS
    BY <2>1, Zenon DEF Exact
  <2>. QED BY <2>1, <2>2, <2>3, <2>4, <2>5, Zenon DEF BudgetHolds
<1>. QED BY <1>1, BudgetInvariantHolds, PTL
=============================================================================
