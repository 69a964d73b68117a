------------------------ MODULE DeliveryQueueProofs ------------------------
(***************************************************************************)
(* Proofs about DeliveryQueue, for any number of threads, events and       *)
(* generations. The inductive invariant IInv has four parts: the types     *)
(* (TypeOK), what a capturing thread holds (Held), the reservation and the *)
(* timer (Control), and the batch in flight (InFront). Each part is shown  *)
(* to survive the steps of a capture, of a flush and of the lifecycle in a *)
(* lemma of its own; the theorems are at the end.                          *)
(***************************************************************************)
EXTENDS DeliveryQueue, SequenceTheorems, FiniteSetTheorems, WellFoundedInduction, TLAPS

-----------------------------------------------------------------------------
(* Sequences.                                                              *)

(* Min of a non-empty set of naturals is its least element: used for the positions
   evict_low_priority and offer_protected_event search for. *)
LEMMA MinOfSet ==
    ASSUME NEW S \in SUBSET Nat, S # {}
    PROVE  Min(S) \in S /\ \A i \in S : Min(S) <= i
<1>1. \A m, n \in Nat : m < n => <<m, n>> \in OpToRel(<, Nat)
    BY Zenon DEF OpToRel
<1>2. \E R : IsWellFoundedOn(R, Nat) /\ \A m, n \in Nat : m < n => <<m, n>> \in R
    BY <1>1, NatLessThanWellFounded, Zenon
<1>3. PICK R : IsWellFoundedOn(R, Nat) /\ \A m, n \in Nat : m < n => <<m, n>> \in R
    BY <1>2
<1>4. \E n \in S : \A m \in S : ~(<<m, n>> \in R)
    <2>1. IsWellFoundedOn(R, Nat) /\ S \subseteq Nat /\ S # {}
        BY <1>3
    <2>. HIDE <1>3
    <2>. QED BY <2>1, WFMin, Zenon
<1>5. PICK n \in S : \A m \in S : ~(<<m, n>> \in R)
    BY <1>4
<1>6. ASSUME NEW m \in S PROVE n <= m
    <2>1. ~(m < n)
        BY <1>3, <1>5
    <2>. QED BY <2>1
<1>. QED BY <1>5, <1>6 DEF Min

(* The front of a concatenation is its first part. *)
LEMMA ConcatFront ==
    ASSUME NEW S, NEW s \in Seq(S), NEW t \in Seq(S)
    PROVE  /\ s \o t \in Seq(S)
           /\ Len(s \o t) = Len(s) + Len(t)
           /\ \A i \in 1..Len(s) : (s \o t)[i] = s[i]
<1>1. /\ s \o t \in Seq(S) /\ Len(s \o t) = Len(s) + Len(t)
      /\ \A i \in 1..(Len(s) + Len(t)) : (s \o t)[i] = IF i <= Len(s) THEN s[i] ELSE t[i - Len(s)]
    BY ConcatProperties
<1>2. Len(s) \in Nat /\ Len(t) \in Nat
    OBVIOUS
<1>3. ASSUME NEW i \in 1..Len(s) PROVE (s \o t)[i] = s[i]
    <2>1. i \in 1..(Len(s) + Len(t)) /\ i <= Len(s)
        BY <1>2
    <2>. QED BY <1>1, <2>1
<1>. QED BY <1>1, <1>3

(* list.pop(i): the elements before i stay, the others move up by one. *)
LEMMA RemoveAtSeq ==
    ASSUME NEW S, NEW s \in Seq(S), NEW i \in 1..Len(s)
    PROVE  /\ RemoveAt(s, i) \in Seq(S)
           /\ Len(RemoveAt(s, i)) = Len(s) - 1
           /\ \A j \in 1..(i - 1) : RemoveAt(s, i)[j] = s[j]
           /\ \A j \in i..(Len(s) - 1) : RemoveAt(s, i)[j] = s[j + 1]
<1>. DEFINE a == SubSeq(s, 1, i - 1)
            b == SubSeq(s, i + 1, Len(s))
<1>1. a \in Seq(S) /\ Len(a) = i - 1 /\ \A j \in 1..(i - 1) : a[j] = s[j]
    BY SubSeqProperties
<1>2. /\ b \in Seq(S) /\ Len(b) = Len(s) - i
      /\ \A j \in 1..(Len(s) - i) : b[j] = s[i + j]
    BY SubSeqProperties
<1>3. /\ a \o b \in Seq(S) /\ Len(a \o b) = Len(a) + Len(b)
      /\ \A j \in 1..(Len(a) + Len(b)) : (a \o b)[j] = IF j <= Len(a) THEN a[j] ELSE b[j - Len(a)]
    BY <1>1, <1>2, ConcatProperties
<1>. HIDE DEF a, b
<1>4. /\ a \o b \in Seq(S) /\ Len(a \o b) = Len(s) - 1
      /\ \A j \in 1..(i - 1) : (a \o b)[j] = s[j]
      /\ \A j \in i..(Len(s) - 1) : (a \o b)[j] = s[j + 1]
    <2>1. ASSUME NEW j \in i..(Len(s) - 1) PROVE (a \o b)[j] = s[j + 1]
        <3>1. (a \o b)[j] = b[j - (i - 1)]
            BY <1>1, <1>2, <1>3
        <3>2. b[j - (i - 1)] = s[i + (j - (i - 1))]
            BY <1>2
        <3>. QED BY <3>1, <3>2
    <2>2. ASSUME NEW j \in 1..(i - 1) PROVE (a \o b)[j] = s[j]
        <3>1. j \in 1..(Len(a) + Len(b)) /\ j <= Len(a)
            BY <1>1, <1>2
        <3>. QED BY <1>1, <1>3, <3>1
    <2>. QED BY <1>1, <1>2, <1>3, <2>1, <2>2
<1>. QED BY <1>4 DEF RemoveAt, a, b

(* list.insert(i): the elements before i stay, the others move down by one. *)
LEMMA InsertAtSeq ==
    ASSUME NEW S, NEW s \in Seq(S), NEW e \in S, NEW i \in 1..(Len(s) + 1)
    PROVE  /\ InsertAt(s, i, e) \in Seq(S)
           /\ Len(InsertAt(s, i, e)) = Len(s) + 1
           /\ \A j \in 1..(i - 1) : InsertAt(s, i, e)[j] = s[j]
           /\ InsertAt(s, i, e)[i] = e
           /\ \A j \in i..Len(s) : InsertAt(s, i, e)[j + 1] = s[j]
<1>. DEFINE a == SubSeq(s, 1, i - 1)
            m == <<e>>
            b == SubSeq(s, i, Len(s))
<1>0. Len(s) \in Nat
    OBVIOUS
<1>1. a \in Seq(S) /\ Len(a) = i - 1 /\ \A j \in 1..(i - 1) : a[j] = s[j]
    BY SubSeqProperties
<1>2. /\ b \in Seq(S) /\ Len(b) = Len(s) - i + 1
      /\ \A j \in 1..(Len(s) - i + 1) : b[j] = s[i + j - 1]
    BY SubSeqProperties
<1>3. m \in Seq(S) /\ Len(m) = 1 /\ m[1] = e
    OBVIOUS
<1>. HIDE DEF a, b, m
<1>. DEFINE n == a \o m
<1>4. /\ n \in Seq(S) /\ Len(n) = i
      /\ \A j \in 1..(i - 1) : n[j] = s[j]
      /\ n[i] = e
    <2>1. /\ n \in Seq(S) /\ Len(n) = Len(a) + Len(m)
          /\ \A j \in 1..(Len(a) + Len(m)) : n[j] = IF j <= Len(a) THEN a[j] ELSE m[j - Len(a)]
        BY <1>1, <1>3, ConcatProperties
    <2>. HIDE DEF n
    <2>2. ASSUME NEW j \in 1..(i - 1) PROVE n[j] = s[j]
        <3>1. j \in 1..(Len(a) + Len(m)) /\ j <= Len(a)
            BY <1>1, <1>3
        <3>. QED BY <1>1, <2>1, <3>1
    <2>3. n[i] = e
        <3>1. i \in 1..(Len(a) + Len(m)) /\ ~(i <= Len(a)) /\ i - Len(a) = 1
            BY <1>1, <1>3
        <3>. QED BY <1>3, <2>1, <3>1
    <2>4. Len(n) = i
        BY <1>1, <1>3, <2>1
    <2>. QED BY <2>1, <2>2, <2>3, <2>4
<1>. HIDE DEF n
<1>5. /\ n \o b \in Seq(S) /\ Len(n \o b) = Len(s) + 1
      /\ \A j \in 1..(Len(s) + 1) : (n \o b)[j] = IF j <= i THEN n[j] ELSE b[j - i]
    <2>1. /\ n \o b \in Seq(S) /\ Len(n \o b) = Len(n) + Len(b)
          /\ \A j \in 1..(Len(n) + Len(b)) : (n \o b)[j] = IF j <= Len(n) THEN n[j] ELSE b[j - Len(n)]
        BY <1>2, <1>4, ConcatProperties
    <2>2. Len(n) + Len(b) = Len(s) + 1
        BY <1>0, <1>2, <1>4
    <2>. QED BY <1>4, <2>1, <2>2
<1>6. ASSUME NEW j \in 1..(i - 1) PROVE (n \o b)[j] = s[j]
    <2>1. j \in 1..(Len(s) + 1) /\ j <= i
        BY <1>0
    <2>. QED BY <1>4, <1>5, <2>1
<1>7. (n \o b)[i] = e
    BY <1>0, <1>4, <1>5
<1>8. ASSUME NEW j \in i..Len(s) PROVE (n \o b)[j + 1] = s[j]
    <2>1. j + 1 \in 1..(Len(s) + 1) /\ ~(j + 1 <= i) /\ j + 1 - i \in 1..(Len(s) - i + 1)
          /\ i + (j + 1 - i) - 1 = j
        BY <1>0
    <2>. QED BY <1>2, <1>5, <2>1
<1>. QED BY <1>5, <1>6, <1>7, <1>8 DEF InsertAt, a, m, b, n

-----------------------------------------------------------------------------
(* The operators of the queue.                                             *)

(* An object that could be allocated has an identity no live object has.   *)
LEMMA FreshIdType ==
    ASSUME Allocations(1) # {}
    PROVE  FreshId \in Ids /\ FreshId \notin Live
<1>1. Allocated(1) \in Allocations(1)
    BY DEF Allocated
<1>2. Allocated(1) \in [1..1 -> Ids \ Live]
    BY <1>1, Zenon DEF Allocations, Injection
<1>. QED BY <1>2 DEF FreshId

(* A newly built event is an event. *)
LEMMA ObjectType ==
    ASSUME TypeOK, NEW i \in Ids, NEW k \in Kinds, NEW b \in Nat
    PROVE  Object(i, k, b) \in Event
BY DEF Object, Event, TypeOK

(* A summary is a new event of the generation its flush drained it in. *)
LEMMA SummaryType ==
    ASSUME TypeOK, NEW f \in Flushers, NEW k \in {"aggregate", "pressure"}, NEW b \in Sizes,
           FreshId \in Ids
    PROVE  /\ Summary(f, k, b) \in Event
           /\ Summary(f, k, b).id = FreshId /\ Summary(f, k, b).kind = k
           /\ Summary(f, k, b).bytes = b /\ Summary(f, k, b).gen = fl[f].gen
           /\ ~Summary(f, k, b).skip
<1>1. b \in Nat /\ k \in Kinds
    BY QueueAssumption DEF Kinds, LowKinds
<1>2. fl[f].gen \in Nat
    BY DEF TypeOK, FlushStates
<1>. DEFINE o == Object(FreshId, k, b)
            g == fl[f].gen
<1>3. o \in Event /\ o.id = FreshId /\ o.kind = k /\ o.bytes = b /\ o.skip = FALSE
    <2>1. o \in Event
        BY <1>1, ObjectType
    <2>. QED BY <2>1 DEF Object
<1>4. Summary(f, k, b) = [o EXCEPT !.gen = g]
    BY DEF Summary
<1>. HIDE DEF o, g
<1>5. g \in Nat
    BY <1>2 DEF g
<1>6. Summary(f, k, b).gen = g
    BY <1>3, <1>4, <1>5 DEF Event
<1>. QED BY <1>3, <1>4, <1>5, <1>6 DEF Event, g

(* The drop counter stays within its bound. *)
LEMMA CountedType ==
    ASSUME NEW n \in 0..MaxPressure
    PROVE  Counted(n) \in 0..MaxPressure
BY QueueAssumption DEF Counted

(* _schedule_flush_locked leaves _timer in one of its states. *)
LEMMA ScheduledType ==
    ASSUME NEW t \in TimerStates, NEW busy
    PROVE  /\ Scheduled(t, busy) \in TimerStates
           /\ PressureScheduled(t) \in TimerStates
BY DEF Scheduled, PressureScheduled, TimerStates

(* Only events behind the batch in flight are displaced, and no event is   *)
(* put in front of it.                                                     *)
LEMMA BehindBatch ==
    ASSUME TypeOK
    PROVE  /\ Evictable # {} => Min(Evictable) \in Evictable
           /\ InsertionPoint \in 1..(Len(buffer) + 1)
           /\ InsertionPoint <= Len(buffer) => InsertionPoint \in Evictable
<1>1. Len(buffer) \in Nat /\ DOMAIN buffer = 1..Len(buffer)
    BY DEF TypeOK
<1>2. Evictable \in SUBSET Nat /\ Evictable \subseteq 1..Len(buffer)
    BY <1>1 DEF Evictable
<1>. DEFINE P == {Len(buffer) + 1} \cup Evictable
<1>3. P \in SUBSET Nat /\ P # {} /\ P \subseteq 1..(Len(buffer) + 1)
    <2>1. ASSUME NEW i \in P PROVE i \in Nat /\ i \in 1..(Len(buffer) + 1)
        BY <1>1, <1>2
    <2>2. Len(buffer) + 1 \in P
        OBVIOUS
    <2>. QED BY <2>1, <2>2
<1>4. Min(P) \in P
    BY <1>3, MinOfSet
<1>5. Evictable # {} => Min(Evictable) \in Evictable
    BY <1>2, MinOfSet
<1>6. InsertionPoint = Min(P)
    BY DEF InsertionPoint
<1>. QED BY <1>1, <1>3, <1>4, <1>5, <1>6

(* What an admission does to the queue: the events up to inflight_count    *)
(* stay where they are, nothing leaves.                                    *)
LEMMA AdmittedType ==
    ASSUME TypeOK, NEW e \in Event, NEW pressed \in BOOLEAN, Admitted(e, pressed)
    PROVE  /\ buffer' \in Seq(Event) /\ Len(buffer') = Len(buffer) + 1
           /\ \A j \in 1..Len(buffer) : j <= inflight_count => buffer'[j] = buffer[j]
           /\ pending_low_priority' \in Int
           /\ timer' = Scheduled(timer, sending)
<1>1. buffer \in Seq(Event) /\ Len(buffer) \in Nat /\ inflight_count \in Int
    BY DEF TypeOK
<1>2. CASE buffer' = InsertAt(buffer, InsertionPoint, e)
    <2>1. /\ InsertionPoint \in 1..(Len(buffer) + 1)
          /\ InsertionPoint <= Len(buffer) => InsertionPoint > inflight_count
        BY BehindBatch DEF Evictable
    <2>. DEFINE s == buffer i == InsertionPoint
    <2>2. /\ InsertAt(buffer, i, e) \in Seq(Event)
          /\ Len(InsertAt(buffer, i, e)) = Len(buffer) + 1
          /\ \A j \in 1..(i - 1) : InsertAt(buffer, i, e)[j] = buffer[j]
        BY <1>1, <2>1, InsertAtSeq
    <2>. HIDE DEF i
    <2>3. ASSUME NEW j \in 1..Len(buffer), j <= inflight_count
          PROVE  j \in 1..(i - 1)
        BY <1>1, <2>1, <2>3 DEF i
    <2>. QED BY <1>1, <1>2, <2>2, <2>3 DEF i, TypeOK, Admitted
<1>3. CASE buffer' = Append(buffer, e)
    <2>1. /\ Append(buffer, e) \in Seq(Event) /\ Len(Append(buffer, e)) = Len(buffer) + 1
          /\ \A j \in 1..Len(buffer) : Append(buffer, e)[j] = buffer[j]
        BY <1>1, AppendProperties
    <2>2. /\ pending_low_priority' = pending_low_priority + 0 \/ pending_low_priority' = pending_low_priority + 1
          /\ timer' = Scheduled(timer, sending)
        BY DEF Admitted
    <2>. QED BY <1>1, <1>3, <2>1, <2>2 DEF TypeOK
<1>. QED BY <1>2, <1>3 DEF Admitted

-----------------------------------------------------------------------------
(* Type correctness, step by step.                                         *)

(* A thread that has prepared an event holds it until it is committed.     *)
Held == \A c \in Callers : cap[c].pc \in {"ready", "offer"} => cap[c].event # <<>>

(* The event a capturing thread is about to offer exists. *)
LEMMA HeldEvent ==
    ASSUME TypeOK, Held, NEW c \in Callers, cap[c].pc \in {"ready", "offer"}
    PROVE  cap[c].event[1] \in Event
<1>1. cap[c].event \in Seq(Event) /\ cap[c].event # <<>>
    BY DEF TypeOK, Held, CapStates
<1>. HIDE DEF Event
<1>. QED BY <1>1

(* The local states of idle threads have the right shape. *)
LEMMA IdleTypes == IdleCap \in CapStates /\ IdleFlush \in FlushStates
<1>1. 0 \in 0..MaxPressure
    BY QueueAssumption
<1>2. <<>> \in Seq(Event)
    OBVIOUS
<1>. QED BY <1>1, <1>2 DEF IdleCap, IdleFlush, CapStates, FlushStates

(* The state before the first init() has the right shapes. *)
LEMMA TypeInit == Init => TypeOK /\ Held
<1>. SUFFICES ASSUME Init PROVE TypeOK /\ Held
    OBVIOUS
<1>1. TypeOK
    <2>1. 0 \in 0..MaxPressure /\ 0 \in 0..DisconnectedAt
        BY QueueAssumption
    <2>2. cap \in [Callers -> CapStates] /\ fl \in [Flushers -> FlushStates]
        BY IdleTypes DEF Init
    <2>3. /\ buffer \in Seq(Event) /\ pending_low_priority \in Int
          /\ pressure_drops \in 0..MaxPressure /\ consecutive_failures \in 0..DisconnectedAt
          /\ inflight_count \in Int /\ generation \in Nat
        BY <2>1 DEF Init
    <2>4. /\ reported \in BOOLEAN /\ evidence \in BOOLEAN /\ sending \in BOOLEAN
          /\ backoff \in BOOLEAN /\ last_event_at \in BOOLEAN /\ enabled \in BOOLEAN
          /\ transport \in BOOLEAN /\ disposed \in BOOLEAN
          /\ hook_bypass \subseteq Ids /\ diagnostics \subseteq Ids
          /\ timer \in TimerStates /\ lock \in {"free"} \cup Callers \cup Flushers
        BY DEF Init, TimerStates
    <2>. QED BY <2>2, <2>3, <2>4 DEF TypeOK
<1>2. Held
    BY DEF Init, Held, IdleCap
<1>. QED BY <1>1, <1>2

(* A capturing thread that has finished holds nothing. *)
LEMMA IdleAgain ==
    ASSUME TypeOK, Held, NEW c \in Callers, cap' = [cap EXCEPT ![c] = IdleCap]
    PROVE  cap' \in [Callers -> CapStates] /\ Held'
<1>1. cap' \in [Callers -> CapStates]
    BY IdleTypes DEF TypeOK
<1>2. \A x \in Callers : cap'[x] = IF x = c THEN IdleCap ELSE cap[x]
    BY DEF TypeOK
<1>. QED BY <1>1, <1>2 DEF Held, IdleCap

(* Every step of a capturing thread keeps the types. *)
LEMMA TypeCapture ==
    ASSUME TypeOK, Held, NEW c \in Callers, CaptureStep(c)
    PROVE  TypeOK' /\ Held'
<1>. USE DEF queue, pressure, ownership, sender, health, life
<1>0. cap[c] \in CapStates /\ IdleCap \in CapStates
    BY IdleTypes DEF TypeOK
<1>1. ASSUME NEW k \in CaptureKinds, NEW b \in Sizes, Prepare(c, k, b)
      PROVE  TypeOK' /\ Held'
    <2>1. k \in Kinds /\ b \in Nat
        BY QueueAssumption
    <2>2. Object(FreshId, k, b) \in Event
        BY <1>1, <2>1, FreshIdType, ObjectType DEF Prepare
    <2>. DEFINE o == Object(FreshId, k, b)
    <2>3. <<o>> \in Seq(Event) /\ <<o>> # <<>>
        BY <2>2
    <2>. HIDE DEF o
    <2>4. cap' = [cap EXCEPT ![c] = [cap[c] EXCEPT !.pc = "ready", !.event = <<o>>]]
        BY <1>1 DEF Prepare, TypeOK, CapStates, o
    <2>5. cap' \in [Callers -> CapStates]
        BY <1>0, <2>3, <2>4 DEF TypeOK, CapStates
    <2>6. TypeOK'
        BY <1>1, <2>5 DEF TypeOK, Prepare, TimerStates
    <2>. QED BY <1>0, <2>3, <2>4, <2>6 DEF Held, TypeOK, CapStates
<1>2. ASSUME NEW k \in CaptureKinds, Refuse(c, k)
      PROVE  TypeOK' /\ Held'
    <2>1. [cap[c] EXCEPT !.pc = "drop", !.seen = pressure_drops] \in CapStates
        BY <1>0 DEF TypeOK, CapStates
    <2>2. cap' = [cap EXCEPT ![c] = [cap[c] EXCEPT !.pc = "drop", !.seen = pressure_drops]]
        BY <1>2 DEF Refuse
    <2>3. cap' \in [Callers -> CapStates]
        BY <2>1, <2>2 DEF TypeOK
    <2>4. TypeOK'
        BY <1>2, <2>3 DEF TypeOK, Refuse, TimerStates
    <2>. QED BY <1>0, <2>2, <2>4 DEF TypeOK, Held, CapStates
<1>3. CASE Contended(c)
    <2>. DEFINE d == [IdleCap EXCEPT !.pc = "drop", !.seen = pressure_drops]
    <2>1. d \in CapStates /\ d.pc = "drop" /\ IdleCap.pc = "idle"
        BY <1>0 DEF TypeOK, CapStates, IdleCap
    <2>2. \E r \in {d, IdleCap} : cap' = [cap EXCEPT ![c] = r]
        BY <1>3 DEF Contended
    <2>. HIDE DEF d
    <2>3. PICK r \in {d, IdleCap} : cap' = [cap EXCEPT ![c] = r]
        BY <2>2
    <2>4. r \in CapStates /\ r.pc \in {"idle", "drop"}
        BY <1>0, <2>1
    <2>5. cap' \in [Callers -> CapStates]
        BY <2>3, <2>4 DEF TypeOK
    <2>6. TypeOK'
        BY <1>3, <2>5 DEF TypeOK, Contended, TimerStates
    <2>. QED BY <2>3, <2>4, <2>6 DEF TypeOK, Held
<1>4. CASE CountDrop(c)
    <2>1. cap[c].seen \in 0..MaxPressure
        BY <1>0 DEF CapStates
    <2>2. pressure_drops' \in 0..MaxPressure
        BY <1>4, <2>1, CountedType DEF CountDrop
    <2>3. cap' = [cap EXCEPT ![c] = IdleCap]
        BY <1>4 DEF CountDrop
    <2>4. UNCHANGED <<queue, reported, ownership, sender, timer, health, life, lock, fl>>
        BY <1>4 DEF CountDrop
    <2>5. cap' \in [Callers -> CapStates] /\ Held'
        BY <2>3, IdleAgain
    <2>. QED BY <2>2, <2>4, <2>5 DEF TypeOK
<1>5. CASE Decline(c)
    <2>1. cap' = [cap EXCEPT ![c] = IdleCap]
        BY <1>5 DEF Decline
    <2>2. UNCHANGED <<queue, pressure, ownership, sender, timer, health, life, lock, fl>>
        BY <1>5 DEF Decline
    <2>3. cap' \in [Callers -> CapStates] /\ Held'
        BY <2>1, IdleAgain
    <2>. QED BY <2>1, <2>2, <2>3 DEF TypeOK
<1>6. CASE OfferBegin(c)
    <2>1. Full(cap[c].event[1].bytes) \in BOOLEAN
        BY DEF Full
    <2>. DEFINE p == Full(cap[c].event[1].bytes)
    <2>2. cap' = [cap EXCEPT ![c] = [cap[c] EXCEPT !.pc = "offer", !.pressed = p]]
        BY <1>6 DEF OfferBegin
    <2>3. cap[c].event # <<>>
        BY <1>6 DEF Held, OfferBegin
    <2>. HIDE DEF p
    <2>4. [cap[c] EXCEPT !.pc = "offer", !.pressed = p] \in CapStates
        BY <1>0, <2>1 DEF CapStates, p
    <2>5. cap' \in [Callers -> CapStates]
        BY <2>2, <2>4 DEF TypeOK
    <2>6. TypeOK'
        BY <1>6, <2>5 DEF TypeOK, OfferBegin, TimerStates
    <2>. QED BY <1>0, <2>2, <2>3, <2>6 DEF TypeOK, Held, CapStates
<1>7. CASE OfferEvict(c)
    <2>1. Min(Evictable) \in 1..Len(buffer)
        BY <1>7, BehindBatch DEF OfferEvict, Evictable, TypeOK
    <2>2. buffer \in Seq(Event) /\ buffer' = RemoveAt(buffer, Min(Evictable))
        BY <1>7 DEF OfferEvict, TypeOK
    <2>3. buffer' \in Seq(Event)
        BY <2>1, <2>2, RemoveAtSeq
    <2>4. hook_bypass' \subseteq hook_bypass /\ diagnostics' \subseteq diagnostics
        BY <1>7 DEF OfferEvict, Unmarked
    <2>. QED BY <1>7, <2>3, <2>4, CountedType DEF TypeOK, Held, OfferEvict, TimerStates
<1>8. CASE OfferReject(c)
    <2>1. pressure_drops' \in 0..MaxPressure
        BY <1>8, CountedType DEF OfferReject, TypeOK
    <2>2. cap' = [cap EXCEPT ![c] = IdleCap] /\ lock' = "free"
        BY <1>8 DEF OfferReject
    <2>3. UNCHANGED <<queue, reported, ownership, sender, timer, health, life, fl>>
        BY <1>8 DEF OfferReject
    <2>4. cap' \in [Callers -> CapStates] /\ Held'
        BY <2>2, IdleAgain
    <2>. QED BY <2>1, <2>2, <2>3, <2>4 DEF TypeOK
<1>9. CASE OfferAdmit(c)
    <2>. DEFINE e == cap[c].event[1]
                a == [e EXCEPT !.skip = (e.kind = "fatal")]
    <2>1. e \in Event
        BY <1>9, HeldEvent DEF OfferAdmit
    <2>2. a \in Event /\ cap[c].pressed \in BOOLEAN
        BY <1>0, <2>1 DEF Event, CapStates
    <2>3. Admitted(a, cap[c].pressed)
        BY <1>9 DEF OfferAdmit
    <2>4. /\ hook_bypass' \subseteq hook_bypass \cup {e.id}
          /\ diagnostics' \subseteq diagnostics \cup {e.id}
          /\ e.id \in Ids
        BY <1>9, <2>1 DEF OfferAdmit, Event
    <2>. HIDE DEF e, a
    <2>5. /\ buffer' \in Seq(Event) /\ pending_low_priority' \in Int
          /\ timer' \in TimerStates
        BY <2>2, <2>3, AdmittedType, ScheduledType DEF TypeOK
    <2>6. /\ UNCHANGED <<pressure, evidence, sender, health, life, fl>>
          /\ lock' = "free" /\ cap' = [cap EXCEPT ![c] = IdleCap]
        BY <1>9 DEF OfferAdmit
    <2>. QED BY <1>0, <2>4, <2>5, <2>6 DEF TypeOK, Held, CapStates, IdleCap
<1>10. CASE OfferOverBudget(c)
    <2>1. cap' = [cap EXCEPT ![c] = IdleCap] /\ lock' = "free"
        BY <1>10 DEF OfferOverBudget
    <2>2. UNCHANGED <<queue, pressure, ownership, sender, timer, health, life, fl>>
        BY <1>10 DEF OfferOverBudget
    <2>3. cap' \in [Callers -> CapStates] /\ Held'
        BY <2>1, IdleAgain
    <2>. QED BY <2>1, <2>2, <2>3 DEF TypeOK
<1>. QED BY <1>1, <1>2, <1>3, <1>4, <1>5, <1>6, <1>7, <1>8, <1>9, <1>10 DEF CaptureStep

(* The pointwise form of BatchIsPrefix: what the thread that finalizes or  *)
(* sends knows of the queue.                                               *)
Claims(f) == fl[f].pc \in {"finalize", "send"} /\ fl[f].gen = generation

Fronts(d, t, b) ==
    /\ Len(d) + Len(t) <= Len(b)
    /\ \A i \in 1..Len(d) : b[i] = d[i]
    /\ \A i \in 1..Len(t) : b[Len(d) + i] = t[i]

AtFront(f) ==
    /\ inflight_count = Len(fl[f].done) + Len(fl[f].todo)
    /\ Fronts(fl[f].done, fl[f].todo, buffer)

BatchAtFront == \A f \in Flushers : Claims(f) => AtFront(f)

(* A thread that starts a flush keeps the rest of its local state. *)
LEMMA StartedType ==
    ASSUME TypeOK, NEW f \in Flushers, fl' = [fl EXCEPT ![f].pc = "start"]
    PROVE  fl' \in [Flushers -> FlushStates]
<1>1. fl[f] \in FlushStates
    BY DEF TypeOK
<1>2. [fl[f] EXCEPT !.pc = "start"] \in FlushStates
    BY <1>1 DEF FlushStates
<1>. QED BY <1>2 DEF TypeOK

(* Every step of a flush up to the snapshot keeps the types.               *)
LEMMA TypeFlushStart ==
    ASSUME TypeOK, NEW f \in Flushers,
           \/ TimerFires(f) \/ ExplicitFlush(f) \/ FlushIdle(f) \/ FlushBackoff(f)
           \/ \E n \in 0..MaxAggregates : FlushReserve(f, n)
           \/ FlushAbandon(f) \/ FlushAdmit(f)
           \/ \E b \in Sizes : FlushAggregate(f, b) \/ FlushPressure(f, b)
           \/ FlushAggregateLost(f) \/ FlushPressureLost(f)
           \/ FlushEmpty(f) \/ FlushSnapshot(f)
    PROVE  TypeOK'
<1>. USE DEF queue, pressure, ownership, sender, health, life
<1>0. /\ fl[f] \in FlushStates /\ IdleFlush \in FlushStates
      /\ timer \in TimerStates
      /\ Scheduled(timer, FALSE) \in TimerStates /\ PressureScheduled(timer) \in TimerStates
    BY IdleTypes, ScheduledType DEF TypeOK
<1>1. CASE TimerFires(f)
    <2>1. fl' = [fl EXCEPT ![f].pc = "start"] /\ timer' \in TimerStates
        BY <1>1 DEF TimerFires, TimerStates
    <2>2. UNCHANGED <<queue, pressure, ownership, sender, health, life, lock, cap>>
        BY <1>1 DEF TimerFires
    <2>3. fl' \in [Flushers -> FlushStates]
        BY <2>1, StartedType
    <2>. QED BY <2>1, <2>2, <2>3 DEF TypeOK
<1>2. CASE ExplicitFlush(f)
    <2>1. fl' = [fl EXCEPT ![f].pc = "start"]
        BY <1>2 DEF ExplicitFlush
    <2>2. UNCHANGED <<queue, pressure, ownership, sender, timer, health, life, lock, cap>>
        BY <1>2 DEF ExplicitFlush
    <2>3. fl' \in [Flushers -> FlushStates]
        BY <2>1, StartedType
    <2>. QED BY <2>1, <2>2, <2>3 DEF TypeOK
<1>3. CASE FlushIdle(f)
    BY <1>0, <1>3 DEF TypeOK, FlushIdle, TimerStates
<1>4. CASE FlushBackoff(f)
    BY <1>0, <1>4 DEF TypeOK, FlushBackoff, TimerStates
<1>5. ASSUME NEW n \in 0..MaxAggregates, FlushReserve(f, n)
      PROVE  TypeOK'
    <2>. DEFINE p == IF ~reported /\ Len(buffer) < MaxEvents THEN pressure_drops ELSE 0
                r == [fl[f] EXCEPT !.pc = "reserved", !.gen = generation, !.aggs = n,
                                   !.count = p]
    <2>1. n \in Nat /\ p \in 0..MaxPressure /\ generation \in Nat
        BY QueueAssumption DEF TypeOK
    <2>2. fl' = [fl EXCEPT ![f] = r]
        BY <1>5 DEF FlushReserve
    <2>. HIDE DEF p
    <2>3. r \in FlushStates
        BY <1>0, <2>1 DEF FlushStates
    <2>. HIDE DEF r
    <2>4. fl' \in [Flushers -> FlushStates]
        BY <2>2, <2>3 DEF TypeOK
    <2>. QED BY <1>5, <2>4 DEF TypeOK, FlushReserve, TimerStates
<1>6. CASE FlushAbandon(f)
    <2>1. fl' \in [Flushers -> FlushStates] /\ timer' \in TimerStates
        BY <1>0, <1>6 DEF TypeOK, FlushAbandon
    <2>2. sending' \in BOOLEAN
        BY <1>6 DEF FlushAbandon
    <2>3. inflight_count' \in Int
        BY <1>6 DEF FlushAbandon
    <2>4. UNCHANGED <<queue, pressure, ownership, health, life, lock, cap>>
        BY <1>6 DEF FlushAbandon
    <2>. QED BY <2>1, <2>2, <2>3, <2>4 DEF TypeOK
<1>7. CASE FlushAdmit(f)
    <2>1. [fl[f] EXCEPT !.pc = "admit"] \in FlushStates
        BY <1>0 DEF FlushStates
    <2>2. fl' = [fl EXCEPT ![f] = [fl[f] EXCEPT !.pc = "admit"]]
        BY <1>7 DEF FlushAdmit
    <2>. QED BY <1>7, <2>1, <2>2 DEF TypeOK, FlushAdmit
<1>8. ASSUME NEW b \in Sizes, FlushAggregate(f, b)
      PROVE  TypeOK'
    <2>0. fl[f].aggs - 1 \in Nat
        BY <1>0, <1>8 DEF FlushAggregate, FlushStates
    <2>1. [fl[f] EXCEPT !.aggs = @ - 1] \in FlushStates
        BY <1>0, <2>0 DEF FlushStates
    <2>2. fl' \in [Flushers -> FlushStates]
        BY <1>8, <2>1 DEF FlushAggregate, TypeOK
    <2>3. /\ buffer' \in Seq(Event) /\ pending_low_priority' \in Int
          /\ timer' \in TimerStates /\ pressure_drops' \in 0..MaxPressure
        <3>1. CASE Full(b)
            BY <1>8, <3>1, CountedType DEF FlushAggregate, TypeOK
        <3>2. CASE ~Full(b)
            <4>1. Summary(f, "aggregate", b) \in Event
                BY <1>8, <3>2, FreshIdType, SummaryType DEF FlushAggregate
            <4>2. Admitted(Summary(f, "aggregate", b), FALSE) /\ UNCHANGED pressure_drops
                BY <1>8, <3>2 DEF FlushAggregate
            <4>. QED BY <4>1, <4>2, AdmittedType, ScheduledType DEF TypeOK
        <3>. QED BY <3>1, <3>2
    <2>. QED BY <1>8, <2>2, <2>3 DEF TypeOK, FlushAggregate
<1>9. ASSUME NEW b \in Sizes, FlushPressure(f, b)
      PROVE  TypeOK'
    <2>0. 0 \in 0..MaxPressure
        BY QueueAssumption
    <2>1. [fl[f] EXCEPT !.count = 0] \in FlushStates
        BY <1>0, <2>0 DEF FlushStates
    <2>2. fl' \in [Flushers -> FlushStates]
        BY <1>9, <2>1 DEF FlushPressure, TypeOK
    <2>3. Summary(f, "pressure", b) \in Event
        BY <1>9, FreshIdType, SummaryType DEF FlushPressure
    <2>4. Admitted(Summary(f, "pressure", b), FALSE)
        BY <1>9 DEF FlushPressure
    <2>5. /\ buffer' \in Seq(Event) /\ pending_low_priority' \in Int
          /\ timer' \in TimerStates
        BY <2>3, <2>4, AdmittedType, ScheduledType DEF TypeOK
    <2>6. pressure_drops' \in 0..MaxPressure
        <3>1. fl[f].count \in 0..MaxPressure /\ pressure_drops \in 0..MaxPressure
            BY <1>0 DEF FlushStates, TypeOK
        <3>2. pressure_drops' = IF pressure_drops > fl[f].count
                                THEN pressure_drops - fl[f].count ELSE 0
            BY <1>9 DEF FlushPressure
        <3>. QED BY <3>1, <3>2, QueueAssumption
    <2>. QED BY <1>9, <2>2, <2>5, <2>6 DEF TypeOK, FlushPressure
<1>10. CASE FlushAggregateLost(f)
    <2>0. fl[f].aggs - 1 \in Nat
        BY <1>0, <1>10 DEF FlushAggregateLost, FlushStates
    <2>1. [fl[f] EXCEPT !.aggs = @ - 1] \in FlushStates
        BY <1>0, <2>0 DEF FlushStates
    <2>2. fl' \in [Flushers -> FlushStates]
        BY <1>10, <2>1 DEF FlushAggregateLost, TypeOK
    <2>. QED BY <1>10, <2>2 DEF TypeOK, FlushAggregateLost
<1>11. CASE FlushPressureLost(f)
    <2>0. 0 \in 0..MaxPressure
        BY QueueAssumption
    <2>1. [fl[f] EXCEPT !.count = 0] \in FlushStates
        BY <1>0, <2>0 DEF FlushStates
    <2>2. fl' \in [Flushers -> FlushStates]
        BY <1>11, <2>1 DEF FlushPressureLost, TypeOK
    <2>. QED BY <1>11, <2>2 DEF TypeOK, FlushPressureLost
<1>12. CASE FlushEmpty(f)
    BY <1>0, <1>12 DEF TypeOK, FlushEmpty
<1>13. CASE FlushSnapshot(f)
    <2>1. [fl[f] EXCEPT !.pc = "finalize", !.todo = buffer] \in FlushStates
        BY <1>0 DEF TypeOK, FlushStates
    <2>2. fl' \in [Flushers -> FlushStates]
        BY <1>13, <2>1 DEF FlushSnapshot, TypeOK
    <2>. QED BY <1>13, <2>2 DEF TypeOK, FlushSnapshot
<1>. QED BY <1>1, <1>2, <1>3, <1>4, <1>5, <1>6, <1>7, <1>8, <1>9, <1>10, <1>11, <1>12, <1>13

(* The recount of _pending_low_priority after a send is a number. *)
LEMMA LowCountType ==
    ASSUME NEW s \in Seq(Event)
    PROVE  LowCount(s) \in Nat
<1>. DEFINE low == {i \in DOMAIN s : ~HighPriority(s[i])}
<1>1. IsFiniteSet(1..Len(s))
    BY FS_Interval
<1>2. low \subseteq 1..Len(s)
    OBVIOUS
<1>3. IsFiniteSet(low)
    BY <1>1, <1>2, FS_Subset
<1>4. Cardinality(low) \in Nat
    BY <1>3, FS_CardinalityType
<1>. QED BY <1>4 DEF LowCount

(* The finally block keeps the types, whatever the response made of the    *)
(* queue.                                                                  *)
LEMMA SettleType ==
    ASSUME TypeOK, NEW f \in Flushers, NEW kept \in Seq(Event), NEW sizes,
           NEW late \in BOOLEAN, NEW again, Settle(f, kept, sizes, late, again),
           hook_bypass' \subseteq Ids, evidence' \in BOOLEAN, last_event_at' \in BOOLEAN,
           consecutive_failures' \in 0..DisconnectedAt, UNCHANGED <<pressure, life, lock, cap>>
    PROVE  TypeOK'
<1>1. buffer' \in Seq(Event)
    BY DEF Settle
<1>2. pending_low_priority' \in Int
    <2>1. pending_low_priority' = LowCount(kept)
        BY DEF Settle
    <2>. QED BY <2>1, LowCountType
<1>3. diagnostics' \subseteq Ids
    BY DEF Settle, Retained, TypeOK
<1>4. backoff' \in BOOLEAN /\ sending' \in BOOLEAN
    BY DEF Settle
<1>5. inflight_count' \in Int
    BY DEF Settle
<1>6. timer' \in TimerStates
    <2>1. timer \in TimerStates
        BY DEF TypeOK
    <2>2. timer' \in {Scheduled(timer, FALSE), PressureScheduled(timer), timer}
        BY DEF Settle
    <2>. QED BY <2>1, <2>2, ScheduledType
<1>7. fl' \in [Flushers -> FlushStates]
    BY IdleTypes DEF Settle, TypeOK
<1>. QED BY <1>1, <1>2, <1>3, <1>4, <1>5, <1>6, <1>7 DEF TypeOK, pressure, life

(* The failure counter stays within its bound. *)
LEMMA FailedType ==
    ASSUME TypeOK
    PROVE  Failed \in 0..DisconnectedAt
BY QueueAssumption DEF TypeOK, Failed

(* _buffer[len(batch):] is a queue, even when it is shorter than the batch. *)
LEMMA TrailingType ==
    ASSUME TypeOK, NEW f \in Flushers
    PROVE  Trailing(f) \in Seq(Event)
<1>1. fl[f].done \in Seq(Event) /\ buffer \in Seq(Event)
    BY DEF TypeOK, FlushStates
<1>. DEFINE m == Len(fl[f].done) + 1
            n == Len(buffer)
<1>2. m \in Int /\ m >= 1 /\ n \in Int
    BY <1>1
<1>3. \A i \in m..n : buffer[i] \in Event
    BY <1>1, <1>2
<1>. HIDE DEF m, n
<1>4. SubSeq(buffer, m, n) \in Seq(Event)
    BY <1>2, <1>3, SubSeqProperties
<1>. QED BY <1>4 DEF Trailing, m, n

(* The acknowledgement decides the new front of the queue.                 *)
LEMMA AcknowledgedType ==
    ASSUME TypeOK, NEW f \in Flushers,
           NEW retry \in Orders(Len(fl[f].done)), NEW reduce \in Orders(Len(fl[f].done)),
           NEW accepted \in 0..Len(fl[f].done), NEW late \in BOOLEAN,
           CompleteAcknowledged(f, retry, reduce, accepted, late)
    PROVE  TypeOK'
<1>. DEFINE batch == fl[f].done
            fresh == Allocated(Len(reduce))
            kept == [i \in 1..Len(retry) |-> batch[retry[i]]]
            reduced == [i \in 1..Len(reduce) |->
                          [batch[reduce[i]] EXCEPT !.id = fresh[i], !.kind = "exception",
                                                   !.skip = TRUE]]
            again == retry # <<>> \/ reduce # <<>>
            sizes == [i \in DOMAIN buffer_sizes \cup Range(fresh) |->
                        IF i \in Range(fresh)
                        THEN reduced[CHOOSE j \in DOMAIN fresh : fresh[j] = i].bytes
                        ELSE buffer_sizes[i]]
<1>1. batch \in Seq(Event) /\ Len(batch) \in Nat
    BY DEF TypeOK, FlushStates
<1>2. ASSUME NEW s \in Orders(Len(batch))
      PROVE  Len(s) \in Nat /\ \A i \in 1..Len(s) : s[i] \in 1..Len(batch)
    <2>1. PICK m \in 0..Len(batch) : s \in Injection(1..m, 1..Len(batch))
        BY <1>2, Zenon DEF Orders
    <2>2. s \in [1..m -> 1..Len(batch)]
        BY <2>1, Zenon DEF Injection
    <2>3. m \in Nat
        BY <1>1
    <2>4. s \in Seq(1..Len(batch))
        BY <2>2, <2>3
    <2>. QED BY <2>4
<1>3. kept \in Seq(Event)
    <2>1. Len(retry) \in Nat /\ \A i \in 1..Len(retry) : batch[retry[i]] \in Event
        BY <1>1, <1>2
    <2>. QED BY <2>1
<1>4. /\ Allocated(Len(reduce)) \in [1..Len(reduce) -> Ids \ Live]
      /\ Len(reduce) \in Nat
    <2>1. Allocations(Len(reduce)) # {}
        BY DEF CompleteAcknowledged
    <2>2. Allocated(Len(reduce)) \in Allocations(Len(reduce))
        BY <2>1 DEF Allocated
    <2>. QED BY <1>2, <2>2, Zenon DEF Allocations, Injection
<1>. HIDE DEF fresh
<1>5. reduced \in Seq(Event)
    <2>1. ASSUME NEW i \in 1..Len(reduce)
          PROVE  [batch[reduce[i]] EXCEPT !.id = fresh[i], !.kind = "exception",
                                          !.skip = TRUE] \in Event
        <3>1. batch[reduce[i]] \in Event /\ fresh[i] \in Ids
            <4>1. reduce[i] \in 1..Len(batch)
                BY <1>2
            <4>. QED BY <1>1, <1>4, <4>1 DEF fresh
        <3>. DEFINE x == batch[reduce[i]] y == fresh[i]
        <3>2. x \in Event /\ y \in Ids
            BY <3>1
        <3>. HIDE DEF x, y
        <3>3. [x EXCEPT !.id = y, !.kind = "exception", !.skip = TRUE] \in Event
            BY <3>2 DEF Event, Kinds, HighKinds
        <3>. QED BY <3>3 DEF x, y
    <2>2. reduced \in [1..Len(reduce) -> Event]
        BY <2>1, Zenon
    <2>. HIDE DEF reduced
    <2>. QED BY <1>4, <2>2
<1>6. /\ Settle(f, kept \o reduced \o Trailing(f), sizes, late, again)
      /\ hook_bypass' = (hook_bypass \cup Range(fresh)) \cap IdsOf(buffer')
      /\ last_event_at' = (last_event_at \/ accepted > 0)
      /\ consecutive_failures' = IF again THEN Failed
                                 ELSE IF accepted > 0 THEN 0 ELSE DisconnectedAt
      /\ evidence' \in Observes
      /\ UNCHANGED <<pressure, life, lock, cap>>
    BY DEF CompleteAcknowledged, fresh
<1>7. kept \o reduced \o Trailing(f) \in Seq(Event)
    <2>. HIDE DEF kept, reduced
    <2>1. kept \o reduced \in Seq(Event)
        BY <1>3, <1>5, ConcatProperties
    <2>. QED BY <2>1, TrailingType, ConcatProperties
<1>8. hook_bypass' \subseteq Ids
    <2>1. Range(fresh) \subseteq Ids
        BY <1>4 DEF Range, fresh
    <2>. QED BY <1>6, <2>1 DEF TypeOK
<1>9. consecutive_failures' \in 0..DisconnectedAt
    <2>1. consecutive_failures' \in {Failed, 0, DisconnectedAt}
        BY <1>6
    <2>2. 0 \in 0..DisconnectedAt /\ DisconnectedAt \in 0..DisconnectedAt
        BY QueueAssumption
    <2>. QED BY <2>1, <2>2, FailedType
<1>10. last_event_at' \in BOOLEAN
    BY <1>6, Zenon
<1>11. evidence' \in BOOLEAN
    BY <1>6, QueueAssumption DEF Observes, TypeOK
<1>. DEFINE new == kept \o reduced \o Trailing(f)
<1>. HIDE DEF kept, reduced, sizes, again, new
<1>12. Settle(f, new, sizes, late, again) /\ new \in Seq(Event)
    BY <1>6, <1>7 DEF new
<1>. QED BY <1>6, <1>8, <1>9, <1>10, <1>11, <1>12, SettleType

(* The position finalize_batch writes at is one of the queue.              *)
LEMMA NextPosition ==
    ASSUME TypeOK, BatchAtFront, NEW f \in Flushers, Claims(f), fl[f].todo # <<>>
    PROVE  Len(fl[f].done) + 1 \in 1..Len(buffer)
<1>. DEFINE d == fl[f].done
            t == fl[f].todo
<1>1. d \in Seq(Event) /\ t \in Seq(Event) /\ buffer \in Seq(Event)
    BY DEF TypeOK, FlushStates
<1>2. Len(d) + Len(t) <= Len(buffer)
    BY DEF BatchAtFront, AtFront, Fronts
<1>3. t # <<>>
    OBVIOUS
<1>. HIDE DEF d, t
<1>4. Len(d) \in Nat /\ Len(buffer) \in Nat /\ Len(t) \in Nat /\ Len(t) # 0
    BY <1>1, <1>3, EmptySeq
<1>5. Len(d) + 1 \in 1..Len(buffer)
    BY <1>2, <1>4
<1>. QED BY <1>5 DEF d

(* The steps from the snapshot on. The thread writes at positions of the   *)
(* queue it computed before it released the lock: BatchAtFront is what     *)
(* makes them positions of its own batch.                                  *)
LEMMA TypeFlushEnd ==
    ASSUME TypeOK, BatchAtFront, NEW f \in Flushers,
           \/ FinalizeProtect(f) \/ FinalizeWithhold(f) \/ SelectNothing(f)
           \/ \E k \in Kinds, b \in Sizes : FinalizeReplace(f, k, b)
           \/ \E n \in 1..Len(fl[f].done) : SelectBatch(f, n)
           \/ Complete(f)
    PROVE  TypeOK'
<1>. USE DEF queue, pressure, ownership, sender, health, life
<1>0. /\ fl[f] \in FlushStates /\ IdleFlush \in FlushStates
      /\ fl[f].done \in Seq(Event) /\ fl[f].todo \in Seq(Event) /\ buffer \in Seq(Event)
    BY IdleTypes DEF TypeOK, FlushStates
<1>1. ASSUME NEW k \in Kinds, NEW b \in Sizes, FinalizeReplace(f, k, b)
      PROVE  TypeOK'
    <2>. DEFINE e == Head(fl[f].todo)
                i == Len(fl[f].done) + 1
                r == [e EXCEPT !.id = FreshId, !.kind = k, !.bytes = b]
    <2>1. e \in Event /\ Tail(fl[f].todo) \in Seq(Event)
        BY <1>0, <1>1, HeadTailProperties DEF FinalizeReplace, Finalizing
    <2>2. FreshId \in Ids /\ b \in Nat
        BY <1>1, FreshIdType, QueueAssumption DEF FinalizeReplace
    <2>3. /\ buffer' = [buffer EXCEPT ![i] = r]
          /\ hook_bypass' = Unmarked(e.id) \cup Inherited(e.id, r.id)
          /\ diagnostics' = (diagnostics \ {e.id}) \cup (IF k = "recovery" THEN {r.id} ELSE {})
          /\ fl' = [fl EXCEPT ![f].done = Append(@, r), ![f].todo = Tail(@),
                              ![f].proof = "unread"]
          /\ UNCHANGED <<pending_low_priority, pressure, evidence, sender, timer,
                         health, life, lock, cap>>
        BY <1>1 DEF FinalizeReplace
    <2>. HIDE DEF e
    <2>4. r \in Event /\ r.id \in Ids
        BY <2>1, <2>2 DEF Event
    <2>. HIDE DEF r, i
    <2>5. buffer' \in Seq(Event)
        <3>1. i \in 1..Len(buffer)
            BY <1>1, NextPosition DEF i, FinalizeReplace, Finalizing, Claims
        <3>. QED BY <1>0, <2>3, <2>4, <3>1, ExceptSeq
    <2>6. hook_bypass' \subseteq Ids /\ diagnostics' \subseteq Ids
        BY <2>3, <2>4 DEF Unmarked, Inherited, TypeOK
    <2>7. Append(fl[f].done, r) \in Seq(Event)
        BY <1>0, <2>4, AppendProperties
    <2>. DEFINE d == Append(fl[f].done, r)
                t == Tail(fl[f].todo)
    <2>8. fl' = [fl EXCEPT ![f] = [fl[f] EXCEPT !.done = d, !.todo = t, !.proof = "unread"]]
        BY <2>3
    <2>. HIDE DEF d, t
    <2>9. [fl[f] EXCEPT !.done = d, !.todo = t, !.proof = "unread"] \in FlushStates
        BY <1>0, <2>1, <2>7 DEF FlushStates, d, t
    <2>10. fl' \in [Flushers -> FlushStates]
        BY <2>8, <2>9 DEF TypeOK
    <2>. QED BY <2>3, <2>5, <2>6, <2>10 DEF TypeOK
<1>2. CASE FinalizeWithhold(f)
    <2>1. Len(fl[f].done) + 1 \in 1..Len(buffer)
        <3>1. fl[f].todo # <<>> /\ Claims(f)
            BY <1>2 DEF FinalizeWithhold, Finalizing, Claims
        <3>. QED BY <1>0, <3>1, NextPosition
    <2>2. buffer' = RemoveAt(buffer, Len(fl[f].done) + 1)
        BY <1>2 DEF FinalizeWithhold
    <2>3. buffer' \in Seq(Event)
        BY <1>0, <2>1, <2>2, RemoveAtSeq
    <2>4. pressure_drops' \in 0..MaxPressure
        BY <1>2, CountedType DEF FinalizeWithhold, TypeOK
    <2>5. hook_bypass' \subseteq Ids /\ diagnostics' \subseteq Ids
        BY <1>2 DEF FinalizeWithhold, Unmarked, TypeOK
    <2>6. fl' \in [Flushers -> FlushStates]
        <3>. DEFINE t == Tail(fl[f].todo)
        <3>1. t \in Seq(Event)
            BY <1>0, <1>2, HeadTailProperties DEF FinalizeWithhold, Finalizing
        <3>2. fl' = [fl EXCEPT ![f] = [fl[f] EXCEPT !.todo = t, !.proof = "unread"]]
            BY <1>2 DEF FinalizeWithhold
        <3>. HIDE DEF t
        <3>3. [fl[f] EXCEPT !.todo = t, !.proof = "unread"] \in FlushStates
            BY <1>0, <3>1 DEF FlushStates
        <3>. QED BY <3>2, <3>3 DEF TypeOK
    <2>7. inflight_count' \in Int
        BY <1>2 DEF FinalizeWithhold, TypeOK
    <2>8. UNCHANGED <<pending_low_priority, reported, evidence, sending, timer,
                      health, life, lock, cap>>
        BY <1>2 DEF FinalizeWithhold
    <2>. QED BY <2>3, <2>4, <2>5, <2>6, <2>7, <2>8 DEF TypeOK
<1>p. CASE FinalizeProtect(f)
    <2>. DEFINE p == IF evidence THEN "proved" ELSE "absent"
    <2>1. fl' = [fl EXCEPT ![f] = [fl[f] EXCEPT !.proof = p]]
        BY <1>p DEF FinalizeProtect
    <2>2. p \in {"unread", "proved", "absent"}
        OBVIOUS
    <2>. HIDE DEF p
    <2>3. [fl[f] EXCEPT !.proof = p] \in FlushStates
        BY <1>0, <2>2 DEF FlushStates
    <2>4. fl' \in [Flushers -> FlushStates]
        BY <2>1, <2>3 DEF TypeOK
    <2>5. UNCHANGED <<queue, pressure, ownership, sender, timer, health, life, lock, cap>>
        BY <1>p DEF FinalizeProtect
    <2>. QED BY <2>4, <2>5 DEF TypeOK
<1>3. CASE SelectNothing(f)
    <2>1. fl' \in [Flushers -> FlushStates]
        BY <1>0, <1>3 DEF TypeOK, SelectNothing
    <2>2. timer' \in TimerStates
        BY <1>3, ScheduledType DEF TypeOK, SelectNothing
    <2>3. sending' \in BOOLEAN
        BY <1>3 DEF SelectNothing
    <2>4. inflight_count' \in Int
        BY <1>3 DEF SelectNothing
    <2>5. UNCHANGED <<queue, pressure, ownership, health, life, lock, cap>>
        BY <1>3 DEF SelectNothing
    <2>. QED BY <2>1, <2>2, <2>3, <2>4, <2>5 DEF TypeOK
<1>4. ASSUME NEW n \in 1..Len(fl[f].done), SelectBatch(f, n)
      PROVE  TypeOK'
    <2>. DEFINE tail == (n + 1)..Len(fl[f].done)
                marked == [i \in DOMAIN buffer |->
                            IF i \in tail THEN [buffer[i] EXCEPT !.skip = TRUE] ELSE buffer[i]]
                d == SubSeq(fl[f].done, 1, n)
    <2>1. /\ buffer' = marked
          /\ hook_bypass' = hook_bypass \cup {fl[f].done[i].id : i \in tail}
          /\ fl' = [fl EXCEPT ![f] = [fl[f] EXCEPT !.pc = "send", !.done = d,
                                                !.closed = Http /\ disposed]]
          /\ UNCHANGED <<buffer_sizes, buffer_bytes, pending_low_priority, pressure,
                         diagnostics, evidence, sending, timer, health, life, lock, cap>>
        BY <1>4 DEF SelectBatch
    <2>2. ASSUME NEW i \in DOMAIN buffer PROVE marked[i] \in Event
        <3>1. buffer[i] \in Event
            BY <1>0
        <3>. DEFINE x == buffer[i]
        <3>. HIDE DEF x
        <3>2. x \in Event => [x EXCEPT !.skip = TRUE] \in Event
            BY DEF Event
        <3>3. marked[i] = x \/ marked[i] = [x EXCEPT !.skip = TRUE]
            BY DEF x
        <3>. QED BY <3>1, <3>2, <3>3 DEF x
    <2>3. marked \in [DOMAIN buffer -> Event]
        BY <2>2, Zenon
    <2>4. DOMAIN buffer = 1..Len(buffer) /\ Len(buffer) \in Nat
        BY <1>0
    <2>5. buffer' \in Seq(Event)
        <3>. HIDE DEF marked
        <3>. QED BY <2>1, <2>3, <2>4
    <2>6. hook_bypass' \subseteq Ids
        <3>1. \A i \in tail : i \in 1..Len(fl[f].done)
            BY <1>0
        <3>2. ASSUME NEW i \in 1..Len(fl[f].done) PROVE fl[f].done[i].id \in Ids
            <4>1. fl[f].done[i] \in Event
                BY <1>0
            <4>. QED BY <4>1 DEF Event
        <3>. HIDE DEF tail
        <3>3. {fl[f].done[i].id : i \in tail} \subseteq Ids
            BY <3>1, <3>2
        <3>. QED BY <2>1, <3>3 DEF TypeOK
    <2>7. d \in Seq(Event)
        <3>1. 1 \in Int /\ n \in Int /\ \A i \in 1..n : fl[f].done[i] \in Event
            BY <1>0
        <3>. QED BY <3>1, SubSeqProperties
    <2>8. fl' \in [Flushers -> FlushStates]
        <3>. HIDE DEF d
        <3>0. (Http /\ disposed) \in BOOLEAN
            BY QueueAssumption DEF TypeOK
        <3>1. [fl[f] EXCEPT !.pc = "send", !.done = d, !.closed = Http /\ disposed] \in FlushStates
            BY <1>0, <2>7, <3>0 DEF FlushStates
        <3>. QED BY <2>1, <3>1 DEF TypeOK
    <2>9. inflight_count' \in Int
        <3>1. inflight_count' = n
            BY <1>4, Zenon DEF SelectBatch
        <3>2. n \in Int
            BY <1>0
        <3>. QED BY <3>1, <3>2
    <2>. HIDE DEF marked, d, tail
    <2>. QED BY <2>1, <2>5, <2>6, <2>8, <2>9 DEF TypeOK
<1>5. CASE CompleteFailed(f)
    <2>1. /\ Settle(f, buffer, buffer_sizes, FALSE, TRUE)
          /\ hook_bypass' \subseteq hook_bypass
          /\ consecutive_failures' = Failed
          /\ UNCHANGED <<pressure, evidence, last_event_at, life, lock, cap>>
        BY <1>5 DEF CompleteFailed
    <2>2. /\ hook_bypass' \subseteq Ids /\ consecutive_failures' \in 0..DisconnectedAt
          /\ evidence' \in BOOLEAN /\ last_event_at' \in BOOLEAN
        BY <2>1, FailedType DEF TypeOK
    <2>. QED BY <1>0, <2>1, <2>2, SettleType
<1>6. ASSUME NEW late \in BOOLEAN, CompleteRetryAfter(f, late)
      PROVE  TypeOK'
    <2>1. /\ Settle(f, buffer, buffer_sizes, late, TRUE)
          /\ hook_bypass' \subseteq hook_bypass
          /\ consecutive_failures' = Failed
          /\ evidence' \in {evidence, FALSE}
          /\ UNCHANGED <<pressure, last_event_at, life, lock, cap>>
        BY <1>6 DEF CompleteRetryAfter
    <2>2. /\ hook_bypass' \subseteq Ids /\ consecutive_failures' \in 0..DisconnectedAt
          /\ evidence' \in BOOLEAN /\ last_event_at' \in BOOLEAN
        BY <2>1, FailedType DEF TypeOK
    <2>. QED BY <1>0, <2>1, <2>2, SettleType
<1>7. CASE CompleteRemoved(f)
    <2>1. /\ Settle(f, Trailing(f), buffer_sizes, FALSE, FALSE)
          /\ hook_bypass' \subseteq hook_bypass
          /\ evidence' \in {evidence, FALSE} /\ last_event_at' \in {last_event_at, TRUE}
          /\ consecutive_failures' \in {0, Failed}
          /\ UNCHANGED <<pressure, life, lock, cap>>
        BY <1>7 DEF CompleteRemoved
    <2>2. 0 \in 0..DisconnectedAt
        BY QueueAssumption
    <2>3. /\ hook_bypass' \subseteq Ids /\ consecutive_failures' \in 0..DisconnectedAt
          /\ evidence' \in BOOLEAN /\ last_event_at' \in BOOLEAN
        BY <2>1, <2>2, FailedType DEF TypeOK
    <2>. QED BY <2>1, <2>3, SettleType, TrailingType
<1>. QED BY <1>1, <1>p, <1>2, <1>3, <1>4, <1>5, <1>6, <1>7, AcknowledgedType DEF Complete

(* Time, discovery, init, dispose and fork keep the types.                 *)
LEMMA TypeLifecycle ==
    ASSUME TypeOK, Held,
           Lifecycle \/ RetryWindowExpires \/ PressureWindowExpires \/ UNCHANGED vars
    PROVE  TypeOK' /\ Held'
<1>. USE DEF queue, pressure, ownership, sender, health, life
<1>0. generation + 1 \in Nat /\ 0 \in 0..DisconnectedAt /\ 0 \in 0..MaxPressure
    BY QueueAssumption DEF TypeOK
<1>1. ASSUME Emptied
      PROVE  /\ buffer' \in Seq(Event) /\ pending_low_priority' \in Int
             /\ consecutive_failures' \in 0..DisconnectedAt /\ generation' \in Nat
             /\ hook_bypass' \subseteq Ids /\ diagnostics' \subseteq Ids
             /\ timer' \in TimerStates
    BY <1>0, <1>1 DEF Emptied, TimerStates
<1>2. ASSUME Emptied
      PROVE  backoff' \in BOOLEAN /\ last_event_at' \in BOOLEAN
    BY <1>2 DEF Emptied
<1>3. ASSUME NEW on \in BOOLEAN, InitSdk(on)
      PROVE  TypeOK' /\ Held'
    <2>1. /\ Emptied /\ UNCHANGED <<pressure, sender, lock, cap, fl>>
        BY <1>3 DEF InitSdk
    <2>2. /\ evidence' \in BOOLEAN /\ enabled' \in BOOLEAN /\ transport' \in BOOLEAN
          /\ disposed' \in BOOLEAN
        BY <1>3, QueueAssumption DEF InitSdk
    <2>. QED BY <1>1, <1>2, <2>1, <2>2 DEF TypeOK, Held
<1>4. CASE Dispose
    <2>1. /\ hook_bypass' \subseteq Ids /\ diagnostics' \subseteq Ids /\ timer' \in TimerStates
          /\ evidence' \in BOOLEAN /\ disposed' \in BOOLEAN
        BY <1>4 DEF Dispose, TimerStates
    <2>2. UNCHANGED <<queue, pressure, sender, health, enabled, transport, generation,
                      lock, cap, fl>>
        BY <1>4 DEF Dispose
    <2>. QED BY <2>1, <2>2 DEF TypeOK, Held
<1>5. CASE EnsureCurrentProcess
    <2>1. Emptied /\ UNCHANGED <<enabled, disposed>>
        BY <1>5 DEF EnsureCurrentProcess
    <2>2. /\ evidence' \in BOOLEAN /\ reported' \in BOOLEAN /\ sending' \in BOOLEAN
          /\ transport' \in BOOLEAN
        BY <1>5 DEF EnsureCurrentProcess, TypeOK
    <2>3. pressure_drops' \in 0..MaxPressure /\ inflight_count' \in Int
        BY <1>0, <1>5 DEF EnsureCurrentProcess
    <2>4. /\ cap' \in [Callers -> CapStates] /\ fl' \in [Flushers -> FlushStates]
          /\ lock' \in {"free"} \cup Callers \cup Flushers
        BY <1>5, IdleTypes DEF EnsureCurrentProcess
    <2>5. Held'
        BY <1>5 DEF EnsureCurrentProcess, Held, IdleCap
    <2>. QED BY <1>1, <1>2, <2>1, <2>2, <2>3, <2>4, <2>5 DEF TypeOK
<1>6. CASE Discover
    BY <1>6, QueueAssumption DEF Discover, TypeOK, Held
<1>7. CASE RetryWindowExpires
    BY <1>7 DEF RetryWindowExpires, TypeOK, Held
<1>8. CASE PressureWindowExpires
    BY <1>8 DEF PressureWindowExpires, TypeOK, Held
<1>9. CASE UNCHANGED vars
    BY <1>9 DEF vars, TypeOK, Held
<1>. QED BY <1>3, <1>4, <1>5, <1>6, <1>7, <1>8, <1>9 DEF Lifecycle

-----------------------------------------------------------------------------
(* The sender's reservation and the timer.                                 *)

(* There is no timer while a flush is reserved: the reservation cancels it *)
(* and _schedule_flush_locked creates none.                                *)
Quiet == sending => timer = "none"

Control == OneSender /\ Quiet /\ NoLostWakeup

(* Before the first init() nobody sends and nothing is queued. *)
LEMMA ControlInit == Init => Control
BY DEF Init, Control, OneSender, Quiet, NoLostWakeup, Reserved, IdleFlush

(* A capture creates a timer only when no flush is reserved, and leaves    *)
(* none out when it queues an event.                                       *)
LEMMA ControlCapture ==
    ASSUME TypeOK, Held, Control, NEW c \in Callers, CaptureStep(c)
    PROVE  Control'
<1>. USE DEF queue, pressure, ownership, sender, health, life
<1>1. UNCHANGED <<sender, life, fl>>
    BY DEF CaptureStep, Prepare, Refuse, Contended, CountDrop, Decline, OfferBegin,
           OfferEvict, OfferReject, OfferAdmit, OfferOverBudget
<1>2. OneSender'
    BY <1>1 DEF Control, OneSender, Reserved
<1>3. CASE UNCHANGED <<buffer, timer>>
    BY <1>1, <1>2, <1>3 DEF Control, Quiet, NoLostWakeup, Alive
<1>4. CASE OfferEvict(c)
    <2>1. buffer # <<>> /\ timer' = timer
        BY <1>4 DEF OfferEvict, Evictable
    <2>. QED BY <1>1, <1>2, <2>1 DEF Control, Quiet, NoLostWakeup, Alive
<1>5. CASE OfferAdmit(c)
    <2>1. timer' = Scheduled(timer, sending)
        BY <1>5 DEF OfferAdmit, Admitted
    <2>. QED BY <1>1, <1>2, <2>1 DEF Control, Quiet, NoLostWakeup, Alive, Scheduled
<1>. QED BY <1>3, <1>4, <1>5
     DEF CaptureStep, Prepare, Refuse, Contended, CountDrop, Decline, OfferBegin,
         OfferReject, OfferOverBudget

(* While a thread holds the reservation it is the only one, and there is   *)
(* no timer.                                                               *)
LEMMA Exclusive ==
    ASSUME Control, NEW f \in Flushers, Reserved(f)
    PROVE  sending /\ timer = "none" /\ \A g \in Flushers : g # f => ~Reserved(g)
BY DEF Control, OneSender, Quiet

(* A step of f leaves the other threads alone.                             *)
Others(f) == \A g \in Flushers : g # f => fl'[g] = fl[g]

(* A step of the reserved thread that keeps the reservation.               *)
LEMMA KeepReservation ==
    ASSUME TypeOK, Control, NEW f \in Flushers, Reserved(f), Reserved(f)',
           Others(f), UNCHANGED <<sending, timer>>
    PROVE  Control'
<1>1. /\ sending' = sending /\ sending /\ timer' = "none"
      /\ \A g \in Flushers : g # f => ~Reserved(g)
    BY Exclusive
<1>3. \A g \in Flushers : g # f => ~Reserved(g)'
    BY <1>1 DEF Reserved, Others
<1>. QED BY <1>1, <1>3 DEF Control, OneSender, Quiet, NoLostWakeup

(* A step of the reserved thread that gives the reservation back. If it    *)
(* leaves events behind it must leave a timer behind.                      *)
LEMMA GiveBackReservation ==
    ASSUME TypeOK, Control, NEW f \in Flushers, Reserved(f),
           fl' = [fl EXCEPT ![f] = IdleFlush], sending' = FALSE,
           buffer' # <<>> => timer' = "armed"
    PROVE  Control'
<1>1. \A g \in Flushers : g # f => ~Reserved(g)
    BY Exclusive
<1>2. fl'[f].pc = "idle" /\ \A g \in Flushers : g # f => fl'[g] = fl[g]
    BY DEF TypeOK, IdleFlush
<1>3. \A g \in Flushers : ~Reserved(g)'
    BY <1>1, <1>2 DEF Reserved
<1>. QED BY <1>3 DEF Control, OneSender, Quiet, NoLostWakeup, Alive

(* The finally block of flush_sdk leaves a timer whenever it leaves events *)
(* and is not itself in a retry window.                                    *)
LEMMA SettleControl ==
    ASSUME TypeOK, Control, NEW f \in Flushers, Reserved(f), NEW kept, NEW sizes,
           NEW late, NEW again, Settle(f, kept, sizes, late, again), late => again
    PROVE  Control'
<1>1. timer = "none"
    BY Exclusive
<1>2. /\ fl' = [fl EXCEPT ![f] = IdleFlush] /\ sending' = FALSE /\ buffer' = kept
      /\ timer' = IF again \/ RunsAgain(kept, late) THEN Scheduled(timer, FALSE)
                  ELSE IF kept = <<>> /\ timer = "none" THEN PressureScheduled(timer)
                  ELSE timer
    BY DEF Settle
<1>3. Scheduled(timer, FALSE) = "armed"
    BY <1>1, ThreadsAssumption DEF Scheduled, Alive
<1>4. buffer' # <<>> => timer' = "armed"
    BY <1>1, <1>2, <1>3 DEF RunsAgain
<1>. QED BY <1>2, <1>4, GiveBackReservation

(* Only the thread that has sent a batch completes it. *)
LEMMA CompleteSends ==
    ASSUME NEW f, Complete(f)
    PROVE  fl[f].pc = "send" /\ UNCHANGED <<life, lock, cap>>
<1>1. CASE CompleteFailed(f)
    BY <1>1 DEF CompleteFailed, Completing
<1>2. CASE CompleteRemoved(f)
    BY <1>2 DEF CompleteRemoved, Completing
<1>3. ASSUME NEW late, CompleteRetryAfter(f, late)
      PROVE  fl[f].pc = "send" /\ UNCHANGED <<life, lock, cap>>
    BY <1>3 DEF CompleteRetryAfter, Completing
<1>4. ASSUME NEW retry, NEW reduce, NEW accepted, NEW late,
             CompleteAcknowledged(f, retry, reduce, accepted, late)
      PROVE  fl[f].pc = "send" /\ UNCHANGED <<life, lock, cap>>
    <2>1. Completing(f, "ack") /\ UNCHANGED <<life, lock, cap>>
        BY <1>4, Zenon DEF CompleteAcknowledged
    <2>. QED BY <2>1 DEF Completing
<1>. QED BY <1>1, <1>2, <1>3, <1>4, Zenon DEF Complete

(* No step of a flush changes who owns the process, or what captures hold. *)
LEMMA FlushFrame ==
    ASSUME NEW f, TimerFires(f) \/ ExplicitFlush(f) \/ FlushStep(f)
    PROVE  UNCHANGED generation /\ UNCHANGED cap
<1>. USE DEF life
<1>1. CASE TimerFires(f) \/ ExplicitFlush(f) \/ FlushIdle(f) \/ FlushBackoff(f)
    BY <1>1 DEF TimerFires, ExplicitFlush, FlushIdle, FlushBackoff
<1>2. CASE \E n \in 0..MaxAggregates : FlushReserve(f, n)
    BY <1>2 DEF FlushReserve
<1>3. CASE FlushAbandon(f) \/ FlushAdmit(f) \/ FlushAggregateLost(f) \/ FlushPressureLost(f)
    BY <1>3 DEF FlushAbandon, FlushAdmit, FlushAggregateLost, FlushPressureLost
<1>4. CASE \E b \in Sizes : FlushAggregate(f, b) \/ FlushPressure(f, b)
    BY <1>4 DEF FlushAggregate, FlushPressure
<1>5. CASE FlushEmpty(f) \/ FlushSnapshot(f) \/ FinalizeProtect(f)
    BY <1>5 DEF FlushEmpty, FlushSnapshot, FinalizeProtect
<1>6. CASE FinalizeWithhold(f) \/ SelectNothing(f)
    BY <1>6 DEF FinalizeWithhold, SelectNothing
<1>7. CASE \E k \in Kinds, b \in Sizes : FinalizeReplace(f, k, b)
    BY <1>7 DEF FinalizeReplace
<1>8. CASE \E n \in 1..Len(fl[f].done) : SelectBatch(f, n)
    BY <1>8 DEF SelectBatch
<1>9. CASE Complete(f)
    BY <1>9, CompleteSends
<1>. QED BY <1>1, <1>2, <1>3, <1>4, <1>5, <1>6, <1>7, <1>8, <1>9 DEF FlushStep

(* Every completion ends in the finally block, and a retry window is only  *)
(* opened by a branch that schedules the retry.                            *)
LEMMA Settled ==
    ASSUME NEW f, Complete(f)
    PROVE  \E kept, sizes, late, again :
              Settle(f, kept, sizes, late, again) /\ (late => again)
<1>1. CASE CompleteFailed(f)
    BY <1>1, Zenon DEF CompleteFailed
<1>2. CASE CompleteRemoved(f)
    BY <1>2, Zenon DEF CompleteRemoved
<1>3. CASE \E late \in BOOLEAN : CompleteRetryAfter(f, late)
    BY <1>3, Zenon DEF CompleteRetryAfter
<1>4. ASSUME NEW retry, NEW reduce, NEW accepted, NEW late,
             CompleteAcknowledged(f, retry, reduce, accepted, late)
      PROVE  \E kept, sizes, again :
                Settle(f, kept, sizes, late, again) /\ (late => again)
    BY <1>4, Zenon DEF CompleteAcknowledged
<1>. QED BY <1>1, <1>2, <1>3, <1>4, Zenon DEF Complete

(* Every step of a flush keeps the reservation exclusive and the timer alive: one case
   per early return, offer, finalization step and completion of flush_sdk. *)
LEMMA ControlFlush ==
    ASSUME TypeOK, Control, NEW f \in Flushers,
           TimerFires(f) \/ ExplicitFlush(f) \/ FlushStep(f)
    PROVE  Control'
<1>. USE DEF queue, pressure, ownership, sender, health, life
<1>0. fl[f] \in FlushStates
    BY DEF TypeOK
<1>a. ASSUME fl[f].pc \in {"idle", "start"}, fl'[f].pc \in {"idle", "start"}, Others(f)
      PROVE  \A g \in Flushers : Reserved(g)' <=> Reserved(g)
    BY <1>a DEF Others, Reserved
<1>b. ASSUME Reserved(f) PROVE Scheduled(timer, sending) = timer
    BY <1>b, Exclusive DEF Scheduled
<1>c. ASSUME Reserved(f) PROVE Scheduled(timer, FALSE) = "armed"
    <2>1. timer = "none"
        BY <1>c, Exclusive
    <2>. QED BY <2>1, ThreadsAssumption DEF Scheduled, Alive
<1>1. CASE TimerFires(f)
    <2>1. /\ timer' = f /\ timer = "armed" /\ fl[f].pc = "idle"
          /\ UNCHANGED <<sender, life, buffer>>
        BY <1>1 DEF TimerFires
    <2>2. fl'[f].pc = "start" /\ Others(f)
        BY <1>0, <1>1 DEF TimerFires, TypeOK, FlushStates, Others
    <2>3. \A g \in Flushers : Reserved(g)' <=> Reserved(g)
        BY <1>a, <2>1, <2>2
    <2>4. ~sending
        BY <2>1 DEF Control, Quiet
    <2>. QED BY <2>1, <2>2, <2>3, <2>4 DEF Control, OneSender, Quiet, NoLostWakeup, Alive
<1>2. CASE ExplicitFlush(f)
    <2>1. fl[f].pc = "idle" /\ UNCHANGED <<sender, life, buffer, timer>>
        BY <1>2 DEF ExplicitFlush
    <2>2. fl'[f].pc = "start" /\ Others(f)
        BY <1>0, <1>2 DEF ExplicitFlush, TypeOK, FlushStates, Others
    <2>3. \A g \in Flushers : Reserved(g)' <=> Reserved(g)
        BY <1>a, <2>1, <2>2
    <2>4. Alive(timer) => Alive(timer)'
        BY <2>1, <2>2 DEF Alive, Others
    <2>. QED BY <2>1, <2>3, <2>4 DEF Control, OneSender, Quiet, NoLostWakeup
<1>3. CASE FlushIdle(f)
    <2>1. /\ fl[f].pc = "start"
          /\ timer' = IF timer = f THEN "dead" ELSE timer
          /\ ~Reservable /\ UNCHANGED <<sender, life, buffer>>
        BY <1>3 DEF FlushIdle
    <2>2. fl'[f].pc = "idle" /\ Others(f)
        BY <1>3 DEF FlushIdle, TypeOK, IdleFlush, Others
    <2>3. \A g \in Flushers : Reserved(g)' <=> Reserved(g)
        BY <1>a, <2>1, <2>2
    <2>4. sending => timer' = "none"
        BY <2>1, ThreadsAssumption DEF Control, Quiet
    <2>5. timer # f => (Alive(timer) => Alive(timer)')
        BY <2>1, <2>2 DEF Alive, Others
    <2>. QED BY <2>1, <2>3, <2>4, <2>5
         DEF Control, OneSender, Quiet, NoLostWakeup, Reservable
<1>4. CASE FlushBackoff(f)
    <2>1. /\ fl[f].pc = "start" /\ timer' = "armed" /\ ~sending
          /\ UNCHANGED <<sender, life, buffer>>
        BY <1>4 DEF FlushBackoff, Reservable
    <2>2. fl'[f].pc = "idle" /\ Others(f)
        BY <1>4 DEF FlushBackoff, TypeOK, IdleFlush, Others
    <2>3. \A g \in Flushers : Reserved(g)' <=> Reserved(g)
        BY <1>a, <2>1, <2>2
    <2>. QED BY <2>1, <2>3 DEF Control, OneSender, Quiet, NoLostWakeup, Alive
<1>5. ASSUME NEW n \in 0..MaxAggregates, FlushReserve(f, n)
      PROVE  Control'
    <2>1. /\ fl'[f].pc = "reserved" /\ \A g \in Flushers : g # f => fl'[g] = fl[g]
          /\ timer' = "none" /\ sending' /\ ~sending
        BY <1>0, <1>5 DEF FlushReserve, Reservable, TypeOK, FlushStates
    <2>2. Reserved(f)' /\ \A g \in Flushers : g # f => ~Reserved(g)'
        BY <2>1 DEF Control, OneSender, Reserved
    <2>. QED BY <2>1, <2>2 DEF Control, OneSender, Quiet, NoLostWakeup
<1>6. CASE FlushAbandon(f)
    <2>1. /\ Reserved(f) /\ fl' = [fl EXCEPT ![f] = IdleFlush] /\ sending' = FALSE
          /\ buffer' = buffer
          /\ timer' = IF buffer # <<>> THEN Scheduled(timer, FALSE) ELSE timer
        BY <1>6 DEF FlushAbandon, Reserved
    <2>2. buffer' # <<>> => timer' = "armed"
        BY <1>c, <2>1
    <2>. QED BY <2>1, <2>2, GiveBackReservation
<1>7. ASSUME Reserved(f), fl'[f].pc \in {"admit", "finalize", "send"}, Others(f),
             sending' = sending, timer' \in {timer, Scheduled(timer, sending)}
      PROVE  Control'
    <2>1. timer' = timer /\ Reserved(f)'
        BY <1>7, <1>b DEF Reserved
    <2>. QED BY <1>7, <2>1, KeepReservation
<1>8. CASE FlushAdmit(f)
    <2>1. Reserved(f) /\ UNCHANGED <<sending, timer>>
        BY <1>8 DEF FlushAdmit, Reserved
    <2>2. fl'[f].pc = "admit" /\ Others(f)
        BY <1>0, <1>8 DEF FlushAdmit, TypeOK, FlushStates, Others
    <2>. QED BY <1>7, <2>1, <2>2
<1>9. ASSUME NEW b \in Sizes, FlushAggregate(f, b) \/ FlushPressure(f, b)
      PROVE  Control'
    <2>1. /\ fl[f].pc = "admit" /\ sending' = sending
          /\ timer' \in {timer, Scheduled(timer, sending)}
        BY <1>9 DEF FlushAggregate, FlushPressure, Admitted
    <2>2. fl'[f].pc = fl[f].pc /\ Others(f)
        <3>1. \/ fl' = [fl EXCEPT ![f].aggs = @ - 1]
              \/ fl' = [fl EXCEPT ![f].count = 0]
            BY <1>9 DEF FlushAggregate, FlushPressure
        <3>2. CASE fl' = [fl EXCEPT ![f].aggs = @ - 1]
            BY <1>0, <3>2 DEF TypeOK, FlushStates, Others
        <3>3. CASE fl' = [fl EXCEPT ![f].count = 0]
            BY <1>0, <3>3 DEF TypeOK, FlushStates, Others
        <3>. QED BY <3>1, <3>2, <3>3
    <2>. QED BY <1>7, <2>1, <2>2 DEF Reserved
<1>10. CASE FlushAggregateLost(f) \/ FlushPressureLost(f)
    <2>1. fl[f].pc = "admit" /\ UNCHANGED <<sending, timer>>
        BY <1>10 DEF FlushAggregateLost, FlushPressureLost
    <2>2. fl'[f].pc = fl[f].pc /\ Others(f)
        BY <1>0, <1>10 DEF FlushAggregateLost, FlushPressureLost, TypeOK, FlushStates, Others
    <2>. QED BY <1>7, <2>1, <2>2 DEF Reserved
<1>11. CASE FlushEmpty(f)
    <2>1. /\ Reserved(f) /\ fl' = [fl EXCEPT ![f] = IdleFlush] /\ sending' = FALSE
          /\ buffer' = <<>>
        BY <1>11 DEF FlushEmpty, Reserved
    <2>. QED BY <2>1, GiveBackReservation
<1>12. CASE FlushSnapshot(f)
    <2>1. Reserved(f) /\ UNCHANGED <<sending, timer>>
        BY <1>12 DEF FlushSnapshot, Reserved
    <2>2. fl'[f].pc = "finalize" /\ Others(f)
        BY <1>0, <1>12 DEF FlushSnapshot, TypeOK, FlushStates, Others
    <2>. QED BY <1>7, <2>1, <2>2
<1>13. ASSUME NEW k \in Kinds, NEW b \in Sizes, FinalizeReplace(f, k, b)
       PROVE  Control'
    <2>1. fl[f].pc = "finalize" /\ UNCHANGED <<sending, timer>>
        BY <1>13 DEF FinalizeReplace, Finalizing
    <2>2. fl'[f].pc = fl[f].pc /\ Others(f)
        BY <1>0, <1>13 DEF FinalizeReplace, TypeOK, FlushStates, Others
    <2>. QED BY <1>7, <2>1, <2>2 DEF Reserved
<1>14. CASE FinalizeProtect(f) \/ FinalizeWithhold(f)
    <2>1. fl[f].pc = "finalize" /\ UNCHANGED <<sending, timer>>
        BY <1>14 DEF FinalizeProtect, FinalizeWithhold, Finalizing
    <2>2. fl'[f].pc = fl[f].pc /\ Others(f)
        BY <1>0, <1>14 DEF FinalizeProtect, FinalizeWithhold, TypeOK, FlushStates, Others
    <2>. QED BY <1>7, <2>1, <2>2 DEF Reserved
<1>15. CASE SelectNothing(f)
    <2>1. /\ Reserved(f) /\ fl' = [fl EXCEPT ![f] = IdleFlush] /\ sending' = FALSE
          /\ buffer' = buffer
          /\ timer' = IF buffer # <<>> THEN Scheduled(timer, FALSE) ELSE timer
        BY <1>15 DEF SelectNothing, Reserved
    <2>2. buffer' # <<>> => timer' = "armed"
        BY <1>c, <2>1
    <2>. QED BY <2>1, <2>2, GiveBackReservation
<1>16. ASSUME NEW n \in 1..Len(fl[f].done), SelectBatch(f, n)
       PROVE  Control'
    <2>1. fl[f].pc = "finalize" /\ UNCHANGED <<sending, timer>>
        BY <1>16 DEF SelectBatch
    <2>2. fl'[f].pc = "send" /\ Others(f)
        BY <1>0, <1>16 DEF SelectBatch, TypeOK, FlushStates, Others
    <2>. QED BY <1>7, <2>1, <2>2 DEF Reserved
<1>17. CASE Complete(f)
    <2>1. \E kept, sizes, late, again :
            Settle(f, kept, sizes, late, again) /\ (late => again)
        BY <1>17, Settled
    <2>2. Reserved(f)
        BY <1>17, CompleteSends DEF Reserved
    <2>. QED BY <2>1, <2>2, SettleControl
<1>. QED BY <1>1, <1>2, <1>3, <1>4, <1>5, <1>6, <1>8, <1>9, <1>10, <1>11, <1>12, <1>13,
            <1>14, <1>15, <1>16, <1>17 DEF FlushStep

(* init, dispose, fork and the passing of time keep the reservation exclusive and no
   event without a timer. *)
LEMMA ControlLifecycle ==
    ASSUME TypeOK, Control,
           Lifecycle \/ RetryWindowExpires \/ PressureWindowExpires \/ UNCHANGED vars
    PROVE  Control'
<1>. USE DEF queue, pressure, ownership, sender, health, life
<1>1. CASE UNCHANGED <<buffer, sending, timer, fl, enabled, transport, disposed>>
    BY <1>1 DEF Control, OneSender, Quiet, NoLostWakeup, Reserved, Alive
<1>2. ASSUME NEW on \in BOOLEAN, InitSdk(on)
      PROVE  Control'
    BY <1>2 DEF InitSdk, Emptied, Control, OneSender, Quiet, NoLostWakeup, Reserved
<1>3. CASE Dispose
    BY <1>3 DEF Dispose, Control, OneSender, Quiet, NoLostWakeup, Reserved
<1>4. CASE EnsureCurrentProcess
    BY <1>4 DEF EnsureCurrentProcess, Emptied, Control, OneSender, Quiet, NoLostWakeup,
                Reserved, IdleFlush
<1>. QED BY <1>1, <1>2, <1>3, <1>4
     DEF Lifecycle, Discover, RetryWindowExpires, PressureWindowExpires, vars

-----------------------------------------------------------------------------
(* The batch and the front of the queue.                                   *)

(* A thread that has not taken its snapshot has no batch, and no batch is  *)
(* of a generation that is still to come.                                  *)
Patient(f) ==
    /\ fl[f].pc \notin {"finalize", "send"} => fl[f].done = <<>> /\ fl[f].todo = <<>>
    /\ Reserved(f) => fl[f].gen <= generation

Waiting == \A f \in Flushers : Patient(f)

InFront == BatchAtFront /\ Waiting

(* Nobody has a batch at the start. *)
LEMMA FrontInit == Init => InFront
BY DEF Init, InFront, BatchAtFront, Waiting, Patient, Claims, Reserved, IdleFlush

(* A step that keeps the events up to inflight_count where they are does   *)
(* not disturb a batch.                                                    *)
LEMMA FrontKept ==
    ASSUME TypeOK, TypeOK', InFront, UNCHANGED <<inflight_count, generation, fl>>,
           \A f \in Flushers : Claims(f) => inflight_count <= Len(buffer'),
           \A j \in 1..Len(buffer) : j <= inflight_count => buffer'[j] = buffer[j]
    PROVE  InFront'
<1>1. Waiting'
    BY DEF InFront, Waiting, Patient, Reserved
<1>2. ASSUME NEW f \in Flushers, Claims(f)'
      PROVE  AtFront(f)'
    <2>. DEFINE d == fl[f].done
                t == fl[f].todo
    <2>1. Claims(f) /\ fl' = fl /\ inflight_count' = inflight_count
        BY <1>2 DEF Claims
    <2>2. /\ inflight_count = Len(d) + Len(t) /\ Len(d) + Len(t) <= Len(buffer)
          /\ \A i \in 1..Len(d) : buffer[i] = d[i]
          /\ \A i \in 1..Len(t) : buffer[Len(d) + i] = t[i]
        BY <2>1 DEF InFront, BatchAtFront, AtFront, Fronts
    <2>3. d \in Seq(Event) /\ t \in Seq(Event) /\ buffer \in Seq(Event)
        BY DEF TypeOK, FlushStates
    <2>. HIDE DEF d, t
    <2>5. Len(d) \in Nat /\ Len(t) \in Nat /\ Len(buffer) \in Nat
        BY <2>3
    <2>6. ASSUME NEW i \in 1..Len(d) PROVE buffer'[i] = d[i]
        <3>1. i \in 1..Len(buffer) /\ i <= inflight_count
            BY <2>2, <2>5
        <3>. QED BY <2>2, <3>1
    <2>7. ASSUME NEW i \in 1..Len(t) PROVE buffer'[Len(d) + i] = t[i]
        <3>1. Len(d) + i \in 1..Len(buffer) /\ Len(d) + i <= inflight_count
            BY <2>2, <2>5
        <3>. QED BY <2>2, <3>1
    <2>8. Len(d) + Len(t) <= Len(buffer')
        BY <2>1, <2>2
    <2>9. inflight_count = Len(d) + Len(t) /\ Fronts(d, t, buffer')
        BY <2>2, <2>6, <2>7, <2>8 DEF Fronts
    <2>. QED BY <2>1, <2>9 DEF AtFront, d, t
<1>3. BatchAtFront'
    BY <1>2 DEF BatchAtFront
<1>. QED BY <1>1, <1>3 DEF InFront

(* Captures evict and insert behind the batch in flight only. *)
LEMMA FrontCapture ==
    ASSUME TypeOK, TypeOK', Held, InFront, NEW c \in Callers, CaptureStep(c)
    PROVE  InFront'
<1>. USE DEF queue, pressure, ownership, sender, health, life
<1>1. UNCHANGED <<inflight_count, generation, fl>>
    BY DEF CaptureStep, Prepare, Refuse, Contended, CountDrop, Decline, OfferBegin,
           OfferEvict, OfferReject, OfferAdmit, OfferOverBudget
<1>2. \A f \in Flushers : Claims(f) => inflight_count <= Len(buffer)
    BY DEF InFront, BatchAtFront, AtFront, Fronts
<1>3. buffer \in Seq(Event) /\ Len(buffer) \in Nat /\ inflight_count \in Int
    BY DEF TypeOK
<1>4. CASE UNCHANGED buffer
    BY <1>1, <1>2, <1>4, FrontKept
<1>5. CASE OfferEvict(c)
    <2>. DEFINE i == Min(Evictable)
    <2>1. i \in 1..Len(buffer) /\ i > inflight_count
        BY <1>3, <1>5, BehindBatch DEF OfferEvict, Evictable
    <2>2. buffer' = RemoveAt(buffer, i)
        BY <1>5 DEF OfferEvict
    <2>. HIDE DEF i
    <2>3. /\ Len(buffer') = Len(buffer) - 1
          /\ \A j \in 1..(i - 1) : buffer'[j] = buffer[j]
        BY <1>3, <2>1, <2>2, RemoveAtSeq
    <2>4. inflight_count <= Len(buffer')
        BY <1>3, <2>1, <2>3
    <2>5. ASSUME NEW j \in 1..Len(buffer), j <= inflight_count PROVE buffer'[j] = buffer[j]
        <3>1. j \in 1..(i - 1)
            BY <1>3, <2>1, <2>5
        <3>. QED BY <2>3, <3>1
    <2>. QED BY <1>1, <2>4, <2>5, FrontKept
<1>6. CASE OfferAdmit(c)
    <2>. DEFINE e == cap[c].event[1]
                a == [e EXCEPT !.skip = (e.kind = "fatal")]
    <2>1. e \in Event
        BY <1>6, HeldEvent DEF OfferAdmit
    <2>2. a \in Event /\ cap[c].pressed \in BOOLEAN
        BY <2>1 DEF Event, TypeOK, CapStates
    <2>3. Admitted(a, cap[c].pressed)
        BY <1>6 DEF OfferAdmit
    <2>. HIDE DEF e, a
    <2>4. /\ Len(buffer') = Len(buffer) + 1
          /\ \A j \in 1..Len(buffer) : j <= inflight_count => buffer'[j] = buffer[j]
        BY <2>2, <2>3, AdmittedType
    <2>5. \A f \in Flushers : Claims(f) => inflight_count <= Len(buffer')
        BY <1>2, <1>3, <2>4
    <2>. QED BY <1>1, <2>4, <2>5, FrontKept
<1>. QED BY <1>4, <1>5, <1>6
     DEF CaptureStep, Prepare, Refuse, Contended, CountDrop, Decline, OfferBegin,
         OfferReject, OfferOverBudget

(* Writing a finalized event in place.                                     *)
LEMMA FrontsReplace ==
    ASSUME NEW S, NEW d \in Seq(S), NEW t \in Seq(S), NEW b \in Seq(S), NEW r \in S,
           t # <<>>, Fronts(d, t, b)
    PROVE  Fronts(Append(d, r), Tail(t), [b EXCEPT ![Len(d) + 1] = r])
<1>. DEFINE i == Len(d) + 1
            nd == Append(d, r)
            nt == Tail(t)
            nb == [b EXCEPT ![i] = r]
<1>1. /\ Len(d) \in Nat /\ Len(t) \in Nat /\ Len(b) \in Nat /\ Len(t) # 0
      /\ Len(d) + Len(t) <= Len(b)
    BY EmptySeq DEF Fronts
<1>2. /\ Len(nd) = Len(d) + 1 /\ nd[Len(d) + 1] = r
      /\ \A j \in 1..Len(d) : nd[j] = d[j]
    BY AppendProperties
<1>3. Len(nt) = Len(t) - 1 /\ \A j \in 1..Len(nt) : nt[j] = t[j + 1]
    BY HeadTailProperties
<1>4. i \in 1..Len(b)
    BY <1>1
<1>5. /\ Len(nb) = Len(b)
      /\ \A j \in 1..Len(b) : nb[j] = IF j = i THEN r ELSE b[j]
    BY <1>4, ExceptSeq
<1>. HIDE DEF nd, nt, nb
<1>6. Len(nd) + Len(nt) <= Len(nb)
    BY <1>1, <1>2, <1>3, <1>5
<1>7. ASSUME NEW j \in 1..Len(nd) PROVE nb[j] = nd[j]
    <2>1. CASE j = i
        BY <1>2, <1>4, <1>5, <2>1
    <2>2. CASE j # i
        <3>1. j \in 1..Len(d) /\ j \in 1..Len(b)
            BY <1>1, <1>2, <2>2
        <3>2. b[j] = d[j]
            BY <3>1 DEF Fronts
        <3>. QED BY <1>2, <1>5, <2>2, <3>1, <3>2
    <2>. QED BY <2>1, <2>2
<1>8. ASSUME NEW j \in 1..Len(nt) PROVE nb[Len(nd) + j] = nt[j]
    <2>0. j \in 1..(Len(t) - 1) /\ Len(nd) = Len(d) + 1
        BY <1>2, <1>3
    <2>1. /\ j + 1 \in 1..Len(t) /\ Len(nd) + j = Len(d) + (j + 1)
          /\ Len(nd) + j \in 1..Len(b) /\ Len(nd) + j # i
        BY <1>1, <2>0
    <2>2. b[Len(d) + (j + 1)] = t[j + 1]
        BY <2>1 DEF Fronts
    <2>. QED BY <1>3, <1>5, <2>1, <2>2
<1>9. Fronts(nd, nt, nb)
    BY <1>6, <1>7, <1>8 DEF Fronts
<1>. QED BY <1>9 DEF nd, nt, nb, i

(* Taking a withheld event out.                                            *)
LEMMA FrontsWithhold ==
    ASSUME NEW S, NEW d \in Seq(S), NEW t \in Seq(S), NEW b \in Seq(S),
           t # <<>>, Fronts(d, t, b)
    PROVE  Fronts(d, Tail(t), RemoveAt(b, Len(d) + 1))
<1>. DEFINE i == Len(d) + 1
            nt == Tail(t)
            nb == RemoveAt(b, i)
<1>1. /\ Len(d) \in Nat /\ Len(t) \in Nat /\ Len(b) \in Nat /\ Len(t) # 0
      /\ Len(d) + Len(t) <= Len(b)
    BY EmptySeq DEF Fronts
<1>2. Len(nt) = Len(t) - 1 /\ \A j \in 1..Len(nt) : nt[j] = t[j + 1]
    BY HeadTailProperties
<1>3. i \in 1..Len(b)
    BY <1>1
<1>4. /\ Len(nb) = Len(b) - 1
      /\ \A j \in 1..(i - 1) : nb[j] = b[j]
      /\ \A j \in i..(Len(b) - 1) : nb[j] = b[j + 1]
    BY <1>3, RemoveAtSeq
<1>. HIDE DEF nt, nb
<1>5. Len(d) + Len(nt) <= Len(nb)
    BY <1>1, <1>2, <1>4
<1>6. ASSUME NEW j \in 1..Len(d) PROVE nb[j] = d[j]
    <2>1. j \in 1..(i - 1)
        BY <1>1
    <2>2. b[j] = d[j]
        BY DEF Fronts
    <2>. QED BY <1>4, <2>1, <2>2
<1>7. ASSUME NEW j \in 1..Len(nt) PROVE nb[Len(d) + j] = nt[j]
    <2>1. /\ j + 1 \in 1..Len(t) /\ (Len(d) + j) + 1 = Len(d) + (j + 1)
          /\ Len(d) + j \in i..(Len(b) - 1)
        BY <1>1, <1>2
    <2>2. b[Len(d) + (j + 1)] = t[j + 1]
        BY <2>1 DEF Fronts
    <2>3. nb[Len(d) + j] = b[(Len(d) + j) + 1]
        BY <1>4, <2>1
    <2>. QED BY <1>2, <2>1, <2>2, <2>3
<1>8. Fronts(d, nt, nb)
    BY <1>5, <1>6, <1>7 DEF Fronts
<1>. QED BY <1>8 DEF nt, nb, i

(* Fronts is what BatchIsPrefix says.                                      *)
LEMMA FrontsPrefix ==
    ASSUME NEW S, NEW d \in Seq(S), NEW t \in Seq(S), NEW b \in Seq(S), Fronts(d, t, b)
    PROVE  IsPrefix(d \o t, b)
<1>. DEFINE w == d \o t
            u == SubSeq(w, 1, Len(w))
            v == SubSeq(b, 1, Len(w))
<1>1. /\ w \in Seq(S) /\ Len(w) = Len(d) + Len(t)
      /\ \A i \in 1..(Len(d) + Len(t)) : w[i] = IF i <= Len(d) THEN d[i] ELSE t[i - Len(d)]
    BY ConcatProperties
<1>2. Len(d) \in Nat /\ Len(t) \in Nat /\ Len(b) \in Nat /\ Len(d) + Len(t) <= Len(b)
    BY DEF Fronts
<1>. HIDE DEF w
<1>3. ASSUME NEW i \in 1..Len(w) PROVE w[i] = b[i]
    <2>1. CASE i <= Len(d)
        <3>1. i \in 1..Len(d) /\ i \in 1..(Len(d) + Len(t))
            BY <1>1, <1>2, <2>1
        <3>2. b[i] = d[i]
            BY <3>1 DEF Fronts
        <3>. QED BY <1>1, <2>1, <3>1, <3>2
    <2>2. CASE ~(i <= Len(d))
        <3>1. /\ i - Len(d) \in 1..Len(t) /\ i \in 1..(Len(d) + Len(t))
              /\ Len(d) + (i - Len(d)) = i
            BY <1>1, <1>2, <2>2
        <3>2. b[Len(d) + (i - Len(d))] = t[i - Len(d)]
            BY <3>1 DEF Fronts
        <3>. QED BY <1>1, <2>2, <3>1, <3>2
    <2>. QED BY <2>1, <2>2
<1>4. Len(w) \in Nat /\ 1 \in Int /\ \A i \in 1..Len(w) : w[i] \in S /\ b[i] \in S
    BY <1>1, <1>2
<1>5. /\ u \in Seq(S) /\ Len(u) = (IF 1 <= Len(w) THEN Len(w) - 1 + 1 ELSE 0)
      /\ \A i \in 1..(Len(w) - 1 + 1) : u[i] = w[1 + i - 1]
    BY <1>4, SubSeqProperties
<1>6. /\ v \in Seq(S) /\ Len(v) = (IF 1 <= Len(w) THEN Len(w) - 1 + 1 ELSE 0)
      /\ \A i \in 1..(Len(w) - 1 + 1) : v[i] = b[1 + i - 1]
    BY <1>4, SubSeqProperties
<1>. HIDE DEF u, v
<1>7. ASSUME NEW i \in 1..Len(u) PROVE u[i] = v[i]
    <2>1. i \in 1..(Len(w) - 1 + 1) /\ 1 + i - 1 = i /\ i \in 1..Len(w)
        BY <1>4, <1>5
    <2>. QED BY <1>3, <1>5, <1>6, <2>1
<1>8. u = v
    BY <1>5, <1>6, <1>7, SeqEqual
<1>9. Len(w) <= Len(b)
    BY <1>1, <1>2
<1>. QED BY <1>8, <1>9 DEF IsPrefix, w, u, v

(* A step of the reserved thread concerns nobody else's batch.             *)
LEMMA FrontAlone ==
    ASSUME Control, InFront, NEW f \in Flushers, Reserved(f), Others(f), UNCHANGED generation,
           Claims(f)' => AtFront(f)', Patient(f)'
    PROVE  InFront'
<1>1. ASSUME NEW g \in Flushers, g # f PROVE ~Claims(g)' /\ Patient(g)'
    <2>1. ~Reserved(g) /\ Patient(g) /\ fl'[g] = fl[g]
        BY <1>1, Exclusive DEF Others, InFront, Waiting
    <2>. QED BY <2>1 DEF Claims, Patient, Reserved
<1>. QED BY <1>1 DEF InFront, BatchAtFront, Waiting

(* A step of a thread that takes no part, or stops taking part, in sending.*)
LEMMA FrontAside ==
    ASSUME InFront, NEW f \in Flushers, Others(f), UNCHANGED <<buffer, inflight_count, generation>>,
           ~Claims(f)', Patient(f)'
    PROVE  InFront'
<1>1. ASSUME NEW g \in Flushers, g # f PROVE (Claims(g)' => AtFront(g)') /\ Patient(g)'
    <2>1. Patient(g) /\ (Claims(g) => AtFront(g)) /\ fl'[g] = fl[g]
        BY <1>1 DEF Others, InFront, Waiting, BatchAtFront
    <2>. QED BY <2>1 DEF Claims, AtFront, Patient, Reserved
<1>. QED BY <1>1 DEF InFront, BatchAtFront, Waiting

(* A thread that gives up or finishes has no batch.                        *)
LEMMA FrontFinished ==
    ASSUME TypeOK, Control, InFront, NEW f \in Flushers, Reserved(f),
           fl' = [fl EXCEPT ![f] = IdleFlush], UNCHANGED generation
    PROVE  InFront'
<1>1. fl'[f] = IdleFlush /\ Others(f)
    BY DEF TypeOK, Others
<1>2. ~Claims(f)' /\ Patient(f)'
    BY <1>1 DEF Claims, Patient, Reserved, IdleFlush
<1>. QED BY <1>1, <1>2, FrontAlone

(* Every step of a flush keeps its own batch at the front of the queue. *)
LEMMA FrontFlush ==
    ASSUME TypeOK, TypeOK', Control, InFront, NEW f \in Flushers,
           TimerFires(f) \/ ExplicitFlush(f) \/ FlushStep(f)
    PROVE  InFront'
<1>. USE DEF queue, pressure, ownership, sender, health, life
<1>0. /\ fl[f] \in FlushStates /\ Patient(f)
      /\ fl[f].done \in Seq(Event) /\ fl[f].todo \in Seq(Event) /\ buffer \in Seq(Event)
    BY DEF TypeOK, InFront, Waiting, FlushStates
<1>g. UNCHANGED generation
    BY FlushFrame
<1>1. CASE TimerFires(f) \/ ExplicitFlush(f)
    <2>1. /\ fl'[f].pc = "start" /\ fl'[f].done = fl[f].done /\ fl'[f].todo = fl[f].todo
          /\ Others(f) /\ fl[f].pc = "idle"
        <3>1. fl[f].pc = "idle" /\ fl' = [fl EXCEPT ![f].pc = "start"]
            BY <1>1 DEF TimerFires, ExplicitFlush
        <3>. QED BY <1>0, <3>1 DEF TypeOK, FlushStates, Others
    <2>2. UNCHANGED <<buffer, inflight_count>>
        BY <1>1 DEF TimerFires, ExplicitFlush
    <2>3. ~Claims(f)' /\ Patient(f)'
        BY <1>0, <2>1 DEF Claims, Patient, Reserved
    <2>. QED BY <1>g, <2>1, <2>2, <2>3, FrontAside
<1>2. CASE FlushIdle(f) \/ FlushBackoff(f)
    <2>1. fl'[f] = IdleFlush /\ Others(f)
        BY <1>2 DEF FlushIdle, FlushBackoff, TypeOK, Others
    <2>2. UNCHANGED <<buffer, inflight_count>>
        BY <1>2 DEF FlushIdle, FlushBackoff
    <2>3. ~Claims(f)' /\ Patient(f)'
        BY <2>1 DEF Claims, Patient, Reserved, IdleFlush
    <2>. QED BY <1>g, <2>1, <2>2, <2>3, FrontAside
<1>3. ASSUME NEW n \in 0..MaxAggregates, FlushReserve(f, n)
      PROVE  InFront'
    <2>1. /\ fl'[f].pc = "reserved" /\ fl'[f].done = fl[f].done /\ fl'[f].todo = fl[f].todo
          /\ fl'[f].gen = generation /\ Others(f) /\ fl[f].pc = "start"
        BY <1>0, <1>3 DEF FlushReserve, TypeOK, FlushStates, Others
    <2>2. UNCHANGED <<buffer, inflight_count>>
        BY <1>3 DEF FlushReserve
    <2>3. generation' <= generation'
        BY <1>g DEF TypeOK
    <2>4. ~Claims(f)' /\ Patient(f)'
        BY <1>0, <1>g, <2>1, <2>3 DEF Claims, Patient, Reserved
    <2>. QED BY <1>g, <2>1, <2>2, <2>4, FrontAside
<1>4. CASE FlushAbandon(f) \/ FlushEmpty(f) \/ SelectNothing(f)
    <2>1. Reserved(f) /\ fl' = [fl EXCEPT ![f] = IdleFlush]
        BY <1>4 DEF FlushAbandon, FlushEmpty, SelectNothing, Reserved
    <2>. QED BY <1>g, <2>1, FrontFinished
<1>5. CASE \/ FlushAdmit(f) \/ FlushAggregateLost(f) \/ FlushPressureLost(f)
           \/ \E b \in Sizes : FlushAggregate(f, b) \/ FlushPressure(f, b)
    <2>1. /\ fl'[f].pc = "admit" /\ fl'[f].done = fl[f].done /\ fl'[f].todo = fl[f].todo
          /\ fl'[f].gen = fl[f].gen /\ Others(f) /\ fl[f].pc \in {"reserved", "admit"}
        <3>1. /\ fl[f].pc \in {"reserved", "admit"}
              /\ \/ fl' = [fl EXCEPT ![f].pc = "admit"]
                 \/ fl[f].pc = "admit" /\ fl' = [fl EXCEPT ![f].aggs = @ - 1]
                 \/ fl[f].pc = "admit" /\ fl' = [fl EXCEPT ![f].count = 0]
            BY <1>5 DEF FlushAdmit, FlushAggregateLost, FlushPressureLost, FlushAggregate,
                        FlushPressure
        <3>2. CASE fl' = [fl EXCEPT ![f].pc = "admit"]
            BY <1>0, <3>1, <3>2 DEF TypeOK, FlushStates, Others
        <3>3. CASE fl[f].pc = "admit" /\ fl' = [fl EXCEPT ![f].aggs = @ - 1]
            BY <1>0, <3>3 DEF TypeOK, FlushStates, Others
        <3>4. CASE fl[f].pc = "admit" /\ fl' = [fl EXCEPT ![f].count = 0]
            BY <1>0, <3>4 DEF TypeOK, FlushStates, Others
        <3>. QED BY <3>1, <3>2, <3>3, <3>4
    <2>2. Reserved(f) /\ ~Claims(f)' /\ Patient(f)'
        BY <1>0, <1>g, <2>1 DEF Claims, Patient, Reserved
    <2>. QED BY <1>g, <2>1, <2>2, FrontAlone
<1>6. CASE FlushSnapshot(f)
    <2>1. /\ fl'[f].pc = "finalize" /\ fl'[f].done = fl[f].done /\ fl'[f].todo = buffer
          /\ fl'[f].gen = fl[f].gen /\ Others(f) /\ fl[f].pc = "admit"
        BY <1>0, <1>6 DEF FlushSnapshot, TypeOK, FlushStates, Others
    <2>2. Reserved(f) /\ Patient(f)' /\ fl'[f].done = <<>>
        BY <1>0, <1>g, <2>1 DEF Patient, Reserved
    <2>3. buffer' = buffer /\ inflight_count' = Len(buffer)
        BY <1>6 DEF FlushSnapshot
    <2>4. Len(<<>>) = 0 /\ Len(buffer) \in Nat
        BY <1>0
    <2>5. Fronts(<<>>, buffer, buffer) /\ Len(buffer) = Len(<<>>) + Len(buffer)
        BY <2>4 DEF Fronts
    <2>6. AtFront(f)'
        BY <2>1, <2>2, <2>3, <2>5 DEF AtFront
    <2>. QED BY <1>g, <2>1, <2>2, <2>6, FrontAlone
<1>7. ASSUME NEW k \in Kinds, NEW b \in Sizes, FinalizeReplace(f, k, b)
      PROVE  InFront'
    <2>. DEFINE d == fl[f].done
                t == fl[f].todo
                e == Head(t)
                r == [e EXCEPT !.id = FreshId, !.kind = k, !.bytes = b]
    <2>1. /\ fl[f].pc = "finalize" /\ t # <<>> /\ fl[f].gen = generation
          /\ buffer' = [buffer EXCEPT ![Len(d) + 1] = r] /\ inflight_count' = inflight_count
          /\ fl' = [fl EXCEPT ![f].done = Append(@, r), ![f].todo = Tail(@),
                              ![f].proof = "unread"]
        BY <1>7 DEF FinalizeReplace, Finalizing
    <2>2. r \in Event
        <3>1. e \in Event
            BY <1>0, <2>1, HeadTailProperties
        <3>2. FreshId \in Ids /\ b \in Nat
            BY <1>7, FreshIdType, QueueAssumption DEF FinalizeReplace
        <3>. HIDE DEF e
        <3>. QED BY <3>1, <3>2 DEF Event
    <2>3. inflight_count = Len(d) + Len(t) /\ Fronts(d, t, buffer)
        BY <2>1 DEF InFront, BatchAtFront, Claims, AtFront
    <2>. HIDE DEF r
    <2>4. /\ fl'[f].done = Append(d, r) /\ fl'[f].todo = Tail(t) /\ fl'[f].gen = fl[f].gen
          /\ fl'[f].pc = "finalize" /\ Others(f)
        BY <1>0, <2>1 DEF TypeOK, FlushStates, Others
    <2>5. d \in Seq(Event) /\ t \in Seq(Event)
        BY <1>0
    <2>6. Patient(f)' /\ Reserved(f)
        BY <1>0, <1>g, <2>1, <2>4 DEF Patient, Reserved
    <2>. HIDE DEF d, t
    <2>7. Fronts(Append(d, r), Tail(t), buffer')
        BY <1>0, <2>1, <2>2, <2>3, <2>5, FrontsReplace
    <2>8. inflight_count' = Len(Append(d, r)) + Len(Tail(t))
        <3>1. Len(Append(d, r)) = Len(d) + 1 /\ Len(Tail(t)) = Len(t) - 1
            BY <2>1, <2>2, <2>5, AppendProperties, HeadTailProperties
        <3>2. Len(d) \in Nat /\ Len(t) \in Nat
            BY <2>5
        <3>. QED BY <2>1, <2>3, <3>1, <3>2
    <2>9. AtFront(f)'
        BY <2>4, <2>7, <2>8 DEF AtFront
    <2>. QED BY <1>g, <2>4, <2>6, <2>9, FrontAlone
<1>p. CASE FinalizeProtect(f)
    <2>1. fl[f].pc = "finalize" /\ UNCHANGED <<buffer, inflight_count>>
        BY <1>p DEF FinalizeProtect
    <2>2. /\ fl'[f].done = fl[f].done /\ fl'[f].todo = fl[f].todo
          /\ fl'[f].gen = fl[f].gen /\ fl'[f].pc = fl[f].pc /\ Others(f)
        BY <1>0, <1>p DEF FinalizeProtect, TypeOK, FlushStates, Others
    <2>3. Patient(f)' /\ Reserved(f)
        BY <1>0, <1>g, <2>1, <2>2 DEF Patient, Reserved
    <2>4. Claims(f)' => AtFront(f)'
        BY <1>g, <2>1, <2>2 DEF InFront, BatchAtFront, Claims, AtFront
    <2>. QED BY <1>g, <2>2, <2>3, <2>4, FrontAlone
<1>8. CASE FinalizeWithhold(f)
    <2>. DEFINE d == fl[f].done
                t == fl[f].todo
    <2>1. /\ fl[f].pc = "finalize" /\ t # <<>> /\ fl[f].gen = generation
          /\ buffer' = RemoveAt(buffer, Len(d) + 1) /\ inflight_count' = inflight_count - 1
          /\ fl' = [fl EXCEPT ![f].todo = Tail(@), ![f].proof = "unread"]
        BY <1>8 DEF FinalizeWithhold, Finalizing
    <2>2. inflight_count = Len(d) + Len(t) /\ Fronts(d, t, buffer)
        BY <2>1 DEF InFront, BatchAtFront, Claims, AtFront
    <2>3. /\ fl'[f].done = d /\ fl'[f].todo = Tail(t) /\ fl'[f].gen = fl[f].gen
          /\ fl'[f].pc = "finalize" /\ Others(f)
        BY <1>0, <2>1 DEF TypeOK, FlushStates, Others
    <2>4. d \in Seq(Event) /\ t \in Seq(Event)
        BY <1>0
    <2>5. Patient(f)' /\ Reserved(f)
        BY <1>0, <1>g, <2>1, <2>3 DEF Patient, Reserved
    <2>. HIDE DEF d, t
    <2>6. Fronts(d, Tail(t), buffer')
        BY <1>0, <2>1, <2>2, <2>4, FrontsWithhold
    <2>7. inflight_count' = Len(d) + Len(Tail(t))
        <3>1. Len(Tail(t)) = Len(t) - 1
            BY <2>1, <2>4, HeadTailProperties
        <3>2. Len(d) \in Nat /\ Len(t) \in Nat
            BY <2>4
        <3>. QED BY <2>1, <2>2, <3>1, <3>2
    <2>8. AtFront(f)'
        BY <2>3, <2>6, <2>7 DEF AtFront
    <2>. QED BY <1>g, <2>3, <2>5, <2>8, FrontAlone
<1>9. ASSUME NEW n \in 1..Len(fl[f].done), SelectBatch(f, n)
      PROVE  InFront'
    <2>. DEFINE d == fl[f].done
                nd == SubSeq(d, 1, n)
                tail == (n + 1)..Len(d)
    <2>1. /\ fl[f].pc = "finalize" /\ fl[f].todo = <<>> /\ fl[f].gen = generation
          /\ inflight_count' = n
          /\ buffer' = [i \in DOMAIN buffer |->
                          IF i \in tail THEN [buffer[i] EXCEPT !.skip = TRUE] ELSE buffer[i]]
          /\ fl' = [fl EXCEPT ![f].pc = "send", ![f].done = SubSeq(@, 1, n),
                              ![f].closed = Http /\ disposed]
        BY <1>9 DEF SelectBatch
    <2>2. /\ fl'[f].done = nd /\ fl'[f].todo = <<>> /\ fl'[f].gen = fl[f].gen
          /\ fl'[f].pc = "send" /\ Others(f)
        BY <1>0, <2>1 DEF TypeOK, FlushStates, Others
    <2>3. Patient(f)' /\ Reserved(f)
        BY <1>0, <1>g, <2>1, <2>2 DEF Patient, Reserved
    <2>4. Fronts(d, <<>>, buffer)
        BY <2>1 DEF InFront, BatchAtFront, Claims, AtFront
    <2>5. d \in Seq(Event) /\ Len(d) \in Nat /\ n \in 1..Len(d) /\ Len(buffer) \in Nat
          /\ DOMAIN buffer = 1..Len(buffer) /\ Len(<<>>) = 0
        BY <1>0
    <2>. HIDE DEF d
    <2>6. Len(d) <= Len(buffer) /\ \A i \in 1..Len(d) : buffer[i] = d[i]
        BY <2>4, <2>5 DEF Fronts
    <2>7. Len(nd) = n /\ \A i \in 1..n : nd[i] = d[i]
        <3>1. 1 \in Int /\ n \in Int /\ \A i \in 1..n : d[i] \in Event
            BY <2>5
        <3>2. /\ Len(nd) = (IF 1 <= n THEN n - 1 + 1 ELSE 0)
              /\ \A i \in 1..(n - 1 + 1) : nd[i] = d[1 + i - 1]
            BY <3>1, SubSeqProperties
        <3>. HIDE DEF nd
        <3>. QED BY <2>5, <3>2
    <2>8. Len(buffer') = Len(buffer)
        BY <2>1, <2>5 DEF TypeOK
    <2>9. ASSUME NEW i \in 1..n PROVE buffer'[i] = nd[i]
        <3>1. i \in DOMAIN buffer /\ i \notin tail /\ i \in 1..Len(d)
            BY <2>5, <2>6
        <3>2. buffer'[i] = buffer[i]
            BY <2>1, <3>1
        <3>. HIDE DEF nd
        <3>. QED BY <2>6, <2>7, <3>1, <3>2
    <2>. HIDE DEF nd, tail
    <2>10. Fronts(nd, <<>>, buffer') /\ n = Len(nd) + Len(<<>>)
        BY <2>5, <2>6, <2>7, <2>8, <2>9 DEF Fronts
    <2>11. AtFront(f)'
        BY <2>1, <2>2, <2>10 DEF AtFront
    <2>. QED BY <1>g, <2>2, <2>3, <2>11, FrontAlone
<1>10. CASE Complete(f)
    <2>1. Reserved(f) /\ fl' = [fl EXCEPT ![f] = IdleFlush]
        <3>1. fl[f].pc = "send"
            BY <1>10, CompleteSends
        <3>2. \E kept, sizes, late, again : Settle(f, kept, sizes, late, again)
            BY <1>10, Settled
        <3>. QED BY <3>1, <3>2 DEF Settle, Reserved
    <2>. QED BY <1>g, <2>1, FrontFinished
<1>. QED BY <1>1, <1>2, <1>3, <1>4, <1>5, <1>6, <1>7, <1>p, <1>8, <1>9, <1>10 DEF FlushStep

(* init and fork make every batch in flight one of an earlier generation. *)
LEMMA FrontLifecycle ==
    ASSUME TypeOK, InFront,
           Lifecycle \/ RetryWindowExpires \/ PressureWindowExpires \/ UNCHANGED vars
    PROVE  InFront'
<1>. USE DEF queue, pressure, ownership, sender, health, life
<1>1. CASE UNCHANGED <<buffer, inflight_count, generation, fl>>
    BY <1>1 DEF InFront, BatchAtFront, AtFront, Waiting, Patient, Claims, Reserved
<1>2. ASSUME NEW on \in BOOLEAN, InitSdk(on)
      PROVE  InFront'
    <2>1. generation' = generation + 1 /\ fl' = fl
        BY <1>2 DEF InitSdk, Emptied
    <2>2. ASSUME NEW f \in Flushers PROVE ~Claims(f)' /\ Patient(f)'
        <3>1. Patient(f) /\ fl[f].gen \in Nat /\ generation \in Nat
            BY DEF InFront, Waiting, TypeOK, FlushStates
        <3>2. Reserved(f) => fl[f].gen # generation + 1 /\ fl[f].gen <= generation + 1
            BY <3>1 DEF Patient
        <3>. QED BY <2>1, <3>1, <3>2 DEF Claims, Patient, Reserved
    <2>. QED BY <2>2 DEF InFront, BatchAtFront, Waiting
<1>3. CASE EnsureCurrentProcess
    BY <1>3 DEF EnsureCurrentProcess, InFront, BatchAtFront, Waiting, Patient, Claims,
                Reserved, IdleFlush
<1>. QED BY <1>1, <1>2, <1>3
     DEF Lifecycle, Dispose, Discover, RetryWindowExpires, PressureWindowExpires, vars

-----------------------------------------------------------------------------
(* The inductive invariant and what follows from it.                       *)

IInv == TypeOK /\ Held /\ Control /\ InFront

(* The inductive step: one case per kind of step. *)
LEMMA Inductive == IInv /\ [Next]_vars => IInv'
<1>. SUFFICES ASSUME IInv, [Next]_vars PROVE IInv'
    OBVIOUS
<1>. USE DEF IInv
<1>1. ASSUME NEW c \in Callers, CaptureStep(c) PROVE IInv'
    <2>1. TypeOK' /\ Held' /\ Control'
        BY <1>1, TypeCapture, ControlCapture
    <2>. QED BY <1>1, <2>1, FrontCapture
<1>2. ASSUME NEW f \in Flushers, TimerFires(f) \/ ExplicitFlush(f) \/ FlushStep(f)
      PROVE  IInv'
    <2>1. TypeOK'
        BY <1>2, TypeFlushStart, TypeFlushEnd DEF FlushStep, InFront
    <2>2. Control' /\ InFront'
        BY <1>2, <2>1, ControlFlush, FrontFlush
    <2>3. UNCHANGED cap
        BY <1>2, FlushFrame
    <2>4. Held'
        BY <2>3 DEF Held
    <2>. QED BY <2>1, <2>2, <2>4
<1>3. CASE Lifecycle \/ RetryWindowExpires \/ PressureWindowExpires \/ UNCHANGED vars
    BY <1>3, TypeLifecycle, ControlLifecycle, FrontLifecycle
<1>. QED BY <1>1, <1>2, <1>3 DEF Next

(* IInv holds in every reachable state. *)
LEMMA Invariant == Spec => []IInv
<1>1. Init => IInv
    BY TypeInit, ControlInit, FrontInit DEF IInv
<1>. QED BY <1>1, Inductive, PTL DEF Spec

(* Every reachable state has the shapes TypeOK lists.                      *)
THEOREM TypeCorrect == Spec => []TypeOK
<1>1. IInv => TypeOK
    BY DEF IInv
<1>. QED BY <1>1, Invariant, PTL

(* flush_sdk never runs twice at the same time: _sending is set exactly    *)
(* while one thread holds the reservation, for any number of threads, and  *)
(* across init(), dispose() and fork.                                      *)
THEOREM SingleSender == Spec => []OneSender
<1>1. IInv => OneSender
    BY DEF IInv, Control
<1>. QED BY <1>1, Invariant, PTL

(* While the SDK can send, queued events always have a reserved flush or a *)
(* timer: the finally block of flush_sdk and every early return leave one. *)
THEOREM WakeupNeverLost == Spec => []NoLostWakeup
<1>1. IInv => NoLostWakeup
    BY DEF IInv, Control
<1>. QED BY <1>1, Invariant, PTL

(* The batch a thread finalizes or sends is always the front of the queue, *)
(* for queues, batches and event sizes of any length.                      *)
THEOREM BatchStaysInFront == Spec => []BatchIsPrefix
<1>1. ASSUME IInv PROVE BatchIsPrefix
    <2>. SUFFICES ASSUME NEW f \in Flushers, Claims(f)
                  PROVE  /\ inflight_count = Len(fl[f].done) + Len(fl[f].todo)
                         /\ IsPrefix(fl[f].done \o fl[f].todo, buffer)
        BY DEF BatchIsPrefix, Claims
    <2>1. AtFront(f)
        BY <1>1 DEF IInv, InFront, BatchAtFront
    <2>2. fl[f].done \in Seq(Event) /\ fl[f].todo \in Seq(Event) /\ buffer \in Seq(Event)
        BY <1>1 DEF IInv, TypeOK, FlushStates
    <2>. QED BY <2>1, <2>2, FrontsPrefix DEF AtFront
<1>. QED BY <1>1, Invariant, PTL
=============================================================================
