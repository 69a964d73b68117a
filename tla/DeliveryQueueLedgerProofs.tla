--------------------- MODULE DeliveryQueueLedgerProofs ---------------------
(***************************************************************************)
(* What the tables keyed by id() say of the queue: _buffer_sizes and       *)
(* _buffer_bytes charge exactly the queued events and stay within the      *)
(* limits, _hook_bypass marks exactly the events no hook may see, and the  *)
(* diagnostic budget is owned by the queued recoveries; for any number of  *)
(* threads, any sizes and any reuse of identities.                         *)
(*                                                                         *)
(* The inductive invariant is IInv of DeliveryQueueProofs with three parts *)
(* more: Ledger (identities are distinct and charged), Marks (the marks    *)
(* and the budget belong to queued events) and Separate (an event a thread *)
(* is still preparing shares its identity with no other).                  *)
(*                                                                         *)
(* From it follow, at the end, three promises that need more of their own: *)
(* no step removes a high-priority event outside the batch, probes and     *)
(* summaries stay in their generation (with Locked: who holds _lock), and  *)
(* _pending_low_priority counts what could be displaced (with Recounted).  *)
(***************************************************************************)
EXTENDS DeliveryQueueProofs, FiniteSums

-----------------------------------------------------------------------------
(* No identity is in the queue twice, each has the charge of its event,    *)
(* the total is the sum of the charges, and the limits hold.               *)
Distinct(b) == \A i, j \in DOMAIN b : b[i].id = b[j].id => i = j

Charges(b, sizes) ==
    sizes \in [IdsOf(b) -> Nat] /\ \A i \in DOMAIN b : sizes[b[i].id] = b[i].bytes

Ledger(b, sizes, total) ==
    /\ Distinct(b) /\ Charges(b, sizes)
    /\ total = SumFunction(sizes)
    /\ Len(b) <= MaxEvents /\ total <= MaxBytes

(* The marks of one event; gone: dispose() has cleared them.               *)
Marked(e, bypass, budget, gone) ==
    /\ e.id \in bypass => e.skip
    /\ e.id \in budget => e.kind = "recovery"
    /\ ~gone => (e.skip => e.id \in bypass) /\ (e.kind = "recovery" => e.id \in budget)

Marks(b, bypass, budget, gone) ==
    /\ bypass \subseteq IdsOf(b) /\ budget \subseteq IdsOf(b)
    /\ \A i \in DOMAIN b : Marked(b[i], bypass, budget, gone)

(* What threads prepare has an identity of its own.                        *)
Separate(b, held) ==
    \A c \in Callers :
        /\ IdsOf(held[c].event) \cap IdsOf(b) = {}
        /\ \A d \in Callers : d # c => IdsOf(held[c].event) \cap IdsOf(held[d].event) = {}

Tables ==
    /\ Ledger(buffer, buffer_sizes, buffer_bytes)
    /\ Marks(buffer, hook_bypass, diagnostics, disposed)
    /\ Separate(buffer, cap)

-----------------------------------------------------------------------------
(* Queues as sequences of events.                                          *)

(* A queue has finitely many identities, as many as events when they are   *)
(* distinct.                                                               *)
LEMMA FiniteIds ==
    ASSUME NEW b \in Seq(Event)
    PROVE  /\ IsFiniteSet(IdsOf(b))
           /\ Distinct(b) => Cardinality(IdsOf(b)) = Len(b)
<1>. DEFINE m == [i \in 1..Len(b) |-> b[i].id]
<1>1. Len(b) \in Nat /\ DOMAIN b = 1..Len(b)
    OBVIOUS
<1>2. IsFiniteSet(1..Len(b)) /\ Cardinality(1..Len(b)) = Len(b)
    BY <1>1, FS_Interval
<1>3. m \in Surjection(1..Len(b), IdsOf(b))
    BY <1>1 DEF Surjection, IdsOf
<1>4. Distinct(b) => m \in Injection(1..Len(b), IdsOf(b))
    BY <1>1, <1>3 DEF Injection, IsInjective, Surjection, Distinct
<1>. HIDE DEF m
<1>5. IsFiniteSet(IdsOf(b)) /\ (m \in Injection(1..Len(b), IdsOf(b)) => Cardinality(IdsOf(b)) = Cardinality(1..Len(b)))
    BY <1>2, <1>3, FS_Surjection
<1>. QED BY <1>2, <1>4, <1>5

(* A charge of a queue is the size of an event of it. *)
LEMMA ChargesType ==
    ASSUME NEW b \in Seq(Event), NEW sizes, Charges(b, sizes)
    PROVE  SumFunction(sizes) \in Nat /\ \A i \in 1..Len(b) : b[i].id \in IdsOf(b) /\ sizes[b[i].id] \in Nat
<1>1. IsFiniteSet(IdsOf(b)) /\ sizes \in [IdsOf(b) -> Nat]
    BY FiniteIds DEF Charges
<1>2. SumFunction(sizes) \in Nat
    BY <1>1, SumType
<1>3. \A i \in 1..Len(b) : b[i].id \in IdsOf(b)
    BY DEF IdsOf
<1>. QED BY <1>1, <1>2, <1>3

(* One event leaves, with its charge (evict_low_priority, a withheld       *)
(* event).                                                                 *)
LEMMA LedgerRemove ==
    ASSUME NEW b \in Seq(Event), NEW sizes, NEW total, Ledger(b, sizes, total),
           NEW i \in 1..Len(b)
    PROVE  /\ Ledger(RemoveAt(b, i), Without(sizes, b[i].id), total - sizes[b[i].id])
           /\ IdsOf(RemoveAt(b, i)) = IdsOf(b) \ {b[i].id}
           /\ \A j \in DOMAIN RemoveAt(b, i) : \E k \in DOMAIN b : RemoveAt(b, i)[j] = b[k]
<1>. DEFINE nb == RemoveAt(b, i)
            x == b[i].id
            p == [j \in 1..(Len(b) - 1) |-> IF j < i THEN j ELSE j + 1]
            ns == Without(sizes, x)
<1>1. /\ nb \in Seq(Event) /\ Len(nb) = Len(b) - 1 /\ Len(b) \in Nat
      /\ \A j \in 1..(i - 1) : nb[j] = b[j]
      /\ \A j \in i..(Len(b) - 1) : nb[j] = b[j + 1]
    BY RemoveAtSeq
<1>2. DOMAIN b = 1..Len(b) /\ DOMAIN nb = 1..(Len(b) - 1)
    BY <1>1
<1>. HIDE DEF nb
<1>3. /\ \A j \in 1..(Len(b) - 1) : p[j] \in 1..Len(b) /\ p[j] # i
      /\ \A j, k \in 1..(Len(b) - 1) : p[j] = p[k] => j = k
      /\ \A j \in 1..Len(b) : j # i => \E k \in 1..(Len(b) - 1) : p[k] = j
    <2>1. \A j \in 1..(Len(b) - 1) : p[j] \in 1..Len(b) /\ p[j] # i
        BY <1>1
    <2>2. \A j, k \in 1..(Len(b) - 1) : p[j] = p[k] => j = k
        BY <1>1
    <2>3. ASSUME NEW j \in 1..Len(b), j # i PROVE \E k \in 1..(Len(b) - 1) : p[k] = j
        <3>1. CASE j < i
            <4>1. j \in 1..(Len(b) - 1) /\ p[j] = j
                BY <1>1, <3>1
            <4>. QED BY <4>1
        <3>2. CASE ~(j < i)
            <4>1. j - 1 \in 1..(Len(b) - 1) /\ p[j - 1] = j
                BY <1>1, <2>3, <3>2
            <4>. QED BY <4>1
        <3>. QED BY <3>1, <3>2
    <2>. QED BY <2>1, <2>2, <2>3
<1>4. ASSUME NEW j \in 1..(Len(b) - 1) PROVE nb[j] = b[p[j]]
    <2>1. CASE j < i
        <3>1. j \in 1..(i - 1) /\ p[j] = j
            BY <2>1
        <3>. QED BY <1>1, <3>1
    <2>2. CASE ~(j < i)
        <3>1. j \in i..(Len(b) - 1) /\ p[j] = j + 1
            BY <2>2
        <3>. QED BY <1>1, <3>1
    <2>. QED BY <2>1, <2>2
<1>. HIDE DEF p
<1>5. Distinct(b) /\ Charges(b, sizes) /\ total = SumFunction(sizes) /\ Len(b) <= MaxEvents /\ total <= MaxBytes
    BY DEF Ledger
<1>6. Distinct(nb)
    <2>1. ASSUME NEW j \in 1..(Len(b) - 1), NEW k \in 1..(Len(b) - 1), nb[j].id = nb[k].id PROVE j = k
        <3>1. b[p[j]].id = b[p[k]].id /\ p[j] \in DOMAIN b /\ p[k] \in DOMAIN b
            BY <1>2, <1>3, <1>4, <2>1
        <3>2. p[j] = p[k]
            BY <1>5, <3>1 DEF Distinct
        <3>. QED BY <1>3, <3>2
    <2>. QED BY <1>2, <2>1 DEF Distinct
<1>7. IdsOf(nb) = IdsOf(b) \ {x}
    <2>1. ASSUME NEW y \in IdsOf(nb) PROVE y \in IdsOf(b) \ {x}
        <3>1. PICK j \in 1..(Len(b) - 1) : y = nb[j].id
            BY <1>2 DEF IdsOf
        <3>2. y = b[p[j]].id /\ p[j] \in DOMAIN b /\ p[j] # i /\ i \in DOMAIN b
            BY <1>2, <1>3, <1>4, <3>1
        <3>3. y # x
            BY <1>5, <3>2 DEF Distinct
        <3>. QED BY <3>2, <3>3 DEF IdsOf
    <2>2. ASSUME NEW y \in IdsOf(b) \ {x} PROVE y \in IdsOf(nb)
        <3>1. PICK j \in 1..Len(b) : y = b[j].id /\ j # i
            BY <1>2 DEF IdsOf
        <3>2. PICK k \in 1..(Len(b) - 1) : p[k] = j
            BY <1>3, <3>1
        <3>. QED BY <1>2, <1>4, <3>1, <3>2 DEF IdsOf
    <2>. QED BY <2>1, <2>2
<1>8. /\ sizes \in [IdsOf(b) -> Nat] /\ DOMAIN sizes = IdsOf(b) /\ x \in IdsOf(b)
      /\ \A j \in 1..Len(b) : sizes[b[j].id] = b[j].bytes
    BY <1>2, <1>5 DEF Charges, IdsOf
<1>9. ns \in [IdsOf(nb) -> Nat] /\ \A y \in IdsOf(nb) : ns[y] = sizes[y]
    <2>. HIDE DEF x
    <2>. QED BY <1>7, <1>8 DEF Without, Restrict
<1>. HIDE DEF ns
<1>10. Charges(nb, ns)
    <2>1. ASSUME NEW j \in 1..(Len(b) - 1) PROVE ns[nb[j].id] = nb[j].bytes
        <3>1. nb[j].id \in IdsOf(nb)
            BY <1>2 DEF IdsOf
        <3>2. nb[j] = b[p[j]] /\ p[j] \in 1..Len(b)
            BY <1>3, <1>4
        <3>3. sizes[b[p[j]].id] = b[p[j]].bytes
            BY <1>8, <3>2
        <3>. QED BY <1>9, <3>1, <3>2, <3>3
    <2>. QED BY <1>2, <1>9, <2>1 DEF Charges
<1>11. SumFunction(sizes) = SumFunction(ns) + sizes[x] /\ SumFunction(ns) \in Nat /\ sizes[x] \in Nat
    <2>1. IsFiniteSet(IdsOf(nb)) /\ x \notin IdsOf(nb) /\ IdsOf(b) = IdsOf(nb) \cup {x}
        BY <1>1, <1>7, <1>8, FiniteIds
    <2>2. OneMore(IdsOf(nb), x, ns, sizes)
        BY <1>8, <1>9, <2>1 DEF OneMore
    <2>3. SumFunction(sizes) = SumFunction(ns) + sizes[x]
        BY <2>2, SumOneMore
    <2>4. SumFunction(ns) \in Nat /\ sizes[x] \in Nat
        BY <1>1, <1>8, <1>10, ChargesType
    <2>. QED BY <2>3, <2>4
<1>12. total - sizes[x] = SumFunction(ns) /\ total - sizes[x] <= MaxBytes /\ Len(nb) <= MaxEvents
    BY <1>1, <1>5, <1>11, QueueAssumption
<1>13. \A j \in DOMAIN nb : \E k \in DOMAIN b : nb[j] = b[k]
    BY <1>2, <1>3, <1>4
<1>. QED BY <1>6, <1>7, <1>10, <1>12, <1>13 DEF Ledger, nb, ns, x

(* nb is b with e in front of what was at position i.                      *)
Inserted(nb, b, i, e) ==
    /\ nb \in Seq(Event) /\ Len(nb) = Len(b) + 1 /\ i \in 1..(Len(b) + 1)
    /\ \A j \in 1..(i - 1) : nb[j] = b[j]
    /\ nb[i] = e
    /\ \A j \in i..Len(b) : nb[j + 1] = b[j]

(* There is room for e, which has an identity of its own.                  *)
Admissible(b, total, e) ==
    e.id \notin IdsOf(b) /\ Len(b) < MaxEvents /\ total + e.bytes <= MaxBytes

Charge(sizes, e) ==
    [x \in DOMAIN sizes \cup {e.id} |-> IF x = e.id THEN e.bytes ELSE sizes[x]]

(* nb has the events of b and e.                                           *)
Arrives(nb, b, e) ==
    /\ e.id \notin IdsOf(b) /\ IdsOf(nb) = IdsOf(b) \cup {e.id}
    /\ \A j \in DOMAIN nb : nb[j] = e \/ \E k \in DOMAIN b : nb[j] = b[k]

(* One event is admitted, with its charge. *)
LEMMA LedgerAdd ==
    ASSUME NEW b \in Seq(Event), NEW sizes, NEW total, Ledger(b, sizes, total),
           NEW e \in Event, Admissible(b, total, e), NEW nb, NEW i, Inserted(nb, b, i, e)
    PROVE  Ledger(nb, Charge(sizes, e), total + e.bytes) /\ Arrives(nb, b, e)
<1>. USE DEF Admissible
<1>. DEFINE n == Len(b)
            x == e.id
            q == [k \in 1..n |-> IF k < i THEN k ELSE k + 1]
            ns == [y \in DOMAIN sizes \cup {x} |-> IF y = x THEN e.bytes ELSE sizes[y]]
<1>1. n \in Nat /\ DOMAIN b = 1..n /\ DOMAIN nb = 1..(n + 1) /\ i \in 1..(n + 1) /\ nb \in Seq(Event)
    BY DEF Inserted
<1>2. ASSUME NEW k \in 1..n PROVE q[k] \in 1..(n + 1) /\ q[k] # i /\ nb[q[k]] = b[k]
    <2>1. CASE k < i
        <3>1. k \in 1..(i - 1) /\ q[k] = k /\ k \in 1..(n + 1)
            BY <1>1, <2>1
        <3>. QED BY <2>1, <3>1 DEF Inserted
    <2>2. CASE ~(k < i)
        <3>1. k \in i..n /\ q[k] = k + 1 /\ k + 1 \in 1..(n + 1) /\ k + 1 # i
            BY <1>1, <2>2
        <3>. QED BY <3>1 DEF Inserted
    <2>. QED BY <2>1, <2>2
<1>3. ASSUME NEW j \in 1..(n + 1), j # i PROVE \E k \in 1..n : q[k] = j
    <2>1. CASE j < i
        <3>1. j \in 1..n /\ q[j] = j
            BY <1>1, <2>1
        <3>. QED BY <3>1
    <2>2. CASE ~(j < i)
        <3>1. j - 1 \in 1..n /\ q[j - 1] = j
            BY <1>1, <1>3, <2>2
        <3>. QED BY <3>1
    <2>. QED BY <2>1, <2>2
<1>4. nb[i] = e
    BY DEF Inserted
<1>. HIDE DEF q, n
<1>5. /\ Distinct(b) /\ Charges(b, sizes) /\ total = SumFunction(sizes)
      /\ sizes \in [IdsOf(b) -> Nat] /\ DOMAIN sizes = IdsOf(b)
      /\ \A k \in 1..n : sizes[b[k].id] = b[k].bytes
    BY <1>1 DEF Ledger, Charges
<1>6. ASSUME NEW j \in 1..(n + 1), j # i
      PROVE  \E k \in 1..n : j = q[k] /\ nb[j] = b[k] /\ nb[j].id \in IdsOf(b) /\ nb[j].id # x
    <2>1. PICK k \in 1..n : q[k] = j
        BY <1>3, <1>6
    <2>2. nb[j] = b[k] /\ b[k].id \in IdsOf(b)
        BY <1>1, <1>2, <2>1 DEF IdsOf
    <2>. QED BY <2>1, <2>2
<1>7. Distinct(nb)
    <2>1. ASSUME NEW j \in 1..(n + 1), NEW l \in 1..(n + 1), nb[j].id = nb[l].id PROVE j = l
        <3>1. CASE j = i \/ l = i
            BY <1>4, <1>6, <2>1, <3>1
        <3>2. CASE j # i /\ l # i
            <4>1. PICK k \in 1..n : j = q[k] /\ nb[j] = b[k]
                BY <1>6, <3>2
            <4>2. PICK m \in 1..n : l = q[m] /\ nb[l] = b[m]
                BY <1>6, <3>2
            <4>3. b[k].id = b[m].id /\ k \in DOMAIN b /\ m \in DOMAIN b
                BY <1>1, <2>1, <4>1, <4>2
            <4>4. k = m
                BY <1>5, <4>3 DEF Distinct
            <4>. QED BY <4>1, <4>2, <4>4
        <3>. QED BY <3>1, <3>2
    <2>. QED BY <1>1, <2>1 DEF Distinct
<1>8. IdsOf(nb) = IdsOf(b) \cup {x}
    <2>1. ASSUME NEW y \in IdsOf(nb) PROVE y \in IdsOf(b) \cup {x}
        <3>1. PICK j \in 1..(n + 1) : y = nb[j].id
            BY <1>1 DEF IdsOf
        <3>. QED BY <1>4, <1>6, <3>1
    <2>2. ASSUME NEW y \in IdsOf(b) PROVE y \in IdsOf(nb)
        <3>1. PICK k \in 1..n : y = b[k].id
            BY <1>1 DEF IdsOf
        <3>2. nb[q[k]] = b[k] /\ q[k] \in DOMAIN nb
            BY <1>1, <1>2
        <3>. QED BY <3>1, <3>2 DEF IdsOf
    <2>3. x \in IdsOf(nb)
        BY <1>1, <1>4 DEF IdsOf
    <2>. QED BY <2>1, <2>2, <2>3
<1>9. e.bytes \in Nat /\ x \notin IdsOf(b)
    BY DEF Event
<1>10. /\ ns \in [IdsOf(b) \cup {x} -> Nat] /\ ns[x] = e.bytes
       /\ \A y \in IdsOf(b) : ns[y] = sizes[y]
    <2>. HIDE DEF x
    <2>. QED BY <1>5, <1>9
<1>. HIDE DEF ns
<1>11. Charges(nb, ns)
    <2>1. ASSUME NEW j \in 1..(n + 1) PROVE ns[nb[j].id] = nb[j].bytes
        <3>1. CASE j = i
            BY <1>4, <1>10, <3>1
        <3>2. CASE j # i
            <4>1. PICK k \in 1..n : nb[j] = b[k] /\ nb[j].id \in IdsOf(b)
                BY <1>6, <3>2
            <4>. QED BY <1>5, <1>10, <4>1
        <3>. QED BY <3>1, <3>2
    <2>2. ns \in [IdsOf(nb) -> Nat]
        BY <1>8, <1>10
    <2>. QED BY <1>1, <2>1, <2>2 DEF Charges
<1>12. total + e.bytes = SumFunction(ns)
    <2>1. IsFiniteSet(IdsOf(b))
        BY FiniteIds
    <2>2. OneMore(IdsOf(b), x, sizes, ns)
        BY <1>5, <1>9, <1>10, <2>1 DEF OneMore
    <2>3. SumFunction(ns) = SumFunction(sizes) + ns[x]
        BY <2>2, SumOneMore
    <2>. QED BY <1>5, <1>10, <2>3
<1>13. Len(nb) <= MaxEvents
    BY <1>1, QueueAssumption DEF Inserted, n
<1>14. \A j \in DOMAIN nb : nb[j] = e \/ \E k \in DOMAIN b : nb[j] = b[k]
    BY <1>1, <1>4, <1>6
<1>15. Ledger(nb, ns, total + e.bytes)
    BY <1>7, <1>11, <1>12, <1>13 DEF Ledger
<1>. QED BY <1>8, <1>14, <1>15 DEF ns, x, Charge, Arrives

(* A replacement that fits where an event of charge c was.                 *)
Replaceable(b, total, c, r) == r.id \notin IdsOf(b) /\ total - c + r.bytes <= MaxBytes

Recharge(sizes, x, r) ==
    [y \in (DOMAIN sizes \ {x}) \cup {r.id} |-> IF y = r.id THEN r.bytes ELSE sizes[y]]

(* nb has the events of b, with r in the place of the one with identity x. *)
Replaces(nb, b, x, r) ==
    /\ r.id \notin IdsOf(b) /\ IdsOf(nb) = (IdsOf(b) \ {x}) \cup {r.id}
    /\ \A j \in DOMAIN nb : nb[j] = r \/ \E k \in DOMAIN b : nb[j] = b[k] /\ b[k].id # x

(* One event is replaced by its finalized form, with its charge. *)
LEMMA LedgerReplace ==
    ASSUME NEW b \in Seq(Event), NEW sizes, NEW total, Ledger(b, sizes, total),
           NEW i \in 1..Len(b), NEW r \in Event, Replaceable(b, total, sizes[b[i].id], r)
    PROVE  /\ Ledger([b EXCEPT ![i] = r], Recharge(sizes, b[i].id, r),
                     total + r.bytes - sizes[b[i].id])
           /\ Replaces([b EXCEPT ![i] = r], b, b[i].id, r)
<1>. USE DEF Replaceable
<1>. DEFINE nb == [b EXCEPT ![i] = r]
            n == Len(b)
            x == b[i].id
            z == r.id
            R == IdsOf(b) \ {x}
            mid == [y \in R |-> sizes[y]]
            ns == [y \in (DOMAIN sizes \ {x}) \cup {z} |-> IF y = z THEN r.bytes ELSE sizes[y]]
<1>1. n \in Nat /\ DOMAIN b = 1..n /\ DOMAIN nb = 1..n /\ nb \in Seq(Event) /\ Len(nb) = n /\ i \in 1..n
    BY ExceptSeq
<1>2. nb[i] = r /\ \A j \in 1..n : j # i => nb[j] = b[j]
    BY <1>1, ExceptSeq
<1>. HIDE DEF nb, n
<1>3. /\ Distinct(b) /\ Charges(b, sizes) /\ total = SumFunction(sizes) /\ n <= MaxEvents
      /\ sizes \in [IdsOf(b) -> Nat] /\ DOMAIN sizes = IdsOf(b)
      /\ \A k \in 1..n : sizes[b[k].id] = b[k].bytes
    BY <1>1 DEF Ledger, Charges, n
<1>4. \A j \in 1..n : j # i => b[j].id # x /\ b[j].id # z /\ b[j].id \in R
    BY <1>1, <1>3 DEF Distinct, IdsOf
<1>5. x \in IdsOf(b) /\ z \notin IdsOf(b) /\ x \notin R /\ z \notin R
    BY <1>1 DEF IdsOf
<1>6. Distinct(nb)
    <2>1. ASSUME NEW j \in 1..n, NEW l \in 1..n, nb[j].id = nb[l].id PROVE j = l
        BY <1>1, <1>2, <1>3, <1>4, <2>1 DEF Distinct
    <2>. QED BY <1>1, <2>1 DEF Distinct
<1>7. IdsOf(nb) = R \cup {z}
    <2>1. ASSUME NEW y \in IdsOf(nb) PROVE y \in R \cup {z}
        <3>1. PICK j \in 1..n : y = nb[j].id
            BY <1>1 DEF IdsOf
        <3>. HIDE DEF R
        <3>. QED BY <1>2, <1>4, <3>1
    <2>2. ASSUME NEW y \in R PROVE y \in IdsOf(nb)
        <3>1. PICK k \in 1..n : y = b[k].id /\ k # i
            BY <1>1 DEF IdsOf
        <3>. QED BY <1>1, <1>2, <3>1 DEF IdsOf
    <2>3. z \in IdsOf(nb)
        BY <1>1, <1>2 DEF IdsOf
    <2>. QED BY <2>1, <2>2, <2>3
<1>8. r.bytes \in Nat /\ sizes[x] \in Nat
    BY <1>3, <1>5 DEF Event
<1>9. ns \in [R \cup {z} -> Nat] /\ ns[z] = r.bytes /\ \A y \in R : ns[y] = sizes[y]
    <2>. HIDE DEF x, z
    <2>. QED BY <1>3, <1>5, <1>8
<1>10. mid \in [R -> Nat] /\ \A y \in R : mid[y] = sizes[y]
    BY <1>3
<1>11. IdsOf(b) = R \cup {x} /\ IsFiniteSet(R)
    <2>1. IsFiniteSet(IdsOf(b)) /\ R \in SUBSET IdsOf(b)
        BY FiniteIds
    <2>. QED BY <1>5, <2>1, FS_Subset
<1>. HIDE DEF ns, mid, R, x, z
<1>12. Charges(nb, ns)
    <2>1. ASSUME NEW j \in 1..n PROVE ns[nb[j].id] = nb[j].bytes
        <3>1. CASE j = i
            BY <1>2, <1>9, <3>1 DEF z
        <3>2. CASE j # i
            <4>1. nb[j] = b[j] /\ b[j].id \in R
                BY <1>2, <1>4, <3>2
            <4>. QED BY <1>3, <1>9, <4>1
        <3>. QED BY <3>1, <3>2
    <2>2. ns \in [IdsOf(nb) -> Nat]
        BY <1>7, <1>9
    <2>. QED BY <1>1, <2>1, <2>2 DEF Charges
<1>13. total + r.bytes - sizes[x] = SumFunction(ns) /\ SumFunction(ns) <= MaxBytes
    <2>1. OneMore(R, x, mid, sizes) /\ OneMore(R, z, mid, ns)
        BY <1>3, <1>5, <1>9, <1>10, <1>11 DEF OneMore
    <2>2. SumFunction(sizes) = SumFunction(mid) + sizes[x] /\ SumFunction(ns) = SumFunction(mid) + ns[z]
        BY <2>1, SumOneMore
    <2>3. SumFunction(mid) \in Nat
        BY <1>10, <1>11, SumType
    <2>4. SumFunction(sizes) - sizes[x] + r.bytes <= MaxBytes
        BY <1>3 DEF x
    <2>. QED BY <1>3, <1>8, <1>9, <2>2, <2>3, <2>4
<1>14. Ledger(nb, ns, total + r.bytes - sizes[x])
    BY <1>1, <1>3, <1>6, <1>12, <1>13 DEF Ledger
<1>15. \A j \in DOMAIN nb : nb[j] = r \/ \E k \in DOMAIN b : nb[j] = b[k] /\ b[k].id # x
    BY <1>1, <1>2, <1>4
<1>. QED BY <1>5, <1>7, <1>14, <1>15 DEF ns, x, z, R, nb, Recharge, Replaces

(* Every event of nb stands for an event of b, each for one of its own, at *)
(* a charge that is not larger.                                            *)
StandsFor(nb, b, p) ==
    /\ p \in [1..Len(nb) -> 1..Len(b)]
    /\ \A j, k \in 1..Len(nb) : p[j] = p[k] => j = k
    /\ \A j \in 1..Len(nb) : nb[j].bytes <= b[p[j]].bytes

(* A completion that only removes events, or reduces them, cannot pass the *)
(* limits, although it does not look at them.                              *)
LEMMA LedgerShrink ==
    ASSUME NEW b \in Seq(Event), NEW sizes, NEW total, Ledger(b, sizes, total),
           NEW nb \in Seq(Event), NEW ns, Distinct(nb), Charges(nb, ns),
           NEW p, StandsFor(nb, b, p)
    PROVE  Ledger(nb, ns, SumFunction(ns))
<1>. DEFINE at(x) == CHOOSE j \in 1..Len(nb) : nb[j].id = x
            m == [x \in IdsOf(nb) |-> b[p[at(x)]].id]
<1>1. /\ Len(b) \in Nat /\ Len(nb) \in Nat /\ DOMAIN b = 1..Len(b) /\ DOMAIN nb = 1..Len(nb)
      /\ Distinct(b) /\ Charges(b, sizes) /\ total = SumFunction(sizes)
      /\ Len(b) <= MaxEvents /\ total <= MaxBytes
    BY DEF Ledger
<1>2. Len(nb) <= Len(b)
    <2>1. p \in Injection(1..Len(nb), 1..Len(b))
        BY DEF StandsFor, Injection, IsInjective
    <2>2. /\ IsFiniteSet(1..Len(b)) /\ Cardinality(1..Len(b)) = Len(b)
          /\ Cardinality(1..Len(nb)) = Len(nb)
        <3>1. ASSUME NEW n \in Nat PROVE IsFiniteSet(1..n) /\ Cardinality(1..n) = n
            BY FS_Interval
        <3>. QED BY <1>1, <3>1
    <2>3. Cardinality(1..Len(nb)) <= Cardinality(1..Len(b))
        BY <2>1, <2>2, FS_Injection
    <2>. QED BY <2>2, <2>3
<1>3. ASSUME NEW x \in IdsOf(nb)
      PROVE  at(x) \in 1..Len(nb) /\ nb[at(x)].id = x /\ p[at(x)] \in 1..Len(b)
    <2>1. \E j \in 1..Len(nb) : nb[j].id = x
        BY <1>1 DEF IdsOf
    <2>2. at(x) \in 1..Len(nb) /\ nb[at(x)].id = x
        BY <2>1, Zenon
    <2>. HIDE DEF at
    <2>. QED BY <2>2 DEF StandsFor
<1>. HIDE DEF at
<1>4. ASSUME NEW x \in IdsOf(nb)
      PROVE  m[x] = b[p[at(x)]].id /\ m[x] \in IdsOf(b)
    <2>1. p[at(x)] \in DOMAIN b
        BY <1>1, <1>3
    <2>. QED BY <2>1 DEF IdsOf
<1>5. m \in [IdsOf(nb) -> IdsOf(b)]
    BY <1>4
<1>. HIDE DEF m
<1>6. ASSUME NEW x \in IdsOf(nb), NEW y \in IdsOf(nb), m[x] = m[y] PROVE x = y
    <2>1. b[p[at(x)]].id = b[p[at(y)]].id
        BY <1>4, <1>6
    <2>2. p[at(x)] = p[at(y)]
        BY <1>1, <1>3, <2>1 DEF Distinct
    <2>3. at(x) = at(y)
        BY <1>3, <2>2 DEF StandsFor
    <2>. QED BY <1>3, <2>3
<1>7. ASSUME NEW x \in IdsOf(nb) PROVE ns[x] <= sizes[m[x]]
    <2>1. ns[nb[at(x)].id] = nb[at(x)].bytes
        BY <1>1, <1>3 DEF Charges
    <2>2. sizes[b[p[at(x)]].id] = b[p[at(x)]].bytes
        BY <1>1, <1>3 DEF Charges
    <2>3. nb[at(x)].bytes <= b[p[at(x)]].bytes
        BY <1>3 DEF StandsFor
    <2>. QED BY <1>3, <1>4, <2>1, <2>2, <2>3
<1>8. Covered(IdsOf(nb), ns, IdsOf(b), sizes, m)
    <2>1. IsFiniteSet(IdsOf(b)) /\ IsFiniteSet(IdsOf(nb))
        BY FiniteIds
    <2>. QED BY <1>1, <1>5, <1>6, <1>7, <2>1 DEF Covered, Charges
<1>9. SumFunction(ns) <= SumFunction(sizes)
    BY <1>8, SumAtMost
<1>10. SumFunction(ns) \in Nat /\ SumFunction(sizes) \in Nat
    BY <1>1, ChargesType
<1>11. Len(nb) <= MaxEvents /\ SumFunction(ns) <= MaxBytes
    BY <1>1, <1>2, <1>9, <1>10, QueueAssumption
<1>. QED BY <1>11 DEF Ledger

(* nb holds events of b, each for one of its own (p), some of them (at the *)
(* positions N) reduced and marked, under new identities.                  *)
Remains(nb, b, p, N, fresh) ==
    /\ p \in [1..Len(nb) -> 1..Len(b)] /\ \A j, k \in 1..Len(nb) : p[j] = p[k] => j = k
    /\ fresh \cap IdsOf(b) = {}
    /\ \A j \in 1..Len(nb) : j \notin N => nb[j] = b[p[j]]
    /\ \A j \in 1..Len(nb) : j \in N =>
          nb[j].id \in fresh /\ nb[j].bytes = b[p[j]].bytes /\ nb[j].skip /\ nb[j].kind # "recovery"
    /\ \A j, k \in 1..Len(nb) : j \in N /\ k \in N /\ nb[j].id = nb[k].id => j = k

(* What a completion leaves is charged and bounded. *)
LEMMA LedgerSettle ==
    ASSUME NEW b \in Seq(Event), NEW sizes, NEW total, Ledger(b, sizes, total),
           NEW nb \in Seq(Event), NEW p, NEW N, NEW fresh, Remains(nb, b, p, N, fresh),
           NEW charged, \A j \in DOMAIN nb : charged[nb[j].id] = nb[j].bytes
    PROVE  Ledger(nb, Restrict(charged, IdsOf(nb)), SumFunction(Restrict(charged, IdsOf(nb))))
<1>. DEFINE ns == Restrict(charged, IdsOf(nb))
<1>1. /\ DOMAIN b = 1..Len(b) /\ DOMAIN nb = 1..Len(nb) /\ Distinct(b)
      /\ \A j \in 1..Len(nb) : p[j] \in 1..Len(b)
    BY DEF Ledger, Remains
<1>2. Distinct(nb)
    <2>1. ASSUME NEW j \in 1..Len(nb), NEW k \in 1..Len(nb), nb[j].id = nb[k].id PROVE j = k
        <3>1. CASE j \in N /\ k \in N
            BY <2>1, <3>1 DEF Remains
        <3>2. CASE j \notin N /\ k \notin N
            <4>1. b[p[j]].id = b[p[k]].id
                BY <2>1, <3>2 DEF Remains
            <4>2. p[j] = p[k]
                BY <1>1, <4>1 DEF Distinct
            <4>. QED BY <4>2 DEF Remains
        <3>3. ASSUME NEW m \in 1..Len(nb), m \notin N PROVE nb[m].id \in IdsOf(b)
            <4>1. nb[m] = b[p[m]] /\ p[m] \in DOMAIN b
                BY <1>1, <3>3 DEF Remains
            <4>. QED BY <4>1 DEF IdsOf
        <3>4. ASSUME NEW m \in 1..Len(nb), m \in N PROVE nb[m].id \notin IdsOf(b)
            BY <3>4 DEF Remains
        <3>. QED BY <2>1, <3>1, <3>2, <3>3, <3>4
    <2>. QED BY <1>1, <2>1 DEF Distinct
<1>3. Charges(nb, ns)
    <2>1. ASSUME NEW j \in 1..Len(nb) PROVE nb[j].id \in IdsOf(nb) /\ charged[nb[j].id] = nb[j].bytes /\ nb[j].bytes \in Nat
        <3>1. nb[j] \in Event
            OBVIOUS
        <3>2. nb[j].bytes \in Nat
            BY <3>1 DEF Event
        <3>. QED BY <1>1, <3>2 DEF IdsOf
    <2>2. \A x \in IdsOf(nb) : \E j \in 1..Len(nb) : x = nb[j].id
        BY <1>1 DEF IdsOf
    <2>3. \A x \in IdsOf(nb) : charged[x] \in Nat
        BY <2>1, <2>2
    <2>4. ns \in [IdsOf(nb) -> Nat] /\ \A x \in IdsOf(nb) : ns[x] = charged[x]
        BY <2>3 DEF Restrict
    <2>. HIDE DEF ns
    <2>. QED BY <1>1, <2>1, <2>4 DEF Charges
<1>4. StandsFor(nb, b, p)
    <2>1. ASSUME NEW j \in 1..Len(nb) PROVE nb[j].bytes <= b[p[j]].bytes
        <3>1. nb[j].bytes = b[p[j]].bytes
            BY DEF Remains
        <3>2. nb[j] \in Event
            OBVIOUS
        <3>3. nb[j].bytes \in Nat
            BY <3>2 DEF Event
        <3>. QED BY <3>1, <3>3
    <2>. QED BY <2>1 DEF StandsFor, Remains
<1>. HIDE DEF ns
<1>5. Ledger(nb, ns, SumFunction(ns))
    BY <1>2, <1>3, <1>4, LedgerShrink
<1>. QED BY <1>5 DEF ns

(* The events of nb are events of b, or marked ones under new identities.  *)
Survives(nb, b, fresh) ==
    /\ fresh \cap IdsOf(b) = {}
    /\ \A j \in DOMAIN nb : \/ \E k \in DOMAIN b : nb[j] = b[k]
                            \/ nb[j].skip /\ nb[j].id \in fresh /\ nb[j].kind # "recovery"

(* What a completion leaves is an event of the queue or a reduced one. *)
LEMMA RemainsOf ==
    ASSUME NEW b \in Seq(Event), NEW nb \in Seq(Event), NEW p, NEW N, NEW fresh,
           Remains(nb, b, p, N, fresh)
    PROVE  Survives(nb, b, fresh) /\ \A x \in IdsOf(nb) : x \in IdsOf(b) \/ x \in fresh
<1>1. /\ DOMAIN b = 1..Len(b) /\ DOMAIN nb = 1..Len(nb)
      /\ \A j \in 1..Len(nb) : p[j] \in 1..Len(b)
    BY DEF Remains
<1>2. ASSUME NEW j \in DOMAIN nb
      PROVE  \/ \E k \in DOMAIN b : nb[j] = b[k]
             \/ nb[j].skip /\ nb[j].id \in fresh /\ nb[j].kind # "recovery"
    BY <1>1 DEF Remains
<1>3. \A x \in IdsOf(nb) : x \in IdsOf(b) \/ x \in fresh
    BY <1>2 DEF IdsOf
<1>. QED BY <1>2, <1>3 DEF Remains, Survives

-----------------------------------------------------------------------------
(* The marks and the budget.                                               *)

(* One event leaves, with its mark and its share. *)
LEMMA MarksRemove ==
    ASSUME NEW b, NEW bypass, NEW budget, NEW gone, Marks(b, bypass, budget, gone),
           NEW nb, NEW x, IdsOf(nb) = IdsOf(b) \ {x},
           \A j \in DOMAIN nb : \E k \in DOMAIN b : nb[j] = b[k]
    PROVE  Marks(nb, bypass \ {x}, budget \ {x}, gone)
<1>1. ASSUME NEW j \in DOMAIN nb PROVE Marked(nb[j], bypass \ {x}, budget \ {x}, gone)
    <2>1. nb[j].id # x
        BY DEF IdsOf
    <2>2. Marked(nb[j], bypass, budget, gone)
        BY DEF Marks
    <2>. QED BY <2>1, <2>2 DEF Marked
<1>. QED BY <1>1 DEF Marks

MarkOf(e) == IF e.skip THEN {e.id} ELSE {}

ShareOf(e) == IF e.kind = "recovery" THEN {e.id} ELSE {}

(* One event arrives, marked if no hook may see it, with a share of the    *)
(* budget if it is a recovery.                                             *)
LEMMA MarksAdd ==
    ASSUME NEW b, NEW bypass, NEW budget, NEW gone, Marks(b, bypass, budget, gone),
           NEW nb, NEW e, Arrives(nb, b, e)
    PROVE  Marks(nb, bypass \cup MarkOf(e), budget \cup ShareOf(e), gone)
<1>. DEFINE more == MarkOf(e)
            share == ShareOf(e)
<1>. USE DEF Arrives, MarkOf, ShareOf
<1>1. ASSUME NEW j \in DOMAIN nb PROVE Marked(nb[j], bypass \cup more, budget \cup share, gone)
    <2>1. CASE nb[j] = e
        <3>1. e.id \notin bypass /\ e.id \notin budget
            BY DEF Marks
        <3>. QED BY <2>1, <3>1 DEF Marked
    <2>2. CASE \E k \in DOMAIN b : nb[j] = b[k]
        <3>1. Marked(nb[j], bypass, budget, gone) /\ nb[j].id # e.id
            BY <2>2 DEF Marks, IdsOf
        <3>. QED BY <3>1 DEF Marked
    <2>. QED BY <2>1, <2>2
<1>2. bypass \cup more \subseteq IdsOf(nb) /\ budget \cup share \subseteq IdsOf(nb)
    BY DEF Marks
<1>. QED BY <1>1, <1>2 DEF Marks

HeirOf(bypass, old, new) == IF old \in bypass THEN {new} ELSE {}

(* A replacement inherits the mark; it has a share if it is a recovery.    *)
LEMMA MarksReplace ==
    ASSUME NEW b, NEW bypass, NEW budget, NEW gone, Marks(b, bypass, budget, gone),
           NEW i \in DOMAIN b, NEW nb, NEW r, r.skip = b[i].skip, Replaces(nb, b, b[i].id, r)
    PROVE  Marks(nb, (bypass \ {b[i].id}) \cup HeirOf(bypass, b[i].id, r.id),
                 (budget \ {b[i].id}) \cup ShareOf(r), gone)
<1>. USE DEF Replaces, HeirOf, ShareOf
<1>. DEFINE x == b[i].id
            more == HeirOf(bypass, b[i].id, r.id)
            share == ShareOf(r)
            np == (bypass \ {x}) \cup more
            nd == (budget \ {x}) \cup share
<1>1. ASSUME NEW j \in DOMAIN nb PROVE Marked(nb[j], np, nd, gone)
    <2>1. CASE nb[j] = r
        <3>1. r.id \notin bypass /\ r.id \notin budget /\ Marked(b[i], bypass, budget, gone)
            BY DEF Marks
        <3>. QED BY <2>1, <3>1 DEF Marked
    <2>2. CASE \E k \in DOMAIN b : nb[j] = b[k] /\ b[k].id # x
        <3>1. Marked(nb[j], bypass, budget, gone) /\ nb[j].id # r.id /\ nb[j].id # x
            BY <2>2 DEF Marks, IdsOf
        <3>. QED BY <3>1 DEF Marked
    <2>. QED BY <2>1, <2>2
<1>2. np \subseteq IdsOf(nb) /\ nd \subseteq IdsOf(nb)
    BY DEF Marks
<1>. QED BY <1>1, <1>2 DEF Marks

Recoveries(b) == {b[i].id : i \in {j \in DOMAIN b : b[j].kind = "recovery"}}

(* What a completion keeps keeps its mark and its share; what it sends     *)
(* again in a reduced form is marked.                                      *)
LEMMA MarksSettle ==
    ASSUME NEW b, NEW bypass, NEW budget, NEW gone, Marks(b, bypass, budget, gone),
           NEW nb, NEW fresh, Survives(nb, b, fresh)
    PROVE  Marks(nb, (bypass \cup fresh) \cap IdsOf(nb), budget \cap Recoveries(nb), gone)
<1>. USE DEF Survives, Recoveries
<1>. DEFINE np == (bypass \cup fresh) \cap IdsOf(nb)
            rec == Recoveries(nb)
            nd == budget \cap rec
<1>1. ASSUME NEW j \in DOMAIN nb PROVE Marked(nb[j], np, nd, gone)
    <2>0. nb[j].id \in IdsOf(nb) /\ (nb[j].kind = "recovery" => nb[j].id \in rec)
        BY DEF IdsOf
    <2>1. CASE nb[j].skip /\ nb[j].id \in fresh /\ nb[j].kind # "recovery"
        <3>1. nb[j].id \notin budget
            BY <2>1 DEF Marks
        <3>. QED BY <2>0, <2>1, <3>1 DEF Marked
    <2>2. CASE \E k \in DOMAIN b : nb[j] = b[k]
        <3>1. Marked(nb[j], bypass, budget, gone) /\ nb[j].id \notin fresh
            BY <2>2 DEF Marks, IdsOf
        <3>. HIDE DEF rec
        <3>. QED BY <2>0, <3>1 DEF Marked
    <2>. QED BY <2>1, <2>2
<1>2. np \subseteq IdsOf(nb) /\ nd \subseteq IdsOf(nb)
    BY DEF IdsOf
<1>. QED BY <1>1, <1>2 DEF Marks

(* Identities that leave the queue or a thread, or that nobody has, keep   *)
(* what the threads prepare apart from the queue.                          *)
LEMMA SeparateKept ==
    ASSUME NEW b, NEW held, Separate(b, held), NEW nb, NEW nheld,
           \A c \in Callers : IdsOf(nheld[c].event) \subseteq IdsOf(held[c].event),
           \A x \in IdsOf(nb) : x \in IdsOf(b) \/ \A c \in Callers : x \notin IdsOf(nheld[c].event)
    PROVE  Separate(nb, nheld)
<1>. SUFFICES ASSUME NEW c \in Callers
              PROVE  /\ IdsOf(nheld[c].event) \cap IdsOf(nb) = {}
                     /\ \A d \in Callers : d # c => IdsOf(nheld[c].event) \cap IdsOf(nheld[d].event) = {}
    BY DEF Separate
<1>1. IdsOf(held[c].event) \cap IdsOf(b) = {}
    BY DEF Separate
<1>2. ASSUME NEW d \in Callers, d # c PROVE IdsOf(nheld[c].event) \cap IdsOf(nheld[d].event) = {}
    <2>1. IdsOf(held[c].event) \cap IdsOf(held[d].event) = {}
        BY <1>2 DEF Separate
    <2>. QED BY <2>1
<1>. QED BY <1>1, <1>2

-----------------------------------------------------------------------------
(* Captures.                                                               *)

(* A step that touches none of the tables and gives no thread an event.    *)
LEMMA TablesFrame ==
    ASSUME Tables,
           UNCHANGED <<buffer, buffer_sizes, buffer_bytes, hook_bypass, diagnostics, disposed>>,
           \A c \in Callers : cap'[c].event \in {cap[c].event, <<>>}
    PROVE  Tables'
<1>1. ASSUME NEW c \in Callers
      PROVE  IdsOf(cap'[c].event) \subseteq IdsOf(cap[c].event)
    BY DEF IdsOf
<1>2. Separate(buffer, cap')
    BY <1>1, SeparateKept DEF Tables
<1>. QED BY <1>2 DEF Tables

(* A new object shares its identity with no event that is queued or being  *)
(* prepared.                                                               *)
LEMMA FreshIsApart ==
    ASSUME NEW x, x \notin Live
    PROVE  x \notin IdsOf(buffer) /\ \A c \in Callers : x \notin IdsOf(cap[c].event)
BY DEF Live

(* An event at its position in the queue after its admission. *)
LEMMA AdmittedInserts ==
    ASSUME TypeOK, NEW e \in Event, NEW pressed \in BOOLEAN, Admitted(e, pressed)
    PROVE  \E i : Inserted(buffer', buffer, i, e) /\ (i <= Len(buffer) => i > inflight_count)
<1>1. buffer \in Seq(Event) /\ Len(buffer) \in Nat
    BY DEF TypeOK
<1>2. CASE buffer' = InsertAt(buffer, InsertionPoint, e)
    <2>. DEFINE i == InsertionPoint
                nb == InsertAt(buffer, i, e)
    <2>1. i \in 1..(Len(buffer) + 1) /\ (i <= Len(buffer) => i > inflight_count)
        BY BehindBatch DEF Evictable
    <2>. HIDE DEF i
    <2>2. ASSUME NEW b \in Seq(Event), NEW k \in 1..(Len(b) + 1)
          PROVE  Inserted(InsertAt(b, k, e), b, k, e)
        <3>1. /\ InsertAt(b, k, e) \in Seq(Event)
              /\ Len(InsertAt(b, k, e)) = Len(b) + 1
              /\ \A j \in 1..(k - 1) : InsertAt(b, k, e)[j] = b[j]
              /\ InsertAt(b, k, e)[k] = e
              /\ \A j \in k..Len(b) : InsertAt(b, k, e)[j + 1] = b[j]
            BY InsertAtSeq
        <3>. QED BY <3>1 DEF Inserted
    <2>3. Inserted(nb, buffer, i, e)
        BY <1>1, <2>1, <2>2
    <2>. QED BY <1>2, <2>1, <2>3 DEF nb, i
<1>3. CASE buffer' = Append(buffer, e)
    <2>. DEFINE nb == Append(buffer, e)
                i == Len(buffer) + 1
    <2>1. /\ nb \in Seq(Event) /\ Len(nb) = Len(buffer) + 1 /\ nb[i] = e
          /\ \A j \in 1..Len(buffer) : nb[j] = buffer[j]
        BY <1>1, AppendProperties
    <2>. HIDE DEF nb
    <2>2. /\ i \in 1..(Len(buffer) + 1) /\ 1..(i - 1) = 1..Len(buffer)
          /\ i..Len(buffer) = {} /\ ~(i <= Len(buffer))
        BY <1>1
    <2>3. Inserted(nb, buffer, i, e)
        <3>. HIDE DEF i
        <3>. QED BY <2>1, <2>2 DEF Inserted
    <2>. QED BY <1>3, <2>2, <2>3 DEF nb
<1>. QED BY <1>2, <1>3 DEF Admitted

(* An admission: by a capture, or of a summary by a flush.                 *)
LEMMA TablesAdmit ==
    ASSUME TypeOK, Tables, NEW e \in Event, NEW pressed \in BOOLEAN, Admitted(e, pressed),
           ~Full(e.bytes), e.id \notin IdsOf(buffer),
           hook_bypass' = hook_bypass \cup MarkOf(e), diagnostics' = diagnostics \cup ShareOf(e),
           UNCHANGED disposed,
           \A c \in Callers : cap'[c].event \in {cap[c].event, <<>>},
           \A c \in Callers : e.id \notin IdsOf(cap'[c].event)
    PROVE  Tables'
<1>1. buffer \in Seq(Event) /\ Ledger(buffer, buffer_sizes, buffer_bytes)
    BY DEF TypeOK, Tables
<1>2. PICK i : Inserted(buffer', buffer, i, e)
    BY AdmittedInserts
<1>3. Len(buffer) < MaxEvents /\ buffer_bytes + e.bytes <= MaxBytes
    <2>1. Len(buffer) \in Nat /\ MaxEvents \in Nat /\ MaxBytes \in Nat /\ e.bytes \in Nat
        BY <1>1, QueueAssumption DEF Event
    <2>2. buffer_bytes \in Nat
        BY <1>1, ChargesType DEF Ledger
    <2>3. ~(Len(buffer) >= MaxEvents) /\ ~(buffer_bytes + e.bytes > MaxBytes)
        BY DEF Full
    <2>. QED BY <2>1, <2>2, <2>3
<1>. DEFINE nb == buffer'
<1>4. Ledger(nb, Charge(buffer_sizes, e), buffer_bytes + e.bytes) /\ Arrives(nb, buffer, e)
    <2>1. Admissible(buffer, buffer_bytes, e)
        BY <1>3 DEF Admissible
    <2>. QED BY <1>1, <1>2, <2>1, LedgerAdd
<1>5. buffer_sizes' = Charge(buffer_sizes, e) /\ buffer_bytes' = buffer_bytes + e.bytes
    BY DEF Admitted, Charge
<1>. HIDE DEF nb
<1>6. Marks(nb, hook_bypass \cup MarkOf(e), diagnostics \cup ShareOf(e), disposed)
    BY <1>4, MarksAdd DEF Tables
<1>7. Separate(nb, cap')
    <2>1. ASSUME NEW c \in Callers
          PROVE  IdsOf(cap'[c].event) \subseteq IdsOf(cap[c].event)
        BY DEF IdsOf
    <2>2. Separate(buffer, cap)
        BY DEF Tables
    <2>3. \A x \in IdsOf(nb) : x \in IdsOf(buffer) \/ \A c \in Callers : x \notin IdsOf(cap'[c].event)
        BY <1>4 DEF Arrives
    <2>. QED BY <2>1, <2>2, <2>3, SeparateKept
<1>. QED BY <1>4, <1>5, <1>6, <1>7 DEF Tables, nb

(* An event leaves the queue: evicted, or withheld by finalization.        *)
LEMMA TablesRemove ==
    ASSUME TypeOK, Tables, NEW i \in 1..Len(buffer), NEW x, x = buffer[i].id,
           buffer' = RemoveAt(buffer, i), buffer_sizes' = Without(buffer_sizes, x),
           buffer_bytes' = buffer_bytes - buffer_sizes[x],
           hook_bypass' = hook_bypass \ {x}, diagnostics' = diagnostics \ {x},
           UNCHANGED <<disposed, cap>>
    PROVE  Tables'
<1>1. /\ buffer \in Seq(Event) /\ Ledger(buffer, buffer_sizes, buffer_bytes)
      /\ Marks(buffer, hook_bypass, diagnostics, disposed) /\ Separate(buffer, cap)
    BY DEF TypeOK, Tables
<1>2. /\ Ledger(buffer', buffer_sizes', buffer_bytes')
      /\ IdsOf(buffer') = IdsOf(buffer) \ {x}
      /\ \A j \in DOMAIN buffer' : \E k \in DOMAIN buffer : buffer'[j] = buffer[k]
    BY <1>1, LedgerRemove
<1>. DEFINE nb == buffer'
<1>3. /\ IdsOf(nb) = IdsOf(buffer) \ {x}
      /\ \A j \in DOMAIN nb : \E k \in DOMAIN buffer : nb[j] = buffer[k]
    BY <1>2
<1>. HIDE DEF nb
<1>4. Marks(nb, hook_bypass \ {x}, diagnostics \ {x}, disposed)
    BY <1>1, <1>3, MarksRemove
<1>5. Separate(nb, cap)
    <2>1. \A y \in IdsOf(nb) : y \in IdsOf(buffer)
        BY <1>3
    <2>. QED BY <1>1, <2>1, SeparateKept
<1>. QED BY <1>2, <1>4, <1>5 DEF Tables, nb

(* The prepared event of a thread has an identity of its own. *)
LEMMA TablesPrepare ==
    ASSUME TypeOK, Tables, NEW c \in Callers, NEW k, NEW b, Prepare(c, k, b)
    PROVE  Tables'
<1>. DEFINE x == FreshId
            e == Object(x, k, b)
<1>1. /\ cap' = [cap EXCEPT ![c].pc = "ready", ![c].event = <<e>>]
      /\ Allocations(1) # {}
      /\ UNCHANGED <<buffer, buffer_sizes, buffer_bytes, hook_bypass, diagnostics, disposed>>
    BY DEF Prepare, queue, ownership, life
<1>2. x \notin IdsOf(buffer) /\ \A d \in Callers : x \notin IdsOf(cap[d].event)
    <2>1. x \notin Live
        BY <1>1, FreshIdType
    <2>. QED BY <2>1, FreshIsApart
<1>3. e.id = x
    BY DEF Object
<1>. HIDE DEF x, e
<1>4. cap'[c].event = <<e>> /\ \A d \in Callers : d # c => cap'[d] = cap[d]
    BY <1>1 DEF TypeOK, CapStates
<1>5. IdsOf(<<e>>) = {x}
    <2>1. DOMAIN <<e>> = {1} /\ <<e>>[1] = e
        OBVIOUS
    <2>. QED BY <1>3, <2>1 DEF IdsOf
<1>6. Separate(buffer, cap')
    <2>1. Separate(buffer, cap)
        BY DEF Tables
    <2>2. ASSUME NEW d \in Callers
          PROVE  /\ IdsOf(cap'[d].event) \cap IdsOf(buffer) = {}
                 /\ \A g \in Callers : g # d => IdsOf(cap'[d].event) \cap IdsOf(cap'[g].event) = {}
        <3>1. CASE d = c
            <4>1. IdsOf(cap'[d].event) = {x}
                BY <1>4, <1>5, <3>1
            <4>2. \A g \in Callers : g # d => x \notin IdsOf(cap'[g].event)
                BY <1>2, <1>4, <3>1
            <4>. QED BY <1>2, <4>1, <4>2
        <3>2. CASE d # c
            <4>1. cap'[d] = cap[d] /\ IdsOf(cap[d].event) \cap IdsOf(buffer) = {} /\ x \notin IdsOf(cap[d].event)
                BY <1>2, <1>4, <2>1, <3>2 DEF Separate
            <4>2. ASSUME NEW g \in Callers, g # d PROVE IdsOf(cap[d].event) \cap IdsOf(cap'[g].event) = {}
                <5>1. CASE g = c
                    BY <1>4, <1>5, <4>1, <5>1
                <5>2. CASE g # c
                    BY <1>4, <2>1, <4>2, <5>2 DEF Separate
                <5>. QED BY <5>1, <5>2
            <4>. QED BY <4>1, <4>2
        <3>. QED BY <3>1, <3>2
    <2>. QED BY <2>2 DEF Separate
<1>. QED BY <1>1, <1>6 DEF Tables

(* Every step of a capture keeps the tables. *)
LEMMA TablesCapture ==
    ASSUME IInv, Tables, NEW c \in Callers, CaptureStep(c)
    PROVE  Tables'
<1>. USE DEF queue, ownership, life
<1>0. TypeOK /\ Held
    BY DEF IInv
<1>1. ASSUME UNCHANGED <<queue, ownership, life>>,
             \/ cap' = [cap EXCEPT ![c] = IdleCap] \/ UNCHANGED cap
             \/ cap'[c].event \in {cap[c].event, <<>>} /\ \A d \in Callers : d # c => cap'[d] = cap[d]
      PROVE  Tables'
    <2>1. \A d \in Callers : cap'[d].event \in {cap[d].event, <<>>}
        BY <1>0, <1>1 DEF TypeOK, IdleCap
    <2>. QED BY <1>1, <2>1, TablesFrame
<1>2. ASSUME NEW k \in CaptureKinds, NEW b \in Sizes, Prepare(c, k, b) PROVE Tables'
    BY <1>0, <1>2, TablesPrepare
<1>3. ASSUME NEW k \in CaptureKinds, Refuse(c, k) PROVE Tables'
    <2>1. cap'[c].event = cap[c].event /\ \A d \in Callers : d # c => cap'[d] = cap[d]
        BY <1>0, <1>3 DEF Refuse, TypeOK, CapStates
    <2>. QED BY <1>1, <1>3, <2>1 DEF Refuse
<1>4. CASE Contended(c)
    <2>1. cap'[c].event = <<>> /\ \A d \in Callers : d # c => cap'[d] = cap[d]
        BY <1>0, <1>4 DEF Contended, TypeOK, CapStates, IdleCap
    <2>. QED BY <1>1, <1>4, <2>1 DEF Contended
<1>5. CASE OfferBegin(c)
    <2>1. cap'[c].event = cap[c].event /\ \A d \in Callers : d # c => cap'[d] = cap[d]
        BY <1>0, <1>5 DEF OfferBegin, TypeOK, CapStates
    <2>. QED BY <1>1, <1>5, <2>1 DEF OfferBegin
<1>6. CASE OfferEvict(c)
    <2>. DEFINE i == Min(Evictable)
                x == buffer[i].id
    <2>1. i \in 1..Len(buffer)
        <3>1. i \in Evictable
            BY <1>0, <1>6, BehindBatch DEF OfferEvict
        <3>. QED BY <1>0, <3>1 DEF Evictable, TypeOK
    <2>2. /\ buffer' = RemoveAt(buffer, i) /\ buffer_sizes' = Without(buffer_sizes, x)
          /\ buffer_bytes' = buffer_bytes - buffer_sizes[x]
          /\ hook_bypass' = hook_bypass \ {x} /\ diagnostics' = diagnostics \ {x}
          /\ UNCHANGED <<disposed, cap>>
        BY <1>6 DEF OfferEvict, Unmarked
    <2>3. x = buffer[i].id
        OBVIOUS
    <2>. HIDE DEF i, x
    <2>. QED BY <1>0, <2>1, <2>2, <2>3, TablesRemove
<1>7. CASE OfferAdmit(c)
    <2>. DEFINE o == cap[c].event[1]
                fatal == o.kind = "fatal"
                e == [o EXCEPT !.skip = fatal]
    <2>0. cap[c].pc = "offer" /\ ~Full(o.bytes) /\ Admitted(e, cap[c].pressed)
          /\ hook_bypass' = hook_bypass \cup (IF fatal THEN {o.id} ELSE {})
          /\ diagnostics' = diagnostics \cup (IF o.kind = "recovery" THEN {o.id} ELSE {})
          /\ cap' = [cap EXCEPT ![c] = IdleCap] /\ UNCHANGED disposed
        BY <1>7 DEF OfferAdmit
    <2>1. o \in Event /\ cap[c].pressed \in BOOLEAN
        BY <1>0, <2>0, HeldEvent DEF TypeOK, CapStates
    <2>2. o.id \in IdsOf(cap[c].event)
        <3>1. cap[c].event \in Seq(Event) /\ cap[c].event # <<>>
            BY <1>0, <2>0 DEF TypeOK, Held, CapStates
        <3>2. 1 \in DOMAIN cap[c].event
            BY <3>1
        <3>. QED BY <3>2 DEF IdsOf
    <2>. HIDE DEF o
    <2>3. e \in Event /\ e.id = o.id /\ e.bytes = o.bytes /\ e.kind = o.kind /\ (e.skip <=> fatal)
        BY <2>1 DEF Event
    <2>. HIDE DEF e, fatal
    <2>4. \A d \in Callers : cap'[d] = IF d = c THEN IdleCap ELSE cap[d]
        BY <1>0, <2>0 DEF TypeOK
    <2>5. \A d \in Callers : cap'[d].event \in {cap[d].event, <<>>}
        BY <2>4 DEF IdleCap
    <2>6. e.id \notin IdsOf(buffer) /\ \A d \in Callers : e.id \notin IdsOf(cap'[d].event)
        <3>1. Separate(buffer, cap)
            BY DEF Tables
        <3>2. e.id \notin IdsOf(buffer) /\ \A d \in Callers : d # c => e.id \notin IdsOf(cap[d].event)
            BY <2>2, <2>3, <3>1 DEF Separate
        <3>3. e.id \notin IdsOf(<<>>)
            BY DEF IdsOf
        <3>. QED BY <2>4, <3>2, <3>3 DEF IdleCap
    <2>7. hook_bypass' = hook_bypass \cup MarkOf(e) /\ diagnostics' = diagnostics \cup ShareOf(e)
        BY <2>0, <2>3 DEF MarkOf, ShareOf
    <2>8. ~Full(e.bytes) /\ UNCHANGED disposed
        BY <2>0, <2>3
    <2>. QED BY <1>0, <2>0, <2>1, <2>3, <2>5, <2>6, <2>7, <2>8, TablesAdmit
<1>8. CASE CountDrop(c) \/ Decline(c) \/ OfferReject(c) \/ OfferOverBudget(c)
    BY <1>1, <1>8 DEF CountDrop, Decline, OfferReject, OfferOverBudget
<1>. QED BY <1>2, <1>3, <1>4, <1>5, <1>6, <1>7, <1>8 DEF CaptureStep

-----------------------------------------------------------------------------
(* Flushes.                                                                *)

(* A summary a flush admits is a new object that hooks may see.            *)
LEMMA TablesSummary ==
    ASSUME TypeOK, Tables, NEW f \in Flushers, NEW k \in {"aggregate", "pressure"},
           NEW b \in Sizes, ~Full(b), Allocations(1) # {}, Admitted(Summary(f, k, b), FALSE),
           UNCHANGED <<hook_bypass, diagnostics, disposed, cap>>
    PROVE  Tables'
<1>. DEFINE e == Summary(f, k, b)
<1>1. FreshId \in Ids /\ FreshId \notin Live /\ b \in Nat /\ k \in Kinds
    BY FreshIdType, QueueAssumption DEF Kinds, LowKinds
<1>2. e \in Event
    BY <1>1, SummaryType
<1>3. e.id = FreshId /\ e.bytes = b /\ ~e.skip /\ e.kind # "recovery"
    BY <1>1, SummaryType
<1>4. Admitted(e, FALSE) /\ ~Full(e.bytes)
    BY <1>3
<1>. HIDE DEF e
<1>5. e.id \notin IdsOf(buffer) /\ \A c \in Callers : e.id \notin IdsOf(cap'[c].event)
    BY <1>1, <1>3, FreshIsApart
<1>6. hook_bypass' = hook_bypass \cup MarkOf(e) /\ diagnostics' = diagnostics \cup ShareOf(e)
    BY <1>3 DEF MarkOf, ShareOf
<1>7. FALSE \in BOOLEAN /\ \A c \in Callers : cap'[c].event \in {cap[c].event, <<>>}
    OBVIOUS
<1>. QED BY <1>2, <1>4, <1>5, <1>6, <1>7, TablesAdmit

(* The next event a flush finalizes is still where the thread expects it.  *)
LEMMA NextEvent ==
    ASSUME TypeOK, BatchAtFront, NEW f \in Flushers, Claims(f), fl[f].todo # <<>>
    PROVE  /\ Len(fl[f].done) + 1 \in 1..Len(buffer)
           /\ buffer[Len(fl[f].done) + 1] = Head(fl[f].todo)
<1>1. Len(fl[f].done) + 1 \in 1..Len(buffer)
    BY NextPosition
<1>2. fl[f].todo \in Seq(Event) /\ Len(fl[f].done) \in Nat
    BY DEF TypeOK, FlushStates
<1>3. 1 \in 1..Len(fl[f].todo) /\ Head(fl[f].todo) = fl[f].todo[1]
    <2>. DEFINE t == fl[f].todo
    <2>1. t \in Seq(Event) /\ t # <<>>
        BY <1>2
    <2>. HIDE DEF t
    <2>2. 1 \in 1..Len(t) /\ Head(t) = t[1]
        BY <2>1
    <2>. QED BY <2>2 DEF t
<1>4. buffer[Len(fl[f].done) + 1] = fl[f].todo[1]
    BY <1>3 DEF BatchAtFront, AtFront, Fronts
<1>. QED BY <1>1, <1>3, <1>4

(* finalize_batch writes the finalized form of an event, under the         *)
(* identity of a new object.                                               *)
LEMMA TablesReplace ==
    ASSUME IInv, Tables, NEW f \in Flushers, NEW k \in Kinds, NEW b \in Sizes,
           FinalizeReplace(f, k, b)
    PROVE  Tables'
<1>0. /\ TypeOK /\ BatchAtFront /\ Ledger(buffer, buffer_sizes, buffer_bytes)
      /\ Marks(buffer, hook_bypass, diagnostics, disposed) /\ Separate(buffer, cap)
      /\ buffer \in Seq(Event)
    BY DEF IInv, InFront, TypeOK, Tables
<1>. DEFINE e == Head(fl[f].todo)
            i == Len(fl[f].done) + 1
            r == [e EXCEPT !.id = FreshId, !.kind = k, !.bytes = b]
<1>1. i \in 1..Len(buffer) /\ buffer[i] = e
    BY <1>0, NextEvent DEF FinalizeReplace, Finalizing, Claims
<1>2. /\ Fits(e, b) /\ Allocations(1) # {}
      /\ buffer' = [buffer EXCEPT ![i] = r]
      /\ buffer_sizes' = [x \in (DOMAIN buffer_sizes \ {e.id}) \cup {r.id} |->
                              IF x = r.id THEN b ELSE buffer_sizes[x]]
      /\ buffer_bytes' = buffer_bytes + b - buffer_sizes[e.id]
      /\ hook_bypass' = Unmarked(e.id) \cup Inherited(e.id, r.id)
      /\ diagnostics' = (diagnostics \ {e.id}) \cup (IF k = "recovery" THEN {r.id} ELSE {})
      /\ UNCHANGED <<cap, disposed>>
    BY DEF FinalizeReplace, life
<1>3. FreshId \in Ids /\ FreshId \notin Live /\ b \in Nat
    BY <1>2, FreshIdType, QueueAssumption
<1>4. e \in Event /\ i \in DOMAIN buffer
    BY <1>0, <1>1
<1>. HIDE DEF e, i
<1>5. /\ r \in Event /\ r.id = FreshId /\ r.kind = k /\ r.bytes = b /\ r.skip = e.skip
    BY <1>3, <1>4 DEF Event
<1>. HIDE DEF r
<1>6. r.id \notin IdsOf(buffer) /\ \A c \in Callers : r.id \notin IdsOf(cap[c].event)
    BY <1>3, <1>5, FreshIsApart
<1>7. Replaceable(buffer, buffer_bytes, buffer_sizes[buffer[i].id], r)
    BY <1>1, <1>2, <1>5, <1>6 DEF Replaceable, Fits
<1>. DEFINE nb == [buffer EXCEPT ![i] = r]
<1>8. /\ Ledger(nb, Recharge(buffer_sizes, buffer[i].id, r),
                buffer_bytes + r.bytes - buffer_sizes[buffer[i].id])
      /\ Replaces(nb, buffer, buffer[i].id, r)
    BY <1>0, <1>1, <1>5, <1>7, LedgerReplace
<1>9. /\ buffer' = nb /\ buffer_sizes' = Recharge(buffer_sizes, buffer[i].id, r)
      /\ buffer_bytes' = buffer_bytes + r.bytes - buffer_sizes[buffer[i].id]
    BY <1>1, <1>2, <1>5 DEF Recharge
<1>. HIDE DEF nb
<1>10. Marks(nb, (hook_bypass \ {buffer[i].id}) \cup HeirOf(hook_bypass, buffer[i].id, r.id),
             (diagnostics \ {buffer[i].id}) \cup ShareOf(r), disposed)
    BY <1>0, <1>1, <1>4, <1>5, <1>8, MarksReplace
<1>11. /\ hook_bypass' = (hook_bypass \ {buffer[i].id}) \cup HeirOf(hook_bypass, buffer[i].id, r.id)
       /\ diagnostics' = (diagnostics \ {buffer[i].id}) \cup ShareOf(r)
    BY <1>1, <1>2, <1>5 DEF Unmarked, Inherited, HeirOf, ShareOf
<1>12. Separate(nb, cap)
    <2>1. \A x \in IdsOf(nb) : x \in IdsOf(buffer) \/ \A c \in Callers : x \notin IdsOf(cap[c].event)
        BY <1>6, <1>8 DEF Replaces
    <2>. QED BY <1>0, <2>1, SeparateKept
<1>. QED BY <1>2, <1>8, <1>9, <1>10, <1>11, <1>12 DEF Tables

(* The unsent tail of a split batch is marked, and nothing else.           *)
LEMMA TablesSelect ==
    ASSUME IInv, Tables, NEW f \in Flushers, NEW n \in 1..Len(fl[f].done), SelectBatch(f, n)
    PROVE  Tables'
<1>. DEFINE tail == (n + 1)..Len(fl[f].done)
            nb == [i \in DOMAIN buffer |->
                     IF i \in tail THEN [buffer[i] EXCEPT !.skip = TRUE] ELSE buffer[i]]
<1>0. /\ TypeOK /\ BatchAtFront /\ Ledger(buffer, buffer_sizes, buffer_bytes)
      /\ Marks(buffer, hook_bypass, diagnostics, disposed) /\ Separate(buffer, cap)
      /\ buffer \in Seq(Event) /\ Len(buffer) \in Nat /\ DOMAIN buffer = 1..Len(buffer)
    BY DEF IInv, InFront, TypeOK, Tables
<1>1. /\ hook_bypass' = hook_bypass \cup {fl[f].done[i].id : i \in tail}
      /\ buffer' = nb
      /\ UNCHANGED <<buffer_sizes, buffer_bytes, diagnostics, disposed, cap>>
    BY DEF SelectBatch, life
<1>2. \A i \in tail : i \in 1..Len(buffer) /\ fl[f].done[i] = buffer[i]
    <2>1. fl[f].done \in Seq(Event) /\ fl[f].todo \in Seq(Event)
        BY <1>0 DEF TypeOK, FlushStates
    <2>2. Len(fl[f].done) \in Nat /\ Len(fl[f].todo) \in Nat
        BY <2>1
    <2>3. Fronts(fl[f].done, fl[f].todo, buffer)
        BY <1>0 DEF SelectBatch, Claims, BatchAtFront, AtFront
    <2>4. ASSUME NEW i \in tail PROVE i \in 1..Len(fl[f].done) /\ i \in 1..Len(buffer)
        <3>. DEFINE a == Len(fl[f].done)
                    o == Len(fl[f].todo)
                    c == Len(buffer)
        <3>1. a + o <= c
            BY <2>3 DEF Fronts
        <3>2. a \in Nat /\ o \in Nat /\ c \in Nat /\ n \in 1..a /\ i \in (n + 1)..a
            BY <1>0, <2>2
        <3>. HIDE DEF a, o, c, tail
        <3>3. i \in 1..a /\ i \in 1..c
            BY <3>1, <3>2
        <3>. QED BY <3>3 DEF a, c
    <2>. QED BY <2>3, <2>4 DEF Fronts
<1>. HIDE DEF tail
<1>3. ASSUME NEW i \in 1..Len(buffer)
      PROVE  /\ nb[i] \in Event /\ nb[i].id = buffer[i].id /\ nb[i].bytes = buffer[i].bytes
             /\ nb[i].kind = buffer[i].kind
             /\ i \in tail => nb[i].skip
             /\ i \notin tail => nb[i] = buffer[i]
    <2>. DEFINE o == buffer[i]
    <2>1. o \in Event /\ nb[i] = IF i \in tail THEN [o EXCEPT !.skip = TRUE] ELSE o
        BY <1>0
    <2>. HIDE DEF nb, o
    <2>2. /\ [o EXCEPT !.skip = TRUE] \in Event /\ [o EXCEPT !.skip = TRUE].id = o.id
          /\ [o EXCEPT !.skip = TRUE].bytes = o.bytes /\ [o EXCEPT !.skip = TRUE].kind = o.kind
          /\ [o EXCEPT !.skip = TRUE].skip
        BY <2>1 DEF Event
    <2>3. CASE i \in tail
        <3>1. nb[i] = [o EXCEPT !.skip = TRUE]
            BY <2>1, <2>3
        <3>. QED BY <2>2, <2>3, <3>1 DEF o
    <2>4. CASE i \notin tail
        <3>1. nb[i] = o
            BY <2>1, <2>4
        <3>. QED BY <2>1, <2>4, <3>1 DEF o
    <2>. QED BY <2>3, <2>4
<1>4. nb \in [1..Len(buffer) -> Event] /\ DOMAIN nb = 1..Len(buffer)
    <2>1. DOMAIN nb = 1..Len(buffer)
        BY <1>0
    <2>2. nb = [i \in 1..Len(buffer) |-> nb[i]]
        BY <1>0
    <2>. HIDE DEF nb
    <2>. QED BY <1>3, <2>1, <2>2
<1>. HIDE DEF nb
<1>5. nb \in Seq(Event) /\ Len(nb) = Len(buffer)
    BY <1>0, <1>4
<1>6. IdsOf(nb) = IdsOf(buffer)
    BY <1>0, <1>3, <1>4 DEF IdsOf
<1>7. Ledger(nb, buffer_sizes, buffer_bytes)
    <2>1. Distinct(nb)
        BY <1>0, <1>3, <1>4 DEF Ledger, Distinct
    <2>2. Charges(nb, buffer_sizes)
        BY <1>0, <1>3, <1>4, <1>6 DEF Ledger, Charges
    <2>. QED BY <1>0, <1>5, <2>1, <2>2 DEF Ledger
<1>8. Marks(nb, hook_bypass', diagnostics, disposed)
    <2>1. ASSUME NEW i \in 1..Len(buffer)
          PROVE  Marked(nb[i], hook_bypass', diagnostics, disposed)
        <3>1. Marked(buffer[i], hook_bypass, diagnostics, disposed)
            BY <1>0 DEF Marks
        <3>2. CASE i \in tail
            <4>1. nb[i].id \in hook_bypass'
                BY <1>1, <1>2, <1>3, <3>2
            <4>. QED BY <1>3, <3>1, <3>2, <4>1 DEF Marked
        <3>3. CASE i \notin tail
            <4>1. \A j \in tail : buffer[j].id # buffer[i].id
                BY <1>0, <1>2, <3>3 DEF Ledger, Distinct
            <4>2. buffer[i].id \in hook_bypass' <=> buffer[i].id \in hook_bypass
                BY <1>1, <1>2, <4>1
            <4>. QED BY <1>3, <3>1, <3>3, <4>2 DEF Marked
        <3>. QED BY <3>2, <3>3
    <2>2. hook_bypass' \subseteq IdsOf(nb) /\ diagnostics \subseteq IdsOf(nb)
        <3>1. {fl[f].done[i].id : i \in tail} \subseteq IdsOf(buffer)
            BY <1>0, <1>2 DEF IdsOf
        <3>. QED BY <1>0, <1>1, <1>6, <3>1 DEF Marks
    <2>. QED BY <1>4, <2>1, <2>2 DEF Marks
<1>9. Separate(nb, cap)
    BY <1>0, <1>6 DEF Separate
<1>. QED BY <1>1, <1>7, <1>8, <1>9 DEF Tables

(* The finally block keeps the tables, whatever the response made of the   *)
(* queue.                                                                  *)
LEMMA TablesSettle ==
    ASSUME TypeOK, Tables, NEW f, NEW kept \in Seq(Event), NEW sizes, NEW late, NEW again,
           Settle(f, kept, sizes, late, again), NEW p, NEW N, NEW fresh,
           Remains(kept, buffer, p, N, fresh), \A j \in DOMAIN kept : sizes[kept[j].id] = kept[j].bytes,
           hook_bypass' = (hook_bypass \cup fresh) \cap IdsOf(kept),
           \A x \in fresh : \A c \in Callers : x \notin IdsOf(cap[c].event),
           UNCHANGED <<disposed, cap>>
    PROVE  Tables'
<1>0. /\ Ledger(buffer, buffer_sizes, buffer_bytes) /\ buffer \in Seq(Event)
      /\ Marks(buffer, hook_bypass, diagnostics, disposed) /\ Separate(buffer, cap)
    BY DEF TypeOK, Tables
<1>1. /\ buffer' = kept /\ buffer_sizes' = Restrict(sizes, IdsOf(kept))
      /\ buffer_bytes' = SumFunction(buffer_sizes')
      /\ diagnostics' = diagnostics \cap Recoveries(kept)
    BY DEF Settle, Retained, Recoveries
<1>2. Ledger(kept, Restrict(sizes, IdsOf(kept)), SumFunction(Restrict(sizes, IdsOf(kept))))
    BY <1>0, LedgerSettle
<1>3. Survives(kept, buffer, fresh) /\ \A x \in IdsOf(kept) : x \in IdsOf(buffer) \/ x \in fresh
    BY <1>0, RemainsOf
<1>4. Marks(kept, (hook_bypass \cup fresh) \cap IdsOf(kept), diagnostics \cap Recoveries(kept), disposed)
    BY <1>0, <1>3, MarksSettle
<1>5. Separate(kept, cap)
    <2>1. \A x \in IdsOf(kept) : x \in IdsOf(buffer) \/ \A c \in Callers : x \notin IdsOf(cap[c].event)
        BY <1>3
    <2>. QED BY <1>0, <2>1, SeparateKept
<1>. QED BY <1>1, <1>2, <1>4, <1>5 DEF Tables

(* A completion that keeps the queue from position m + 1 on. *)
LEMMA RestRemains ==
    ASSUME NEW b \in Seq(Event), NEW sizes, Charges(b, sizes), NEW kept \in Seq(Event),
           NEW m \in Nat, m + Len(kept) <= Len(b), \A j \in 1..Len(kept) : kept[j] = b[m + j]
    PROVE  /\ \E p : Remains(kept, b, p, {}, {})
           /\ \A j \in DOMAIN kept : sizes[kept[j].id] = kept[j].bytes
<1>. DEFINE p == [j \in 1..Len(kept) |-> m + j]
<1>1. Len(b) \in Nat /\ Len(kept) \in Nat /\ DOMAIN kept = 1..Len(kept) /\ DOMAIN b = 1..Len(b)
    OBVIOUS
<1>2. /\ \A j \in 1..Len(kept) : p[j] \in 1..Len(b) /\ kept[j] = b[p[j]]
      /\ \A j, k \in 1..Len(kept) : p[j] = p[k] => j = k
    BY <1>1
<1>3. p \in [1..Len(kept) -> 1..Len(b)]
    BY <1>2
<1>. HIDE DEF p
<1>4. Remains(kept, b, p, {}, {})
    BY <1>2, <1>3 DEF Remains
<1>5. \A j \in DOMAIN kept : sizes[kept[j].id] = kept[j].bytes
    BY <1>1, <1>2 DEF Charges
<1>. QED BY <1>4, <1>5

(* _buffer[len(batch):] is the queue behind the batch. *)
LEMMA TrailingRest ==
    ASSUME TypeOK, BatchAtFront, NEW f \in Flushers, Claims(f)
    PROVE  /\ Trailing(f) \in Seq(Event) /\ Len(fl[f].done) \in Nat
           /\ Len(fl[f].done) + Len(Trailing(f)) <= Len(buffer)
           /\ \A j \in 1..Len(Trailing(f)) : Trailing(f)[j] = buffer[Len(fl[f].done) + j]
           /\ \A i \in 1..Len(buffer) : i > Len(fl[f].done) =>
                 i - Len(fl[f].done) \in 1..Len(Trailing(f))
<1>. DEFINE d == fl[f].done
            n == Len(buffer)
            m == Len(d) + 1
            s == SubSeq(buffer, m, n)
<1>1. d \in Seq(Event) /\ fl[f].todo \in Seq(Event) /\ buffer \in Seq(Event)
    BY DEF TypeOK, FlushStates
<1>2. Len(d) \in Nat /\ n \in Nat /\ Len(fl[f].todo) \in Nat
    BY <1>1
<1>3. Len(d) <= n
    <2>. DEFINE a == Len(d)
                o == Len(fl[f].todo)
    <2>1. a + o <= n
        BY DEF BatchAtFront, AtFront, Fronts
    <2>2. a \in Nat /\ o \in Nat /\ n \in Nat
        BY <1>2
    <2>. HIDE DEF a, o, n
    <2>3. a <= n
        BY <2>1, <2>2
    <2>. QED BY <2>3 DEF a
<1>4. m \in Int /\ n \in Int /\ \A i \in m..n : buffer[i] \in Event
    BY <1>1, <1>2
<1>. HIDE DEF d, n, m
<1>5. /\ s \in Seq(Event) /\ Len(s) = IF m <= n THEN n - m + 1 ELSE 0
      /\ \A i \in 1..(n - m + 1) : s[i] = buffer[m + i - 1]
    BY <1>4, SubSeqProperties
<1>. HIDE DEF s
<1>6. m = Len(d) + 1
    BY DEF m
<1>7. Len(s) = n - Len(d) /\ Len(s) \in Nat
    BY <1>2, <1>3, <1>5, <1>6
<1>8. ASSUME NEW j \in 1..Len(s) PROVE s[j] = buffer[Len(d) + j]
    <2>1. j \in 1..(n - m + 1) /\ m + j - 1 = Len(d) + j
        BY <1>2, <1>6, <1>7
    <2>. QED BY <1>5, <2>1
<1>9. /\ Len(d) + Len(s) <= n
      /\ \A i \in 1..n : i > Len(d) => i - Len(d) \in 1..Len(s)
    BY <1>2, <1>7
<1>. QED BY <1>2, <1>5, <1>8, <1>9 DEF Trailing, s, m, n, d

(* A completion without an acknowledgement: everything stays, or the batch *)
(* is removed.                                                             *)
LEMMA TablesComplete ==
    ASSUME IInv, Tables, NEW f \in Flushers,
           \/ CompleteFailed(f) \/ CompleteRemoved(f)
           \/ \E late \in BOOLEAN : CompleteRetryAfter(f, late)
    PROVE  Tables'
<1>0. /\ TypeOK /\ BatchAtFront /\ Charges(buffer, buffer_sizes)
      /\ buffer \in Seq(Event) /\ Len(buffer) \in Nat
    BY DEF IInv, InFront, TypeOK, Tables, Ledger
<1>1. ASSUME NEW kept \in Seq(Event), NEW m \in Nat, m + Len(kept) <= Len(buffer),
             \A j \in 1..Len(kept) : kept[j] = buffer[m + j],
             NEW late, NEW again, Settle(f, kept, buffer_sizes, late, again),
             hook_bypass' = hook_bypass \cap IdsOf(kept), UNCHANGED <<disposed, cap>>
      PROVE  Tables'
    <2>1. /\ \E p : Remains(kept, buffer, p, {}, {})
          /\ \A j \in DOMAIN kept : buffer_sizes[kept[j].id] = kept[j].bytes
        BY <1>0, <1>1, RestRemains
    <2>2. PICK p : Remains(kept, buffer, p, {}, {})
        BY <2>1
    <2>. DEFINE N == {}
                fresh == {}
    <2>3. Remains(kept, buffer, p, N, fresh)
        BY <2>2
    <2>4. hook_bypass' = (hook_bypass \cup fresh) \cap IdsOf(kept)
        BY <1>1
    <2>5. \A x \in fresh : \A c \in Callers : x \notin IdsOf(cap[c].event)
        OBVIOUS
    <2>. HIDE DEF N, fresh
    <2>. QED BY <1>0, <1>1, <2>1, <2>3, <2>4, <2>5, TablesSettle
<1>2. ASSUME NEW late, NEW again, Settle(f, buffer, buffer_sizes, late, again),
             hook_bypass' = hook_bypass \cap IdsOf(buffer), UNCHANGED <<disposed, cap>>
      PROVE  Tables'
    <2>1. /\ 0 \in Nat /\ 0 + Len(buffer) <= Len(buffer)
          /\ \A j \in 1..Len(buffer) : buffer[j] = buffer[0 + j]
        BY <1>0
    <2>. QED BY <1>0, <1>1, <1>2, <2>1
<1>3. CASE CompleteFailed(f)
    <2>1. /\ Settle(f, buffer, buffer_sizes, FALSE, TRUE)
          /\ hook_bypass' = hook_bypass \cap IdsOf(buffer) /\ UNCHANGED <<disposed, cap>>
        BY <1>3 DEF CompleteFailed, life
    <2>. DEFINE late == FALSE
                again == TRUE
    <2>2. Settle(f, buffer, buffer_sizes, late, again)
        BY <2>1
    <2>. HIDE DEF late, again
    <2>. QED BY <1>2, <2>1, <2>2
<1>4. ASSUME NEW late \in BOOLEAN, CompleteRetryAfter(f, late)
      PROVE  Tables'
    <2>1. /\ Settle(f, buffer, buffer_sizes, late, TRUE)
          /\ hook_bypass' = hook_bypass \cap IdsOf(buffer) /\ UNCHANGED <<disposed, cap>>
        BY <1>4 DEF CompleteRetryAfter, life
    <2>. DEFINE later == late
                again == TRUE
    <2>2. Settle(f, buffer, buffer_sizes, later, again)
        BY <2>1
    <2>. HIDE DEF later, again
    <2>. QED BY <1>2, <2>1, <2>2
<1>5. CASE CompleteRemoved(f)
    <2>1. /\ Settle(f, Trailing(f), buffer_sizes, FALSE, FALSE)
          /\ hook_bypass' = hook_bypass \cap IdsOf(Trailing(f)) /\ UNCHANGED <<disposed, cap>>
        BY <1>5 DEF CompleteRemoved, life
    <2>2. Claims(f)
        BY <1>5 DEF CompleteRemoved, Completing, Claims
    <2>. DEFINE m == Len(fl[f].done)
                kept == Trailing(f)
    <2>3. kept \in Seq(Event) /\ m \in Nat /\ m + Len(kept) <= Len(buffer)
          /\ \A j \in 1..Len(kept) : kept[j] = buffer[m + j]
        BY <1>0, <2>2, TrailingRest
    <2>. HIDE DEF m, kept
    <2>4. Settle(f, kept, buffer_sizes, FALSE, FALSE) /\ hook_bypass' = hook_bypass \cap IdsOf(kept)
        BY <2>1 DEF kept
    <2>. QED BY <1>1, <2>1, <2>3, <2>4
<1>. QED BY <1>3, <1>4, <1>5

(* Positions the server names are distinct positions of the batch. *)
LEMMA OrdersType ==
    ASSUME NEW n \in Nat, NEW s \in Orders(n)
    PROVE  /\ Len(s) \in Nat /\ DOMAIN s = 1..Len(s)
           /\ \A i \in 1..Len(s) : s[i] \in 1..n
           /\ \A i, j \in 1..Len(s) : s[i] = s[j] => i = j
<1>1. PICK m \in 0..n : s \in Injection(1..m, 1..n)
    BY Zenon DEF Orders
<1>2. s \in [1..m -> 1..n] /\ IsInjective(s)
    BY <1>1, Zenon DEF Injection
<1>3. m \in Nat
    OBVIOUS
<1>4. s \in Seq(1..n) /\ Len(s) = m
    BY <1>2, <1>3
<1>. QED BY <1>2, <1>4 DEF IsInjective

(* nb is u, v and w in a row. *)
Joined(nb, u, v, w, r, d, l) ==
    /\ nb \in Seq(Event) /\ Len(nb) = r + d + l
    /\ \A j \in 1..(r + d + l) :
          /\ j <= r => nb[j] = u[j]
          /\ j > r /\ j <= r + d => nb[j] = v[j - r]
          /\ j > r + d => nb[j] = w[j - r - d]

(* Three queues in a row. *)
LEMMA ThreeParts ==
    ASSUME NEW u \in Seq(Event), NEW v \in Seq(Event), NEW w \in Seq(Event)
    PROVE  Joined((u \o v) \o w, u, v, w, Len(u), Len(v), Len(w))
<1>. DEFINE a == u \o v
            c == a \o w
            r == Len(u)
            d == Len(v)
            l == Len(w)
<1>1. r \in Nat /\ d \in Nat /\ l \in Nat
    OBVIOUS
<1>2. /\ a \in Seq(Event) /\ Len(a) = r + d
      /\ \A j \in 1..(r + d) : a[j] = IF j <= r THEN u[j] ELSE v[j - r]
    BY ConcatProperties
<1>p. ASSUME NEW x \in Seq(Event)
      PROVE  /\ x \o w \in Seq(Event) /\ Len(x \o w) = Len(x) + Len(w)
             /\ \A j \in 1..(Len(x) + Len(w)) :
                   (x \o w)[j] = IF j <= Len(x) THEN x[j] ELSE w[j - Len(x)]
    BY ConcatProperties
<1>. HIDE DEF a
<1>3. /\ c \in Seq(Event) /\ Len(c) = Len(a) + l
      /\ \A j \in 1..(Len(a) + l) : c[j] = IF j <= Len(a) THEN a[j] ELSE w[j - Len(a)]
    BY <1>2, <1>p, Zenon
<1>. HIDE DEF c, r, d, l
<1>4. ASSUME NEW j \in 1..(r + d + l)
      PROVE  /\ j <= r => c[j] = u[j]
             /\ j > r /\ j <= r + d => c[j] = v[j - r]
             /\ j > r + d => c[j] = w[j - r - d]
    <2>1. j \in 1..(Len(a) + l) /\ Len(a) = r + d
        BY <1>1, <1>2
    <2>2. CASE j <= r + d
        <3>1. j \in 1..(r + d)
            BY <1>1, <2>2
        <3>2. c[j] = IF j <= r THEN u[j] ELSE v[j - r]
            BY <1>2, <1>3, <2>1, <2>2, <3>1
        <3>. QED BY <1>1, <2>2, <3>2
    <2>3. CASE ~(j <= r + d)
        <3>1. c[j] = w[j - (r + d)] /\ j - (r + d) = j - r - d
            BY <1>1, <1>3, <2>1, <2>3
        <3>. QED BY <1>1, <2>3, <3>1
    <2>. QED BY <2>2, <2>3
<1>5. c \in Seq(Event) /\ Len(c) = r + d + l
    BY <1>1, <1>2, <1>3
<1>6. Joined(c, u, v, w, r, d, l)
    BY <1>4, <1>5 DEF Joined
<1>. QED BY <1>6 DEF c, a, r, d, l

(* Where the events of the new queue were: first the r positions of retry, *)
(* then the d positions of reduce, then the l positions behind n.          *)
Positions(p, retry, reduce, r, d, l, n) ==
    /\ r \in Nat /\ d \in Nat /\ l \in Nat /\ n \in Nat
    /\ \A i \in 1..r : retry[i] \in 1..n
    /\ \A i \in 1..d : reduce[i] \in 1..n
    /\ \A i, j \in 1..r : retry[i] = retry[j] => i = j
    /\ \A i, j \in 1..d : reduce[i] = reduce[j] => i = j
    /\ \A i \in 1..r, j \in 1..d : retry[i] # reduce[j]
    /\ p = [j \in 1..(r + d + l) |->
              IF j <= r THEN retry[j] ELSE IF j <= r + d THEN reduce[j - r] ELSE n + (j - r - d)]

(* No two events of the new queue come from the same position. *)
LEMMA PositionsDistinct ==
    ASSUME NEW p, NEW retry, NEW reduce, NEW r, NEW d, NEW l, NEW n,
           Positions(p, retry, reduce, r, d, l, n)
    PROVE  /\ \A j \in 1..(r + d + l) :
                 /\ j <= r => j \in 1..r /\ p[j] = retry[j]
                 /\ j > r /\ j <= r + d => j - r \in 1..d /\ p[j] = reduce[j - r]
                 /\ j > r + d => j - r - d \in 1..l /\ p[j] = n + (j - r - d)
           /\ p \in [1..(r + d + l) -> 1..(n + l)]
           /\ \A j, k \in 1..(r + d + l) : p[j] = p[k] => j = k
<1>. DEFINE q(j) == IF j <= r THEN retry[j] ELSE IF j <= r + d THEN reduce[j - r] ELSE n + (j - r - d)
<1>0. r \in Nat /\ d \in Nat /\ l \in Nat /\ n \in Nat
    BY DEF Positions
<1>1. p = [j \in 1..(r + d + l) |-> q(j)]
    BY DEF Positions
<1>2. ASSUME NEW j \in 1..(r + d + l)
      PROVE  /\ j <= r => j \in 1..r /\ p[j] = retry[j]
             /\ j > r /\ j <= r + d => j - r \in 1..d /\ p[j] = reduce[j - r]
             /\ j > r + d => j - r - d \in 1..l /\ p[j] = n + (j - r - d)
    <2>1. p[j] = q(j)
        BY <1>1
    <2>2. j \in Nat /\ j <= r + d + l /\ j >= 1
        BY <1>0
    <2>3. CASE j <= r
        BY <1>0, <2>1, <2>2, <2>3
    <2>4. CASE j > r /\ j <= r + d
        BY <1>0, <2>1, <2>2, <2>4
    <2>5. CASE j > r + d
        BY <1>0, <2>1, <2>2, <2>5
    <2>. HIDE DEF q
    <2>. QED BY <1>0, <2>2, <2>3, <2>4, <2>5
<1>3. ASSUME NEW j \in 1..(r + d + l)
      PROVE  /\ j <= r + d => p[j] \in 1..n
             /\ j > r + d => p[j] \in (n + 1)..(n + l)
             /\ j \in Nat
    <2>0. j \in Nat
        BY <1>0
    <2>1. CASE j <= r
        <3>1. p[j] \in 1..n /\ j <= r + d
            BY <1>0, <1>2, <2>0, <2>1 DEF Positions
        <3>. QED BY <1>0, <2>0, <3>1
    <2>2. CASE j > r /\ j <= r + d
        <3>1. p[j] = reduce[j - r] /\ j - r \in 1..d
            BY <1>2, <2>2
        <3>2. p[j] \in 1..n
            BY <3>1 DEF Positions
        <3>. QED BY <1>0, <2>0, <2>2, <3>2
    <2>3. CASE j > r + d
        <3>1. p[j] = n + (j - r - d) /\ j - r - d \in 1..l
            BY <1>2, <2>3
        <3>. QED BY <1>0, <2>0, <2>3, <3>1
    <2>. QED BY <1>0, <2>0, <2>1, <2>2, <2>3
<1>4. ASSUME NEW j \in 1..(r + d + l), NEW k \in 1..(r + d + l), p[j] = p[k]
      PROVE  j = k
    <2>0. j \in Nat /\ k \in Nat
        BY <1>3
    <2>1. CASE j <= r /\ k <= r
        <3>1. retry[j] = retry[k] /\ j \in 1..r /\ k \in 1..r
            BY <1>2, <1>4, <2>1
        <3>. QED BY <3>1 DEF Positions
    <2>2. CASE (j > r /\ j <= r + d) /\ (k > r /\ k <= r + d)
        <3>1. reduce[j - r] = reduce[k - r] /\ j - r \in 1..d /\ k - r \in 1..d
            BY <1>2, <1>4, <2>2
        <3>2. j - r = k - r
            BY <3>1 DEF Positions
        <3>. QED BY <1>0, <2>0, <3>2
    <2>3. CASE j > r + d /\ k > r + d
        <3>1. n + (j - r - d) = n + (k - r - d)
            <4>1. p[j] = n + (j - r - d)
                BY <1>2, <2>3
            <4>2. p[k] = n + (k - r - d)
                BY <1>2, <2>3
            <4>. QED BY <1>4, <4>1, <4>2
        <3>. QED BY <1>0, <2>0, <3>1
    <2>4. ASSUME NEW x \in 1..(r + d + l), NEW y \in 1..(r + d + l), x <= r, y > r /\ y <= r + d, p[x] = p[y]
          PROVE  FALSE
        <3>1. p[x] = retry[x] /\ x \in 1..r
            BY <1>2, <2>4
        <3>2. p[y] = reduce[y - r] /\ y - r \in 1..d
            BY <1>2, <2>4
        <3>3. retry[x] # reduce[y - r]
            BY <3>1, <3>2 DEF Positions
        <3>. QED BY <2>4, <3>1, <3>2, <3>3
    <2>5. ASSUME NEW x \in 1..(r + d + l), NEW y \in 1..(r + d + l), x <= r + d, y > r + d, p[x] = p[y]
          PROVE  FALSE
        <3>1. p[x] \in 1..n /\ p[y] \in (n + 1)..(n + l)
            BY <1>3, <2>5
        <3>. QED BY <1>0, <2>5, <3>1
    <2>6. /\ j <= r \/ (j > r /\ j <= r + d) \/ j > r + d
          /\ k <= r \/ (k > r /\ k <= r + d) \/ k > r + d
          /\ j <= r => j <= r + d
          /\ k <= r => k <= r + d
        BY <1>0, <2>0
    <2>. QED BY <1>4, <2>1, <2>2, <2>3, <2>4, <2>5, <2>6
<1>5. p \in [1..(r + d + l) -> 1..(n + l)]
    <2>1. ASSUME NEW j \in 1..(r + d + l) PROVE q(j) \in 1..(n + l)
        <3>1. p[j] = q(j)
            BY <1>1
        <3>. HIDE DEF q
        <3>2. p[j] \in 1..n \/ p[j] \in (n + 1)..(n + l)
            BY <1>0, <1>3
        <3>. QED BY <1>0, <3>1, <3>2
    <2>. HIDE DEF q
    <2>. QED BY <1>1, <2>1
<1>. QED BY <1>2, <1>4, <1>5

(* u holds events of b to send again, v reduced ones, under the identities *)
(* fresh, and w what is behind the first n.                                *)
Sources(u, v, w, b, retry, reduce, fresh, r, d, l, n) ==
    /\ b \in Seq(Event) /\ n + l <= Len(b)
    /\ \A j \in 1..r : u[j] = b[retry[j]]
    /\ \A j \in 1..d : /\ v[j].id = fresh[j] /\ v[j].bytes = b[reduce[j]].bytes
                       /\ v[j].skip /\ v[j].kind # "recovery"
    /\ \A j \in 1..l : w[j] = b[n + j]
    /\ DOMAIN fresh = 1..d
    /\ \A i, j \in 1..d : fresh[i] = fresh[j] => i = j
    /\ \A i \in 1..d : fresh[i] \notin IdsOf(b)

(* What an acknowledgement leaves of the queue. *)
LEMMA JoinedRemains ==
    ASSUME NEW nb, NEW u, NEW v, NEW w, NEW b, NEW p, NEW retry, NEW reduce, NEW fresh,
           NEW r, NEW d, NEW l, NEW n,
           Positions(p, retry, reduce, r, d, l, n), Joined(nb, u, v, w, r, d, l),
           Sources(u, v, w, b, retry, reduce, fresh, r, d, l, n)
    PROVE  /\ Remains(nb, b, p, (r + 1)..(r + d), Range(fresh))
           /\ \A j \in 1..Len(nb) : j \notin (r + 1)..(r + d) => p[j] \in 1..Len(b) /\ nb[j] = b[p[j]]
           /\ \A j \in 1..Len(nb) : j \in (r + 1)..(r + d) =>
                 j - r \in 1..d /\ nb[j] = v[j - r] /\ nb[j].id = fresh[j - r]
<1>0. r \in Nat /\ d \in Nat /\ l \in Nat /\ n \in Nat /\ Len(nb) = r + d + l
    BY DEF Positions, Joined
<1>1. Len(b) \in Nat /\ n + l <= Len(b)
    BY DEF Sources
<1>2. /\ \A j \in 1..(r + d + l) :
            /\ j <= r => j \in 1..r /\ p[j] = retry[j]
            /\ j > r /\ j <= r + d => j - r \in 1..d /\ p[j] = reduce[j - r]
            /\ j > r + d => j - r - d \in 1..l /\ p[j] = n + (j - r - d)
      /\ p \in [1..(r + d + l) -> 1..(n + l)]
      /\ \A j, k \in 1..(r + d + l) : p[j] = p[k] => j = k
    BY PositionsDistinct
<1>3. ASSUME NEW j \in 1..(r + d + l), j \notin (r + 1)..(r + d)
      PROVE  nb[j] = b[p[j]]
    <2>1. CASE j <= r
        <3>1. nb[j] = u[j] /\ p[j] = retry[j] /\ j \in 1..r
            BY <1>2, <2>1 DEF Joined
        <3>. QED BY <3>1 DEF Sources
    <2>2. CASE j > r + d
        <3>1. nb[j] = w[j - r - d] /\ p[j] = n + (j - r - d) /\ j - r - d \in 1..l
            BY <1>2, <2>2 DEF Joined
        <3>. QED BY <3>1 DEF Sources
    <2>. QED BY <1>0, <1>3, <2>1, <2>2
<1>4. ASSUME NEW j \in 1..(r + d + l), j \in (r + 1)..(r + d)
      PROVE  j - r \in 1..d /\ nb[j] = v[j - r] /\ p[j] = reduce[j - r] /\ nb[j].id = fresh[j - r]
    <2>1. j > r /\ j <= r + d
        BY <1>0, <1>4
    <2>2. j - r \in 1..d /\ nb[j] = v[j - r] /\ p[j] = reduce[j - r]
        BY <1>2, <2>1 DEF Joined
    <2>. QED BY <2>2 DEF Sources
<1>5. ASSUME NEW j \in 1..(r + d + l), j \in (r + 1)..(r + d)
      PROVE  nb[j].id \in Range(fresh) /\ nb[j].bytes = b[p[j]].bytes /\ nb[j].skip /\ nb[j].kind # "recovery"
    <2>1. j - r \in 1..d /\ nb[j] = v[j - r] /\ p[j] = reduce[j - r] /\ nb[j].id = fresh[j - r]
        BY <1>4, <1>5
    <2>2. nb[j].bytes = b[p[j]].bytes /\ nb[j].skip /\ nb[j].kind # "recovery"
        BY <2>1 DEF Sources
    <2>3. fresh[j - r] \in Range(fresh)
        BY <2>1 DEF Range, Sources
    <2>. QED BY <2>1, <2>2, <2>3
<1>6. ASSUME NEW j \in 1..(r + d + l), NEW k \in 1..(r + d + l),
             j \in (r + 1)..(r + d), k \in (r + 1)..(r + d), nb[j].id = nb[k].id
      PROVE  j = k
    <2>1. j - r \in 1..d /\ k - r \in 1..d /\ fresh[j - r] = fresh[k - r]
        BY <1>4, <1>6
    <2>2. j - r = k - r
        BY <2>1 DEF Sources
    <2>. QED BY <1>0, <2>2
<1>7. Range(fresh) \cap IdsOf(b) = {}
    BY DEF Range, Sources
<1>8. \A j \in 1..(r + d + l) : p[j] \in 1..Len(b)
    <2>1. ASSUME NEW x \in 1..(n + l) PROVE x \in 1..Len(b)
        BY <1>0, <1>1
    <2>. QED BY <1>2, <2>1
<1>9. p \in [1..(r + d + l) -> 1..Len(b)]
    BY <1>2, <1>8
<1>10. Remains(nb, b, p, (r + 1)..(r + d), Range(fresh))
    <2>. DEFINE m == r + d + l
                N == (r + 1)..(r + d)
    <2>1. Len(nb) = m /\ p \in [1..m -> 1..Len(b)] /\ \A j, k \in 1..m : p[j] = p[k] => j = k
        BY <1>0, <1>2, <1>9
    <2>2. /\ \A j \in 1..m : j \notin N => nb[j] = b[p[j]]
          /\ \A j, k \in 1..m : j \in N /\ k \in N /\ nb[j].id = nb[k].id => j = k
        BY <1>3, <1>6
    <2>3. \A j \in 1..m : j \in N =>
             nb[j].id \in Range(fresh) /\ nb[j].bytes = b[p[j]].bytes /\ nb[j].skip /\ nb[j].kind # "recovery"
        BY <1>5
    <2>. HIDE DEF m, N
    <2>4. Remains(nb, b, p, N, Range(fresh))
        BY <1>7, <2>1, <2>2, <2>3 DEF Remains
    <2>. QED BY <2>4 DEF N
<1>. QED BY <1>0, <1>3, <1>4, <1>8, <1>10

(* The charges of an acknowledgement: the old ones, and those of v.        *)
Charged(sizes, fresh, v) ==
    [x \in DOMAIN sizes \cup Range(fresh) |->
       IF x \in Range(fresh) THEN v[CHOOSE j \in DOMAIN fresh : fresh[j] = x].bytes
       ELSE sizes[x]]

(* An event that stays keeps its charge; a reduced one gets the charge of  *)
(* the event it stands for.                                                *)
LEMMA JoinedCharges ==
    ASSUME NEW nb, NEW u, NEW v, NEW w, NEW b, NEW p, NEW retry, NEW reduce, NEW fresh,
           NEW r, NEW d, NEW l, NEW n, NEW sizes, Charges(b, sizes),
           Positions(p, retry, reduce, r, d, l, n), Joined(nb, u, v, w, r, d, l),
           Sources(u, v, w, b, retry, reduce, fresh, r, d, l, n),
           NEW charged, charged = Charged(sizes, fresh, v)
    PROVE  \A j \in DOMAIN nb : charged[nb[j].id] = nb[j].bytes
<1>1. /\ \A j \in 1..Len(nb) : j \notin (r + 1)..(r + d) => p[j] \in 1..Len(b) /\ nb[j] = b[p[j]]
      /\ \A j \in 1..Len(nb) : j \in (r + 1)..(r + d) =>
            j - r \in 1..d /\ nb[j] = v[j - r] /\ nb[j].id = fresh[j - r]
    BY JoinedRemains
<1>2. DOMAIN nb = 1..Len(nb) /\ DOMAIN b = 1..Len(b)
    BY DEF Joined, Sources
<1>3. ASSUME NEW i \in 1..d
      PROVE  charged[fresh[i]] = v[i].bytes
    <2>1. fresh[i] \in Range(fresh) /\ i \in DOMAIN fresh
        BY DEF Range, Sources
    <2>2. charged[fresh[i]] = v[CHOOSE j \in DOMAIN fresh : fresh[j] = fresh[i]].bytes
        BY <2>1 DEF Charged
    <2>. DEFINE k == CHOOSE j \in DOMAIN fresh : fresh[j] = fresh[i]
    <2>3. k \in DOMAIN fresh /\ fresh[k] = fresh[i]
        BY <2>1, Zenon
    <2>. HIDE DEF k
    <2>4. k = i
        BY <2>1, <2>3 DEF Sources
    <2>. QED BY <2>2, <2>4 DEF k
<1>4. ASSUME NEW i \in 1..Len(b)
      PROVE  charged[b[i].id] = b[i].bytes
    <2>1. b[i].id \in DOMAIN sizes /\ sizes[b[i].id] = b[i].bytes
        BY <1>2 DEF Charges, IdsOf
    <2>2. b[i].id \notin Range(fresh)
        BY <1>2 DEF Range, Sources, IdsOf
    <2>. QED BY <2>1, <2>2 DEF Charged
<1>5. ASSUME NEW j \in 1..Len(nb) PROVE charged[nb[j].id] = nb[j].bytes
    <2>1. CASE j \in (r + 1)..(r + d)
        BY <1>1, <1>3, <2>1
    <2>2. CASE j \notin (r + 1)..(r + d)
        BY <1>1, <1>4, <2>2
    <2>. QED BY <2>1, <2>2
<1>. QED BY <1>2, <1>5

(* The acknowledgement's new queue: what the server names, reduced         *)
(* exceptions under new identities, and the queue behind the batch.        *)
LEMMA TablesAcknowledged ==
    ASSUME IInv, Tables, NEW f \in Flushers,
           NEW retry \in Orders(Len(fl[f].done)), NEW reduce \in Orders(Len(fl[f].done)),
           NEW accepted \in 0..Len(fl[f].done), NEW late \in BOOLEAN,
           CompleteAcknowledged(f, retry, reduce, accepted, late)
    PROVE  Tables'
<1>. DEFINE batch == fl[f].done
            fresh == Allocated(Len(reduce))
            u == [i \in 1..Len(retry) |-> batch[retry[i]]]
            v == [i \in 1..Len(reduce) |->
                    [batch[reduce[i]] EXCEPT !.id = fresh[i], !.kind = "exception", !.skip = TRUE]]
            w == Trailing(f)
            sizes == [x \in DOMAIN buffer_sizes \cup Range(fresh) |->
                        IF x \in Range(fresh)
                        THEN v[CHOOSE j \in DOMAIN fresh : fresh[j] = x].bytes
                        ELSE buffer_sizes[x]]
            again == retry # <<>> \/ reduce # <<>>
            n == Len(batch)
            r == Len(retry)
            d == Len(reduce)
            l == Len(w)
<1>0. /\ TypeOK /\ BatchAtFront /\ buffer \in Seq(Event) /\ batch \in Seq(Event)
      /\ Charges(buffer, buffer_sizes)
    BY DEF IInv, InFront, TypeOK, FlushStates, Tables, Ledger
<1>1. /\ Settle(f, (u \o v) \o w, sizes, late, again)
      /\ hook_bypass' = (hook_bypass \cup Range(fresh)) \cap IdsOf(buffer')
      /\ UNCHANGED <<disposed, cap>>
      /\ Range(retry) \cap Range(reduce) = {} /\ Allocations(Len(reduce)) # {}
    BY DEF CompleteAcknowledged, life
<1>2. Claims(f)
    BY DEF CompleteAcknowledged, Completing, Claims
<1>3. /\ w \in Seq(Event) /\ n \in Nat /\ n + l <= Len(buffer)
      /\ \A j \in 1..l : w[j] = buffer[n + j]
    BY <1>0, <1>2, TrailingRest
<1>4. /\ r \in Nat /\ DOMAIN retry = 1..r /\ \A i \in 1..r : retry[i] \in 1..n
      /\ \A i, j \in 1..r : retry[i] = retry[j] => i = j
    BY <1>3, OrdersType
<1>5. /\ d \in Nat /\ DOMAIN reduce = 1..d /\ \A i \in 1..d : reduce[i] \in 1..n
      /\ \A i, j \in 1..d : reduce[i] = reduce[j] => i = j
    BY <1>3, OrdersType
<1>6. \A i \in 1..r, j \in 1..d : retry[i] # reduce[j]
    <2>. HIDE DEF r, d, n
    <2>1. ASSUME NEW i \in 1..r PROVE retry[i] \in Range(retry)
        BY <1>4 DEF Range
    <2>2. ASSUME NEW j \in 1..d PROVE reduce[j] \in Range(reduce)
        BY <1>5 DEF Range
    <2>. QED BY <1>1, <2>1, <2>2
<1>7. \A i \in 1..n : batch[i] = buffer[i] /\ batch[i] \in Event
    <2>1. Fronts(batch, fl[f].todo, buffer)
        BY <1>0, <1>2 DEF BatchAtFront, AtFront
    <2>. HIDE DEF batch
    <2>. QED BY <1>0, <2>1 DEF Fronts
<1>8. /\ DOMAIN fresh = 1..d
      /\ \A i, j \in 1..d : fresh[i] = fresh[j] => i = j
      /\ \A i \in 1..d : fresh[i] \in Ids /\ fresh[i] \notin Live
    <2>1. fresh \in Allocations(d)
        BY <1>1 DEF Allocated
    <2>2. fresh \in [1..d -> Ids \ Live] /\ IsInjective(fresh)
        BY <2>1, Zenon DEF Allocations, Injection
    <2>. HIDE DEF fresh, d
    <2>. QED BY <2>2 DEF IsInjective
<1>9. ASSUME NEW i \in 1..r
      PROVE  u[i] = buffer[retry[i]] /\ u[i] \in Event
    <2>1. u[i] = batch[retry[i]] /\ retry[i] \in 1..n
        BY <1>4
    <2>. HIDE DEF u, n, batch
    <2>. QED BY <1>7, <2>1
<1>10. ASSUME NEW i \in 1..d
       PROVE  /\ v[i].id = fresh[i] /\ v[i].bytes = buffer[reduce[i]].bytes
              /\ v[i].skip /\ v[i].kind = "exception" /\ v[i] \in Event
    <2>. DEFINE e == batch[reduce[i]]
                y == fresh[i]
    <2>1. v[i] = [e EXCEPT !.id = y, !.kind = "exception", !.skip = TRUE]
        OBVIOUS
    <2>2. e = buffer[reduce[i]] /\ e \in Event /\ y \in Ids
        <3>1. reduce[i] \in 1..n /\ fresh[i] \in Ids
            BY <1>5, <1>8
        <3>. HIDE DEF n, batch, fresh
        <3>. QED BY <1>7, <3>1
    <2>. HIDE DEF e, y, v
    <2>3. /\ [e EXCEPT !.id = y, !.kind = "exception", !.skip = TRUE] \in Event
          /\ [e EXCEPT !.id = y, !.kind = "exception", !.skip = TRUE].id = y
          /\ [e EXCEPT !.id = y, !.kind = "exception", !.skip = TRUE].bytes = e.bytes
          /\ [e EXCEPT !.id = y, !.kind = "exception", !.skip = TRUE].skip
          /\ [e EXCEPT !.id = y, !.kind = "exception", !.skip = TRUE].kind = "exception"
        BY <2>2 DEF Event, Kinds, HighKinds
    <2>. QED BY <2>1, <2>2, <2>3 DEF y
<1>11. /\ u \in Seq(Event) /\ Len(u) = r
       /\ v \in Seq(Event) /\ Len(v) = d
    <2>1. u \in [1..r -> Event] /\ v \in [1..d -> Event]
        <3>1. \A i \in 1..r : u[i] \in Event
            BY <1>9
        <3>2. \A i \in 1..d : v[i] \in Event
            BY <1>10
        <3>. QED BY <3>1, <3>2
    <2>. HIDE DEF u, v, r, d
    <2>. QED BY <1>4, <1>5, <2>1
<1>12. \A x \in Range(fresh) : x \notin IdsOf(buffer) /\ \A c \in Callers : x \notin IdsOf(cap[c].event)
    <2>. HIDE DEF fresh, d
    <2>1. ASSUME NEW x \in Range(fresh) PROVE x \notin Live
        BY <1>8 DEF Range
    <2>. QED BY <2>1, FreshIsApart
<1>. DEFINE nb == (u \o v) \o w
            p == [j \in 1..(r + d + l) |->
                    IF j <= r THEN retry[j] ELSE IF j <= r + d THEN reduce[j - r] ELSE n + (j - r - d)]
            N == (r + 1)..(r + d)
<1>13. Joined(nb, u, v, w, r, d, l)
    <2>1. l = Len(w) /\ l \in Nat
        BY <1>3
    <2>. HIDE DEF u, v, w, r, d, l, n
    <2>2. w \in Seq(Event)
        BY <1>3
    <2>3. Joined(nb, u, v, w, Len(u), Len(v), Len(w))
        BY <1>11, <2>2, ThreeParts
    <2>. HIDE DEF nb
    <2>. QED BY <1>11, <2>1, <2>3
<1>14. Positions(p, retry, reduce, r, d, l, n)
    <2>1. l \in Nat
        BY <1>3
    <2>. HIDE DEF r, d, l, n
    <2>. QED BY <1>3, <1>4, <1>5, <1>6, <2>1 DEF Positions
<1>15. Sources(u, v, w, buffer, retry, reduce, fresh, r, d, l, n)
    <2>1. \A i \in 1..d : fresh[i] \notin IdsOf(buffer)
        <3>. HIDE DEF fresh, d
        <3>. QED BY <1>8, FreshIsApart
    <2>2. \A i \in 1..d : v[i].id = fresh[i] /\ v[i].bytes = buffer[reduce[i]].bytes /\ v[i].skip /\ v[i].kind # "recovery"
        BY <1>10
    <2>3. \A i \in 1..r : u[i] = buffer[retry[i]]
        BY <1>9
    <2>. HIDE DEF u, v, w, fresh, r, d, l, n
    <2>. QED BY <1>0, <1>3, <1>8, <2>1, <2>2, <2>3 DEF Sources
<1>16. sizes = Charged(buffer_sizes, fresh, v)
    BY Zenon DEF Charged
<1>17. Settle(f, nb, sizes, late, again) /\ hook_bypass' = (hook_bypass \cup Range(fresh)) \cap IdsOf(nb)
    BY <1>1 DEF Settle
<1>. HIDE DEF u, v, w, r, d, l, n, nb, p, fresh, sizes, batch, again
<1>18. Remains(nb, buffer, p, N, Range(fresh))
    BY <1>13, <1>14, <1>15, JoinedRemains
<1>19. \A j \in DOMAIN nb : sizes[nb[j].id] = nb[j].bytes
    BY <1>0, <1>13, <1>14, <1>15, <1>16, JoinedCharges
<1>. DEFINE new == Range(fresh)
            later == late
<1>20. /\ Settle(f, nb, sizes, later, again) /\ hook_bypass' = (hook_bypass \cup new) \cap IdsOf(nb)
       /\ Remains(nb, buffer, p, N, new) /\ nb \in Seq(Event)
       /\ \A x \in new : \A c \in Callers : x \notin IdsOf(cap[c].event)
    BY <1>12, <1>13, <1>17, <1>18 DEF Joined
<1>. HIDE DEF N, new, later
<1>. QED BY <1>0, <1>1, <1>19, <1>20, TablesSettle

(* Every step of a flush keeps the tables: one case per action. *)
LEMMA TablesFlush ==
    ASSUME IInv, Tables, NEW f \in Flushers,
           TimerFires(f) \/ ExplicitFlush(f) \/ FlushStep(f)
    PROVE  Tables'
<1>. USE DEF queue, ownership, life
<1>0. TypeOK /\ BatchAtFront
    BY DEF IInv, InFront
<1>1. ASSUME UNCHANGED <<buffer, buffer_sizes, buffer_bytes, ownership, life, cap>> PROVE Tables'
    BY <1>1, TablesFrame
<1>2. CASE \/ TimerFires(f) \/ ExplicitFlush(f) \/ FlushIdle(f) \/ FlushBackoff(f)
           \/ FlushAbandon(f) \/ FlushAdmit(f) \/ FlushAggregateLost(f) \/ FlushPressureLost(f)
           \/ FlushEmpty(f) \/ FlushSnapshot(f) \/ FinalizeProtect(f) \/ SelectNothing(f)
    <2>1. UNCHANGED <<buffer, buffer_sizes, buffer_bytes, ownership, life, cap>>
        BY <1>2 DEF TimerFires, ExplicitFlush, FlushIdle, FlushBackoff, FlushAbandon, FlushAdmit,
                    FlushAggregateLost, FlushPressureLost, FlushEmpty, FlushSnapshot,
                    FinalizeProtect, SelectNothing
    <2>. QED BY <1>1, <2>1
<1>3. ASSUME NEW n \in 0..MaxAggregates, FlushReserve(f, n) PROVE Tables'
    BY <1>1, <1>3 DEF FlushReserve
<1>4. ASSUME NEW b \in Sizes, FlushAggregate(f, b) PROVE Tables'
    <2>0. UNCHANGED <<ownership, life, cap>>
        BY <1>4 DEF FlushAggregate
    <2>1. CASE Full(b)
        BY <1>1, <1>4, <2>0, <2>1 DEF FlushAggregate
    <2>2. CASE ~Full(b)
        <3>. DEFINE k == "aggregate"
        <3>1. Allocations(1) # {} /\ Admitted(Summary(f, k, b), FALSE) /\ k \in {"aggregate", "pressure"}
            BY <1>4, <2>2 DEF FlushAggregate
        <3>. HIDE DEF k
        <3>. QED BY <1>0, <2>0, <2>2, <3>1, TablesSummary
    <2>. QED BY <2>1, <2>2
<1>5. ASSUME NEW b \in Sizes, FlushPressure(f, b) PROVE Tables'
    <2>. DEFINE k == "pressure"
    <2>1. /\ Allocations(1) # {} /\ Admitted(Summary(f, k, b), FALSE) /\ ~Full(b)
          /\ k \in {"aggregate", "pressure"} /\ UNCHANGED <<ownership, life, cap>>
        BY <1>5 DEF FlushPressure
    <2>. HIDE DEF k
    <2>. QED BY <1>0, <2>1, TablesSummary
<1>6. CASE FinalizeWithhold(f)
    <2>. DEFINE i == Len(fl[f].done) + 1
                x == Head(fl[f].todo).id
    <2>1. Claims(f) /\ fl[f].todo # <<>>
        BY <1>6 DEF FinalizeWithhold, Finalizing, Claims
    <2>2. i \in 1..Len(buffer) /\ x = buffer[i].id
        BY <1>0, <2>1, NextEvent
    <2>3. /\ buffer' = RemoveAt(buffer, i) /\ buffer_sizes' = Without(buffer_sizes, x)
          /\ buffer_bytes' = buffer_bytes - buffer_sizes[x]
          /\ hook_bypass' = hook_bypass \ {x} /\ diagnostics' = diagnostics \ {x}
          /\ UNCHANGED <<disposed, cap>>
        BY <1>6 DEF FinalizeWithhold, Unmarked
    <2>. HIDE DEF i, x
    <2>. QED BY <1>0, <2>2, <2>3, TablesRemove
<1>7. ASSUME NEW k \in Kinds, NEW b \in Sizes, FinalizeReplace(f, k, b) PROVE Tables'
    BY <1>7, TablesReplace
<1>8. ASSUME NEW n \in 1..Len(fl[f].done), SelectBatch(f, n) PROVE Tables'
    BY <1>8, TablesSelect
<1>9. CASE Complete(f)
    BY <1>9, TablesComplete, TablesAcknowledged DEF Complete
<1>. QED BY <1>2, <1>3, <1>4, <1>5, <1>6, <1>7, <1>8, <1>9 DEF FlushStep

(* Empty tables describe an empty queue. *)
LEMMA TablesEmpty ==
    /\ Ledger(<<>>, <<>>, 0)
    /\ \A gone : Marks(<<>>, {}, {}, gone)
    /\ \A held : (\A c, d \in Callers : c # d => IdsOf(held[c].event) \cap IdsOf(held[d].event) = {})
                    => Separate(<<>>, held)
<1>1. IdsOf(<<>>) = {} /\ DOMAIN <<>> = {} /\ Len(<<>>) = 0
    BY DEF IdsOf
<1>2. SumFunction(<<>>) = 0
    BY <1>1, SumEmpty
<1>3. Ledger(<<>>, <<>>, 0)
    <2>1. <<>> \in [{} -> Nat]
        BY <1>1
    <2>2. 0 <= MaxEvents /\ 0 <= MaxBytes
        BY QueueAssumption
    <2>. QED BY <1>1, <1>2, <2>1, <2>2 DEF Ledger, Distinct, Charges
<1>4. \A gone : Marks(<<>>, {}, {}, gone)
    BY <1>1 DEF Marks
<1>. QED BY <1>1, <1>3, <1>4 DEF Separate

(* Time, discovery, init, dispose and fork keep the tables: init and fork  *)
(* empty them with the queue, dispose clears the marks and says so.        *)
LEMMA TablesLifecycle ==
    ASSUME Tables,
           Lifecycle \/ RetryWindowExpires \/ PressureWindowExpires \/ UNCHANGED vars
    PROVE  Tables'
<1>. USE DEF queue, ownership, life
<1>1. ASSUME UNCHANGED <<buffer, buffer_sizes, buffer_bytes, hook_bypass, diagnostics, disposed, cap>>
      PROVE Tables'
    BY <1>1, TablesFrame
<1>2. CASE Discover \/ RetryWindowExpires \/ PressureWindowExpires \/ UNCHANGED vars
    BY <1>1, <1>2 DEF Discover, RetryWindowExpires, PressureWindowExpires, vars
<1>3. ASSUME Emptied, cap' = cap \/ cap' = [c \in Callers |-> IdleCap] PROVE Tables'
    <2>1. \A c, d \in Callers : c # d => IdsOf(cap'[c].event) \cap IdsOf(cap'[d].event) = {}
        <3>1. CASE cap' = cap
            BY <3>1 DEF Tables, Separate
        <3>2. CASE cap' = [c \in Callers |-> IdleCap]
            BY <3>2 DEF IdleCap, IdsOf
        <3>. QED BY <1>3, <3>1, <3>2
    <2>2. /\ buffer' = <<>> /\ buffer_sizes' = <<>> /\ buffer_bytes' = 0
          /\ hook_bypass' = {} /\ diagnostics' = {}
        BY <1>3 DEF Emptied
    <2>. QED BY <2>1, <2>2, TablesEmpty DEF Tables
<1>4. ASSUME NEW on \in BOOLEAN, InitSdk(on) PROVE Tables'
    BY <1>3, <1>4 DEF InitSdk
<1>5. CASE EnsureCurrentProcess
    BY <1>3, <1>5 DEF EnsureCurrentProcess
<1>6. CASE Dispose
    <2>1. /\ UNCHANGED <<buffer, buffer_sizes, buffer_bytes, cap>>
          /\ hook_bypass' = {} /\ diagnostics' = {} /\ disposed' = TRUE
        BY <1>6 DEF Dispose
    <2>2. Marks(buffer, {}, {}, TRUE)
        BY DEF Marks, Marked
    <2>. QED BY <2>1, <2>2 DEF Tables
<1>. QED BY <1>2, <1>4, <1>5, <1>6 DEF Lifecycle

-----------------------------------------------------------------------------
(* The invariant with the tables, and what follows from it.                *)

Booked == IInv /\ Tables

(* The inductive step: one case per kind of step. *)
LEMMA BookedInductive == Booked /\ [Next]_vars => Booked'
<1>. SUFFICES ASSUME Booked, [Next]_vars PROVE Booked'
    OBVIOUS
<1>1. IInv'
    BY Inductive DEF Booked
<1>2. Tables'
    <2>1. ASSUME NEW c \in Callers, CaptureStep(c) PROVE Tables'
        BY <2>1, TablesCapture DEF Booked
    <2>2. ASSUME NEW f \in Flushers, TimerFires(f) \/ ExplicitFlush(f) \/ FlushStep(f) PROVE Tables'
        BY <2>2, TablesFlush DEF Booked
    <2>3. CASE Lifecycle \/ RetryWindowExpires \/ PressureWindowExpires \/ UNCHANGED vars
        BY <2>3, TablesLifecycle DEF Booked
    <2>. QED BY <2>1, <2>2, <2>3 DEF Next
<1>. QED BY <1>1, <1>2 DEF Booked

(* The queue and its tables agree in every reachable state. *)
LEMMA BookedInvariant == Spec => []Booked
<1>1. Init => Booked
    <2>. SUFFICES ASSUME Init PROVE Booked
        OBVIOUS
    <2>1. IInv
        BY TypeInit, ControlInit, FrontInit DEF IInv
    <2>2. /\ buffer = <<>> /\ buffer_sizes = <<>> /\ buffer_bytes = 0
          /\ hook_bypass = {} /\ diagnostics = {} /\ cap = [c \in Callers |-> IdleCap]
        BY DEF Init
    <2>3. \A c, d \in Callers : c # d => IdsOf(cap[c].event) \cap IdsOf(cap[d].event) = {}
        BY <2>2 DEF IdleCap, IdsOf
    <2>. QED BY <2>1, <2>2, <2>3, TablesEmpty DEF Booked, Tables
<1>. QED BY <1>1, BookedInductive, PTL DEF Spec

(* _buffer_sizes and _buffer_bytes agree with the queue after every        *)
(* admission, eviction, replacement and completion, whatever identities    *)
(* the interpreter reuses.                                                 *)
THEOREM ChargesAgree == Spec => []Accounting
<1>1. ASSUME Booked PROVE Accounting
    <2>1. Ledger(buffer, buffer_sizes, buffer_bytes) /\ buffer \in Seq(Event)
        BY <1>1 DEF Booked, IInv, Tables, TypeOK
    <2>2. Cardinality(IdsOf(buffer)) = Len(buffer)
        BY <2>1, FiniteIds DEF Ledger
    <2>3. DOMAIN buffer_sizes = IdsOf(buffer)
        BY <2>1 DEF Ledger, Charges
    <2>4. \A i \in DOMAIN buffer : buffer_sizes[buffer[i].id] = buffer[i].bytes
        BY <2>1 DEF Ledger, Charges
    <2>5. buffer_bytes = SumFunction(buffer_sizes)
        BY <2>1 DEF Ledger
    <2>. QED BY <2>2, <2>3, <2>4, <2>5 DEF Accounting
<1>. QED BY <1>1, BookedInvariant, PTL

(* The queue never passes MAX_PENDING_EVENTS or MAX_PENDING_BYTES, although *)
(* the completion puts events back without looking at either limit.        *)
THEOREM QueueBounded == Spec => []Bounded
<1>1. Booked => Bounded
    BY DEF Booked, Tables, Ledger, Bounded
<1>. QED BY <1>1, BookedInvariant, PTL

(* No table keyed by id() keeps the identity of an object that has left    *)
(* the queue.                                                              *)
THEOREM IdentitiesForgotten == Spec => []NoStaleIdentity
<1>1. Booked => NoStaleIdentity
    BY DEF Booked, Tables, Ledger, Charges, Marks, NoStaleIdentity
<1>. QED BY <1>1, BookedInvariant, PTL

(* No event inherits a bypass of before_send through a reused identity.    *)
THEOREM HooksNotSkipped == Spec => []HookSeen
<1>1. Booked => HookSeen
    BY DEF Booked, Tables, Marks, Marked, HookSeen
<1>. QED BY <1>1, BookedInvariant, PTL

(* An event that must not see before_send keeps its mark through           *)
(* evictions, finalization, split batches and partial acknowledgements.    *)
THEOREM MarksKept == Spec => []BypassKept
<1>1. Booked => BypassKept
    BY DEF Booked, Tables, Marks, Marked, BypassKept
<1>. QED BY <1>1, BookedInvariant, PTL

(* The diagnostic budget is owned by exactly the queued recoveries until   *)
(* dispose() clears it.                                                    *)
THEOREM BudgetNotLeaked == Spec => []BudgetOwned
<1>1. ASSUME Booked PROVE BudgetOwned
    <2>1. Marks(buffer, hook_bypass, diagnostics, disposed)
        BY <1>1 DEF Booked, Tables
    <2>2. ASSUME NEW x \in diagnostics PROVE x \in Recoveries(buffer)
        <3>1. PICK i \in DOMAIN buffer : x = buffer[i].id
            BY <2>1 DEF Marks, IdsOf
        <3>2. buffer[i].kind = "recovery"
            BY <2>1, <2>2, <3>1 DEF Marks, Marked
        <3>. QED BY <3>1, <3>2 DEF Recoveries
    <2>3. ASSUME ~disposed, NEW x \in Recoveries(buffer) PROVE x \in diagnostics
        BY <2>1, <2>3 DEF Marks, Marked, Recoveries
    <2>. QED BY <2>2, <2>3, Zenon DEF BudgetOwned, Recoveries
<1>. QED BY <1>1, BookedInvariant, PTL

-----------------------------------------------------------------------------
(* High-priority events outside the batch.                                 *)

(* One step keeps them queued. *)
Stays ==
    \A i \in DOMAIN buffer \ Batch : HighPriority(buffer[i]) => buffer[i].id \in IdsOf(buffer')

(* What a flush has claimed is in Batch. *)
LEMMA InBatch ==
    ASSUME TypeOK, NEW f \in Flushers, Claims(f), NEW i \in 1..Len(fl[f].done) + Len(fl[f].todo)
    PROVE  i \in Batch
BY Zenon DEF Batch, Claims

(* An event that is removed alone takes no other one's identity along. *)
LEMMA StaysRemove ==
    ASSUME Booked, NEW i \in 1..Len(buffer), buffer' = RemoveAt(buffer, i),
           i \in Batch \/ ~HighPriority(buffer[i])
    PROVE  Stays
<1>1. Ledger(buffer, buffer_sizes, buffer_bytes) /\ buffer \in Seq(Event)
    BY DEF Booked, IInv, Tables, TypeOK
<1>2. IdsOf(buffer') = IdsOf(buffer) \ {buffer[i].id}
    BY <1>1, LedgerRemove
<1>3. ASSUME NEW j \in DOMAIN buffer \ Batch, HighPriority(buffer[j])
      PROVE  buffer[j].id \in IdsOf(buffer')
    <2>1. j # i /\ i \in DOMAIN buffer
        BY <1>1, <1>3
    <2>2. buffer[j].id # buffer[i].id
        BY <1>1, <2>1 DEF Ledger, Distinct
    <2>. QED BY <1>2, <2>2 DEF IdsOf
<1>. QED BY <1>3 DEF Stays

(* An admission removes nothing. *)
LEMMA StaysAdmitted ==
    ASSUME TypeOK, NEW e \in Event, NEW pressed \in BOOLEAN, Admitted(e, pressed)
    PROVE  Stays
<1>1. PICK i : Inserted(buffer', buffer, i, e)
    BY AdmittedInserts
<1>2. Len(buffer) \in Nat /\ DOMAIN buffer = 1..Len(buffer) /\ DOMAIN buffer' = 1..(Len(buffer) + 1)
    BY <1>1 DEF Inserted, TypeOK
<1>3. ASSUME NEW j \in 1..Len(buffer) PROVE buffer[j].id \in IdsOf(buffer')
    <2>1. CASE j \in 1..(i - 1)
        BY <1>1, <1>2, <2>1 DEF Inserted, IdsOf
    <2>2. CASE j \in i..Len(buffer)
        BY <1>1, <1>2, <2>2 DEF Inserted, IdsOf
    <2>3. i \in 1..(Len(buffer) + 1)
        BY <1>1 DEF Inserted
    <2>. QED BY <1>2, <2>1, <2>2, <2>3
<1>. QED BY <1>2, <1>3 DEF Stays

(* The new queue of a completion ends with the queue behind the batch. *)
LEMMA StaysBehind ==
    ASSUME TypeOK, BatchAtFront, NEW f \in Flushers, Claims(f),
           NEW s \in Seq(Event), buffer' = s \o Trailing(f)
    PROVE  Stays
<1>. DEFINE w == Trailing(f)
            n == Len(fl[f].done)
<1>1. /\ w \in Seq(Event) /\ n \in Nat
      /\ \A j \in 1..Len(w) : w[j] = buffer[n + j]
      /\ \A i \in 1..Len(buffer) : i > n => i - n \in 1..Len(w)
    BY TrailingRest
<1>2. \A i \in 1..n : i \in Batch
    <2>1. Len(fl[f].todo) \in Nat /\ n \in Nat
        BY DEF TypeOK, FlushStates
    <2>. DEFINE m == Len(fl[f].todo)
    <2>2. \A i \in 1..n : i \in 1..n + m
        <3>1. m \in Nat /\ n \in Nat
            BY <2>1
        <3>. HIDE DEF m, n
        <3>. QED BY <3>1
    <2>. QED BY <2>2, InBatch
<1>. HIDE DEF w, n
<1>3. DOMAIN buffer = 1..Len(buffer) /\ Len(buffer) \in Nat /\ buffer' = s \o w
    BY DEF TypeOK, w
<1>4. ASSUME NEW j \in 1..Len(w) PROVE w[j].id \in IdsOf(s \o w)
    <2>1. /\ s \o w \in Seq(Event) /\ Len(s \o w) = Len(s) + Len(w) /\ Len(s) \in Nat /\ Len(w) \in Nat
          /\ \A k \in 1..(Len(s) + Len(w)) : (s \o w)[k] = IF k <= Len(s) THEN s[k] ELSE w[k - Len(s)]
        BY <1>1, ConcatProperties
    <2>. DEFINE c == s \o w
                m == Len(s)
    <2>2. c[m + j] = w[j] /\ m + j \in 1..Len(c) /\ DOMAIN c = 1..Len(c)
        <3>1. m + j \in 1..(m + Len(w)) /\ ~(m + j <= m) /\ m + j - m = j
            BY <2>1
        <3>. QED BY <2>1, <3>1
    <2>. HIDE DEF c, m
    <2>3. w[j].id \in IdsOf(c)
        BY <2>2 DEF IdsOf
    <2>. QED BY <2>3 DEF c
<1>5. ASSUME NEW i \in DOMAIN buffer \ Batch PROVE buffer[i].id \in IdsOf(buffer')
    <2>1. i > n /\ i \in 1..Len(buffer)
        BY <1>1, <1>2, <1>3
    <2>2. i - n \in 1..Len(w) /\ n + (i - n) = i
        BY <1>1, <2>1
    <2>3. w[i - n] = buffer[i]
        BY <1>1, <2>2
    <2>. QED BY <1>3, <1>4, <2>2, <2>3
<1>. QED BY <1>5 DEF Stays

(* An acknowledgement's new queue ends with the queue behind the batch. *)
LEMMA StaysAcknowledged ==
    ASSUME TypeOK, BatchAtFront, NEW f \in Flushers,
           NEW retry \in Orders(Len(fl[f].done)), NEW reduce \in Orders(Len(fl[f].done)),
           NEW accepted \in 0..Len(fl[f].done), NEW late \in BOOLEAN,
           CompleteAcknowledged(f, retry, reduce, accepted, late)
    PROVE  Stays
<1>. DEFINE batch == fl[f].done
            fresh == Allocated(Len(reduce))
            u == [i \in 1..Len(retry) |-> batch[retry[i]]]
            v == [i \in 1..Len(reduce) |->
                    [batch[reduce[i]] EXCEPT !.id = fresh[i], !.kind = "exception", !.skip = TRUE]]
<1>1. buffer' = (u \o v) \o Trailing(f)
    BY DEF CompleteAcknowledged, Settle
<1>2. Claims(f)
    BY DEF CompleteAcknowledged, Completing, Claims
<1>3. batch \in Seq(Event) /\ Len(batch) \in Nat
    BY DEF TypeOK, FlushStates
<1>4. u \in Seq(Event)
    <2>1. Len(retry) \in Nat /\ \A i \in 1..Len(retry) : batch[retry[i]] \in Event
        BY <1>3, OrdersType
    <2>. QED BY <2>1
<1>5. v \in Seq(Event)
    <2>1. Len(reduce) \in Nat /\ \A i \in 1..Len(reduce) : batch[reduce[i]] \in Event
        BY <1>3, OrdersType
    <2>2. \A i \in 1..Len(reduce) : fresh[i] \in Ids
        <3>1. fresh \in Allocations(Len(reduce))
            BY DEF CompleteAcknowledged, Allocated
        <3>2. fresh \in [1..Len(reduce) -> Ids \ Live]
            BY <3>1, Zenon DEF Allocations, Injection
        <3>. HIDE DEF fresh
        <3>. QED BY <3>2
    <2>. HIDE DEF fresh, batch
    <2>3. ASSUME NEW e \in Event, NEW y \in Ids
          PROVE  [e EXCEPT !.id = y, !.kind = "exception", !.skip = TRUE] \in Event
        BY DEF Event, Kinds, HighKinds
    <2>4. v \in [1..Len(reduce) -> Event]
        BY <2>1, <2>2, <2>3, Zenon
    <2>. HIDE DEF v
    <2>. QED BY <2>1, <2>4
<1>. DEFINE s == u \o v
<1>6. s \in Seq(Event) /\ buffer' = s \o Trailing(f)
    <2>1. buffer' = s \o Trailing(f)
        BY <1>1
    <2>. HIDE DEF u, v
    <2>. QED BY <1>4, <1>5, <2>1, ConcatProperties
<1>. HIDE DEF s
<1>. QED BY <1>2, <1>6, StaysBehind

(* Every step that is not an init or a fork keeps the high-priority events *)
(* outside the batch: one case per action that changes the queue.          *)
LEMMA StaysStep ==
    ASSUME Booked, Next, generation' = generation
    PROVE  Stays
<1>. USE DEF queue, ownership, life
<1>0. TypeOK /\ Held /\ BatchAtFront /\ buffer \in Seq(Event) /\ generation \in Nat
    BY DEF Booked, IInv, InFront, TypeOK
<1>1. ASSUME DOMAIN buffer' = DOMAIN buffer,
             \A i \in DOMAIN buffer \ Batch : buffer'[i].id = buffer[i].id
      PROVE  Stays
    BY <1>1 DEF Stays, IdsOf
<1>2. ASSUME buffer' = buffer PROVE Stays
    BY <1>1, <1>2
<1>3. ASSUME NEW c \in Callers, CaptureStep(c) PROVE Stays
    <2>1. CASE OfferEvict(c)
        <3>. DEFINE i == Min(Evictable)
        <3>1. i \in Evictable
            BY <1>0, <2>1, BehindBatch DEF OfferEvict
        <3>2. i \in 1..Len(buffer) /\ ~HighPriority(buffer[i])
            BY <1>0, <3>1 DEF Evictable
        <3>3. buffer' = RemoveAt(buffer, i)
            BY <2>1 DEF OfferEvict
        <3>. HIDE DEF i
        <3>. QED BY <3>2, <3>3, StaysRemove
    <2>2. CASE OfferAdmit(c)
        <3>. DEFINE o == cap[c].event[1]
                    fatal == o.kind = "fatal"
                    e == [o EXCEPT !.skip = fatal]
        <3>1. cap[c].pc = "offer" /\ Admitted(e, cap[c].pressed)
            BY <2>2 DEF OfferAdmit
        <3>2. o \in Event /\ cap[c].pressed \in BOOLEAN
            BY <1>0, <3>1, HeldEvent DEF TypeOK, CapStates
        <3>. HIDE DEF o
        <3>3. e \in Event
            BY <3>2 DEF Event
        <3>. HIDE DEF e
        <3>. QED BY <1>0, <3>1, <3>2, <3>3, StaysAdmitted
    <2>3. CASE ~OfferEvict(c) /\ ~OfferAdmit(c)
        <3>1. buffer' = buffer
            BY <1>3, <2>3 DEF CaptureStep, Prepare, Refuse, Contended, CountDrop, Decline,
                              OfferBegin, OfferReject, OfferOverBudget
        <3>. QED BY <1>2, <3>1
    <2>. QED BY <2>1, <2>2, <2>3
<1>4. ASSUME NEW f \in Flushers, NEW k \in {"aggregate", "pressure"}, NEW b \in Sizes,
             Allocations(1) # {}, Admitted(Summary(f, k, b), FALSE)
      PROVE  Stays
    <2>1. FreshId \in Ids /\ b \in Nat /\ k \in Kinds
        BY <1>4, FreshIdType, QueueAssumption DEF Kinds, LowKinds
    <2>2. Summary(f, k, b) \in Event
        BY <1>0, <1>4, <2>1, SummaryType
    <2>. DEFINE e == Summary(f, k, b)
                pressed == FALSE
    <2>3. e \in Event /\ Admitted(e, pressed) /\ pressed \in BOOLEAN
        BY <1>4, <2>2
    <2>. HIDE DEF e, pressed
    <2>. QED BY <1>0, <2>3, StaysAdmitted
<1>5. ASSUME NEW f \in Flushers, NEW b \in Sizes, FlushAggregate(f, b) \/ FlushPressure(f, b)
      PROVE  Stays
    <2>1. CASE buffer' = buffer
        BY <1>2, <2>1
    <2>2. CASE buffer' # buffer
        <3>1. \E k \in {"aggregate", "pressure"} :
                 Allocations(1) # {} /\ Admitted(Summary(f, k, b), FALSE)
            <4>1. CASE FlushAggregate(f, b)
                <5>1. Allocations(1) # {} /\ Admitted(Summary(f, "aggregate", b), FALSE)
                    BY <2>2, <4>1 DEF FlushAggregate
                <5>. QED BY <5>1
            <4>2. CASE FlushPressure(f, b)
                <5>1. Allocations(1) # {} /\ Admitted(Summary(f, "pressure", b), FALSE)
                    BY <4>2 DEF FlushPressure
                <5>. QED BY <5>1
            <4>. QED BY <1>5, <4>1, <4>2
        <3>. QED BY <1>4, <3>1
    <2>. QED BY <2>1, <2>2
<1>6. ASSUME NEW f \in Flushers, Claims(f), fl[f].todo # <<>>
      PROVE  Len(fl[f].done) + 1 \in 1..Len(buffer) /\ Len(fl[f].done) + 1 \in Batch
    <2>1. Len(fl[f].done) \in Nat /\ Len(fl[f].todo) \in Nat \ {0}
        BY <1>0, <1>6 DEF TypeOK, FlushStates
    <2>. DEFINE n == Len(fl[f].done)
                m == Len(fl[f].todo)
    <2>2. n + 1 \in 1..n + m
        <3>1. n \in Nat /\ m \in Nat \ {0}
            BY <2>1
        <3>. HIDE DEF n, m
        <3>. QED BY <3>1
    <2>3. Len(fl[f].done) + 1 \in 1..Len(buffer)
        BY <1>0, <1>6, NextEvent
    <2>. QED BY <1>0, <1>6, <2>2, <2>3, InBatch
<1>7. ASSUME NEW f \in Flushers, FinalizeWithhold(f) PROVE Stays
    <2>1. Claims(f) /\ fl[f].todo # <<>> /\ buffer' = RemoveAt(buffer, Len(fl[f].done) + 1)
        BY <1>7 DEF FinalizeWithhold, Finalizing, Claims
    <2>. DEFINE i == Len(fl[f].done) + 1
    <2>2. i \in 1..Len(buffer) /\ i \in Batch /\ buffer' = RemoveAt(buffer, i)
        BY <1>6, <2>1
    <2>. HIDE DEF i
    <2>. QED BY <2>2, StaysRemove
<1>8. ASSUME NEW f \in Flushers, NEW k \in Kinds, NEW b \in Sizes, FinalizeReplace(f, k, b)
      PROVE  Stays
    <2>. DEFINE i == Len(fl[f].done) + 1
    <2>1. Claims(f) /\ fl[f].todo # <<>> /\ \E r : buffer' = [buffer EXCEPT ![i] = r]
        BY <1>8 DEF FinalizeReplace, Finalizing, Claims
    <2>2. i \in Batch
        BY <1>6, <2>1
    <2>. HIDE DEF i
    <2>3. DOMAIN buffer' = DOMAIN buffer /\ \A j \in DOMAIN buffer : j # i => buffer'[j] = buffer[j]
        BY <1>0, <2>1
    <2>. QED BY <1>1, <2>2, <2>3
<1>9. ASSUME NEW f \in Flushers, NEW n \in 1..Len(fl[f].done), SelectBatch(f, n)
      PROVE  Stays
    <2>. DEFINE tail == (n + 1)..Len(fl[f].done)
    <2>1. buffer' = [i \in DOMAIN buffer |->
                       IF i \in tail THEN [buffer[i] EXCEPT !.skip = TRUE] ELSE buffer[i]]
        BY <1>9 DEF SelectBatch
    <2>. HIDE DEF tail
    <2>2. ASSUME NEW i \in DOMAIN buffer PROVE buffer'[i].id = buffer[i].id
        <3>1. buffer[i] \in Event
            BY <1>0
        <3>2. [buffer[i] EXCEPT !.skip = TRUE].id = buffer[i].id
            BY <3>1 DEF Event
        <3>. QED BY <2>1, <3>2
    <2>3. DOMAIN buffer' = DOMAIN buffer
        BY <2>1
    <2>. QED BY <1>1, <2>2, <2>3
<1>10. ASSUME NEW f \in Flushers, Complete(f) PROVE Stays
    <2>1. CASE CompleteFailed(f) \/ \E late \in BOOLEAN : CompleteRetryAfter(f, late)
        BY <1>2, <2>1 DEF CompleteFailed, CompleteRetryAfter, Settle
    <2>2. CASE CompleteRemoved(f)
        <3>1. Claims(f) /\ buffer' = Trailing(f)
            BY <2>2 DEF CompleteRemoved, Completing, Claims, Settle
        <3>2. Trailing(f) \in Seq(Event)
            BY <1>0, <3>1, TrailingRest
        <3>3. <<>> \in Seq(Event) /\ buffer' = <<>> \o Trailing(f)
            BY <3>1, <3>2, ConcatEmptySeq
        <3>. DEFINE s == <<>>
        <3>4. s \in Seq(Event) /\ buffer' = s \o Trailing(f)
            BY <3>3
        <3>. HIDE DEF s
        <3>. QED BY <1>0, <3>1, <3>4, StaysBehind
    <2>. QED BY <1>0, <1>10, <2>1, <2>2, StaysAcknowledged DEF Complete
<1>11. ASSUME NEW f \in Flushers, TimerFires(f) \/ ExplicitFlush(f) \/ FlushStep(f) PROVE Stays
    <2>1. CASE \/ TimerFires(f) \/ ExplicitFlush(f) \/ FlushIdle(f) \/ FlushBackoff(f)
               \/ FlushAbandon(f) \/ FlushAdmit(f) \/ FlushAggregateLost(f) \/ FlushPressureLost(f)
               \/ FlushEmpty(f) \/ FlushSnapshot(f) \/ FinalizeProtect(f) \/ SelectNothing(f)
               \/ \E n \in 0..MaxAggregates : FlushReserve(f, n)
        <3>1. buffer' = buffer
            BY <2>1 DEF TimerFires, ExplicitFlush, FlushIdle, FlushBackoff, FlushAbandon, FlushAdmit,
                        FlushAggregateLost, FlushPressureLost, FlushEmpty, FlushSnapshot,
                        FinalizeProtect, SelectNothing, FlushReserve
        <3>. QED BY <1>2, <3>1
    <2>. QED BY <1>5, <1>7, <1>8, <1>9, <1>10, <1>11, <2>1 DEF FlushStep
<1>12. CASE RetryWindowExpires \/ PressureWindowExpires \/ Lifecycle
    <2>1. generation + 1 # generation
        BY <1>0
    <2>2. buffer' = buffer
        BY <1>12, <2>1 DEF RetryWindowExpires, PressureWindowExpires, Lifecycle, InitSdk, Emptied,
                           Dispose, EnsureCurrentProcess, Discover
    <2>. QED BY <1>2, <2>2
<1>. QED BY <1>3, <1>11, <1>12 DEF Next

(* A high-priority event outside the batch only leaves with the whole      *)
(* queue: evict_low_priority displaces low-priority events, and every      *)
(* completion keeps _buffer[len(batch):].                                  *)
THEOREM HighPriorityKept == Spec => HighKept
<1>1. Booked /\ [Next]_vars =>
        [generation' = generation =>
           \A i \in DOMAIN buffer \ Batch :
              HighPriority(buffer[i]) => buffer[i].id \in IdsOf(buffer')]_vars
    BY StaysStep DEF Stays
<1>. QED BY <1>1, BookedInvariant, PTL DEF Spec, HighKept

-----------------------------------------------------------------------------
(* Probes and summaries belong to the generation that queued them.         *)

Summaries == {"probe", "aggregate", "pressure"}

Own(e) == e.kind \in Summaries => e.gen = generation

(* A thread between two steps of an admission or of a flush's offers has   *)
(* the lock: no init() comes between the check of a probe's generation and *)
(* its admission.                                                          *)
Locked ==
    /\ \A c \in Callers : cap[c].pc = "offer" => lock = c /\ Own(cap[c].event[1])
    /\ \A c \in Callers : cap[c].pc = "ready" => cap[c].event[1].kind \in CaptureKinds
    /\ \A f \in Flushers : fl[f].pc = "admit" => lock = f /\ fl[f].gen = generation

(* Events come from the queue or are this generation's own. *)
OwnFrom(nb) ==
    \A j \in DOMAIN nb :
        \/ Own(nb[j])
        \/ \E i \in DOMAIN buffer : nb[j].kind = buffer[i].kind /\ nb[j].gen = buffer[i].gen

(* A queue of own events and events that were queued before. *)
LEMMA OwnKept ==
    ASSUME OwnGeneration, generation' = generation, OwnFrom(buffer')
    PROVE  OwnGeneration'
BY DEF OwnGeneration, OwnFrom, Own, Summaries

(* An admission of an event of this generation. *)
LEMMA OwnAdmitted ==
    ASSUME TypeOK, NEW e \in Event, NEW pressed \in BOOLEAN, Admitted(e, pressed), Own(e)
    PROVE  OwnFrom(buffer')
<1>1. PICK i : Inserted(buffer', buffer, i, e)
    BY AdmittedInserts
<1>2. Len(buffer) \in Nat /\ DOMAIN buffer = 1..Len(buffer) /\ DOMAIN buffer' = 1..(Len(buffer) + 1)
      /\ i \in 1..(Len(buffer) + 1)
    BY <1>1 DEF Inserted, TypeOK
<1>3. ASSUME NEW j \in DOMAIN buffer'
      PROVE  Own(buffer'[j]) \/ \E k \in DOMAIN buffer : buffer'[j] = buffer[k]
    <2>1. CASE j < i
        <3>1. j \in 1..(i - 1) /\ j \in DOMAIN buffer
            BY <1>2, <2>1
        <3>. QED BY <1>1, <3>1 DEF Inserted
    <2>2. CASE j = i
        BY <1>1, <2>2 DEF Inserted
    <2>3. CASE j > i
        <3>1. j - 1 \in i..Len(buffer) /\ j - 1 \in DOMAIN buffer /\ j - 1 + 1 = j
            BY <1>2, <2>3
        <3>. QED BY <1>1, <3>1 DEF Inserted
    <2>. QED BY <1>2, <2>1, <2>2, <2>3
<1>. QED BY <1>3 DEF OwnFrom

(* A removal. *)
LEMMA OwnRemoved ==
    ASSUME TypeOK, NEW i \in 1..Len(buffer), buffer' = RemoveAt(buffer, i)
    PROVE  OwnFrom(buffer')
<1>0. buffer \in Seq(Event) /\ Len(buffer) \in Nat /\ DOMAIN buffer = 1..Len(buffer)
    BY DEF TypeOK
<1>1. /\ RemoveAt(buffer, i) \in Seq(Event)
      /\ Len(RemoveAt(buffer, i)) = Len(buffer) - 1
      /\ \A j \in 1..(i - 1) : RemoveAt(buffer, i)[j] = buffer[j]
      /\ \A j \in i..(Len(buffer) - 1) : RemoveAt(buffer, i)[j] = buffer[j + 1]
    BY <1>0, RemoveAtSeq
<1>2. ASSUME NEW j \in DOMAIN buffer' PROVE \E k \in DOMAIN buffer : buffer'[j] = buffer[k]
    <2>1. j \in 1..(Len(buffer) - 1)
        BY <1>0, <1>1
    <2>2. CASE j < i
        <3>1. j \in 1..(i - 1) /\ j \in DOMAIN buffer
            BY <1>0, <2>1, <2>2
        <3>. QED BY <1>1, <3>1
    <2>3. CASE ~(j < i)
        <3>1. j \in i..(Len(buffer) - 1) /\ j + 1 \in DOMAIN buffer
            BY <1>0, <2>1, <2>3
        <3>. QED BY <1>1, <3>1
    <2>. QED BY <2>2, <2>3
<1>. QED BY <1>2 DEF OwnFrom

(* The queue behind the batch, and events of kinds no one owns before it. *)
LEMMA OwnBehind ==
    ASSUME TypeOK, BatchAtFront, NEW f \in Flushers, Claims(f), NEW s \in Seq(Event), OwnFrom(s),
           buffer' = s \o Trailing(f)
    PROVE  OwnFrom(buffer')
<1>. DEFINE w == Trailing(f)
            n == Len(fl[f].done)
<1>1. /\ w \in Seq(Event) /\ n \in Nat /\ n + Len(w) <= Len(buffer)
      /\ \A j \in 1..Len(w) : w[j] = buffer[n + j]
    BY TrailingRest
<1>. HIDE DEF w, n
<1>2. DOMAIN buffer = 1..Len(buffer) /\ Len(buffer) \in Nat /\ buffer' = s \o w
      /\ Len(s) \in Nat /\ Len(w) \in Nat /\ DOMAIN s = 1..Len(s)
    BY <1>1 DEF TypeOK, w
<1>3. /\ s \o w \in Seq(Event) /\ Len(s \o w) = Len(s) + Len(w)
      /\ \A k \in 1..(Len(s) + Len(w)) : (s \o w)[k] = IF k <= Len(s) THEN s[k] ELSE w[k - Len(s)]
    BY <1>1, ConcatProperties
<1>4. ASSUME NEW k \in DOMAIN (s \o w)
      PROVE  \/ Own((s \o w)[k])
             \/ \E i \in DOMAIN buffer : (s \o w)[k].kind = buffer[i].kind
                                         /\ (s \o w)[k].gen = buffer[i].gen
    <2>. DEFINE x == s \o w
    <2>1. k \in 1..(Len(s) + Len(w)) /\ x[k] = IF k <= Len(s) THEN s[k] ELSE w[k - Len(s)]
        BY <1>3
    <2>. HIDE DEF x
    <2>2. CASE k <= Len(s)
        <3>1. k \in DOMAIN s /\ x[k] = s[k]
            BY <1>2, <2>1, <2>2
        <3>. QED BY <3>1 DEF OwnFrom, x
    <2>3. CASE ~(k <= Len(s))
        <3>1. k - Len(s) \in 1..Len(w) /\ x[k] = w[k - Len(s)]
            BY <1>2, <2>1, <2>3
        <3>2. n + (k - Len(s)) \in DOMAIN buffer /\ x[k] = buffer[n + (k - Len(s))]
            BY <1>1, <1>2, <3>1
        <3>. QED BY <3>2 DEF x
    <2>. QED BY <2>2, <2>3
<1>. QED BY <1>2, <1>4 DEF OwnFrom

(* An acknowledgement sends events of the batch again: as they are, or as  *)
(* exceptions.                                                             *)
LEMMA OwnAcknowledged ==
    ASSUME TypeOK, BatchAtFront, NEW f \in Flushers,
           NEW retry \in Orders(Len(fl[f].done)), NEW reduce \in Orders(Len(fl[f].done)),
           NEW accepted \in 0..Len(fl[f].done), NEW late \in BOOLEAN,
           CompleteAcknowledged(f, retry, reduce, accepted, late)
    PROVE  OwnFrom(buffer')
<1>. DEFINE batch == fl[f].done
            fresh == Allocated(Len(reduce))
            u == [i \in 1..Len(retry) |-> batch[retry[i]]]
            v == [i \in 1..Len(reduce) |->
                    [batch[reduce[i]] EXCEPT !.id = fresh[i], !.kind = "exception", !.skip = TRUE]]
<1>1. buffer' = (u \o v) \o Trailing(f)
    BY DEF CompleteAcknowledged, Settle
<1>2. Claims(f)
    BY DEF CompleteAcknowledged, Completing, Claims
<1>3. /\ batch \in Seq(Event) /\ Len(batch) \in Nat
      /\ \A i \in 1..Len(batch) : i \in DOMAIN buffer /\ batch[i] = buffer[i]
    <2>1. batch \in Seq(Event) /\ Len(batch) \in Nat /\ fl[f].todo \in Seq(Event)
          /\ buffer \in Seq(Event)
        BY DEF TypeOK, FlushStates
    <2>2. Fronts(batch, fl[f].todo, buffer)
        BY <1>2 DEF BatchAtFront, AtFront
    <2>. DEFINE t == fl[f].todo
    <2>3. Len(t) \in Nat /\ Len(buffer) \in Nat /\ DOMAIN buffer = 1..Len(buffer)
        BY <2>1
    <2>. HIDE DEF batch, t
    <2>. QED BY <2>1, <2>2, <2>3 DEF Fronts, t
<1>4. u \in Seq(Event) /\ OwnFrom(u)
    <2>1. Len(retry) \in Nat /\ \A i \in 1..Len(retry) : retry[i] \in 1..Len(batch)
        BY <1>3, OrdersType
    <2>2. \A i \in 1..Len(retry) : batch[retry[i]] \in Event /\ batch[retry[i]] = buffer[retry[i]]
                                   /\ retry[i] \in DOMAIN buffer
        BY <1>3, <2>1
    <2>. HIDE DEF batch
    <2>3. u \in Seq(Event)
        BY <2>1, <2>2
    <2>. QED BY <2>2, <2>3 DEF OwnFrom
<1>5. v \in Seq(Event) /\ OwnFrom(v)
    <2>1. Len(reduce) \in Nat /\ \A i \in 1..Len(reduce) : batch[reduce[i]] \in Event
        BY <1>3, OrdersType
    <2>2. \A i \in 1..Len(reduce) : fresh[i] \in Ids
        <3>1. fresh \in Allocations(Len(reduce))
            BY DEF CompleteAcknowledged, Allocated
        <3>2. fresh \in [1..Len(reduce) -> Ids \ Live]
            BY <3>1, Zenon DEF Allocations, Injection
        <3>. HIDE DEF fresh
        <3>. QED BY <3>2
    <2>. HIDE DEF fresh, batch
    <2>3. ASSUME NEW e \in Event, NEW y \in Ids
          PROVE  /\ [e EXCEPT !.id = y, !.kind = "exception", !.skip = TRUE] \in Event
                 /\ [e EXCEPT !.id = y, !.kind = "exception", !.skip = TRUE].kind = "exception"
        BY DEF Event, Kinds, HighKinds
    <2>4. v \in [1..Len(reduce) -> Event] /\ \A i \in 1..Len(reduce) : v[i].kind = "exception"
        BY <2>1, <2>2, <2>3, Zenon
    <2>. HIDE DEF v
    <2>. QED BY <2>1, <2>4 DEF OwnFrom, Own, Summaries
<1>. DEFINE s == u \o v
<1>6. s \in Seq(Event) /\ OwnFrom(s) /\ buffer' = s \o Trailing(f)
    <2>1. buffer' = s \o Trailing(f)
        BY <1>1
    <2>. HIDE DEF u, v
    <2>2. /\ s \in Seq(Event) /\ Len(s) = Len(u) + Len(v)
          /\ \A k \in 1..(Len(u) + Len(v)) : s[k] = IF k <= Len(u) THEN u[k] ELSE v[k - Len(u)]
        BY <1>4, <1>5, ConcatProperties
    <2>. HIDE DEF s
    <2>3. ASSUME NEW k \in DOMAIN s
          PROVE  (k \in DOMAIN u /\ s[k] = u[k]) \/ (\E m \in DOMAIN v : s[k] = v[m])
        <3>1. k \in 1..(Len(u) + Len(v)) /\ Len(u) \in Nat /\ Len(v) \in Nat
              /\ DOMAIN u = 1..Len(u) /\ DOMAIN v = 1..Len(v)
            BY <1>4, <1>5, <2>2
        <3>2. CASE k <= Len(u)
            BY <2>2, <3>1, <3>2
        <3>3. CASE ~(k <= Len(u))
            <4>1. k - Len(u) \in DOMAIN v /\ s[k] = v[k - Len(u)]
                BY <2>2, <3>1, <3>3
            <4>. QED BY <4>1
        <3>. QED BY <3>2, <3>3
    <2>4. OwnFrom(s)
        BY <1>4, <1>5, <2>3 DEF OwnFrom
    <2>. QED BY <2>1, <2>2, <2>4
<1>. HIDE DEF s
<1>. QED BY <1>2, <1>6, OwnBehind

(* Hooks turn no other event into a probe or a summary.                    *)
PlainHooks == HookKinds \cap Summaries = {}

(* A replacement is of a kind hooks give, or of its event's own kind. *)
LEMMA OwnReplaced ==
    ASSUME PlainHooks, TypeOK, BatchAtFront, NEW f \in Flushers, NEW k \in Kinds, NEW b \in Sizes,
           FinalizeReplace(f, k, b)
    PROVE  OwnFrom(buffer')
<1>. DEFINE e == Head(fl[f].todo)
            i == Len(fl[f].done) + 1
            r == [e EXCEPT !.id = FreshId, !.kind = k, !.bytes = b]
<1>0. buffer \in Seq(Event)
    BY DEF TypeOK
<1>1. i \in DOMAIN buffer /\ buffer[i] = e
    BY <1>0, NextEvent DEF FinalizeReplace, Finalizing, Claims
<1>2. <<k, b>> \in Replacements(e, fl[f].proof) /\ buffer' = [buffer EXCEPT ![i] = r]
    BY DEF FinalizeReplace
<1>. HIDE DEF e, i
<1>3. e \in Event
    BY <1>0, <1>1
<1>4. r.kind = k /\ r.gen = e.gen
    BY <1>3 DEF Event
<1>5. \A x, proof : Protected(x, proof) \cap Summaries \subseteq {x}
    BY DEF Protected, Summaries
<1>6. k \in Summaries => k = e.kind
    <2>1. \/ k \in Protected(e.kind, fl[f].proof)
          \/ \E x \in HookKinds \cup {e.kind} : k \in Protected(x, fl[f].proof)
        BY <1>2, Zenon DEF Replacements
    <2>. QED BY <1>5, <2>1 DEF PlainHooks
<1>. HIDE DEF r
<1>7. ASSUME NEW j \in DOMAIN buffer'
      PROVE  \/ Own(buffer'[j])
             \/ \E m \in DOMAIN buffer : buffer'[j].kind = buffer[m].kind
                                          /\ buffer'[j].gen = buffer[m].gen
    <2>1. j \in DOMAIN buffer
        BY <1>0, <1>2
    <2>2. CASE j = i
        <3>1. buffer'[j] = r
            BY <1>0, <1>2, <2>1, <2>2
        <3>. QED BY <1>1, <1>4, <1>6, <3>1 DEF Own
    <2>3. CASE j # i
        <3>1. buffer'[j] = buffer[j]
            BY <1>0, <1>2, <2>1, <2>3
        <3>. QED BY <2>1, <3>1
    <2>. QED BY <2>2, <2>3
<1>. QED BY <1>7 DEF OwnFrom

(* What a completion leaves was queued before, or is a reduced exception. *)
LEMMA OwnCompleted ==
    ASSUME TypeOK, BatchAtFront, NEW f \in Flushers, Complete(f)
    PROVE  OwnFrom(buffer')
<1>1. CASE CompleteFailed(f) \/ \E late \in BOOLEAN : CompleteRetryAfter(f, late)
    <2>1. buffer' = buffer
        BY <1>1 DEF CompleteFailed, CompleteRetryAfter, Settle
    <2>. QED BY <2>1 DEF OwnFrom
<1>2. CASE CompleteRemoved(f)
    <2>1. Claims(f) /\ buffer' = Trailing(f)
        BY <1>2 DEF CompleteRemoved, Completing, Claims, Settle
    <2>2. Trailing(f) \in Seq(Event)
        BY <2>1, TrailingRest
    <2>. DEFINE s == <<>>
    <2>3. s \in Seq(Event) /\ OwnFrom(s) /\ buffer' = s \o Trailing(f)
        BY <2>1, <2>2, ConcatEmptySeq DEF OwnFrom
    <2>. HIDE DEF s
    <2>. QED BY <2>1, <2>3, OwnBehind
<1>. QED BY <1>1, <1>2, OwnAcknowledged DEF Complete

(* Every step that stays in the generation queues own events only: one     *)
(* case per action that changes the queue.                                 *)
LEMMA OwnStep ==
    ASSUME PlainHooks, Booked, Locked, Next, generation' = generation
    PROVE  OwnFrom(buffer')
<1>. USE DEF queue, ownership, life
<1>0. TypeOK /\ Held /\ BatchAtFront /\ buffer \in Seq(Event) /\ generation \in Nat
    BY DEF Booked, IInv, InFront, TypeOK
<1>1. ASSUME buffer' = buffer PROVE OwnFrom(buffer')
    BY <1>1 DEF OwnFrom
<1>2. ASSUME NEW c \in Callers, CaptureStep(c) PROVE OwnFrom(buffer')
    <2>1. CASE OfferEvict(c)
        <3>. DEFINE i == Min(Evictable)
        <3>1. i \in Evictable
            BY <1>0, <2>1, BehindBatch DEF OfferEvict
        <3>2. i \in 1..Len(buffer) /\ buffer' = RemoveAt(buffer, i)
            BY <1>0, <2>1, <3>1 DEF Evictable, OfferEvict
        <3>. HIDE DEF i
        <3>. QED BY <1>0, <3>2, OwnRemoved
    <2>2. CASE OfferAdmit(c)
        <3>. DEFINE o == cap[c].event[1]
                    fatal == o.kind = "fatal"
                    e == [o EXCEPT !.skip = fatal]
        <3>1. cap[c].pc = "offer" /\ Admitted(e, cap[c].pressed)
            BY <2>2 DEF OfferAdmit
        <3>2. o \in Event /\ cap[c].pressed \in BOOLEAN /\ Own(o)
            BY <1>0, <3>1, HeldEvent DEF TypeOK, CapStates, Locked
        <3>. HIDE DEF o
        <3>3. e \in Event /\ Own(e)
            BY <3>2 DEF Event, Own
        <3>. HIDE DEF e
        <3>. QED BY <1>0, <3>1, <3>2, <3>3, OwnAdmitted
    <2>3. CASE ~OfferEvict(c) /\ ~OfferAdmit(c)
        <3>1. buffer' = buffer
            BY <1>2, <2>3 DEF CaptureStep, Prepare, Refuse, Contended, CountDrop, Decline,
                              OfferBegin, OfferReject, OfferOverBudget
        <3>. QED BY <1>1, <3>1
    <2>. QED BY <2>1, <2>2, <2>3
<1>3. ASSUME NEW f \in Flushers, NEW k \in {"aggregate", "pressure"}, NEW b \in Sizes,
             Allocations(1) # {}, fl[f].gen = generation, Admitted(Summary(f, k, b), FALSE)
      PROVE  OwnFrom(buffer')
    <2>1. FreshId \in Ids /\ b \in Nat /\ k \in Kinds
        BY <1>3, FreshIdType, QueueAssumption DEF Kinds, LowKinds
    <2>. DEFINE e == Summary(f, k, b)
                pressed == FALSE
    <2>2. e \in Event /\ Admitted(e, pressed) /\ pressed \in BOOLEAN /\ Own(e)
        <3>1. e \in Event /\ e.gen = fl[f].gen
            BY <1>0, <2>1, SummaryType
        <3>. QED BY <1>3, <3>1 DEF Own
    <2>. HIDE DEF e, pressed
    <2>. QED BY <1>0, <2>2, OwnAdmitted
<1>4. ASSUME NEW f \in Flushers, NEW b \in Sizes, FlushAggregate(f, b) \/ FlushPressure(f, b)
      PROVE  OwnFrom(buffer')
    <2>1. CASE buffer' = buffer
        BY <1>1, <2>1
    <2>2. CASE buffer' # buffer
        <3>1. \E k \in {"aggregate", "pressure"} :
                 Allocations(1) # {} /\ Admitted(Summary(f, k, b), FALSE)
            <4>1. CASE FlushAggregate(f, b)
                <5>1. Allocations(1) # {} /\ Admitted(Summary(f, "aggregate", b), FALSE)
                    BY <2>2, <4>1 DEF FlushAggregate
                <5>. QED BY <5>1
            <4>2. CASE FlushPressure(f, b)
                <5>1. Allocations(1) # {} /\ Admitted(Summary(f, "pressure", b), FALSE)
                    BY <4>2 DEF FlushPressure
                <5>. QED BY <5>1
            <4>. QED BY <1>4, <4>1, <4>2
        <3>2. fl[f].gen = generation
            BY <1>0, <1>4 DEF FlushAggregate, FlushPressure, Locked
        <3>. QED BY <1>3, <3>1, <3>2
    <2>. QED BY <2>1, <2>2
<1>5. ASSUME NEW f \in Flushers, FinalizeWithhold(f) PROVE OwnFrom(buffer')
    <2>1. Claims(f) /\ fl[f].todo # <<>> /\ buffer' = RemoveAt(buffer, Len(fl[f].done) + 1)
        BY <1>5 DEF FinalizeWithhold, Finalizing, Claims
    <2>. DEFINE i == Len(fl[f].done) + 1
    <2>2. i \in 1..Len(buffer) /\ buffer' = RemoveAt(buffer, i)
        BY <1>0, <2>1, NextEvent
    <2>. HIDE DEF i
    <2>. QED BY <1>0, <2>2, OwnRemoved
<1>6. ASSUME NEW f \in Flushers, NEW n \in 1..Len(fl[f].done), SelectBatch(f, n)
      PROVE  OwnFrom(buffer')
    <2>. DEFINE tail == (n + 1)..Len(fl[f].done)
    <2>1. buffer' = [i \in DOMAIN buffer |->
                       IF i \in tail THEN [buffer[i] EXCEPT !.skip = TRUE] ELSE buffer[i]]
        BY <1>6 DEF SelectBatch
    <2>. HIDE DEF tail
    <2>2. ASSUME NEW i \in DOMAIN buffer
          PROVE  buffer'[i].kind = buffer[i].kind /\ buffer'[i].gen = buffer[i].gen
        <3>1. buffer[i] \in Event
            BY <1>0
        <3>2. /\ [buffer[i] EXCEPT !.skip = TRUE].kind = buffer[i].kind
              /\ [buffer[i] EXCEPT !.skip = TRUE].gen = buffer[i].gen
            BY <3>1 DEF Event
        <3>. QED BY <2>1, <3>2
    <2>3. DOMAIN buffer' = DOMAIN buffer
        BY <2>1
    <2>. QED BY <2>2, <2>3 DEF OwnFrom
<1>7. ASSUME NEW f \in Flushers, TimerFires(f) \/ ExplicitFlush(f) \/ FlushStep(f)
      PROVE  OwnFrom(buffer')
    <2>1. CASE \/ TimerFires(f) \/ ExplicitFlush(f) \/ FlushIdle(f) \/ FlushBackoff(f)
               \/ FlushAbandon(f) \/ FlushAdmit(f) \/ FlushAggregateLost(f) \/ FlushPressureLost(f)
               \/ FlushEmpty(f) \/ FlushSnapshot(f) \/ FinalizeProtect(f) \/ SelectNothing(f)
               \/ \E n \in 0..MaxAggregates : FlushReserve(f, n)
        <3>1. buffer' = buffer
            BY <2>1 DEF TimerFires, ExplicitFlush, FlushIdle, FlushBackoff, FlushAbandon, FlushAdmit,
                        FlushAggregateLost, FlushPressureLost, FlushEmpty, FlushSnapshot,
                        FinalizeProtect, SelectNothing, FlushReserve
        <3>. QED BY <1>1, <3>1
    <2>2. CASE Complete(f)
        BY <1>0, <2>2, OwnCompleted
    <2>. QED BY <1>0, <1>4, <1>5, <1>6, <1>7, <2>1, <2>2, OwnReplaced DEF FlushStep
<1>8. CASE RetryWindowExpires \/ PressureWindowExpires \/ Lifecycle
    <2>1. generation + 1 # generation
        BY <1>0
    <2>2. buffer' = buffer
        BY <1>8, <2>1 DEF RetryWindowExpires, PressureWindowExpires, Lifecycle, InitSdk, Emptied,
                           Dispose, EnsureCurrentProcess, Discover
    <2>. QED BY <1>1, <2>2
<1>. QED BY <1>2, <1>7, <1>8 DEF Next

(* The lock is held through an admission and through a flush's offers, and *)
(* a probe is offered in its own generation.                               *)
LEMMA LockedStep ==
    ASSUME TypeOK, Held, Locked, [Next]_vars
    PROVE  Locked'
<1>. USE DEF queue, pressure, ownership, sender, health, life
<1>0. /\ cap \in [Callers -> CapStates] /\ fl \in [Flushers -> FlushStates]
      /\ Callers \cap Flushers = {} /\ "free" \notin Callers \cup Flushers
    BY ThreadsAssumption DEF TypeOK
<1>1. ASSUME NEW c \in Callers, CaptureStep(c) PROVE Locked'
    <2>1. fl' = fl /\ generation' = generation /\ \A d \in Callers : d # c => cap'[d] = cap[d]
        BY <1>0, <1>1 DEF CaptureStep, Prepare, Refuse, Contended, CountDrop, Decline, OfferBegin,
                    OfferEvict, OfferReject, OfferAdmit, OfferOverBudget
    <2>2. ASSUME NEW k \in CaptureKinds, NEW b \in Sizes, Prepare(c, k, b) PROVE Locked'
        <3>1. cap'[c].pc = "ready" /\ cap'[c].event[1].kind = k /\ lock' = lock
            BY <1>0, <2>2 DEF Prepare, Object, CapStates
        <3>. QED BY <2>1, <3>1, Zenon DEF Locked, Own
    <2>3. CASE OfferBegin(c)
        <3>1. /\ lock = "free" /\ lock' = c /\ cap[c].pc = "ready"
              /\ cap'[c].pc = "offer" /\ cap'[c].event = cap[c].event
              /\ ~MustDecline(cap[c].event[1])
            BY <1>0, <2>3 DEF OfferBegin, CapStates
        <3>2. Own(cap[c].event[1])
            <4>1. cap[c].event[1].kind \in CaptureKinds
                BY <3>1 DEF Locked
            <4>2. cap[c].event[1].kind \notin {"aggregate", "pressure"}
                BY <4>1, QueueAssumption
            <4>. QED BY <3>1, <4>2 DEF MustDecline, Own, Summaries
        <3>3. \A d \in Callers : cap[d].pc # "offer"
            BY <1>0, <3>1 DEF Locked
        <3>4. \A f \in Flushers : fl[f].pc # "admit"
            BY <1>0, <3>1 DEF Locked
        <3>. QED BY <2>1, <3>1, <3>2, <3>3, <3>4 DEF Locked, Own
    <2>4. CASE OfferEvict(c)
        BY <2>1, <2>4 DEF OfferEvict, Locked, Own
    <2>5. CASE OfferReject(c) \/ OfferAdmit(c) \/ OfferOverBudget(c)
        <3>1. cap[c].pc = "offer" /\ lock' = "free" /\ cap'[c] = IdleCap
            BY <1>0, <2>5 DEF OfferReject, OfferAdmit, OfferOverBudget
        <3>2. \A d \in Callers : d # c => cap[d].pc # "offer"
            BY <1>0, <3>1 DEF Locked
        <3>3. \A f \in Flushers : fl[f].pc # "admit"
            BY <1>0, <3>1 DEF Locked
        <3>. QED BY <2>1, <3>1, <3>2, <3>3 DEF Locked, Own, IdleCap
    <2>6. CASE \/ \E k \in CaptureKinds : Refuse(c, k)
               \/ Contended(c) \/ CountDrop(c) \/ Decline(c)
        <3>1. CASE \E k \in CaptureKinds : Refuse(c, k)
            <4>1. lock' = lock /\ cap'[c].pc = "drop"
                BY <1>0, <3>1 DEF Refuse, CapStates
            <4>. QED BY <2>1, <4>1 DEF Locked, Own
        <3>2. CASE Contended(c)
            <4>. DEFINE d == [IdleCap EXCEPT !.pc = "drop", !.seen = pressure_drops]
            <4>1. d.pc = "drop"
                BY DEF IdleCap
            <4>2. lock' = lock /\ cap'[c] \in {IdleCap, d}
                BY <1>0, <3>2 DEF Contended
            <4>. HIDE DEF d
            <4>3. cap'[c].pc \in {"idle", "drop"}
                BY <4>1, <4>2 DEF IdleCap
            <4>. QED BY <2>1, <4>2, <4>3 DEF Locked, Own
        <3>3. CASE CountDrop(c) \/ Decline(c)
            <4>1. lock' = lock /\ cap'[c].pc = "idle"
                BY <1>0, <3>3 DEF CountDrop, Decline, IdleCap
            <4>. QED BY <2>1, <4>1 DEF Locked, Own
        <3>. QED BY <2>6, <3>1, <3>2, <3>3
    <2>. QED BY <1>1, <2>2, <2>3, <2>4, <2>5, <2>6 DEF CaptureStep
<1>2. ASSUME NEW f \in Flushers, TimerFires(f) \/ ExplicitFlush(f) \/ FlushStep(f) PROVE Locked'
    <2>0. UNCHANGED <<cap, generation>>
        BY <1>2, FlushFrame
    <2>1. ASSUME lock' = lock, Others(f),
                 fl'[f].pc = "admit" => fl[f].pc = "admit" /\ fl'[f].gen = fl[f].gen
          PROVE  Locked'
        BY <2>0, <2>1 DEF Locked, Own, Others
    <2>2. CASE FlushAdmit(f)
        <3>1. lock = "free" /\ lock' = f /\ Others(f) /\ fl'[f].gen = generation
            BY <1>0, <2>2 DEF FlushAdmit, FlushStates, Others
        <3>2. /\ \A d \in Callers : cap[d].pc # "offer"
              /\ \A g \in Flushers : fl[g].pc # "admit"
            BY <1>0, <3>1 DEF Locked
        <3>. QED BY <2>0, <3>1, <3>2 DEF Locked, Own, Others
    <2>3. CASE FlushEmpty(f) \/ FlushSnapshot(f)
        <3>1. /\ fl[f].pc = "admit" /\ lock' = "free" /\ Others(f)
              /\ fl'[f].pc \in {"idle", "finalize"}
            BY <1>0, <2>3 DEF FlushEmpty, FlushSnapshot, FlushStates, IdleFlush, Others
        <3>2. /\ \A d \in Callers : cap[d].pc # "offer"
              /\ \A g \in Flushers : g # f => fl[g].pc # "admit"
            BY <1>0, <3>1 DEF Locked
        <3>. QED BY <2>0, <3>1, <3>2 DEF Locked, Own, Others
    <2>4. CASE \/ FlushAggregateLost(f) \/ FlushPressureLost(f)
               \/ \E b \in Sizes : FlushAggregate(f, b) \/ FlushPressure(f, b)
        <3>1. lock' = lock /\ fl[f].pc = "admit" /\ fl'[f].gen = fl[f].gen /\ Others(f)
            BY <1>0, <2>4 DEF FlushAggregateLost, FlushPressureLost, FlushAggregate, FlushPressure,
                              FlushStates, Others
        <3>. QED BY <2>1, <3>1
    <2>5. CASE TimerFires(f) \/ ExplicitFlush(f) \/ FlushIdle(f) \/ FlushBackoff(f)
        <3>1. lock' = lock /\ fl'[f].pc # "admit" /\ Others(f)
            BY <1>0, <2>5 DEF TimerFires, ExplicitFlush, FlushIdle, FlushBackoff, IdleFlush,
                              FlushStates, Others
        <3>. QED BY <2>1, <3>1
    <2>6. CASE FlushAbandon(f) \/ SelectNothing(f)
        <3>1. lock' = lock /\ fl' = [fl EXCEPT ![f] = IdleFlush]
            BY <2>6 DEF FlushAbandon, SelectNothing
        <3>2. fl'[f].pc # "admit" /\ Others(f)
            BY <1>0, <3>1 DEF IdleFlush, Others
        <3>. QED BY <2>1, <3>1, <3>2
    <2>7. CASE \E n \in 0..MaxAggregates : FlushReserve(f, n)
        <3>1. lock' = lock /\ fl'[f].pc = "reserved" /\ Others(f)
            BY <1>0, <2>7 DEF FlushReserve, FlushStates, Others
        <3>. QED BY <2>1, <3>1
    <2>8. CASE FinalizeProtect(f) \/ FinalizeWithhold(f)
        <3>1. lock' = lock /\ fl'[f].pc = "finalize" /\ Others(f)
            BY <1>0, <2>8 DEF FinalizeProtect, FinalizeWithhold, Finalizing, FlushStates, Others
        <3>. QED BY <2>1, <3>1
    <2>9. CASE \E k \in Kinds, b \in Sizes : FinalizeReplace(f, k, b)
        <3>. PICK k \in Kinds, b \in Sizes : FinalizeReplace(f, k, b)
            BY <2>9
        <3>. DEFINE r == [Head(fl[f].todo) EXCEPT !.id = FreshId, !.kind = k, !.bytes = b]
        <3>1. /\ lock' = lock
              /\ fl' = [fl EXCEPT ![f].done = Append(@, r), ![f].todo = Tail(@), ![f].proof = "unread"]
            BY DEF FinalizeReplace
        <3>. HIDE DEF r
        <3>2. fl'[f].pc = fl[f].pc /\ Others(f) /\ fl[f].pc # "admit"
            BY <1>0, <2>9, <3>1 DEF FlushStates, Others, FinalizeReplace, Finalizing
        <3>. QED BY <2>1, <3>1, <3>2
    <2>10. CASE \E n \in 1..Len(fl[f].done) : SelectBatch(f, n)
        <3>1. lock' = lock /\ fl'[f].pc = "send" /\ Others(f)
            BY <1>0, <2>10 DEF SelectBatch, FlushStates, Others
        <3>. QED BY <2>1, <3>1
    <2>11. CASE Complete(f)
        <3>1. lock' = lock /\ fl' = [fl EXCEPT ![f] = IdleFlush]
            BY <2>11, CompleteSends, Settled DEF Settle
        <3>2. fl'[f].pc # "admit" /\ Others(f)
            BY <1>0, <3>1 DEF IdleFlush, Others
        <3>. QED BY <2>1, <3>1, <3>2
    <2>. QED BY <1>2, <2>2, <2>3, <2>4, <2>5, <2>6, <2>7, <2>8, <2>9, <2>10, <2>11 DEF FlushStep
<1>3. CASE \E on \in BOOLEAN : InitSdk(on)
    <2>1. lock = "free" /\ UNCHANGED <<lock, cap, fl>>
        BY <1>3 DEF InitSdk
    <2>2. /\ \A d \in Callers : cap[d].pc # "offer"
          /\ \A g \in Flushers : fl[g].pc # "admit"
        BY <1>0, <2>1 DEF Locked
    <2>. QED BY <2>1, <2>2 DEF Locked
<1>4. CASE EnsureCurrentProcess
    <2>1. cap' = [c \in Callers |-> IdleCap] /\ fl' = [f \in Flushers |-> IdleFlush]
        BY <1>4 DEF EnsureCurrentProcess
    <2>. QED BY <2>1 DEF Locked, IdleCap, IdleFlush
<1>5. CASE RetryWindowExpires \/ PressureWindowExpires \/ Dispose \/ Discover \/ UNCHANGED vars
    <2>1. UNCHANGED <<lock, cap, fl, generation>>
        BY <1>5 DEF RetryWindowExpires, PressureWindowExpires, Dispose, Discover, vars
    <2>. QED BY <2>1 DEF Locked, Own
<1>. QED BY <1>1, <1>2, <1>3, <1>4, <1>5 DEF Next, Lifecycle

(* Probes and flush summaries never cross an init() or a fork, unless a    *)
(* hook relabels another event as one: probe_capture.py looks at the       *)
(* generation again under the lock it then admits under, and a flush       *)
(* builds its summaries under the lock that checked its reservation.       *)
THEOREM SummariesOfTheirGeneration == ASSUME PlainHooks PROVE Spec => []OwnGeneration
<1>1. Init => Locked /\ OwnGeneration
    BY DEF Init, Locked, OwnGeneration, IdleCap, IdleFlush
<1>2. Booked /\ Locked /\ [Next]_vars => Locked'
    BY LockedStep DEF Booked, IInv
<1>3. Booked /\ Locked /\ OwnGeneration /\ [Next]_vars => OwnGeneration'
    <2>. SUFFICES ASSUME Booked, Locked, OwnGeneration, [Next]_vars PROVE OwnGeneration'
        OBVIOUS
    <2>1. CASE Next /\ generation' = generation
        BY <2>1, OwnStep, OwnKept
    <2>2. CASE Next /\ generation' # generation
        <3>1. buffer' = <<>>
            <4>1. \A c \in Callers : CaptureStep(c) => generation' = generation
                BY DEF CaptureStep, Prepare, Refuse, Contended, CountDrop, Decline, OfferBegin,
                       OfferEvict, OfferReject, OfferAdmit, OfferOverBudget, life
            <4>2. (\E on \in BOOLEAN : InitSdk(on)) \/ EnsureCurrentProcess
                BY <2>2, <4>1, FlushFrame DEF Next, RetryWindowExpires, PressureWindowExpires,
                                              Lifecycle, Dispose, Discover, life
            <4>. QED BY <4>2 DEF InitSdk, EnsureCurrentProcess, Emptied
        <3>. QED BY <3>1 DEF OwnGeneration
    <2>3. CASE UNCHANGED vars
        BY <2>3 DEF vars, queue, life, OwnGeneration
    <2>. QED BY <2>1, <2>2, <2>3
<1>. QED BY <1>1, <1>2, <1>3, BookedInvariant, PTL DEF Spec

-----------------------------------------------------------------------------
(* The low-priority count.                                                 *)

(* The positions behind n of events of the kinds K. *)
At(b, n, K) == {i \in 1..Len(b) : i > n /\ b[i].kind \in K}

(* Such positions can be counted. *)
LEMMA AtFinite ==
    ASSUME NEW b \in Seq(Event), NEW n, NEW K
    PROVE  IsFiniteSet(At(b, n, K)) /\ Cardinality(At(b, n, K)) \in Nat
<1>1. IsFiniteSet(1..Len(b))
    BY FS_Interval
<1>2. At(b, n, K) \subseteq 1..Len(b)
    BY DEF At
<1>. QED BY <1>1, <1>2, FS_Subset, FS_CardinalityType

(* More kinds, more positions. *)
LEMMA AtMonotone ==
    ASSUME NEW b \in Seq(Event), NEW nb \in Seq(Event), NEW n, NEW m, NEW K, NEW L,
           At(b, n, K) \subseteq At(nb, m, L)
    PROVE  Cardinality(At(b, n, K)) <= Cardinality(At(nb, m, L))
BY AtFinite, FS_Subset

(* An insertion behind n adds the new event to the count; one in front of  *)
(* the first n + 1 only moves the others.                                  *)
LEMMA AtInserted ==
    ASSUME NEW b \in Seq(Event), NEW e, NEW nb, NEW p, Inserted(nb, b, p, e),
           NEW n \in Nat, NEW K
    PROVE  /\ p > n => Cardinality(At(nb, n, K)) =
                         Cardinality(At(b, n, K)) + (IF e.kind \in K THEN 1 ELSE 0)
           /\ p <= n + 1 => Cardinality(At(nb, n + 1, K)) = Cardinality(At(b, n, K))
<1>. DEFINE S == At(b, n, K)
            g == [i \in S |-> IF i < p THEN i ELSE i + 1]
            T == {g[i] : i \in S}
<1>1. /\ nb \in Seq(Event) /\ Len(nb) = Len(b) + 1 /\ p \in 1..(Len(b) + 1) /\ Len(b) \in Nat
      /\ \A j \in 1..(p - 1) : nb[j] = b[j]
      /\ nb[p] = e
      /\ \A j \in p..Len(b) : nb[j + 1] = b[j]
    BY DEF Inserted
<1>2. \A i \in S : i \in 1..Len(b) /\ i > n /\ b[i].kind \in K
    BY DEF At
<1>3. \A i \in 1..Len(b) : nb[IF i < p THEN i ELSE i + 1] = b[i]
    <2>. TAKE i \in 1..Len(b)
    <2>1. CASE i < p
        <3>1. i \in 1..(p - 1)
            BY <1>1, <2>1
        <3>. QED BY <1>1, <2>1, <3>1
    <2>2. CASE ~(i < p)
        <3>1. i \in p..Len(b)
            BY <1>1, <2>2
        <3>. QED BY <1>1, <2>2, <3>1
    <2>. QED BY <2>1, <2>2
<1>4. IsFiniteSet(S) /\ IsFiniteSet(T) /\ Cardinality(T) = Cardinality(S) /\ Cardinality(S) \in Nat
    <2>1. IsFiniteSet(S) /\ Cardinality(S) \in Nat
        BY AtFinite
    <2>2. g \in Bijection(S, T)
        <3>1. g \in [S -> T] /\ \A t \in T : \E i \in S : g[i] = t
            OBVIOUS
        <3>2. ASSUME NEW i \in S, NEW j \in S, g[i] = g[j] PROVE i = j
            BY <1>1, <1>2, <3>2
        <3>. HIDE DEF g, S, T
        <3>. QED BY <3>1, <3>2 DEF Bijection, Injection, Surjection, IsInjective
    <2>3. ExistsBijection(S, T)
        BY <2>2, Zenon DEF ExistsBijection
    <2>. HIDE DEF S, T, g
    <2>. QED BY <2>1, <2>3, FS_Bijection, Zenon
<1>5. ASSUME p > n
      PROVE  Cardinality(At(nb, n, K)) =
               Cardinality(S) + (IF e.kind \in K THEN 1 ELSE 0)
    <2>1. At(nb, n, K) = T \cup (IF e.kind \in K THEN {p} ELSE {})
        <3>1. ASSUME NEW j \in At(nb, n, K)
              PROVE  j \in T \/ (j = p /\ e.kind \in K)
            <4>1. j \in 1..(Len(b) + 1) /\ j > n /\ nb[j].kind \in K
                BY <1>1, <3>1 DEF At
            <4>2. CASE j < p
                <5>1. j \in 1..Len(b) /\ nb[j] = b[j]
                    BY <1>1, <1>3, <4>1, <4>2
                <5>2. j \in S
                    BY <4>1, <5>1 DEF At
                <5>3. g[j] = j
                    BY <4>2, <5>2
                <5>. QED BY <5>2, <5>3
            <4>3. CASE j = p
                BY <1>1, <4>1, <4>3
            <4>4. CASE j > p
                <5>1. j - 1 \in 1..Len(b) /\ nb[j] = b[j - 1] /\ j - 1 > n /\ ~(j - 1 < p) /\ j - 1 + 1 = j
                    BY <1>1, <1>3, <1>5, <4>1, <4>4
                <5>2. j - 1 \in S
                    BY <4>1, <5>1 DEF At
                <5>3. g[j - 1] = j
                    BY <5>1, <5>2
                <5>. QED BY <5>2, <5>3
            <4>. QED BY <1>1, <4>1, <4>2, <4>3, <4>4
        <3>2. ASSUME NEW i \in S PROVE g[i] \in At(nb, n, K)
            <4>1. i \in 1..Len(b) /\ i > n /\ nb[g[i]] = b[i] /\ b[i].kind \in K
                BY <1>2, <1>3
            <4>2. g[i] \in 1..(Len(b) + 1) /\ g[i] > n
                BY <1>1, <4>1
            <4>. HIDE DEF g
            <4>. QED BY <1>1, <4>1, <4>2 DEF At
        <3>3. e.kind \in K => p \in At(nb, n, K)
            BY <1>1, <1>5 DEF At
        <3>. HIDE DEF g, S
        <3>. QED BY <3>1, <3>2, <3>3
    <2>2. p \notin T
        BY <1>1, <1>2
    <2>. HIDE DEF S, T, g
    <2>3. CASE e.kind \in K
        <3>1. At(nb, n, K) = T \cup {p}
            BY <2>1, <2>3
        <3>2. Cardinality(T \cup {p}) = Cardinality(T) + 1
            BY <1>4, <2>2, FS_AddElement
        <3>. QED BY <1>4, <2>3, <3>1, <3>2
    <2>4. CASE ~(e.kind \in K)
        BY <1>4, <2>1, <2>4
    <2>. QED BY <2>3, <2>4
<1>6. ASSUME p <= n + 1
      PROVE  Cardinality(At(nb, n + 1, K)) = Cardinality(S)
    <2>1. At(nb, n + 1, K) = T
        <3>1. ASSUME NEW j \in At(nb, n + 1, K) PROVE j \in T
            <4>1. j \in 1..(Len(b) + 1) /\ j > n + 1 /\ nb[j].kind \in K
                BY <1>1, <3>1 DEF At
            <4>2. j - 1 \in 1..Len(b) /\ nb[j] = b[j - 1] /\ j - 1 > n /\ ~(j - 1 < p) /\ j - 1 + 1 = j
                BY <1>1, <1>3, <1>6, <4>1
            <4>3. j - 1 \in S
                BY <4>1, <4>2 DEF At
            <4>4. g[j - 1] = j
                BY <4>2, <4>3
            <4>. QED BY <4>3, <4>4
        <3>2. ASSUME NEW i \in S PROVE g[i] \in At(nb, n + 1, K)
            <4>1. i \in 1..Len(b) /\ i > n /\ nb[g[i]] = b[i] /\ b[i].kind \in K
                BY <1>2, <1>3
            <4>2. g[i] \in 1..(Len(b) + 1) /\ g[i] > n + 1
                BY <1>1, <1>6, <4>1
            <4>. HIDE DEF g
            <4>. QED BY <1>1, <4>1, <4>2 DEF At
        <3>. HIDE DEF g, S
        <3>. QED BY <3>1, <3>2
    <2>. HIDE DEF S, T, g
    <2>. QED BY <1>4, <2>1
<1>. QED BY <1>5, <1>6

(* A removal is an insertion read backwards. *)
LEMMA RemovedInserts ==
    ASSUME NEW b \in Seq(Event), NEW i \in 1..Len(b)
    PROVE  RemoveAt(b, i) \in Seq(Event) /\ Inserted(b, RemoveAt(b, i), i, b[i])
<1>. DEFINE nb == RemoveAt(b, i)
<1>1. /\ nb \in Seq(Event) /\ Len(nb) = Len(b) - 1
      /\ \A j \in 1..(i - 1) : nb[j] = b[j]
      /\ \A j \in i..(Len(b) - 1) : nb[j] = b[j + 1]
    BY RemoveAtSeq
<1>. HIDE DEF nb
<1>2. Inserted(b, nb, i, b[i])
    BY <1>1 DEF Inserted
<1>. QED BY <1>1, <1>2 DEF nb

(* The events from the batch in flight up to here are not counted. *)
Claimed == IF \E f \in Flushers : Claims(f) THEN inflight_count ELSE 0

CountedKinds == LowKinds \cup {"request5xx"}

Counts(b, n, p) ==
    /\ ~Http => Cardinality(At(b, n, LowKinds)) <= p
    /\ p <= Cardinality(At(b, n, CountedKinds))

(* A sender that was not cut off by an init() leaves no count behind.      *)
Rested ==
    (\A f \in Flushers : Reserved(f) => fl[f].gen = generation) /\ ~(\E f \in Flushers : Claims(f))
        => inflight_count = 0

(* Kinds are high or low. *)
LEMMA KindsSplit ==
    ASSUME NEW e \in Event
    PROVE  HighPriority(e) <=> e.kind \notin LowKinds
BY DEF Event, Kinds, HighKinds, LowKinds, HighPriority

(* The batch is the front of the queue. *)
LEMMA BatchFront ==
    ASSUME TypeOK, OneSender, BatchAtFront
    PROVE  /\ Claimed \in Nat /\ Claimed <= Len(buffer) /\ Batch = 1..Claimed
           /\ \A f \in Flushers : Claims(f) => Claimed = Len(fl[f].done) + Len(fl[f].todo)
<1>1. buffer \in Seq(Event) /\ Len(buffer) \in Nat
    BY DEF TypeOK
<1>2. CASE ~\E f \in Flushers : Claims(f)
    <2>1. Claimed = 0
        BY <1>2 DEF Claimed
    <2>2. Batch = {}
        BY <1>2, Zenon DEF Batch, Claims
    <2>3. 1..0 = {}
        OBVIOUS
    <2>4. Batch = 1..Claimed
        BY <2>1, <2>2, <2>3
    <2>5. Claimed \in Nat /\ Claimed <= Len(buffer)
        BY <1>1, <2>1
    <2>. QED BY <1>2, <2>4, <2>5, Zenon
<1>3. ASSUME NEW f \in Flushers, Claims(f)
      PROVE  /\ Claimed \in Nat /\ Claimed <= Len(buffer) /\ Batch = 1..Claimed
             /\ Claimed = Len(fl[f].done) + Len(fl[f].todo)
    <2>. DEFINE d == Len(fl[f].done)
                t == Len(fl[f].todo)
    <2>1. d \in Nat /\ t \in Nat
        BY DEF TypeOK, FlushStates
    <2>2. Claimed = d + t /\ d + t <= Len(buffer)
        BY <1>3 DEF Claimed, BatchAtFront, AtFront, Fronts
    <2>3. \A g \in Flushers : Claims(g) => g = f
        BY <1>3 DEF OneSender, Claims, Reserved
    <2>4. Batch = 1..(d + t)
        <3>1. {g \in Flushers : fl[g].pc \in {"finalize", "send"} /\ fl[g].gen = generation} = {f}
            BY <1>3, <2>3 DEF Claims
        <3>. QED BY <3>1, Zenon DEF Batch
    <2>. HIDE DEF d, t
    <2>5. Claimed \in Nat /\ Claimed <= Len(buffer) /\ Batch = 1..Claimed /\ Claimed = d + t
        BY <1>1, <2>1, <2>2, <2>4
    <2>. QED BY <2>5 DEF d, t
<1>4. CASE \E f \in Flushers : Claims(f)
    <2>1. Claimed \in Nat /\ Claimed <= Len(buffer) /\ Batch = 1..Claimed
        BY <1>3, <1>4
    <2>. QED BY <1>3, <2>1
<1>. QED BY <1>2, <1>4

(* The count survives when the queue behind the batch stays as it is. *)
LEMMA CountsSame ==
    ASSUME NEW b \in Seq(Event), NEW nb \in Seq(Event), NEW n \in Nat, NEW m, NEW p, Counts(b, n, p),
           \A K : At(nb, m, K) = At(b, n, K)
    PROVE  Counts(nb, m, p)
<1>1. At(nb, m, LowKinds) = At(b, n, LowKinds) /\ At(nb, m, CountedKinds) = At(b, n, CountedKinds)
    OBVIOUS
<1>. QED BY <1>1 DEF Counts

(* An admission behind the batch: whatever goes to the end is counted. *)
LEMMA CountsAdmitted ==
    ASSUME TypeOK, OneSender, BatchAtFront, Counts(buffer, Claimed, pending_low_priority),
           NEW e \in Event, NEW pressed \in BOOLEAN, Admitted(e, pressed)
    PROVE  Counts(buffer', Claimed, pending_low_priority')
<1>0. /\ buffer \in Seq(Event) /\ Len(buffer) \in Nat /\ pending_low_priority \in Int
      /\ Claimed \in Nat /\ Claimed <= Len(buffer) /\ inflight_count \in Int
    <2>1. Claimed \in Nat /\ Claimed <= Len(buffer)
        BY BatchFront
    <2>. QED BY <2>1 DEF TypeOK
<1>1. PICK i : Inserted(buffer', buffer, i, e) /\ (i <= Len(buffer) => i > inflight_count)
    BY AdmittedInserts
<1>2. i > Claimed
    <2>1. i \in 1..(Len(buffer) + 1)
        BY <1>1 DEF Inserted
    <2>2. Claimed \in {0, inflight_count}
        BY DEF Claimed
    <2>. QED BY <1>0, <1>1, <2>1, <2>2
<1>3. \A K : Cardinality(At(buffer', Claimed, K)) =
              Cardinality(At(buffer, Claimed, K)) + (IF e.kind \in K THEN 1 ELSE 0)
    BY <1>0, <1>1, <1>2, AtInserted
<1>. DEFINE first == HighPriority(e) /\ (e.kind # "request5xx" \/ pressed)
            l == Cardinality(At(buffer, Claimed, LowKinds))
            k == Cardinality(At(buffer, Claimed, CountedKinds))
<1>4. pending_low_priority' = pending_low_priority + (IF first THEN 0 ELSE 1)
    BY DEF Admitted
<1>5. l \in Nat /\ k \in Nat
    BY <1>0, AtFinite
<1>6. e.kind \in LowKinds => ~first
    BY KindsSplit
<1>7. ~first => e.kind \in CountedKinds
    BY KindsSplit DEF CountedKinds
<1>8. /\ Cardinality(At(buffer', Claimed, LowKinds)) = l + (IF e.kind \in LowKinds THEN 1 ELSE 0)
      /\ Cardinality(At(buffer', Claimed, CountedKinds)) =
             k + (IF e.kind \in CountedKinds THEN 1 ELSE 0)
    BY <1>3
<1>9. (~Http => l <= pending_low_priority) /\ pending_low_priority <= k
    BY DEF Counts
<1>. HIDE DEF first, l, k
<1>. QED BY <1>0, <1>4, <1>5, <1>6, <1>7, <1>8, <1>9 DEF Counts

(* An eviction behind the batch. *)
LEMMA CountsEvicted ==
    ASSUME NEW b \in Seq(Event), NEW n \in Nat, NEW p \in Int, Counts(b, n, p),
           NEW i \in 1..Len(b), i > n, ~HighPriority(b[i])
    PROVE  Counts(RemoveAt(b, i), n, p - 1)
<1>. DEFINE nb == RemoveAt(b, i)
<1>1. nb \in Seq(Event) /\ Inserted(b, nb, i, b[i])
    BY RemovedInserts
<1>. HIDE DEF nb
<1>2. \A K : Cardinality(At(b, n, K)) =
              Cardinality(At(nb, n, K)) + (IF b[i].kind \in K THEN 1 ELSE 0)
    BY <1>1, AtInserted
<1>3. b[i].kind \in LowKinds /\ b[i].kind \in CountedKinds
    BY KindsSplit DEF CountedKinds
<1>4. /\ Cardinality(At(nb, n, LowKinds)) \in Nat
      /\ Cardinality(At(nb, n, CountedKinds)) \in Nat
    BY <1>1, AtFinite
<1>5. /\ Cardinality(At(b, n, LowKinds)) = Cardinality(At(nb, n, LowKinds)) + 1
      /\ Cardinality(At(b, n, CountedKinds)) = Cardinality(At(nb, n, CountedKinds)) + 1
    BY <1>2, <1>3
<1>6. Counts(nb, n, p - 1)
    BY <1>4, <1>5 DEF Counts
<1>. QED BY <1>6 DEF nb

(* An event of the batch leaves. *)
LEMMA CountsWithheld ==
    ASSUME NEW b \in Seq(Event), NEW n \in Nat, NEW p, Counts(b, n, p),
           NEW i \in 1..Len(b), i <= n
    PROVE  Counts(RemoveAt(b, i), n - 1, p)
<1>. DEFINE nb == RemoveAt(b, i)
            m == n - 1
<1>1. nb \in Seq(Event) /\ Inserted(b, nb, i, b[i])
    BY RemovedInserts
<1>2. m \in Nat /\ m + 1 = n /\ i <= m + 1
    OBVIOUS
<1>. HIDE DEF nb, m
<1>3. \A K : Cardinality(At(b, m + 1, K)) = Cardinality(At(nb, m, K))
    BY <1>1, <1>2, AtInserted
<1>4. Counts(nb, m, p)
    BY <1>2, <1>3 DEF Counts
<1>. QED BY <1>4 DEF nb, m

(* The recount of a completion, and an empty queue. *)
LEMMA CountsAnew ==
    ASSUME NEW b \in Seq(Event)
    PROVE  /\ Counts(b, 0, LowCount(b))
           /\ Counts(b, Len(b), 0)
<1>0. Len(b) \in Nat /\ DOMAIN b = 1..Len(b)
    OBVIOUS
<1>1. {i \in DOMAIN b : ~HighPriority(b[i])} = At(b, 0, LowKinds)
    <2>1. \A i \in DOMAIN b : ~HighPriority(b[i]) <=> b[i].kind \in LowKinds
        <3>. TAKE i \in DOMAIN b
        <3>1. b[i] \in Event
            BY <1>0
        <3>. QED BY <3>1, KindsSplit
    <2>. QED BY <1>0, <2>1 DEF At
<1>2. At(b, 0, LowKinds) \subseteq At(b, 0, CountedKinds)
    BY DEF At, CountedKinds
<1>3. Cardinality(At(b, 0, LowKinds)) <= Cardinality(At(b, 0, CountedKinds))
    BY <1>2, AtMonotone
<1>4. \A K : At(b, Len(b), K) = {}
    BY <1>0 DEF At
<1>5. Cardinality({}) = 0
    BY FS_EmptySet
<1>6. Cardinality(At(b, 0, LowKinds)) \in Nat
    BY AtFinite
<1>7. Counts(b, 0, LowCount(b))
    <2>1. LowCount(b) = Cardinality(At(b, 0, LowKinds))
        BY <1>1 DEF LowCount
    <2>. QED BY <1>3, <1>6, <2>1 DEF Counts
<1>8. Counts(b, Len(b), 0)
    <2>1. At(b, Len(b), LowKinds) = {} /\ At(b, Len(b), CountedKinds) = {}
        BY <1>4
    <2>. QED BY <1>5, <2>1 DEF Counts
<1>. QED BY <1>7, <1>8

(* The count and what it leaves out. *)
Recounted == Counts(buffer, Claimed, pending_low_priority) /\ Rested

(* Captures admit and evict behind the batch. *)
LEMMA RecountedCapture ==
    ASSUME Booked, Booked', Recounted, NEW c \in Callers, CaptureStep(c)
    PROVE  Recounted'
<1>. USE DEF queue, pressure, ownership, sender, health, life
<1>0. /\ TypeOK /\ Held /\ OneSender /\ BatchAtFront
      /\ buffer \in Seq(Event) /\ pending_low_priority \in Int
    BY DEF Booked, IInv, Control, InFront, TypeOK
<1>1. UNCHANGED <<inflight_count, generation, fl>>
    BY DEF CaptureStep, Prepare, Refuse, Contended, CountDrop, Decline, OfferBegin,
           OfferEvict, OfferReject, OfferAdmit, OfferOverBudget
<1>2. Claimed' = Claimed /\ Rested'
    BY <1>1 DEF Claimed, Claims, Reserved, Rested, Recounted
<1>3. CASE UNCHANGED <<buffer, pending_low_priority>>
    BY <1>2, <1>3 DEF Recounted
<1>4. CASE OfferEvict(c)
    <2>. DEFINE i == Min(Evictable)
    <2>1. i \in Evictable
        BY <1>0, <1>4, BehindBatch DEF OfferEvict
    <2>2. /\ i \in 1..Len(buffer) /\ ~HighPriority(buffer[i]) /\ i > inflight_count
          /\ buffer' = RemoveAt(buffer, i) /\ pending_low_priority' = pending_low_priority - 1
        BY <1>0, <1>4, <2>1 DEF Evictable, OfferEvict
    <2>. HIDE DEF i
    <2>3. Claimed \in Nat /\ Claimed \in {0, inflight_count}
        BY <1>0, BatchFront DEF Claimed
    <2>4. i > Claimed
        BY <2>2, <2>3
    <2>5. Counts(RemoveAt(buffer, i), Claimed, pending_low_priority - 1)
        BY <1>0, <2>2, <2>3, <2>4, CountsEvicted DEF Recounted
    <2>. QED BY <1>2, <2>2, <2>5 DEF Recounted
<1>5. CASE OfferAdmit(c)
    <2>. DEFINE o == cap[c].event[1]
                fatal == o.kind = "fatal"
                e == [o EXCEPT !.skip = fatal]
                pressed == cap[c].pressed
    <2>1. cap[c].pc = "offer" /\ Admitted(e, pressed)
        BY <1>5 DEF OfferAdmit
    <2>2. o \in Event /\ pressed \in BOOLEAN
        BY <1>0, <2>1, HeldEvent DEF TypeOK, CapStates
    <2>. HIDE DEF o, pressed
    <2>3. e \in Event
        BY <2>2 DEF Event
    <2>. HIDE DEF e
    <2>4. Counts(buffer', Claimed, pending_low_priority')
        BY <1>0, <2>1, <2>2, <2>3, CountsAdmitted DEF Recounted
    <2>. QED BY <1>2, <2>4 DEF Recounted
<1>. QED BY <1>3, <1>4, <1>5
     DEF CaptureStep, Prepare, Refuse, Contended, CountDrop, Decline, OfferBegin,
         OfferReject, OfferOverBudget

(* A flush leaves its batch out of the count, and recounts when it ends. *)
LEMMA RecountedFlush ==
    ASSUME Booked, Booked', Locked, Recounted, NEW f \in Flushers,
           TimerFires(f) \/ ExplicitFlush(f) \/ FlushStep(f)
    PROVE  Recounted'
<1>. USE DEF queue, pressure, ownership, sender, health, life
<1>0. /\ TypeOK /\ Control /\ OneSender /\ BatchAtFront
      /\ buffer \in Seq(Event) /\ buffer' \in Seq(Event) /\ pending_low_priority \in Int
      /\ fl[f] \in FlushStates /\ fl \in [Flushers -> FlushStates]
      /\ Len(fl[f].done) \in Nat /\ Len(fl[f].todo) \in Nat /\ inflight_count \in Int
    <2>1. TypeOK /\ TypeOK' /\ Control /\ OneSender /\ BatchAtFront
        BY DEF Booked, IInv, Control, InFront
    <2>2. buffer \in Seq(Event) /\ buffer' \in Seq(Event) /\ pending_low_priority \in Int
          /\ inflight_count \in Int /\ fl \in [Flushers -> FlushStates]
        BY <2>1 DEF TypeOK
    <2>3. fl[f] \in FlushStates
        BY <2>2
    <2>4. Len(fl[f].done) \in Nat /\ Len(fl[f].todo) \in Nat
        BY <2>3 DEF FlushStates
    <2>. QED BY <2>1, <2>2, <2>3, <2>4
<1>g. generation' = generation
    BY FlushFrame
<1>f. /\ Claimed \in Nat /\ Claimed <= Len(buffer)
      /\ \A g \in Flushers : Claims(g) => Claimed = Len(fl[g].done) + Len(fl[g].todo)
    BY <1>0, BatchFront
<1>a. ASSUME Others(f), ~Claims(f), ~Claims(f)', Reserved(f) => fl[f].gen = generation,
             UNCHANGED inflight_count
      PROVE  Claimed' = Claimed /\ Rested'
    <2>1. \A g \in Flushers : Claims(g)' <=> Claims(g)
        BY <1>a, <1>g DEF Others, Claims
    <2>2. Claimed' = Claimed
        BY <1>a, <2>1 DEF Claimed
    <2>3. (\A g \in Flushers : Reserved(g)' => fl'[g].gen = generation') =>
          (\A g \in Flushers : Reserved(g) => fl[g].gen = generation)
        BY <1>a, <1>g DEF Others, Reserved
    <2>. QED BY <1>a, <2>1, <2>2, <2>3 DEF Rested, Recounted
<1>b. ASSUME Others(f), fl'[f].pc = fl[f].pc, fl'[f].gen = fl[f].gen, UNCHANGED inflight_count
      PROVE  Claimed' = Claimed /\ Rested'
    <2>1. \A g \in Flushers : (Claims(g)' <=> Claims(g)) /\ (Reserved(g)' <=> Reserved(g))
                               /\ fl'[g].gen = fl[g].gen
        BY <1>b, <1>g DEF Others, Claims, Reserved
    <2>. QED BY <1>b, <1>g, <2>1 DEF Claimed, Rested, Recounted
<1>c. ASSUME Reserved(f), fl' = [fl EXCEPT ![f] = IdleFlush], inflight_count' = 0
      PROVE  Claimed' = 0 /\ Rested'
    <2>1. \A g \in Flushers : g # f => ~Reserved(g)
        BY <1>0, <1>c, Exclusive
    <2>2. \A g \in Flushers : ~Claims(g)'
        BY <1>0, <1>c, <2>1 DEF Claims, Reserved, IdleFlush
    <2>. QED BY <1>c, <2>2 DEF Claimed, Rested
<1>d. ASSUME Claims(f)' PROVE Claimed' = inflight_count' /\ Rested'
    BY <1>d DEF Claimed, Rested
<1>e. ASSUME Claimed' = Claimed, Rested', UNCHANGED <<buffer, pending_low_priority>> PROVE Recounted'
    BY <1>e DEF Recounted
<1>1. CASE \/ TimerFires(f) \/ ExplicitFlush(f) \/ FlushIdle(f) \/ FlushBackoff(f)
           \/ \E n \in 0..MaxAggregates : FlushReserve(f, n)
    <2>1. /\ fl[f].pc \in {"idle", "start"} /\ fl'[f].pc \in {"idle", "start", "reserved"} /\ Others(f)
          /\ UNCHANGED <<buffer, pending_low_priority, inflight_count>>
        <3>1. CASE TimerFires(f) \/ ExplicitFlush(f)
            BY <1>0, <3>1 DEF TimerFires, ExplicitFlush, FlushStates, Others
        <3>2. CASE FlushIdle(f) \/ FlushBackoff(f)
            BY <1>0, <3>2 DEF FlushIdle, FlushBackoff, IdleFlush, Others
        <3>3. CASE \E n \in 0..MaxAggregates : FlushReserve(f, n)
            BY <1>0, <3>3 DEF FlushReserve, FlushStates, Others
        <3>. QED BY <1>1, <3>1, <3>2, <3>3
    <2>2. ~Claims(f) /\ ~Claims(f)' /\ ~Reserved(f)
        BY <2>1 DEF Claims, Reserved
    <2>. QED BY <1>a, <1>e, <2>1, <2>2
<1>2. CASE FlushAbandon(f)
    <2>1. /\ Reserved(f) /\ ~Claims(f) /\ fl' = [fl EXCEPT ![f] = IdleFlush] /\ inflight_count' = 0
          /\ UNCHANGED <<buffer, pending_low_priority>>
        BY <1>2 DEF FlushAbandon, Reserved, Claims
    <2>2. Claimed = 0
        BY <1>0, <2>1, Exclusive DEF Claimed, Claims, Reserved
    <2>. QED BY <1>c, <1>e, <2>1, <2>2
<1>3. CASE FlushAdmit(f) \/ FlushAggregateLost(f) \/ FlushPressureLost(f) \/ FlushEmpty(f)
    <2>1. /\ fl[f].pc \in {"reserved", "admit"} /\ fl'[f].pc \in {"idle", "admit"} /\ Others(f)
          /\ fl[f].gen = generation
          /\ UNCHANGED <<buffer, pending_low_priority, inflight_count>>
        <3>1. CASE FlushAdmit(f)
            BY <1>0, <3>1 DEF FlushAdmit, FlushStates, Others
        <3>2. CASE FlushAggregateLost(f) \/ FlushPressureLost(f)
            <4>1. /\ fl[f].pc = "admit" /\ fl'[f].pc = "admit" /\ Others(f)
                  /\ UNCHANGED <<buffer, pending_low_priority, inflight_count>>
                BY <1>0, <3>2 DEF FlushAggregateLost, FlushPressureLost, FlushStates, Others
            <4>. QED BY <4>1 DEF Locked
        <3>3. CASE FlushEmpty(f)
            <4>1. /\ fl[f].pc = "admit" /\ fl'[f].pc = "idle" /\ Others(f)
                  /\ UNCHANGED <<buffer, pending_low_priority, inflight_count>>
                BY <1>0, <3>3 DEF FlushEmpty, IdleFlush, Others
            <4>. QED BY <4>1 DEF Locked
        <3>. QED BY <1>3, <3>1, <3>2, <3>3
    <2>2. ~Claims(f) /\ ~Claims(f)'
        BY <2>1 DEF Claims
    <2>. QED BY <1>a, <1>e, <2>1, <2>2
<1>4. ASSUME NEW k \in {"aggregate", "pressure"}, NEW b \in Sizes,
             Allocations(1) # {}, Admitted(Summary(f, k, b), FALSE)
      PROVE  Counts(buffer', Claimed, pending_low_priority')
    <2>1. FreshId \in Ids /\ b \in Nat /\ k \in Kinds
        BY <1>4, FreshIdType, QueueAssumption DEF Kinds, LowKinds
    <2>. DEFINE e == Summary(f, k, b)
                pressed == FALSE
    <2>2. e \in Event /\ Admitted(e, pressed) /\ pressed \in BOOLEAN
        BY <1>0, <1>4, <2>1, SummaryType
    <2>. HIDE DEF e, pressed
    <2>. QED BY <1>0, <2>2, CountsAdmitted DEF Recounted
<1>5. CASE \E b \in Sizes : FlushAggregate(f, b) \/ FlushPressure(f, b)
    <2>1. /\ fl[f].pc = "admit" /\ fl'[f].pc = "admit" /\ Others(f) /\ UNCHANGED inflight_count
        BY <1>0, <1>5 DEF FlushAggregate, FlushPressure, FlushStates, Others
    <2>2. ~Claims(f) /\ ~Claims(f)' /\ fl[f].gen = generation
        BY <2>1 DEF Claims, Locked
    <2>3. Claimed' = Claimed /\ Rested'
        BY <1>a, <2>1, <2>2
    <2>4. \/ UNCHANGED <<buffer, pending_low_priority>>
          \/ \E b \in Sizes, k \in {"aggregate", "pressure"} :
                Allocations(1) # {} /\ Admitted(Summary(f, k, b), FALSE)
        <3>. PICK b \in Sizes : FlushAggregate(f, b) \/ FlushPressure(f, b)
            BY <1>5
        <3>1. CASE FlushAggregate(f, b)
            BY <3>1, Zenon DEF FlushAggregate
        <3>2. CASE FlushPressure(f, b)
            BY <3>2, Zenon DEF FlushPressure
        <3>. QED BY <3>1, <3>2
    <2>. QED BY <1>4, <1>e, <2>3, <2>4 DEF Recounted
<1>6. CASE FlushSnapshot(f)
    <2>1. /\ fl[f].pc = "admit" /\ fl'[f].pc = "finalize" /\ fl'[f].gen = fl[f].gen
          /\ inflight_count' = Len(buffer) /\ pending_low_priority' = 0 /\ buffer' = buffer
        BY <1>0, <1>6 DEF FlushSnapshot, FlushStates
    <2>2. Claims(f)'
        BY <1>g, <2>1 DEF Claims, Locked
    <2>3. Claimed' = Len(buffer) /\ Rested'
        BY <1>d, <2>1, <2>2
    <2>. QED BY <1>0, <2>1, <2>3, CountsAnew DEF Recounted
<1>7. CASE FinalizeProtect(f)
    <2>1. /\ Others(f) /\ fl'[f].pc = fl[f].pc /\ fl'[f].gen = fl[f].gen
          /\ UNCHANGED <<buffer, pending_low_priority, inflight_count>>
        BY <1>0, <1>7 DEF FinalizeProtect, FlushStates, Others
    <2>. QED BY <1>b, <1>e, <2>1
<1>p. ASSUME Claims(f), fl[f].todo # <<>>
      PROVE  /\ Len(fl[f].done) + 1 \in 1..Len(buffer) /\ Len(fl[f].done) + 1 <= Claimed
             /\ Claimed = inflight_count
    <2>1. Len(fl[f].todo) # 0
        BY <1>0, <1>p, EmptySeq DEF FlushStates
    <2>2. Len(fl[f].done) + 1 \in 1..Len(buffer)
        BY <1>0, <1>p, NextEvent
    <2>3. Claimed = Len(fl[f].done) + Len(fl[f].todo) /\ Claimed = inflight_count
        BY <1>f, <1>p DEF Claimed
    <2>. QED BY <1>0, <2>1, <2>2, <2>3
<1>8. CASE FinalizeWithhold(f)
    <2>. DEFINE i == Len(fl[f].done) + 1
    <2>1. /\ Claims(f) /\ fl[f].todo # <<>> /\ buffer' = RemoveAt(buffer, i)
          /\ inflight_count' = inflight_count - 1 /\ UNCHANGED pending_low_priority
        BY <1>8 DEF FinalizeWithhold, Finalizing, Claims
    <2>2. Claims(f)'
        BY <1>0, <1>8, <1>g DEF FinalizeWithhold, Finalizing, Claims, FlushStates
    <2>3. i \in 1..Len(buffer) /\ i <= Claimed /\ Claimed = inflight_count
        BY <1>p, <2>1
    <2>. HIDE DEF i
    <2>4. Counts(RemoveAt(buffer, i), Claimed - 1, pending_low_priority)
        BY <1>0, <1>f, <2>3, CountsWithheld DEF Recounted
    <2>. QED BY <1>d, <2>1, <2>2, <2>3, <2>4 DEF Recounted
<1>9. CASE \E k \in Kinds, b \in Sizes : FinalizeReplace(f, k, b)
    <2>. PICK k \in Kinds, b \in Sizes : FinalizeReplace(f, k, b)
        BY <1>9
    <2>. DEFINE i == Len(fl[f].done) + 1
                r == [Head(fl[f].todo) EXCEPT !.id = FreshId, !.kind = k, !.bytes = b]
    <2>1. /\ Claims(f) /\ fl[f].todo # <<>> /\ buffer' = [buffer EXCEPT ![i] = r]
          /\ fl' = [fl EXCEPT ![f].done = Append(@, r), ![f].todo = Tail(@), ![f].proof = "unread"]
          /\ UNCHANGED <<pending_low_priority, inflight_count>>
        BY DEF FinalizeReplace, Finalizing, Claims
    <2>. HIDE DEF r
    <2>2. Others(f) /\ fl'[f].pc = fl[f].pc /\ fl'[f].gen = fl[f].gen
        BY <1>0, <2>1 DEF FlushStates, Others
    <2>3. Claimed' = Claimed /\ Rested'
        BY <1>b, <2>1, <2>2
    <2>4. i \in 1..Len(buffer) /\ i <= Claimed
        BY <1>p, <2>1
    <2>. HIDE DEF i
    <2>5. Len(buffer') = Len(buffer) /\ \A j \in 1..Len(buffer) : j > Claimed => buffer'[j] = buffer[j]
        BY <1>0, <1>f, <2>1, <2>4
    <2>6. \A K : At(buffer', Claimed, K) = At(buffer, Claimed, K)
        BY <2>5 DEF At
    <2>7. Counts(buffer', Claimed, pending_low_priority)
        BY <1>0, <1>f, <2>6, CountsSame DEF Recounted
    <2>. QED BY <2>1, <2>3, <2>7 DEF Recounted
<1>10. CASE SelectNothing(f)
    <2>1. /\ Claims(f) /\ fl[f].done = <<>> /\ fl[f].todo = <<>>
          /\ fl' = [fl EXCEPT ![f] = IdleFlush] /\ inflight_count' = 0
          /\ UNCHANGED <<buffer, pending_low_priority>>
        BY <1>10 DEF SelectNothing, Claims
    <2>2. Claimed = 0
        <3>1. Claimed = Len(fl[f].done) + Len(fl[f].todo)
            BY <1>f, <2>1
        <3>2. Len(fl[f].done) = 0 /\ Len(fl[f].todo) = 0
            BY <2>1
        <3>. QED BY <3>1, <3>2
    <2>3. Reserved(f)
        BY <2>1 DEF Claims, Reserved
    <2>. QED BY <1>c, <1>e, <2>1, <2>2, <2>3
<1>11. ASSUME NEW n \in 1..Len(fl[f].done), SelectBatch(f, n) PROVE Recounted'
    <2>. DEFINE tail == (n + 1)..Len(fl[f].done)
    <2>1. /\ Claims(f) /\ fl[f].todo = <<>> /\ (~Http => n = Len(fl[f].done))
          /\ inflight_count' = n /\ UNCHANGED pending_low_priority
          /\ buffer' = [i \in DOMAIN buffer |->
                          IF i \in tail THEN [buffer[i] EXCEPT !.skip = TRUE] ELSE buffer[i]]
        BY <1>11 DEF SelectBatch, Claims
    <2>2. Claims(f)'
        BY <1>0, <1>11, <1>g DEF SelectBatch, Claims, FlushStates
    <2>3. Claimed' = n /\ Rested'
        BY <1>d, <2>1, <2>2
    <2>4. Claimed = Len(fl[f].done)
        <3>1. Claimed = Len(fl[f].done) + Len(fl[f].todo)
            BY <1>f, <2>1
        <3>2. Len(fl[f].todo) = 0
            BY <2>1
        <3>. QED BY <1>0, <3>1, <3>2
    <2>. HIDE DEF tail
    <2>5. Len(buffer') = Len(buffer) /\ \A j \in 1..Len(buffer) : buffer'[j].kind = buffer[j].kind
        <3>1. ASSUME NEW j \in 1..Len(buffer) PROVE buffer'[j].kind = buffer[j].kind
            <4>1. buffer[j] \in Event
                BY <1>0
            <4>2. [buffer[j] EXCEPT !.skip = TRUE].kind = buffer[j].kind
                BY <4>1 DEF Event
            <4>. QED BY <1>0, <2>1, <4>2
        <3>. QED BY <1>0, <2>1, <3>1
    <2>6. n \in Nat /\ n <= Claimed
        BY <1>0, <2>4
    <2>7. \A K : At(buffer, Claimed, K) \subseteq At(buffer', n, K)
        BY <1>f, <2>5, <2>6 DEF At
    <2>8. ~Http => \A K : At(buffer', n, K) = At(buffer, Claimed, K)
        BY <2>1, <2>4, <2>5 DEF At
    <2>9. Counts(buffer', n, pending_low_priority)
        <3>1. Cardinality(At(buffer, Claimed, CountedKinds)) <= Cardinality(At(buffer', n, CountedKinds))
            BY <1>0, <2>7, AtMonotone
        <3>2. /\ Cardinality(At(buffer, Claimed, CountedKinds)) \in Nat
              /\ Cardinality(At(buffer', n, CountedKinds)) \in Nat
            BY <1>0, AtFinite
        <3>3. pending_low_priority <= Cardinality(At(buffer', n, CountedKinds))
            BY <1>0, <3>1, <3>2 DEF Counts, Recounted
        <3>4. ~Http => Cardinality(At(buffer', n, LowKinds)) <= pending_low_priority
            BY <2>8 DEF Counts, Recounted
        <3>. QED BY <3>3, <3>4 DEF Counts
    <2>. QED BY <2>1, <2>3, <2>9 DEF Recounted
<1>12. CASE Complete(f)
    <2>1. /\ fl' = [fl EXCEPT ![f] = IdleFlush] /\ inflight_count' = 0
          /\ pending_low_priority' = LowCount(buffer')
        BY <1>12, Settled DEF Settle
    <2>2. Reserved(f)
        BY <1>12, CompleteSends DEF Reserved
    <2>3. Claimed' = 0 /\ Rested'
        BY <1>c, <2>1, <2>2
    <2>. QED BY <1>0, <2>1, <2>3, CountsAnew DEF Recounted
<1>. QED BY <1>1, <1>2, <1>3, <1>5, <1>6, <1>7, <1>8, <1>9, <1>10, <1>11, <1>12 DEF FlushStep

(* Nothing is counted in an empty queue. *)
LEMMA CountsNothing == \A n : Counts(<<>>, n, 0)
<1>. SUFFICES ASSUME NEW n PROVE Counts(<<>>, n, 0)
    OBVIOUS
<1>1. At(<<>>, n, LowKinds) = {} /\ At(<<>>, n, CountedKinds) = {}
    BY DEF At
<1>2. Cardinality({}) = 0
    BY FS_EmptySet
<1>. QED BY <1>1, <1>2 DEF Counts

(* The other steps empty the queue or leave it alone. *)
LEMMA RecountedLifecycle ==
    ASSUME Booked, Recounted,
           Lifecycle \/ RetryWindowExpires \/ PressureWindowExpires \/ UNCHANGED vars
    PROVE  Recounted'
<1>. USE DEF queue, pressure, ownership, sender, health, life
<1>0. OneSender /\ InFront /\ generation \in Nat /\ \A f \in Flushers : fl[f].gen \in Nat
    BY DEF Booked, IInv, Control, TypeOK, FlushStates
<1>1. ASSUME buffer' = <<>>, pending_low_priority' = 0
      PROVE  Counts(buffer', Claimed', pending_low_priority')
    BY <1>1, CountsNothing
<1>2. CASE \E on \in BOOLEAN : InitSdk(on)
    <2>1. /\ buffer' = <<>> /\ pending_low_priority' = 0 /\ generation' = generation + 1
          /\ UNCHANGED <<fl, inflight_count>>
        BY <1>2 DEF InitSdk, Emptied
    <2>2. Rested'
        <3>. SUFFICES ASSUME \A f \in Flushers : Reserved(f)' => fl'[f].gen = generation'
                      PROVE  inflight_count' = 0
            BY DEF Rested
        <3>1. \A f \in Flushers : ~Reserved(f)
            BY <1>0, <2>1 DEF InFront, Waiting, Patient, Reserved
        <3>2. \A f \in Flushers : ~Claims(f)
            BY <3>1 DEF Reserved, Claims
        <3>. QED BY <2>1, <3>1, <3>2 DEF Rested, Recounted
    <2>. QED BY <1>1, <2>1, <2>2 DEF Recounted
<1>3. CASE EnsureCurrentProcess
    <2>1. buffer' = <<>> /\ pending_low_priority' = 0 /\ inflight_count' = 0
        BY <1>3 DEF EnsureCurrentProcess, Emptied
    <2>. QED BY <1>1, <2>1 DEF Rested, Recounted
<1>4. CASE Dispose \/ Discover \/ RetryWindowExpires \/ PressureWindowExpires \/ UNCHANGED vars
    <2>1. UNCHANGED <<buffer, pending_low_priority, inflight_count, fl, generation>>
        BY <1>4 DEF Dispose, Discover, RetryWindowExpires, PressureWindowExpires, vars
    <2>2. Claimed' = Claimed /\ Rested'
        BY <2>1 DEF Claimed, Claims, Reserved, Rested, Recounted
    <2>. QED BY <2>1, <2>2 DEF Recounted
<1>. QED BY <1>2, <1>3, <1>4 DEF Lifecycle

(* may_prepare_event may trust _pending_low_priority: with a custom        *)
(* transport it never misses an event evict_low_priority could displace,   *)
(* and with any transport it counts nothing but low-priority events and    *)
(* 5xx requests that went to the end of the queue.                         *)
THEOREM LowPriorityCounted == Spec => []LowCounted
<1>1. Init => Locked /\ Recounted
    <2>. SUFFICES ASSUME Init PROVE Locked /\ Recounted
        OBVIOUS
    <2>1. Locked
        BY DEF Init, Locked, IdleCap, IdleFlush
    <2>2. buffer = <<>> /\ pending_low_priority = 0 /\ inflight_count = 0
        BY DEF Init
    <2>. QED BY <2>1, <2>2, CountsNothing DEF Recounted, Rested
<1>2. Booked /\ Locked /\ [Next]_vars => Locked'
    BY LockedStep DEF Booked, IInv
<1>3. Booked /\ Locked /\ Recounted /\ [Next]_vars => Recounted'
    <2>. SUFFICES ASSUME Booked, Locked, Recounted, [Next]_vars PROVE Recounted'
        OBVIOUS
    <2>1. Booked'
        BY BookedInductive
    <2>2. ASSUME NEW c \in Callers, CaptureStep(c) PROVE Recounted'
        BY <2>1, <2>2, RecountedCapture
    <2>3. ASSUME NEW f \in Flushers, TimerFires(f) \/ ExplicitFlush(f) \/ FlushStep(f) PROVE Recounted'
        BY <2>1, <2>3, RecountedFlush
    <2>4. CASE Lifecycle \/ RetryWindowExpires \/ PressureWindowExpires \/ UNCHANGED vars
        BY <2>4, RecountedLifecycle
    <2>. QED BY <2>2, <2>3, <2>4 DEF Next
<1>4. Booked /\ Recounted => LowCounted
    <2>. SUFFICES ASSUME Booked, Recounted PROVE LowCounted
        OBVIOUS
    <2>. DEFINE behind == DOMAIN buffer \ Batch
                low == {i \in behind : ~HighPriority(buffer[i])}
                requests == {i \in behind : buffer[i].kind = "request5xx"}
    <2>1. /\ buffer \in Seq(Event) /\ DOMAIN buffer = 1..Len(buffer)
          /\ Claimed \in Nat /\ Batch = 1..Claimed
        <3>1. TypeOK /\ OneSender /\ BatchAtFront
            BY DEF Booked, IInv, Control, InFront
        <3>2. Claimed \in Nat /\ Batch = 1..Claimed
            BY <3>1, BatchFront
        <3>. QED BY <3>1, <3>2 DEF TypeOK
    <2>2. \A i \in DOMAIN buffer : ~HighPriority(buffer[i]) <=> buffer[i].kind \in LowKinds
        <3>. TAKE i \in DOMAIN buffer
        <3>1. buffer[i] \in Event
            BY <2>1
        <3>. QED BY <3>1, KindsSplit
    <2>3. behind = {i \in 1..Len(buffer) : i > Claimed}
        BY <2>1
    <2>4. low = At(buffer, Claimed, LowKinds)
        BY <2>1, <2>2, <2>3 DEF At
    <2>5. low \cup requests = At(buffer, Claimed, CountedKinds)
        BY <2>1, <2>2, <2>3 DEF At, CountedKinds
    <2>6. ASSUME \A f \in Flushers : Reserved(f) => fl[f].gen = generation, NEW i \in behind
          PROVE  i > inflight_count
        <3>1. Claimed = inflight_count
            BY <2>6 DEF Claimed, Rested, Recounted
        <3>. QED BY <2>3, <2>6, <3>1
    <2>. HIDE DEF low, requests, behind
    <2>7. ~Http => Cardinality(low) <= pending_low_priority
        BY <2>4 DEF Recounted, Counts
    <2>8. pending_low_priority <= Cardinality(low \cup requests)
        BY <2>5 DEF Recounted, Counts
    <2>. QED BY <2>6, <2>7, <2>8, Zenon DEF LowCounted, behind, low, requests
<1>. QED BY <1>1, <1>2, <1>3, <1>4, BookedInvariant, PTL DEF Spec
=============================================================================
